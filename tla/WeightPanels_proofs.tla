------------------------ MODULE WeightPanels_proofs ------------------------
(***************************************************************************)
(* The weight network, for every tile, wave and FIFO size, every packed    *)
(* layout and every set of projections: each beat meets the weights of its *)
(* wave and input, and a region that has ended leaves nothing in a FIFO.   *)
(*                                                                         *)
(* The argument: the words loader b has for slot s are numbered, and      *)
(* Item(b, s, n) is the n-th; so are the packets of a slot: Carried(s, n)  *)
(* is cut from the words n \div PeIn of all loaders.  A FIFO holds the     *)
(* items between what was read from it and what was written to it, and     *)
(* the loop positions of the two sides say how many those are (Flags,      *)
(* Words, Packets); Tile says it of the words an emitter has gathered.     *)
(***************************************************************************)
EXTENDS WeightPanels, Integers, SequenceTheorems, WellFoundedInduction, TLAPS

(* Of n items dealt to the slots in turn, those dealt to slot s.           *)
Dealt(n, s) == (n \div SlotCount) + (IF s < n % SlotCount THEN 1 ELSE 0)

(* The n-th word of loader b for slot s, and the n-th packet of slot s.    *)
Item(b, s, n) == WordAt(b, begin + (n \div ActiveTiles), n % ActiveTiles, s)
Carried(s, n) ==
    [tile |-> [i \in 1..Blocks |-> Item(i - 1, s, n \div PeIn)], lane |-> n % PeIn]
ItemsFrom(b, s, r, w) == [i \in 1..(w - r) |-> Item(b, s, r + i - 1)]
CarriedFrom(s, r, w) == [i \in 1..(w - r) |-> Carried(s, r + i - 1)]

Fresh ==
    /\ distributed = 0
    /\ loader = [b \in BlockIds |-> 0]
    /\ emitter = [s \in Slots |-> RestingEmitter]
    /\ driver = RestingDriver
Empty ==
    /\ enables = [s \in Slots |-> << >>]
    /\ words = [b \in BlockIds |-> [s \in Slots |-> << >>]]
    /\ packets = [s \in Slots |-> << >>]

(* The projection under way, with its region. *)
PanelShape ==
    /\ panel.layer \in Nat /\ panel.p \in DOMAIN Projections
    /\ panel.zero \in BOOLEAN
    /\ panel.cores \in {{0}, {1}, {0, 1}}
    /\ panel.active \in Nat /\ ActiveTiles \in Nat \ {0}
    /\ panel.active = ActiveTiles * PeIn
    /\ begin \in Nat /\ end \in Nat /\ panel.last \in Nat
    /\ begin < end /\ end <= panel.last

Shape ==
    /\ IF panel = NoPanel THEN begin = 0 /\ end = 0 /\ Fresh /\ Empty
       ELSE PanelShape
    /\ enables = [s \in Slots |-> enables[s]]
    /\ words = [b \in BlockIds |-> [s \in Slots |-> words[b][s]]]
    /\ packets = [s \in Slots |-> packets[s]]

(* Where the loops of a region are. *)
EmitterAt(s) ==
    LET e == emitter[s]
    IN /\ e = [wave |-> e.wave, open |-> e.open, on |-> e.on, tile |-> e.tile,
               packet |-> e.packet]
       /\ e.wave \in 0..WaveCount /\ e.open \in BOOLEAN
       /\ e.packet \in 0..(PacketCount - 1)
       /\ e.open => e.wave < WaveCount /\ e.on = Enabled(s)
       /\ ~e.open => e.packet = 0 /\ e.tile = << >>
       /\ Len(e.tile) \in 0..Blocks
       /\ e.packet % PeIn # 0 => Len(e.tile) = Blocks

Loops ==
    panel # NoPanel =>
        /\ distributed \in 0..(WaveCount * SlotCount)
        /\ loader = [b \in BlockIds |-> loader[b]]
        /\ \A b \in BlockIds : loader[b] \in 0..(WaveCount * (ActiveTiles * SlotCount))
        /\ emitter = [s \in Slots |-> emitter[s]]
        /\ \A s \in Slots : EmitterAt(s)
        /\ driver = [wave |-> driver.wave, k |-> driver.k, read |-> driver.read]
        /\ driver.wave \in 0..WaveCount
        /\ driver.k \in 0..(panel.active - 1)
        /\ driver.read \in 0..(Len(BeatOrder) - 1)
        /\ driver.wave = WaveCount => driver.k = 0 /\ driver.read = 0

(* What each side has done to a FIFO. *)
FlagsRead(s) == emitter[s].wave + (IF emitter[s].open THEN 1 ELSE 0)
TilesDone(s) == emitter[s].wave * ActiveTiles + (emitter[s].packet \div PeIn)
WordsRead(b, s) == TilesDone(s) + (IF b < Len(emitter[s].tile) THEN 1 ELSE 0)
Emitted(s) == emitter[s].wave * PacketCount + emitter[s].packet
ReadThisBeat(s) == \E j \in 1..driver.read : BeatOrder[j] = s
Driven(s) ==
    driver.wave * panel.active + driver.k + (IF ReadThisBeat(s) THEN 1 ELSE 0)

Flags ==
    panel # NoPanel => \A s \in Slots :
        /\ FlagsRead(s) <= Dealt(distributed, s)
        /\ enables[s] = [i \in 1..(Dealt(distributed, s) - FlagsRead(s)) |-> Enabled(s)]

Words ==
    panel # NoPanel => \A b \in BlockIds, s \in Slots, r \in Nat, w \in Nat :
        r = WordsRead(b, s) /\ w = Dealt(loader[b], s) =>
            /\ r <= w
            /\ words[b][s] = ItemsFrom(b, s, r, w)

Tile ==
    panel # NoPanel => \A s \in Slots, n \in Nat :
        n = TilesDone(s) =>
            emitter[s].tile = [i \in 1..Len(emitter[s].tile) |-> Item(i - 1, s, n)]

Packets ==
    panel # NoPanel => \A s \in Slots, r \in Nat, w \in Nat :
        /\ ~Enabled(s) => packets[s] = << >>
        /\ Enabled(s) /\ r = Driven(s) /\ w = Emitted(s) =>
             /\ r <= w
             /\ packets[s] = CarriedFrom(s, r, w)

IInv == Shape /\ Loops /\ Flags /\ Words /\ Tile /\ Packets
-----------------------------------------------------------------------------
(* Arithmetic. *)

LEMMA DivisionUnique ==
    ASSUME NEW q \in Nat, NEW r \in Nat, NEW m \in Nat \ {0}, r < m
    PROVE  (q * m + r) \div m = q /\ (q * m + r) % m = r
<1> DEFINE a == q * m + r
           d == a \div m
<1>1. a \in Nat /\ d \in Int /\ a % m \in 0..(m - 1) /\ a = m * d + (a % m)
  BY SMT
<1>2. CASE d < q
  BY <1>1, <1>2, SMT
<1>3. CASE d > q
  BY <1>1, <1>3, SMT
<1>4. QED BY <1>1, <1>2, <1>3, SMT

(* Quotient and remainder are numbers, the remainder below the divisor.    *)
LEMMA Division ==
    ASSUME NEW n \in Nat, NEW m \in Nat \ {0}
    PROVE  /\ n \div m \in Nat /\ n % m \in 0..(m - 1)
           /\ n = (n \div m) * m + (n % m)
BY SMT

(* The few facts of products used below.                                   *)
LEMMA Product ==
    ASSUME NEW a \in Nat, NEW b \in Nat
    PROVE  /\ a * b \in Nat /\ a * b = b * a /\ 0 * a = 0
           /\ (a + 1) * b = a * b + b
           /\ a # 0 /\ b # 0 => a * b # 0
BY SMT

(* Products of loop lengths may be grouped at will.                        *)
LEMMA Product3 ==
    ASSUME NEW a \in Nat, NEW b \in Nat, NEW c \in Nat
    PROVE  (a * b) * c = a * (b * c)
BY SMT

(* A smaller count of whole groups of c, and one smaller by a group.       *)
LEMMA Monotone ==
    ASSUME NEW a \in Nat, NEW b \in Nat, NEW c \in Nat
    PROVE  /\ a <= b => a * c <= b * c
           /\ a < b => a * c + c <= b * c
BY SMT

(* Dividing by a product: the digits of n in the mixed radix b, a.         *)
LEMMA MixedRadix ==
    ASSUME NEW n \in Nat, NEW a \in Nat \ {0}, NEW b \in Nat \ {0}
    PROVE  /\ n \div (a * b) = (n \div b) \div a
           /\ (n % (a * b)) \div b = (n \div b) % a
           /\ (n % (a * b)) % b = n % b
<1> DEFINE q == n \div b
           r == n % b
           w == q \div a
           t == q % a
           low == t * b + r
<1>1. q \in Nat /\ r \in 0..(b - 1) /\ n = q * b + r
  BY Division
<1>2. w \in Nat /\ t \in 0..(a - 1) /\ q = w * a + t
  BY <1>1, Division
<1> HIDE DEF q, r, w, t
<1>3. t * b + b <= a * b /\ a * b \in Nat \ {0} /\ t * b \in Nat
  BY <1>2, Monotone, Product
<1>4. low \in Nat /\ low < a * b
  BY <1>1, <1>3
<1>5. n = w * (a * b) + low
  <2>1. q * b = (w * a) * b + t * b
    BY <1>2, SMT
  <2>2. (w * a) * b = w * (a * b)
    BY <1>2, Product3
  <2>3. w * (a * b) \in Nat
    BY <1>2, <1>3, Product
  <2> QED BY <1>1, <1>3, <2>1, <2>2, <2>3
<1> HIDE DEF low
<1>6. n \div (a * b) = w /\ n % (a * b) = low
  BY <1>2, <1>3, <1>4, <1>5, DivisionUnique
<1>7. low \div b = t /\ low % b = r
  BY <1>1, <1>2, DivisionUnique DEF low
<1>8. QED BY <1>6, <1>7 DEF q, r, w, t

(* The next number's digits. *)
LEMMA NextDigits ==
    ASSUME NEW n \in Nat, NEW m \in Nat \ {0}
    PROVE  IF n % m = m - 1
           THEN (n + 1) \div m = (n \div m) + 1 /\ (n + 1) % m = 0
           ELSE (n + 1) \div m = n \div m /\ (n + 1) % m = (n % m) + 1
<1> DEFINE q == n \div m
           r == n % m
<1>1. q \in Nat /\ r \in 0..(m - 1) /\ n = q * m + r
  BY Division
<1> HIDE DEF q, r
<1>2. CASE r = m - 1
  <2>1. q * m \in Nat /\ (q + 1) * m = q * m + m
    BY <1>1, Product
  <2>2. n + 1 = (q + 1) * m + 0
    BY <1>1, <1>2, <2>1
  <2>3. (n + 1) \div m = q + 1 /\ (n + 1) % m = 0
    BY <1>1, <2>2, DivisionUnique
  <2>4. QED BY <1>2, <2>3 DEF q, r
<1>3. CASE r # m - 1
  <2>1. q * m \in Nat
    BY <1>1, Product
  <2>2. n + 1 = q * m + (r + 1) /\ r + 1 \in Nat /\ r + 1 < m
    BY <1>1, <1>3, <2>1
  <2>3. (n + 1) \div m = q /\ (n + 1) % m = r + 1
    BY <1>1, <2>2, DivisionUnique
  <2>4. QED BY <1>3, <2>3 DEF q, r
<1>4. QED BY <1>2, <1>3

-----------------------------------------------------------------------------
(* The sizes. *)
LEMMA Sizes ==
    /\ Blocks \in Nat \ {0} /\ PeIn \in Nat \ {0} /\ Groups \in Nat \ {0}
    /\ WordDepth \in Nat \ {0} /\ PacketDepth \in Nat \ {0}
    /\ SlotCount \in Nat \ {0} /\ SlotCount = 2 * Groups
    /\ PeOut \in Nat \ {0} /\ PeOut = 2 * Blocks
    /\ Slots = 0..(SlotCount - 1) /\ BlockIds = 0..(Blocks - 1)
BY ShapeAssumption DEF SlotCount, PeOut, Slots, BlockIds

(* Items dealt in turn: none at first, then one more to the slot whose     *)
(* turn it is, and each its share after whole rounds.                      *)
LEMMA DealtNone == \A s \in Slots : Dealt(0, s) = 0
<1>1. 0 \div SlotCount = 0 /\ 0 % SlotCount = 0
  BY Sizes, SMT
<1>2. QED BY <1>1, Sizes DEF Dealt

(* One more item goes to the slot whose turn it is.                        *)
LEMMA DealtNext ==
    ASSUME NEW n \in Nat, NEW s \in Slots
    PROVE  /\ Dealt(n, s) \in Nat
           /\ Dealt(n + 1, s) = Dealt(n, s) + (IF s = n % SlotCount THEN 1 ELSE 0)
           /\ s = n % SlotCount => Dealt(n, s) = n \div SlotCount
<1> DEFINE q == n \div SlotCount
           r == n % SlotCount
           q1 == (n + 1) \div SlotCount
           r1 == (n + 1) % SlotCount
<1>1. q \in Nat /\ r \in 0..(SlotCount - 1) /\ s \in 0..(SlotCount - 1)
  BY Division, Sizes
<1>2. IF r = SlotCount - 1 THEN q1 = q + 1 /\ r1 = 0 ELSE q1 = q /\ r1 = r + 1
  BY NextDigits, Sizes
<1>3. Dealt(n, s) = q + (IF s < r THEN 1 ELSE 0)
      /\ Dealt(n + 1, s) = q1 + (IF s < r1 THEN 1 ELSE 0)
  BY DEF Dealt
<1> HIDE DEF q, r, q1, r1
<1>4. SlotCount \in Nat \ {0}
  BY Sizes
<1>5. QED BY <1>1, <1>2, <1>3, <1>4 DEF q, r

(* After whole rounds every slot has the same number.                      *)
LEMMA DealtWhole ==
    ASSUME NEW k \in Nat, NEW s \in Slots
    PROVE  Dealt(k * SlotCount, s) = k
<1>1. SlotCount \in Nat \ {0} /\ s \in 0..(SlotCount - 1)
  BY Sizes
<1>2. (k * SlotCount + 0) \div SlotCount = k /\ (k * SlotCount + 0) % SlotCount = 0
  BY <1>1, DivisionUnique
<1>3. k * SlotCount \in Nat
  BY <1>1, Product
<1>4. k * SlotCount + 0 = k * SlotCount
  BY <1>3
<1>5. QED BY <1>1, <1>2, <1>4 DEF Dealt

-----------------------------------------------------------------------------
(* The numbers of a region. *)
LEMMA PanelNumbers ==
    ASSUME PanelShape
    PROVE  /\ ActiveTiles \in Nat \ {0} /\ WaveCount \in Nat \ {0}
           /\ panel.active \in Nat \ {0} /\ PacketCount = panel.active
           /\ PacketCount = ActiveTiles * PeIn /\ PacketCount \in Nat \ {0}
           /\ ActiveTiles * SlotCount \in Nat \ {0}
           /\ begin \in Nat /\ end \in Nat
<1>1. ActiveTiles \in Nat \ {0} /\ panel.active = ActiveTiles * PeIn
      /\ begin \in Nat /\ end \in Nat /\ begin < end
  BY DEF PanelShape
<1>2. ActiveTiles * PeIn \in Nat \ {0} /\ ActiveTiles * SlotCount \in Nat \ {0}
  BY <1>1, Sizes, Product
<1>3. PacketCount = ActiveTiles * PeIn
  BY DEF PacketCount
<1>4. WaveCount \in Nat \ {0}
  BY <1>1 DEF WaveCount
<1>5. QED BY <1>1, <1>2, <1>3, <1>4

(* Runs of consecutive slots, one after the other. *)
LEMMA Runs ==
    ASSUME NEW f \in Seq(Int), NEW g \in Seq(Int)
    PROVE  /\ f \o << >> = f /\ << >> \o g = g
           /\ Len(f \o g) = Len(f) + Len(g)
           /\ \A j \in 1..(Len(f) + Len(g)) :
                (f \o g)[j] = IF j <= Len(f) THEN f[j] ELSE g[j - Len(f)]
BY SMT

(* A beat reads the slots of the cores that are on, one after the other.   *)
FirstSlot == IF 0 \in panel.cores THEN 0 ELSE Groups
(* The slots of a beat are consecutive, all of enabled cores, and all of them.*)
LEMMA Beats ==
    ASSUME PanelShape
    PROVE  /\ Len(BeatOrder) \in Nat \ {0}
           /\ \A j \in 1..Len(BeatOrder) :
                /\ BeatOrder[j] = FirstSlot + j - 1
                /\ BeatOrder[j] \in Slots /\ Enabled(BeatOrder[j])
           /\ \A s \in Slots : Enabled(s) <=> s - FirstSlot + 1 \in 1..Len(BeatOrder)
<1>1. Groups \in Nat \ {0} /\ SlotCount = 2 * Groups /\ Slots = 0..(SlotCount - 1)
  BY Sizes
<1>2. \A s \in Slots : CoreOf(s) = IF s < Groups THEN 0 ELSE 1
  <2>1. TAKE s \in Slots
  <2>2. CASE s < Groups
    <3>1. (0 * Groups + s) \div Groups = 0
      BY <1>1, <2>2, DivisionUnique
    <3>2. 0 * Groups + s = s
      BY <1>1
    <3>3. QED BY <2>2, <3>1, <3>2 DEF CoreOf
  <2>3. CASE s >= Groups
    <3>1. s - Groups \in Nat /\ s - Groups < Groups /\ ~(s < Groups)
      BY <1>1, <2>3
    <3>2. (1 * Groups + (s - Groups)) \div Groups = 1
      BY <1>1, <3>1, DivisionUnique
    <3>3. 1 * Groups + (s - Groups) = s
      BY <1>1
    <3>4. QED BY <3>1, <3>2, <3>3 DEF CoreOf
  <2>4. QED BY <1>1, <2>2, <2>3
<1> DEFINE low == [g \in 1..Groups |-> 0 * Groups + g - 1]
           high == [g \in 1..Groups |-> 1 * Groups + g - 1]
<1>3. /\ low \in Seq(Int) /\ Len(low) = Groups /\ \A g \in 1..Groups : low[g] = g - 1
      /\ high \in Seq(Int) /\ Len(high) = Groups /\ \A g \in 1..Groups : high[g] = Groups + g - 1
  <2>1. \A g \in 1..Groups : /\ 0 * Groups + g - 1 = g - 1 /\ g - 1 \in Int
                             /\ 1 * Groups + g - 1 = Groups + g - 1
                             /\ Groups + g - 1 \in Int
    BY <1>1
  <2>2. QED BY <1>1, <2>1
<1>4. /\ SlotsOf(0) = IF 0 \in panel.cores THEN low ELSE << >>
      /\ SlotsOf(1) = IF 1 \in panel.cores THEN high ELSE << >>
  BY DEF SlotsOf
<1>5. panel.cores \in {{0}, {1}, {0, 1}}
  BY DEF PanelShape
<1>6. \A s \in Slots : Enabled(s) <=> IF s < Groups THEN 0 \in panel.cores ELSE 1 \in panel.cores
  BY <1>2 DEF Enabled
<1> HIDE DEF low, high
<1>7. ASSUME NEW first \in Nat, NEW n \in Nat \ {0}, Len(BeatOrder) = n,
             FirstSlot = first, first + n <= SlotCount,
             \A j \in 1..n : BeatOrder[j] = first + j - 1,
             \A s \in Slots : Enabled(s) <=> s >= first /\ s < first + n
      PROVE  /\ Len(BeatOrder) \in Nat \ {0}
             /\ \A j \in 1..Len(BeatOrder) :
                  /\ BeatOrder[j] = FirstSlot + j - 1
                  /\ BeatOrder[j] \in Slots /\ Enabled(BeatOrder[j])
             /\ \A s \in Slots : Enabled(s) <=> s - FirstSlot + 1 \in 1..Len(BeatOrder)
  <2>1. \A j \in 1..n : /\ BeatOrder[j] = first + j - 1 /\ BeatOrder[j] \in Slots
                        /\ BeatOrder[j] >= first /\ BeatOrder[j] < first + n
    BY <1>1, <1>7
  <2>2. \A j \in 1..n : Enabled(BeatOrder[j])
    BY <1>7, <2>1
  <2>3. \A s \in Slots : s >= first /\ s < first + n <=> s - first + 1 \in 1..n
    BY <1>1, <1>7
  <2>4. \A s \in Slots : Enabled(s) <=> s - first + 1 \in 1..n
    BY <1>7, <2>3
  <2>5. QED BY <1>7, <2>1, <2>2, <2>4
<1>8. CASE panel.cores = {0}
  <2>1. BeatOrder = low
    <3>1. SlotsOf(0) = low /\ SlotsOf(1) = << >>
      BY <1>4, <1>8
    <3>2. low \o << >> = low
      BY <1>3, Runs
    <3>3. QED BY <3>1, <3>2 DEF BeatOrder
  <2>2. FirstSlot = 0
    BY <1>8 DEF FirstSlot
  <2>3. \A s \in Slots : Enabled(s) <=> s >= 0 /\ s < 0 + Groups
    BY <1>1, <1>6, <1>8
  <2>4. \A j \in 1..Groups : BeatOrder[j] = 0 + j - 1
    BY <1>1, <1>3, <2>1
  <2>5. Len(BeatOrder) = Groups /\ 0 + Groups <= SlotCount
    BY <1>1, <1>3, <2>1
  <2>6. QED BY <1>1, <1>7, <2>2, <2>3, <2>4, <2>5
<1>9. CASE panel.cores = {1}
  <2>1. BeatOrder = high
    <3>1. SlotsOf(1) = high /\ SlotsOf(0) = << >>
      BY <1>4, <1>9
    <3>2. << >> \o high = high
      BY <1>3, Runs
    <3>3. QED BY <3>1, <3>2 DEF BeatOrder
  <2>2. FirstSlot = Groups
    BY <1>9 DEF FirstSlot
  <2>3. \A s \in Slots : Enabled(s) <=> s >= Groups /\ s < Groups + Groups
    BY <1>1, <1>6, <1>9
  <2>4. \A j \in 1..Groups : BeatOrder[j] = Groups + j - 1
    BY <1>1, <1>3, <2>1
  <2>5. Len(BeatOrder) = Groups /\ Groups + Groups <= SlotCount
    BY <1>1, <1>3, <2>1
  <2>6. QED BY <1>1, <1>7, <2>2, <2>3, <2>4, <2>5
<1>10. CASE panel.cores = {0, 1}
  <2>1. BeatOrder = low \o high
    BY <1>4, <1>10 DEF BeatOrder
  <2>2. /\ Len(BeatOrder) = Len(low) + Len(high)
        /\ \A j \in 1..(Len(low) + Len(high)) :
             BeatOrder[j] = IF j <= Len(low) THEN low[j] ELSE high[j - Len(low)]
    BY <1>3, <2>1, Runs
  <2>3. \A j \in 1..(Groups + Groups) :
             BeatOrder[j] = IF j <= Groups THEN low[j] ELSE high[j - Groups]
    BY <1>3, <2>2
  <2>4. \A j \in 1..(Groups + Groups) : BeatOrder[j] = 0 + j - 1
    <3>1. TAKE j \in 1..(Groups + Groups)
    <3>2. CASE j <= Groups
      BY <1>1, <1>3, <2>3, <3>2
    <3>3. CASE ~(j <= Groups)
      <4>1. j - Groups \in 1..Groups
        BY <1>1, <3>3
      <4>2. high[j - Groups] = Groups + (j - Groups) - 1
        BY <1>3, <4>1
      <4>3. BeatOrder[j] = high[j - Groups]
        BY <2>3, <3>3
      <4>4. QED BY <1>1, <4>2, <4>3
    <3>4. QED BY <3>2, <3>3
  <2>5. FirstSlot = 0
    BY <1>10 DEF FirstSlot
  <2>6. \A s \in Slots : Enabled(s) <=> s >= 0 /\ s < 0 + (Groups + Groups)
    BY <1>1, <1>6, <1>10
  <2>7. Len(BeatOrder) = Groups + Groups /\ 0 + (Groups + Groups) <= SlotCount
    BY <1>1, <1>3, <2>2
  <2>8. Groups + Groups \in Nat \ {0}
    BY <1>1
  <2>9. QED BY <1>7, <2>4, <2>5, <2>6, <2>7, <2>8
<1>11. QED BY <1>5, <1>8, <1>9, <1>10

(* What a beat has read. *)
LEMMA BeatsRead ==
    ASSUME PanelShape, NEW n \in 0..Len(BeatOrder), NEW s \in Slots, Enabled(s)
    PROVE  (\E j \in 1..n : BeatOrder[j] = s) <=> s - FirstSlot + 1 <= n
<1>1. /\ Len(BeatOrder) \in Nat
      /\ \A j \in 1..Len(BeatOrder) : BeatOrder[j] = FirstSlot + j - 1
      /\ s - FirstSlot + 1 \in 1..Len(BeatOrder)
  BY Beats
<1>2. s \in Nat /\ FirstSlot \in Nat
  BY Sizes DEF FirstSlot
<1>3. \A j \in 1..n : BeatOrder[j] = FirstSlot + j - 1
  BY <1>1
<1>4. ASSUME s - FirstSlot + 1 <= n PROVE \E j \in 1..n : BeatOrder[j] = s
  <2>1. s - FirstSlot + 1 \in 1..n
    BY <1>1, <1>2, <1>4
  <2>2. BeatOrder[s - FirstSlot + 1] = FirstSlot + (s - FirstSlot + 1) - 1
    BY <1>3, <2>1
  <2>3. FirstSlot + (s - FirstSlot + 1) - 1 = s
    BY <1>2
  <2>4. QED BY <2>1, <2>2, <2>3
<1>5. ASSUME NEW j \in 1..n, BeatOrder[j] = s PROVE s - FirstSlot + 1 <= n
  <2>1. s = FirstSlot + j - 1
    BY <1>3, <1>5
  <2>2. QED BY <1>1, <1>2, <2>1
<1>6. QED BY <1>4, <1>5

(* Nothing but the panel and the region's bounds decides these. *)
LEMMA SameRegion ==
    ASSUME panel' = panel, begin' = begin, end' = end
    PROVE  /\ PanelShape' = PanelShape
           /\ ActiveTiles' = ActiveTiles /\ WaveCount' = WaveCount
           /\ PacketCount' = PacketCount
           /\ \A s : Enabled(s)' = Enabled(s)
           /\ BeatOrder' = BeatOrder /\ FirstSlot' = FirstSlot
           /\ \A b, s, n : Item(b, s, n)' = Item(b, s, n)
           /\ \A s, n : Carried(s, n)' = Carried(s, n)
           /\ \A b, s, r, w : ItemsFrom(b, s, r, w)' = ItemsFrom(b, s, r, w)
           /\ \A s, r, w : CarriedFrom(s, r, w)' = CarriedFrom(s, r, w)
<1>1. ActiveTiles' = ActiveTiles
  BY DEF ActiveTiles
<1>2. WaveCount' = WaveCount
  BY DEF WaveCount
<1>3. PacketCount' = PacketCount
  BY <1>1 DEF PacketCount
<1>4. \A s : Enabled(s)' = Enabled(s)
  BY DEF Enabled
<1>5. BeatOrder' = BeatOrder
  BY DEF BeatOrder, SlotsOf
<1>6. FirstSlot' = FirstSlot
  BY DEF FirstSlot
<1>7. \A b, s, n : Item(b, s, n)' = Item(b, s, n)
  BY <1>1 DEF Item, WordAt, RowStride, MatrixTiles
<1>8. \A s, n : Carried(s, n)' = Carried(s, n)
  BY <1>1 DEF Carried, Item, WordAt, RowStride, MatrixTiles
<1>9. PanelShape' = PanelShape
  BY <1>1 DEF PanelShape
<1>10. \A b, s, r, w : ItemsFrom(b, s, r, w)' = ItemsFrom(b, s, r, w)
  BY <1>1 DEF ItemsFrom, Item, WordAt, RowStride, MatrixTiles
<1>11. \A s, r, w : CarriedFrom(s, r, w)' = CarriedFrom(s, r, w)
  BY <1>1 DEF CarriedFrom, Carried, Item, WordAt, RowStride, MatrixTiles
<1>12. QED BY <1>1, <1>2, <1>3, <1>4, <1>5, <1>6, <1>7, <1>8, <1>9, <1>10, <1>11

-----------------------------------------------------------------------------
(* What a launch asks for is a region of the network. *)
LEMMA CeilExact ==
    ASSUME NEW k \in Nat, NEW m \in Nat \ {0}
    PROVE  CeilDiv(k * m, m) = k
<1>1. (k * m + (m - 1)) \div m = k
  BY DivisionUnique
<1>2. k * m \in Nat
  BY Product
<1>3. k * m + (m - 1) = k * m + m - 1
  BY <1>2
<1>4. QED BY <1>1, <1>3 DEF CeilDiv

(* Every projection has whole input tiles, whole words of outputs, waves.  *)
LEMMA Shapes ==
    ASSUME NEW p \in DOMAIN Projections
    PROVE  /\ Projections[p].in \in Nat \ {0} /\ Projections[p].in % PeIn = 0
           /\ Projections[p].out \in Nat \ {0} /\ Projections[p].out % PeOut = 0
           /\ OutputWaves(p) \in Nat
<1>1. Projections[p] \in [in : Nat, out : Nat]
  <2>1. Projections \in Seq([in : Nat, out : Nat])
    BY JobAssumption
  <2>2. p \in 1..Len(Projections)
    BY <2>1, LenProperties
  <2>3. QED BY <2>1, <2>2, ElementOfSeq
<1>2. Projections[p].in \in Nat /\ Projections[p].out \in Nat
  BY <1>1
<1>3. /\ Projections[p].in > 0 /\ Projections[p].in % PeIn = 0
      /\ Projections[p].out > 0 /\ Projections[p].out % PeOut = 0
  BY ShapeAssumption DEF PeOut
<1>4. OutputWaves(p) \in Nat
  <2> DEFINE m == SlotCount * PeOut
  <2>1. m \in Nat \ {0}
    BY Sizes, Product
  <2>2. OutputWaves(p) = (Projections[p].out + m - 1) \div m
    BY DEF OutputWaves, CeilDiv
  <2> HIDE DEF m
  <2>3. Projections[p].out + m - 1 \in Nat
    BY <1>2, <2>1
  <2>4. QED BY <2>1, <2>2, <2>3, Division
<1>5. QED BY <1>2, <1>3, <1>4

(* A K limit comes to whole input tiles, at least one.                     *)
LEMMA KLimits ==
    ASSUME NEW p \in DOMAIN Projections, NEW limit \in Nat
    PROVE  \E k \in Nat \ {0} : AlignedK(limit, Projections[p].in) = k * PeIn
<1> DEFINE in == Projections[p].in
           w == limit \div PeIn
<1>1. in \in Nat \ {0} /\ in % PeIn = 0 /\ PeIn \in Nat \ {0}
  BY Shapes, Sizes
<1>2. w \in Nat
  BY <1>1, Division
<1>3. AlignedK(limit, in) = IF limit = 0 \/ limit >= in THEN in
                            ELSE IF w * PeIn = 0 THEN PeIn ELSE w * PeIn
  BY DEF AlignedK
<1>4. \E k \in Nat \ {0} : in = k * PeIn
  <2>1. in \div PeIn \in Nat /\ in = (in \div PeIn) * PeIn + 0
    BY <1>1, Division
  <2>2. (in \div PeIn) * PeIn \in Nat
    BY <1>1, <2>1, Product
  <2>3. ASSUME in \div PeIn = 0 PROVE FALSE
    <3>1. (in \div PeIn) * PeIn = 0 * PeIn
      BY <2>3
    <3>2. 0 * PeIn = 0
      BY <1>1, Product
    <3> HIDE DEF in
    <3>3. QED BY <1>1, <2>1, <3>1, <3>2
  <2> HIDE DEF in
  <2>4. QED BY <2>1, <2>2, <2>3
<1>5. \E k \in Nat \ {0} : PeIn = k * PeIn
  BY <1>1
<1>6. w * PeIn # 0 => w # 0
  BY <1>1, <1>2, Product
<1> HIDE DEF in, w
<1>7. CASE limit = 0 \/ limit >= in
  BY <1>3, <1>4, <1>7 DEF in
<1>8. CASE ~(limit = 0 \/ limit >= in) /\ w * PeIn = 0
  BY <1>3, <1>5, <1>8 DEF in
<1>9. CASE ~(limit = 0 \/ limit >= in) /\ w * PeIn # 0
  BY <1>2, <1>3, <1>6, <1>9 DEF in
<1>10. QED BY <1>7, <1>8, <1>9

(* A core mask leaves at least one core.                                   *)
LEMMA Masks ==
    ASSUME NEW mask \in 0..3
    PROVE  MaskCores(mask) \in {{0}, {1}, {0, 1}}
<1>1. \A c \in 0..1 : c = 0 \/ c = 1
  BY SMT
<1>2. CASE mask = 0
  <2>1. MaskCores(mask) = {0, 1}
    BY <1>1, <1>2 DEF MaskCores, Cores
  <2>2. QED BY <2>1
<1>3. CASE mask = 1
  <2>1. (1 \div (0 + 1)) % 2 = 1 /\ (1 \div (1 + 1)) % 2 = 0
    BY SMT
  <2>2. MaskCores(mask) = {0}
    BY <1>1, <1>3, <2>1 DEF MaskCores, Cores
  <2>3. QED BY <2>2
<1>4. CASE mask = 2
  <2>1. (2 \div (0 + 1)) % 2 = 0 /\ (2 \div (1 + 1)) % 2 = 1
    BY SMT
  <2>2. MaskCores(mask) = {1}
    BY <1>1, <1>4, <2>1 DEF MaskCores, Cores
  <2>3. QED BY <2>2
<1>5. CASE mask = 3
  <2>1. (3 \div (0 + 1)) % 2 = 1 /\ (3 \div (1 + 1)) % 2 = 1
    BY SMT
  <2>2. MaskCores(mask) = {0, 1}
    BY <1>1, <1>5, <2>1 DEF MaskCores, Cores
  <2>3. QED BY <2>2
<1>6. QED BY <1>2, <1>3, <1>4, <1>5

(* A panel a launch may start. *)
GoodPanel(j) ==
    /\ j # NoPanel
    /\ j.layer \in Nat /\ j.p \in DOMAIN Projections /\ j.zero \in BOOLEAN
    /\ j.cores \in {{0}, {1}, {0, 1}}
    /\ j.first \in Nat /\ j.last \in Nat
    /\ \E k \in Nat \ {0} : j.active = k * PeIn

(* The fields of a panel, which is never NoPanel.                          *)
LEMMA Record ==
    ASSUME NEW a, NEW b, NEW c, NEW d, NEW e, NEW f, NEW g, NEW h,
           NEW r, r = [layer |-> a, p |-> b, first |-> c, last |-> d,
                       active |-> e, cores |-> f, zero |-> g, whole |-> h]
    PROVE  /\ r # NoPanel
           /\ r.layer = a /\ r.p = b /\ r.first = c /\ r.last = d
           /\ r.active = e /\ r.cores = f /\ r.zero = g /\ r.whole = h
<1>1. "layer" \in DOMAIN r
  OBVIOUS
<1>2. "layer" \notin DOMAIN NoPanel
  <2>1. DOMAIN NoPanel = 1..0
    BY DEF NoPanel
  <2>2. QED BY <2>1
<1>3. QED BY <1>1, <1>2

(* What the profile arguments replace in a panel.                          *)
LEMMA Updates ==
    ASSUME NEW a, NEW b, NEW c, NEW d, NEW e, NEW f, NEW g, NEW h,
           NEW c1, NEW d1, NEW e1, NEW f1, NEW g1, NEW h1, NEW r,
           r = [layer |-> a, p |-> b, first |-> c, last |-> d,
                active |-> e, cores |-> f, zero |-> g, whole |-> h]
    PROVE  /\ [r EXCEPT !.whole = h1] =
                 [layer |-> a, p |-> b, first |-> c, last |-> d,
                  active |-> e, cores |-> f, zero |-> g, whole |-> h1]
           /\ [r EXCEPT !.first = c1, !.last = d1, !.active = e1, !.cores = f1,
                        !.zero = g1] =
                 [layer |-> a, p |-> b, first |-> c1, last |-> d1,
                  active |-> e1, cores |-> f1, zero |-> g1, whole |-> h]
<1>1. [r EXCEPT !.whole = h1] =
                 [layer |-> a, p |-> b, first |-> c, last |-> d,
                  active |-> e, cores |-> f, zero |-> g, whole |-> h1]
  OBVIOUS
<1> DEFINE r1 == [r EXCEPT !.first = c1]
           r2 == [r1 EXCEPT !.last = d1]
           r3 == [r2 EXCEPT !.active = e1]
           r4 == [r3 EXCEPT !.cores = f1]
           r5 == [r4 EXCEPT !.zero = g1]
<1>2. [r EXCEPT !.first = c1, !.last = d1, !.active = e1, !.cores = f1, !.zero = g1]
        = r5
  OBVIOUS
<1>3. r1 = [layer |-> a, p |-> b, first |-> c1, last |-> d,
            active |-> e, cores |-> f, zero |-> g, whole |-> h]
  OBVIOUS
<1> HIDE DEF r1
<1>4. r2 = [layer |-> a, p |-> b, first |-> c1, last |-> d1,
            active |-> e, cores |-> f, zero |-> g, whole |-> h]
  BY <1>3
<1> HIDE DEF r2
<1>5. r3 = [layer |-> a, p |-> b, first |-> c1, last |-> d1,
            active |-> e1, cores |-> f, zero |-> g, whole |-> h]
  BY <1>4
<1> HIDE DEF r3
<1>6. r4 = [layer |-> a, p |-> b, first |-> c1, last |-> d1,
            active |-> e1, cores |-> f1, zero |-> g, whole |-> h]
  BY <1>5
<1> HIDE DEF r4
<1>7. r5 = [layer |-> a, p |-> b, first |-> c1, last |-> d1,
            active |-> e1, cores |-> f1, zero |-> g1, whole |-> h]
  BY <1>6
<1> HIDE DEF r5
<1>8. QED BY <1>1, <1>2, <1>7

(* The panel of a resident task is well formed.                            *)
LEMMA TaskPanels ==
    ASSUME NEW t, t.layer \in Nat, t.p \in DOMAIN Projections
    PROVE  GoodPanel(TaskPanel(t))
<1> DEFINE j == TaskPanel(t)
           w == OutputWaves(t.p)
           in == Projections[t.p].in
<1>1. j = [layer |-> t.layer, p |-> t.p, first |-> 0, last |-> w,
           active |-> in, cores |-> Cores, zero |-> FALSE, whole |-> CrossWave]
  BY DEF TaskPanel
<1>2. w \in Nat
  BY Shapes
<1>3. \E k \in Nat \ {0} : in = k * PeIn
  <2>1. AlignedK(0, in) = in
    BY DEF AlignedK
  <2>2. QED BY <2>1, KLimits
<1>4. Cores = {0, 1}
  BY SMT DEF Cores
<1> HIDE DEF j, w, in
<1>5. /\ j # NoPanel /\ j.layer = t.layer /\ j.p = t.p /\ j.first = 0 /\ j.last = w
      /\ j.active = in /\ j.cores = Cores /\ j.zero = FALSE
  BY <1>1, Record
<1>6. /\ j.layer \in Nat /\ j.p \in DOMAIN Projections
      /\ j.cores \in {{0}, {1}, {0, 1}} /\ j.first \in Nat /\ j.last \in Nat
  BY <1>2, <1>4, <1>5
<1>7. j.zero \in BOOLEAN
  BY <1>5
<1>8. \E k \in Nat \ {0} : j.active = k * PeIn
  BY <1>3, <1>5
<1>9. GoodPanel(j)
  BY <1>5, <1>6, <1>7, <1>8 DEF GoodPanel
<1>10. QED BY <1>9 DEF j

(* So is the panel of an operator, whatever its profile arguments.         *)
LEMMA OperatorPanels ==
    ASSUME NEW o \in Operators
    PROVE  GoodPanel(OperatorPanel(o))
<1>1. /\ o.layer \in Nat /\ o.p \in DOMAIN Projections
      /\ o.position \in Nat /\ o.count \in Nat /\ o.kLimit \in Nat
      /\ o.mask \in 0..3 /\ o.zero \in BOOLEAN
  BY JobAssumption
<1> DEFINE w == OutputWaves(o.p)
           in == Projections[o.p].in
           n == IF o.count # 0 THEN o.count
                ELSE IF o.position < w THEN w - o.position ELSE 0
           from == AtMost(o.position, w)
           to == AtMost(o.position + n, w)
           k == AlignedK(o.kLimit, in)
           m == MaskCores(o.mask)
<1>2. TaskPanel(o) = [layer |-> o.layer, p |-> o.p, first |-> 0, last |-> w,
           active |-> in, cores |-> Cores, zero |-> FALSE, whole |-> CrossWave]
  BY DEF TaskPanel
<1>3. PlainPanel(o) = [layer |-> o.layer, p |-> o.p, first |-> 0, last |-> w,
           active |-> in, cores |-> Cores, zero |-> FALSE, whole |-> FALSE]
  <2> HIDE DEF w, in
  <2> DEFINE no == FALSE
             r == TaskPanel(o)
  <2>1. PlainPanel(o) = [r EXCEPT !.whole = no]
    BY DEF PlainPanel
  <2>2. r = [layer |-> o.layer, p |-> o.p, first |-> 0, last |-> w,
             active |-> in, cores |-> Cores, zero |-> no, whole |-> CrossWave]
    BY <1>2
  <2>3. PlainPanel(o) = [layer |-> o.layer, p |-> o.p, first |-> 0, last |-> w,
             active |-> in, cores |-> Cores, zero |-> no, whole |-> no]
    <3> HIDE DEF no, r
    <3>1. QED BY <2>1, <2>2, Updates
  <2>4. QED BY <2>3
<1>4. ProfilePanel(o) = [layer |-> o.layer, p |-> o.p, first |-> from, last |-> to,
           active |-> k, cores |-> m, zero |-> o.zero, whole |-> FALSE]
  <2>1. ProfilePanel(o) = [PlainPanel(o) EXCEPT !.first = from, !.last = to,
                             !.active = AlignedK(o.kLimit, PlainPanel(o).active),
                             !.cores = m, !.zero = o.zero]
    BY DEF ProfilePanel
  <2>2. PlainPanel(o).active = in
    <3> DEFINE j == PlainPanel(o)
    <3>1. j = [layer |-> o.layer, p |-> o.p, first |-> 0, last |-> w,
           active |-> in, cores |-> Cores, zero |-> FALSE, whole |-> FALSE]
      BY <1>3
    <3> HIDE DEF w, in, j
    <3>2. j.active = in
      BY <3>1, Record
    <3>3. QED BY <3>2 DEF j
  <2>3. ProfilePanel(o) = [PlainPanel(o) EXCEPT !.first = from, !.last = to,
                             !.active = k, !.cores = m, !.zero = o.zero]
    BY <2>1, <2>2
  <2> DEFINE no == FALSE
             r == PlainPanel(o)
  <2>4. r = [layer |-> o.layer, p |-> o.p, first |-> 0, last |-> w,
             active |-> in, cores |-> Cores, zero |-> no, whole |-> no]
    BY <1>3
  <2> HIDE DEF w, in, n, from, to, m, k
  <2>5. ProfilePanel(o) = [layer |-> o.layer, p |-> o.p, first |-> from, last |-> to,
           active |-> k, cores |-> m, zero |-> o.zero, whole |-> no]
    <3> HIDE DEF no, r
    <3>1. ProfilePanel(o) = [r EXCEPT !.first = from, !.last = to,
                             !.active = k, !.cores = m, !.zero = o.zero]
      BY <2>3 DEF r
    <3>2. QED BY <2>4, <3>1, Updates
  <2>6. QED BY <2>5
<1>5. GoodPanel(PlainPanel(o))
  <2>1. GoodPanel(TaskPanel(o))
    BY <1>1, TaskPanels
  <2> HIDE DEF w, in
  <2> DEFINE j == PlainPanel(o)
             i == TaskPanel(o)
  <2>2. /\ i.layer = o.layer /\ i.p = o.p /\ i.first = 0 /\ i.last = w
        /\ i.active = in /\ i.cores = Cores /\ i.zero = FALSE
    <3> HIDE DEF i
    <3>1. i = [layer |-> o.layer, p |-> o.p, first |-> 0, last |-> w,
           active |-> in, cores |-> Cores, zero |-> FALSE, whole |-> CrossWave]
      BY <1>2 DEF i
    <3>2. QED BY <3>1, Record
  <2>3. /\ j # NoPanel /\ j.layer = o.layer /\ j.p = o.p /\ j.first = 0 /\ j.last = w
        /\ j.active = in /\ j.cores = Cores /\ j.zero = FALSE
    <3> HIDE DEF j
    <3>1. j = [layer |-> o.layer, p |-> o.p, first |-> 0, last |-> w,
           active |-> in, cores |-> Cores, zero |-> FALSE, whole |-> FALSE]
      BY <1>3 DEF j
    <3>2. QED BY <3>1, Record
  <2>4. GoodPanel(i) => GoodPanel(j)
    <3> HIDE DEF i, j
    <3> QED BY <2>2, <2>3 DEF GoodPanel
  <2>5. QED BY <2>1, <2>4
<1>6. GoodPanel(ProfilePanel(o))
  <2>1. w \in Nat
    BY <1>1, Shapes
  <2>2. from \in Nat /\ to \in Nat
    <3> HIDE DEF w
    <3>1. n \in Nat
      BY <1>1, <2>1
    <3> HIDE DEF n
    <3>2. QED BY <1>1, <2>1, <3>1 DEF AtMost
  <2>3. \E q \in Nat \ {0} : k = q * PeIn
    BY <1>1, KLimits
  <2>4. m \in {{0}, {1}, {0, 1}}
    BY <1>1, Masks
  <2> DEFINE j == ProfilePanel(o)
  <2> HIDE DEF w, in, n, from, to, k, m
  <2>5. /\ j # NoPanel /\ j.layer = o.layer /\ j.p = o.p /\ j.first = from /\ j.last = to
        /\ j.active = k /\ j.cores = m /\ j.zero = o.zero
    <3> HIDE DEF j
    <3>1. j = [layer |-> o.layer, p |-> o.p, first |-> from, last |-> to,
           active |-> k, cores |-> m, zero |-> o.zero, whole |-> FALSE]
      BY <1>4 DEF j
    <3>2. QED BY <3>1, Record
  <2>6. GoodPanel(j)
    <3> HIDE DEF j
    <3> QED BY <1>1, <2>2, <2>3, <2>4, <2>5 DEF GoodPanel
  <2>7. QED BY <2>6
<1>7. OperatorPanel(o) = PlainPanel(o) \/ OperatorPanel(o) = ProfilePanel(o)
  BY DEF OperatorPanel
<1>8. QED BY <1>5, <1>6, <1>7

-----------------------------------------------------------------------------
(* A region that opens over empty FIFOs. *)
LEMMA InitIInv == Init => IInv
<1> SUFFICES ASSUME Init PROVE IInv
  OBVIOUS
<1>1. panel = NoPanel /\ begin = 0 /\ end = 0
  BY DEF Init
<1>2. Fresh /\ Empty
  BY DEF Init, Fresh, Empty
<1>3. Shape
  BY <1>1, <1>2 DEF Shape, Empty
<1>4. QED BY <1>1, <1>3 DEF IInv, Loops, Flags, Words, Tile, Packets

(* A region that opens over empty FIFOs satisfies the invariant.           *)
LEMMA OpenedIInv == panel # NoPanel /\ PanelShape /\ Fresh /\ Empty => IInv
<1> SUFFICES ASSUME panel # NoPanel, PanelShape, Fresh, Empty PROVE IInv
  OBVIOUS
<1>1. Shape
  BY DEF Shape, Empty
<1>2. /\ distributed = 0
      /\ \A b \in BlockIds : loader[b] = 0
      /\ \A s \in Slots : emitter[s] = RestingEmitter
      /\ driver = RestingDriver
  BY DEF Fresh
<1>3. /\ \A s \in Slots : enables[s] = << >> /\ packets[s] = << >>
      /\ \A b \in BlockIds, s \in Slots : words[b][s] = << >>
  BY DEF Empty
<1>4. /\ ActiveTiles \in Nat \ {0} /\ WaveCount \in Nat \ {0}
      /\ panel.active \in Nat \ {0} /\ PacketCount = panel.active
      /\ ActiveTiles * SlotCount \in Nat
  BY PanelNumbers
<1>5. Len(BeatOrder) \in Nat \ {0}
  BY Beats
<1>6. \A s \in Slots : /\ emitter[s].wave = 0 /\ emitter[s].open = FALSE
                       /\ emitter[s].tile = << >> /\ emitter[s].packet = 0
                       /\ emitter[s].on = FALSE /\ Len(emitter[s].tile) = 0
  BY <1>2 DEF RestingEmitter
<1>7. driver.wave = 0 /\ driver.k = 0 /\ driver.read = 0
  BY <1>2 DEF RestingDriver
<1>8. 0 * ActiveTiles = 0 /\ 0 * PacketCount = 0 /\ 0 * panel.active = 0
      /\ 0 \div PeIn = 0 /\ 0 % PeIn = 0
  BY <1>4, Sizes, SMT
<1>9. \A s \in Slots : EmitterAt(s)
  <2>1. TAKE s \in Slots
  <2>2. emitter[s] = [wave |-> 0, open |-> FALSE, on |-> FALSE, tile |-> << >>,
                      packet |-> 0]
    BY <1>2 DEF RestingEmitter
  <2>3. emitter[s] = [wave |-> emitter[s].wave, open |-> emitter[s].open,
                      on |-> emitter[s].on, tile |-> emitter[s].tile,
                      packet |-> emitter[s].packet]
    BY <2>2, <1>6
  <2>4. emitter[s].packet % PeIn = 0
    BY <1>6, <1>8
  <2>5. 0 \in 0..WaveCount /\ 0 \in 0..(PacketCount - 1) /\ 0 \in 0..Blocks
    BY <1>4, Sizes
  <2>6. QED BY <1>6, <2>3, <2>4, <2>5 DEF EmitterAt
<1>10. Loops
  <2>1. WaveCount * SlotCount \in Nat /\ WaveCount * (ActiveTiles * SlotCount) \in Nat
    BY <1>4, Sizes, Product
  <2>2. distributed \in 0..(WaveCount * SlotCount)
    BY <1>2, <2>1
  <2>3. \A b \in BlockIds : loader[b] \in 0..(WaveCount * (ActiveTiles * SlotCount))
    BY <1>2, <2>1
  <2>4. loader = [b \in BlockIds |-> loader[b]] /\ emitter = [s \in Slots |-> emitter[s]]
    BY DEF Fresh
  <2>5. driver = [wave |-> driver.wave, k |-> driver.k, read |-> driver.read]
    BY <1>2 DEF RestingDriver
  <2>6. /\ driver.wave \in 0..WaveCount /\ driver.k \in 0..(panel.active - 1)
        /\ driver.read \in 0..(Len(BeatOrder) - 1)
    BY <1>4, <1>5, <1>7
  <2>7. QED BY <1>7, <1>9, <2>2, <2>3, <2>4, <2>5, <2>6 DEF Loops
<1>11. \A s \in Slots : /\ FlagsRead(s) = 0 /\ TilesDone(s) = 0 /\ Emitted(s) = 0
                        /\ Driven(s) = 0
  <2>1. TAKE s \in Slots
  <2>2. ~ReadThisBeat(s)
    BY <1>7 DEF ReadThisBeat
  <2>3. FlagsRead(s) = 0
    BY <1>6 DEF FlagsRead
  <2>4. TilesDone(s) = 0
    BY <1>6, <1>8 DEF TilesDone
  <2>5. Emitted(s) = 0
    BY <1>6, <1>8 DEF Emitted
  <2>6. Driven(s) = 0
    BY <1>7, <1>8, <2>2 DEF Driven
  <2>7. QED BY <2>3, <2>4, <2>5, <2>6
<1>12. \A b \in BlockIds, s \in Slots : WordsRead(b, s) = 0
  <2>1. TAKE b \in BlockIds, s \in Slots
  <2>2. ~(b < 0)
    BY Sizes
  <2>3. QED BY <1>6, <1>11, <2>2 DEF WordsRead
<1>13. Flags
  BY <1>2, <1>3, <1>11, DealtNone DEF Flags
<1>14. Words
  <2>1. \A b \in BlockIds, s \in Slots, r \in Nat, w \in Nat :
          r = WordsRead(b, s) /\ w = Dealt(loader[b], s) =>
            r = 0 /\ w = 0 /\ words[b][s] = << >>
    BY <1>2, <1>3, <1>12, DealtNone
  <2>2. \A b \in BlockIds, s \in Slots : ItemsFrom(b, s, 0, 0) = << >>
    BY DEF ItemsFrom
  <2>3. QED BY <2>1, <2>2 DEF Words
<1>15. Tile
  BY <1>6 DEF Tile
<1>16. Packets
  <2>1. \A s \in Slots, r \in Nat, w \in Nat :
          /\ packets[s] = << >>
          /\ r = Driven(s) /\ w = Emitted(s) => r = 0 /\ w = 0
    BY <1>3, <1>11
  <2>2. \A s \in Slots : CarriedFrom(s, 0, 0) = << >>
    BY DEF CarriedFrom
  <2>3. QED BY <2>1, <2>2 DEF Packets
<1>17. QED BY <1>1, <1>10, <1>13, <1>14, <1>15, <1>16 DEF IInv

(* The same of the region a step opens.                                    *)
LEMMA OpenedNext ==
    (panel # NoPanel /\ PanelShape /\ Fresh /\ Empty)' => IInv'
BY OpenedIInv, PTL

(* The counts of a region that has ended agree: nothing is left over.      *)
LEMMA Drained ==
    ASSUME IInv, RegionDone
    PROVE  Empty
<1>1. panel # NoPanel /\ PanelShape
  BY DEF IInv, Shape, RegionDone
<1>2. /\ distributed = WaveCount * SlotCount
      /\ \A b \in BlockIds : loader[b] = WaveCount * ActiveTiles * SlotCount
      /\ \A s \in Slots : emitter[s].wave = WaveCount
      /\ driver.wave = WaveCount
  BY DEF RegionDone
<1>3. /\ ActiveTiles \in Nat \ {0} /\ WaveCount \in Nat \ {0}
      /\ panel.active \in Nat \ {0} /\ PacketCount = panel.active
      /\ SlotCount \in Nat \ {0}
  BY <1>1, PanelNumbers, Sizes
<1>4. \A s \in Slots : emitter[s].packet = 0 /\ emitter[s].tile = << >>
                       /\ emitter[s].open = FALSE
  <2>1. TAKE s \in Slots
  <2>2. EmitterAt(s)
    BY <1>1 DEF IInv, Loops
  <2>3. emitter[s].wave = WaveCount
    BY <1>2
  <2>4. emitter[s].open = FALSE
    BY <1>3, <2>2, <2>3 DEF EmitterAt
  <2>5. QED BY <2>2, <2>4 DEF EmitterAt
<1>5. 0 \div PeIn = 0
  BY Sizes, SMT
<1>6. \A s \in Slots : enables[s] = << >>
  <2>1. TAKE s \in Slots
  <2>2. enables[s] = [i \in 1..(Dealt(distributed, s) - FlagsRead(s)) |-> Enabled(s)]
    BY <1>1 DEF IInv, Flags
  <2>3. FlagsRead(s) = WaveCount
    BY <1>2, <1>3, <1>4 DEF FlagsRead
  <2>4. Dealt(distributed, s) = WaveCount
    BY <1>2, <1>3, DealtWhole
  <2>5. enables[s] = [i \in 1..0 |-> Enabled(s)]
    BY <1>3, <2>2, <2>3, <2>4
  <2>6. QED BY <2>5
<1>7. \A b \in BlockIds, s \in Slots : words[b][s] = << >>
  <2>0. TAKE b \in BlockIds, s \in Slots
  <2> DEFINE n == WaveCount * ActiveTiles
  <2>1. n \in Nat
    BY <1>3, Product
  <2>2. TilesDone(s) = n
    BY <1>2, <1>4, <1>5, <2>1 DEF TilesDone
  <2>3. ~(b < Len(emitter[s].tile))
    BY <1>4, Sizes
  <2>4. WordsRead(b, s) = n
    BY <2>1, <2>2, <2>3 DEF WordsRead
  <2>5. Dealt(loader[b], s) = n
    BY <1>2, <2>1, DealtWhole
  <2> HIDE DEF n
  <2>6. words[b][s] = ItemsFrom(b, s, n, n)
    BY <1>1, <2>1, <2>4, <2>5 DEF IInv, Words
  <2>7. n - n = 0
    BY <2>1
  <2>8. QED BY <2>6, <2>7 DEF ItemsFrom
<1>8. \A s \in Slots : packets[s] = << >>
  <2>1. TAKE s \in Slots
  <2>2. CASE ~Enabled(s)
    BY <1>1, <2>2 DEF IInv, Packets
  <2>3. CASE Enabled(s)
    <3> DEFINE n == WaveCount * PacketCount
    <3>2. n \in Nat
      BY <1>3, Product
    <3>3. Emitted(s) = n
      BY <1>2, <1>4, <3>2 DEF Emitted
    <3>4. driver.k = 0 /\ driver.read = 0
      BY <1>1, <1>2 DEF IInv, Loops
    <3>5. ~ReadThisBeat(s)
      BY <3>4 DEF ReadThisBeat
    <3>6. Driven(s) = n
      BY <1>2, <1>3, <3>2, <3>4, <3>5 DEF Driven
    <3> HIDE DEF n
    <3>7. packets[s] = CarriedFrom(s, n, n)
      BY <1>1, <2>3, <3>2, <3>3, <3>6 DEF IInv, Packets
    <3>8. n - n = 0
      BY <3>2
    <3>9. QED BY <3>7, <3>8 DEF CarriedFrom
  <2>4. QED BY <2>2, <2>3
<1>9. /\ enables = [s \in Slots |-> enables[s]]
      /\ words = [b \in BlockIds |-> [s \in Slots |-> words[b][s]]]
      /\ packets = [s \in Slots |-> packets[s]]
  BY DEF IInv, Shape
<1>10. enables = [s \in Slots |-> << >>] /\ packets = [s \in Slots |-> << >>]
  BY <1>6, <1>8, <1>9
<1>11. words = [b \in BlockIds |-> [s \in Slots |-> << >>]]
  <2>1. \A b \in BlockIds : [s \in Slots |-> words[b][s]] = [s \in Slots |-> << >>]
    BY <1>7
  <2>2. QED BY <1>9, <2>1
<1>12. QED BY <1>10, <1>11 DEF Empty

-----------------------------------------------------------------------------
(* Regions open and close. *)
LEMMA StartIInv ==
    ASSUME IInv, NEW job, GoodPanel(job), Start(job)
    PROVE  IInv'
<1>1. panel = NoPanel /\ panel' = job /\ job.first < job.last
      /\ OpenRegion(job.first, IF job.whole THEN job.last ELSE job.first + 1)
  BY DEF Start
<1>2. /\ begin' = job.first
      /\ end' = IF job.whole THEN job.last ELSE job.first + 1
  BY <1>1 DEF OpenRegion
<1>3. Fresh'
  BY <1>1 DEF OpenRegion, Fresh
<1>4. Empty'
  <2>1. Empty
    BY <1>1 DEF IInv, Shape
  <2>2. enables' = enables /\ words' = words /\ packets' = packets
    BY <1>1 DEF OpenRegion
  <2>3. QED BY <2>1, <2>2 DEF Empty
<1>5. panel' # NoPanel
  BY <1>1 DEF GoodPanel
<1>6. PICK k \in Nat \ {0} : job.active = k * PeIn
  BY DEF GoodPanel
<1>7. ActiveTiles' = k
  <2>1. ActiveTiles' = CeilDiv(k * PeIn, PeIn)
    BY <1>1, <1>6 DEF ActiveTiles
  <2>2. QED BY <1>6, <2>1, CeilExact, Sizes
<1>8. k * PeIn \in Nat
  BY <1>6, Product, Sizes
<1>9. job.first \in Nat /\ job.last \in Nat
  BY DEF GoodPanel
<1>10. begin' \in Nat /\ end' \in Nat /\ begin' < end' /\ end' <= job.last
  <2>1. CASE job.whole
    BY <1>1, <1>2, <1>9, <2>1
  <2>2. CASE ~job.whole
    BY <1>1, <1>2, <1>9, <2>2
  <2>3. QED BY <2>1, <2>2
<1>11. /\ job.layer \in Nat /\ job.p \in DOMAIN Projections /\ job.zero \in BOOLEAN
       /\ job.cores \in {{0}, {1}, {0, 1}}
  BY DEF GoodPanel
<1>12. PanelShape'
  BY <1>1, <1>6, <1>7, <1>8, <1>9, <1>10, <1>11 DEF PanelShape
<1>13. QED BY <1>3, <1>4, <1>5, <1>12, OpenedNext

(* A projection starts with its first region.                              *)
LEMMA StartsIInv == IInv /\ (StartTask \/ StartOperator) => IInv'
<1>1. ASSUME IInv, StartTask PROVE IInv'
  <2>1. PICK t \in Tasks : Start(TaskPanel(t))
    BY <1>1 DEF StartTask
  <2>2. t.layer \in Nat /\ t.p \in DOMAIN Projections
    BY JobAssumption
  <2>3. GoodPanel(TaskPanel(t))
    BY <2>2, TaskPanels
  <2>4. QED BY <1>1, <2>1, <2>3, StartIInv
<1>2. ASSUME IInv, StartOperator PROVE IInv'
  <2>1. PICK o \in Operators : Start(OperatorPanel(o))
    BY <1>2 DEF StartOperator
  <2>2. GoodPanel(OperatorPanel(o))
    BY OperatorPanels
  <2>3. QED BY <1>2, <2>1, <2>2, StartIInv
<1>3. QED BY <1>1, <1>2

(* The next wave's region opens over FIFOs the last one left empty.        *)
LEMMA NextRegionIInv == IInv /\ NextRegion => IInv'
<1> SUFFICES ASSUME IInv, NextRegion PROVE IInv'
  OBVIOUS
<1>1. RegionDone /\ end < panel.last /\ OpenRegion(end, end + 1) /\ panel' = panel
  BY DEF NextRegion
<1>2. panel # NoPanel /\ PanelShape
  BY <1>1 DEF IInv, Shape, RegionDone
<1>3. Empty
  BY <1>1, Drained
<1>4. Fresh' /\ begin' = end /\ end' = end + 1
  BY <1>1 DEF OpenRegion, Fresh
<1>5. Empty'
  <2>1. enables' = enables /\ words' = words /\ packets' = packets
    BY <1>1 DEF OpenRegion
  <2>2. QED BY <1>3, <2>1 DEF Empty
<1>6. ActiveTiles' = ActiveTiles
  BY <1>1 DEF ActiveTiles
<1>7. end \in Nat /\ panel.last \in Nat
  BY <1>2 DEF PanelShape
<1>8. begin' \in Nat /\ end' \in Nat /\ begin' < end' /\ end' <= panel.last
  BY <1>1, <1>4, <1>7
<1>9. PanelShape'
  BY <1>1, <1>2, <1>6, <1>8 DEF PanelShape
<1>10. QED BY <1>1, <1>2, <1>4, <1>5, <1>9, OpenedNext

(* A projection ends with empty FIFOs.                                     *)
LEMMA FinishIInv == IInv /\ Finish => IInv'
<1> SUFFICES ASSUME IInv, Finish PROVE IInv'
  OBVIOUS
<1>1. RegionDone /\ panel' = NoPanel /\ OpenRegion(0, 0)
  BY DEF Finish
<1>2. Empty
  BY <1>1, Drained
<1>3. Fresh' /\ begin' = 0 /\ end' = 0
  BY <1>1 DEF OpenRegion, Fresh
<1>4. Empty'
  <2>1. enables' = enables /\ words' = words /\ packets' = packets
    BY <1>1 DEF OpenRegion
  <2>2. QED BY <1>2, <2>1 DEF Empty
<1>5. Shape'
  BY <1>1, <1>3, <1>4 DEF Shape, Empty
<1>6. QED BY <1>1, <1>5 DEF IInv, Loops, Flags, Words, Tile, Packets

-----------------------------------------------------------------------------
(* A FIFO that holds the items r .. w-1 of f, and what a write and a read  *)
(* of it leave.                                                            *)
LEMMA Stream ==
    ASSUME NEW f, NEW r \in Nat, NEW w \in Nat, r <= w, NEW q,
           q = [i \in 1..(w - r) |-> f[r + i - 1]]
    PROVE  /\ Len(q) = w - r
           /\ Append(q, f[w]) = [i \in 1..((w + 1) - r) |-> f[r + i - 1]]
           /\ q # << >> =>
                /\ r + 1 <= w /\ Head(q) = f[r]
                /\ Tail(q) = [i \in 1..(w - (r + 1)) |-> f[(r + 1) + i - 1]]
<1> DEFINE n == w - r
           g(i) == f[r + i - 1]
           S == {g(i) : i \in 1..(n + 1)}
<1>1. n \in Nat /\ (w + 1) - r = n + 1 /\ w - (r + 1) = n - 1 /\ g(n + 1) = f[w] /\ g(1) = f[r]
  <2>1. n \in Nat /\ (w + 1) - r = n + 1 /\ w - (r + 1) = n - 1
        /\ r + (n + 1) - 1 = w /\ r + 1 - 1 = r
    OBVIOUS
  <2>2. QED BY <2>1
<1>2. \A i \in Int : g(i + 1) = f[(r + 1) + i - 1]
  <2>1. \A i \in Int : r + (i + 1) - 1 = (r + 1) + i - 1
    OBVIOUS
  <2>2. QED BY <2>1
<1>3. q = [i \in 1..n |-> g(i)]
  OBVIOUS
<1>4. /\ [i \in 1..((w + 1) - r) |-> f[r + i - 1]] = [i \in 1..(n + 1) |-> g(i)]
      /\ [i \in 1..(w - (r + 1)) |-> f[(r + 1) + i - 1]] = [i \in 1..(n - 1) |-> g(i + 1)]
  <2>1. [i \in 1..((w + 1) - r) |-> f[r + i - 1]] = [i \in 1..(n + 1) |-> g(i)]
    BY <1>1
  <2>2. \A i \in 1..(n - 1) : g(i + 1) = f[(r + 1) + i - 1]
    BY <1>1, <1>2
  <2>3. w - (r + 1) = n - 1
    BY <1>1
  <2> HIDE DEF n, g
  <2>4. QED BY <2>1, <2>2, <2>3
<1>5. \A i \in 1..(n + 1) : g(i) \in S
  OBVIOUS
<1> HIDE DEF n, g, S
<1>6. q \in Seq(S) /\ Len(q) = n
  <2>1. \A i \in 1..n : g(i) \in S
    BY <1>1, <1>5
  <2>2. q \in [1..n -> S]
    BY <1>3, <2>1
  <2>3. q \in Seq(S)
    BY <1>1, <2>2, SeqDef
  <2>4. QED BY <1>1, <2>2, <2>3, LenProperties
<1>7. \A i \in 1..n : q[i] = g(i)
  BY <1>3
<1>8. Append(q, g(n + 1)) = [i \in 1..(n + 1) |-> g(i)]
  <2> DEFINE a == Append(q, g(n + 1))
  <2>1. g(n + 1) \in S
    BY <1>1, <1>5
  <2>2. /\ a \in Seq(S) /\ Len(a) = n + 1 /\ a[n + 1] = g(n + 1)
        /\ \A i \in 1..n : a[i] = q[i]
    BY <1>6, <2>1, AppendProperties
  <2> HIDE DEF a
  <2>3. \A i \in 1..(n + 1) : a[i] = g(i)
    BY <1>1, <1>7, <2>2
  <2>4. a = [i \in 1..(n + 1) |-> a[i]]
    BY <1>1, <2>2
  <2>5. a = [i \in 1..(n + 1) |-> g(i)]
    BY <2>3, <2>4
  <2>6. QED BY <2>5 DEF a
<1>9. ASSUME q # << >>
      PROVE  r + 1 <= w /\ Head(q) = g(1) /\ Tail(q) = [i \in 1..(n - 1) |-> g(i + 1)]
  <2>1. n # 0
    BY <1>6, <1>9, EmptySeq
  <2>2. r + 1 <= w
    BY <1>1, <2>1 DEF n
  <2>3. Head(q) = q[1] /\ 1 \in 1..n
    BY <1>1, <1>6, <2>1
  <2> DEFINE t == Tail(q)
  <2>4. t \in Seq(S) /\ Len(t) = n - 1 /\ \A i \in 1..(n - 1) : t[i] = q[i + 1]
    <3>1. Tail(q) \in Seq(S) /\ Len(Tail(q)) = Len(q) - 1
      BY <1>6, <1>9, HeadTailProperties
    <3>2. \A i \in 1..(Len(q) - 1) : Tail(q)[i] = q[i + 1]
      BY <1>6, <1>9, HeadTailProperties
    <3>3. QED BY <1>6, <3>1, <3>2
  <2> HIDE DEF t
  <2>5. \A i \in 1..(n - 1) : t[i] = g(i + 1)
    <3>1. \A i \in 1..(n - 1) : i + 1 \in 1..n
      BY <1>1
    <3>2. QED BY <1>7, <2>4, <3>1
  <2>6. t = [i \in 1..(n - 1) |-> t[i]]
    BY <1>1, <2>1, <2>4
  <2>7. t = [i \in 1..(n - 1) |-> g(i + 1)]
    BY <2>5, <2>6
  <2>8. QED BY <1>7, <2>2, <2>3, <2>7 DEF t
<1>10. QED
  <2>1. Len(q) = w - r
    BY <1>6 DEF n
  <2>2. Append(q, f[w]) = [i \in 1..((w + 1) - r) |-> f[r + i - 1]]
    BY <1>1, <1>4, <1>8
  <2>3. q # << >> =>
                /\ r + 1 <= w /\ Head(q) = f[r]
                /\ Tail(q) = [i \in 1..(w - (r + 1)) |-> f[(r + 1) + i - 1]]
    BY <1>1, <1>4, <1>9
  <2>4. QED BY <2>1, <2>2, <2>3

(* Writing and reading a packed stream: the items it holds are consecutive.*)
LEMMA Items ==
    ASSUME NEW b, NEW s, NEW r \in Nat, NEW w \in Nat, r <= w
    PROVE  /\ Len(ItemsFrom(b, s, r, w)) = w - r
           /\ Append(ItemsFrom(b, s, r, w), Item(b, s, w)) = ItemsFrom(b, s, r, w + 1)
           /\ ItemsFrom(b, s, r, w) # << >> =>
                /\ r + 1 <= w
                /\ Head(ItemsFrom(b, s, r, w)) = Item(b, s, r)
                /\ Tail(ItemsFrom(b, s, r, w)) = ItemsFrom(b, s, r + 1, w)
<1> DEFINE f == [n \in Nat |-> Item(b, s, n)]
           q(a, z) == [i \in 1..(z - a) |-> f[a + i - 1]]
<1>1. ASSUME NEW a \in Nat, NEW z \in Nat PROVE q(a, z) = ItemsFrom(b, s, a, z)
  <2>1. \A i \in 1..(z - a) : a + i - 1 \in Nat
    OBVIOUS
  <2>2. \A i \in 1..(z - a) : f[a + i - 1] = Item(b, s, a + i - 1)
    BY <2>1
  <2> HIDE DEF f
  <2>3. QED BY <2>2 DEF ItemsFrom
<1>2. f[w] = Item(b, s, w) /\ f[r] = Item(b, s, r)
  OBVIOUS
<1> HIDE DEF f
<1>3. /\ Len(q(r, w)) = w - r
      /\ Append(q(r, w), f[w]) = q(r, w + 1)
      /\ q(r, w) # << >> =>
                /\ r + 1 <= w /\ Head(q(r, w)) = f[r]
                /\ Tail(q(r, w)) = q(r + 1, w)
  BY Stream
<1> HIDE DEF q
<1>4. q(r, w) = ItemsFrom(b, s, r, w) /\ q(r, w + 1) = ItemsFrom(b, s, r, w + 1)
      /\ q(r + 1, w) = ItemsFrom(b, s, r + 1, w)
  BY <1>1
<1>5. QED BY <1>2, <1>3, <1>4

(* The same of a packet stream.                                            *)
LEMMA Carries ==
    ASSUME NEW s, NEW r \in Nat, NEW w \in Nat, r <= w
    PROVE  /\ Len(CarriedFrom(s, r, w)) = w - r
           /\ Append(CarriedFrom(s, r, w), Carried(s, w)) = CarriedFrom(s, r, w + 1)
           /\ CarriedFrom(s, r, w) # << >> =>
                /\ r + 1 <= w
                /\ Tail(CarriedFrom(s, r, w)) = CarriedFrom(s, r + 1, w)
<1> DEFINE f == [n \in Nat |-> Carried(s, n)]
           q(a, z) == [i \in 1..(z - a) |-> f[a + i - 1]]
<1>1. ASSUME NEW a \in Nat, NEW z \in Nat PROVE q(a, z) = CarriedFrom(s, a, z)
  <2>1. \A i \in 1..(z - a) : a + i - 1 \in Nat
    OBVIOUS
  <2>2. \A i \in 1..(z - a) : f[a + i - 1] = Carried(s, a + i - 1)
    BY <2>1
  <2> HIDE DEF f
  <2>3. QED BY <2>2 DEF CarriedFrom
<1>2. f[w] = Carried(s, w)
  OBVIOUS
<1> HIDE DEF f
<1>3. /\ Len(q(r, w)) = w - r
      /\ Append(q(r, w), f[w]) = q(r, w + 1)
      /\ q(r, w) # << >> => r + 1 <= w /\ Tail(q(r, w)) = q(r + 1, w)
  BY Stream
<1> HIDE DEF q
<1>4. q(r, w) = CarriedFrom(s, r, w) /\ q(r, w + 1) = CarriedFrom(s, r, w + 1)
      /\ q(r + 1, w) = CarriedFrom(s, r + 1, w)
  BY <1>1
<1>5. QED BY <1>2, <1>3, <1>4

(* A step of a process inside a region. *)
Inside == panel # NoPanel /\ panel' = panel /\ begin' = begin /\ end' = end

(* Inside a region its arguments, and so the items due, stay the same.     *)
LEMMA InsideFacts ==
    ASSUME IInv, Inside
    PROVE  /\ PanelShape /\ panel' # NoPanel
           /\ Shape /\ Loops /\ Flags /\ Words /\ Tile /\ Packets
           /\ PanelShape'
           /\ ActiveTiles' = ActiveTiles /\ WaveCount' = WaveCount
           /\ PacketCount' = PacketCount
           /\ \A s : Enabled(s)' = Enabled(s)
           /\ BeatOrder' = BeatOrder /\ FirstSlot' = FirstSlot
           /\ \A b, s, n : Item(b, s, n)' = Item(b, s, n)
           /\ \A b, s, r, w : ItemsFrom(b, s, r, w)' = ItemsFrom(b, s, r, w)
           /\ \A s, r, w : CarriedFrom(s, r, w)' = CarriedFrom(s, r, w)
<1>1. PanelShape /\ panel' # NoPanel
  BY DEF Inside, IInv, Shape
<1>2. panel' = panel /\ begin' = begin /\ end' = end
  BY DEF Inside
<1>3. PanelShape' = PanelShape
  BY <1>2, SameRegion
<1>4. QED BY <1>1, <1>2, <1>3, SameRegion DEF IInv

(* Flags is kept by a step that reads and writes none.                     *)
LEMMA FlagsKept ==
    ASSUME IInv, Inside, distributed' = distributed, enables' = enables,
           \A s \in Slots : FlagsRead(s)' = FlagsRead(s)
    PROVE  Flags'
<1>1. panel # NoPanel /\ Flags /\ \A s : Enabled(s)' = Enabled(s)
  BY InsideFacts DEF Inside
<1>2. SUFFICES ASSUME NEW s \in Slots
               PROVE  /\ FlagsRead(s)' <= Dealt(distributed', s)
                      /\ enables'[s] = [i \in 1..(Dealt(distributed', s) - FlagsRead(s)') |->
                                           Enabled(s)']
  BY DEF Flags, Dealt
<1>3. /\ FlagsRead(s) <= Dealt(distributed, s)
      /\ enables[s] = [i \in 1..(Dealt(distributed, s) - FlagsRead(s)) |-> Enabled(s)]
  BY <1>1 DEF Flags
<1> DEFINE on == Enabled(s)
           on1 == Enabled(s)'
           read1 == FlagsRead(s)'
<1>4. read1 = FlagsRead(s) /\ on1 = on
  BY <1>1
<1> HIDE DEF on, on1, read1
<1>5. enables[s] = [i \in 1..(Dealt(distributed, s) - FlagsRead(s)) |-> on]
  BY <1>3 DEF on
<1>6. /\ read1 <= Dealt(distributed', s)
      /\ enables'[s] = [i \in 1..(Dealt(distributed', s) - read1) |-> on1]
  BY <1>3, <1>4, <1>5
<1>7. QED BY <1>6 DEF on1, read1

(* Words is kept by a step that reads and writes none.                     *)
LEMMA WordsKept ==
    ASSUME IInv, Inside, loader' = loader, words' = words,
           \A b \in BlockIds, s \in Slots : WordsRead(b, s)' = WordsRead(b, s)
    PROVE  Words'
<1>1. /\ panel # NoPanel /\ Words
      /\ \A b, s, r, w : ItemsFrom(b, s, r, w)' = ItemsFrom(b, s, r, w)
  BY InsideFacts DEF Inside
<1>2. SUFFICES ASSUME NEW b \in BlockIds, NEW s \in Slots, NEW r \in Nat, NEW w \in Nat,
                      r = WordsRead(b, s)', w = Dealt(loader'[b], s)
               PROVE  r <= w /\ words'[b][s] = ItemsFrom(b, s, r, w)'
  BY DEF Words, Dealt
<1>3. r = WordsRead(b, s) /\ w = Dealt(loader[b], s)
  BY <1>2
<1>4. r <= w /\ words[b][s] = ItemsFrom(b, s, r, w)
  BY <1>1, <1>3 DEF Words
<1>5. QED BY <1>1, <1>4

(* Tile is kept by a step that adds no word to a tile.                     *)
LEMMA TileKept ==
    ASSUME IInv, Inside,
           \A s \in Slots : /\ emitter'[s].tile = emitter[s].tile
                            /\ TilesDone(s)' = TilesDone(s)
    PROVE  Tile'
<1>1. panel # NoPanel /\ Tile /\ \A b, s, n : Item(b, s, n)' = Item(b, s, n)
  BY InsideFacts DEF Inside
<1>2. SUFFICES ASSUME NEW s \in Slots, NEW n \in Nat, n = TilesDone(s)'
               PROVE  emitter'[s].tile =
                        [i \in 1..Len(emitter'[s].tile) |-> Item(i - 1, s, n)']
  BY DEF Tile
<1>3. n = TilesDone(s) /\ emitter'[s].tile = emitter[s].tile
  BY <1>2
<1>4. emitter[s].tile = [i \in 1..Len(emitter[s].tile) |-> Item(i - 1, s, n)]
  BY <1>1, <1>3 DEF Tile
<1>5. QED BY <1>1, <1>3, <1>4

(* Packets is kept by a step that emits and drives none.                   *)
LEMMA PacketsKept ==
    ASSUME IInv, Inside, packets' = packets,
           \A s \in Slots : Emitted(s)' = Emitted(s) /\ Driven(s)' = Driven(s)
    PROVE  Packets'
<1>1. /\ panel # NoPanel /\ Packets
      /\ \A s, r, w : CarriedFrom(s, r, w)' = CarriedFrom(s, r, w)
      /\ \A s : Enabled(s)' = Enabled(s)
  BY InsideFacts DEF Inside
<1>2. SUFFICES ASSUME NEW s \in Slots, NEW r \in Nat, NEW w \in Nat
               PROVE  /\ ~Enabled(s)' => packets'[s] = << >>
                      /\ Enabled(s)' /\ r = Driven(s)' /\ w = Emitted(s)' =>
                           r <= w /\ packets'[s] = CarriedFrom(s, r, w)'
  BY DEF Packets
<1>3. /\ Driven(s)' = Driven(s) /\ Emitted(s)' = Emitted(s)
      /\ Enabled(s)' = Enabled(s) /\ packets'[s] = packets[s]
  BY <1>1
<1>4. /\ ~Enabled(s) => packets[s] = << >>
      /\ Enabled(s) /\ r = Driven(s) /\ w = Emitted(s) =>
           r <= w /\ packets[s] = CarriedFrom(s, r, w)
  BY <1>1 DEF Packets
<1>5. QED BY <1>1, <1>3, <1>4

(* The counts are numbers. *)
LEMMA Numbers ==
    ASSUME IInv, panel # NoPanel
    PROVE  /\ \A s \in Slots :
                /\ emitter[s].wave \in Nat /\ emitter[s].packet \in Nat
                /\ FlagsRead(s) \in Nat /\ TilesDone(s) \in Nat
                /\ Emitted(s) \in Nat /\ Driven(s) \in Nat
           /\ \A b \in BlockIds, s \in Slots : WordsRead(b, s) \in Nat
           /\ distributed \in Nat /\ \A b \in BlockIds : loader[b] \in Nat
           /\ \A b \in BlockIds, s \in Slots : Dealt(loader[b], s) \in Nat
           /\ \A s \in Slots : Dealt(distributed, s) \in Nat
<1>1. PanelShape /\ Loops
  BY DEF IInv, Shape
<1>2. /\ ActiveTiles \in Nat /\ WaveCount \in Nat /\ PacketCount \in Nat
      /\ panel.active \in Nat /\ PeIn \in Nat \ {0} /\ SlotCount \in Nat
  BY <1>1, PanelNumbers, Sizes
<1>3. \A s \in Slots : EmitterAt(s)
  BY <1>1 DEF Loops
<1>4. \A s \in Slots : /\ emitter[s].wave \in Nat /\ emitter[s].packet \in Nat
  <2>1. TAKE s \in Slots
  <2>2. emitter[s].wave \in 0..WaveCount /\ emitter[s].packet \in 0..(PacketCount - 1)
    BY <1>3 DEF EmitterAt
  <2>3. QED BY <1>2, <2>2
<1>5. \A s \in Slots : FlagsRead(s) \in Nat
  BY <1>4 DEF FlagsRead
<1>6. \A s \in Slots : TilesDone(s) \in Nat
  <2>1. TAKE s \in Slots
  <2>2. emitter[s].wave * ActiveTiles \in Nat /\ emitter[s].packet \div PeIn \in Nat
    BY <1>2, <1>4, Product, Division
  <2>3. QED BY <2>2 DEF TilesDone
<1>7. \A s \in Slots : Emitted(s) \in Nat
  <2>1. TAKE s \in Slots
  <2>2. emitter[s].wave * PacketCount \in Nat
    BY <1>2, <1>4, Product
  <2>3. QED BY <1>4, <2>2 DEF Emitted
<1>8. \A s \in Slots : Driven(s) \in Nat
  <2>1. driver.wave \in Nat /\ driver.k \in Nat
    BY <1>1, <1>2, SMT DEF Loops
  <2>2. driver.wave * panel.active \in Nat
    BY <1>2, <2>1, Product
  <2>3. QED BY <2>1, <2>2 DEF Driven
<1>9. \A b \in BlockIds, s \in Slots : WordsRead(b, s) \in Nat
  BY <1>6 DEF WordsRead
<1>10. distributed \in Nat
  <2>1. WaveCount * SlotCount \in Nat /\ distributed \in 0..(WaveCount * SlotCount)
    BY <1>1, <1>2, Product DEF Loops
  <2>2. QED BY <2>1
<1>11. \A b \in BlockIds : loader[b] \in Nat
  <2>1. TAKE b \in BlockIds
  <2>2. loader[b] \in 0..(WaveCount * (ActiveTiles * SlotCount))
    BY <1>1 DEF Loops
  <2>3. QED BY <2>2
<1>12. QED BY <1>4, <1>5, <1>6, <1>7, <1>8, <1>9, <1>10, <1>11, DealtNext
-----------------------------------------------------------------------------
(* One place of a function, or of a function of functions, is replaced.    *)
LEMMA Put ==
    ASSUME NEW S, NEW f, f = [s \in S |-> f[s]], NEW t \in S, NEW x,
           NEW g, g = [f EXCEPT ![t] = x]
    PROVE  /\ g = [s \in S |-> g[s]] /\ g[t] = x
           /\ \A s \in S : s # t => g[s] = f[s]
OBVIOUS

(* A step that writes places of the FIFOs only. *)
LEMMA ShapeKept ==
    ASSUME IInv, Inside,
           enables' = [s \in Slots |-> enables'[s]],
           words' = [b \in BlockIds |-> [s \in Slots |-> words'[b][s]]],
           packets' = [s \in Slots |-> packets'[s]]
    PROVE  Shape'
<1>1. panel' # NoPanel /\ PanelShape'
  BY InsideFacts
<1>2. QED BY <1>1 DEF Shape

(* The FIFOs are functions over blocks and slots.                          *)
LEMMA ShapeFacts ==
    ASSUME IInv
    PROVE  /\ enables = [s \in Slots |-> enables[s]]
           /\ words = [b \in BlockIds |-> [s \in Slots |-> words[b][s]]]
           /\ packets = [s \in Slots |-> packets[s]]
BY DEF IInv, Shape

(* One word more or less in a packed stream. *)
WordsGrid == words = [c \in BlockIds |-> [s \in Slots |-> words[c][s]]]
WordsBecome(b, t, x) == words' = [words EXCEPT ![b][t] = x]
(* Only one stream of the grid changes.                                    *)
LEMMA WordsPut ==
    ASSUME IInv, NEW b \in BlockIds, NEW t \in Slots, NEW x,
           WordsBecome(b, t, x)
    PROVE  /\ WordsGrid' /\ words'[b][t] = x
           /\ \A c \in BlockIds, s \in Slots : c # b \/ s # t => words'[c][s] = words[c][s]
<1> DEFINE row == words[b]
           h == [row EXCEPT ![t] = x]
           f == words
           g == words'
<1>1. words = [c \in BlockIds |-> [s \in Slots |-> words[c][s]]]
  BY ShapeFacts
<1>2. f = [c \in BlockIds |-> f[c]]
  BY <1>1
<1>3. \A c \in BlockIds : f[c] = [s \in Slots |-> f[c][s]]
  BY <1>1
<1>4. g = [f EXCEPT ![b] = h] /\ row = f[b]
  BY DEF WordsBecome
<1>5. h = [s \in Slots |-> h[s]] /\ h[t] = x /\ \A s \in Slots : s # t => h[s] = row[s]
  <2>1. row = [s \in Slots |-> row[s]]
    BY <1>3
  <2>2. h = [row EXCEPT ![t] = x]
    OBVIOUS
  <2> HIDE DEF row, h
  <2>3. QED BY <2>1, <2>2, Put
<1> HIDE DEF row, h, f, g
<1>6. g = [c \in BlockIds |-> g[c]] /\ g[b] = h /\ \A c \in BlockIds : c # b => g[c] = f[c]
  BY <1>2, <1>4, Put
<1>7. \A c \in BlockIds : g[c] = [s \in Slots |-> g[c][s]]
  <2>1. TAKE c \in BlockIds
  <2>2. CASE c = b
    BY <1>5, <1>6, <2>2
  <2>3. CASE c # b
    BY <1>3, <1>6, <2>3
  <2>4. QED BY <2>2, <2>3
<1>8. g[b][t] = x /\ \A c \in BlockIds, s \in Slots : c # b \/ s # t => g[c][s] = f[c][s]
  BY <1>4, <1>5, <1>6
<1>9. WordsGrid'
  <2>1. g = [c \in BlockIds |-> [s \in Slots |-> g[c][s]]]
    BY <1>6, <1>7
  <2>2. QED BY <2>1 DEF WordsGrid, g
<1>10. QED BY <1>8, <1>9 DEF f, g

(* What the invariant says of one slot. *)
LEMMA SlotFacts ==
    ASSUME IInv, panel # NoPanel, NEW s \in Slots
    PROVE  /\ EmitterAt(s)
           /\ FlagsRead(s) <= Dealt(distributed, s)
           /\ enables[s] = [i \in 1..(Dealt(distributed, s) - FlagsRead(s)) |-> Enabled(s)]
           /\ \A b \in BlockIds :
                /\ WordsRead(b, s) <= Dealt(loader[b], s)
                /\ words[b][s] = ItemsFrom(b, s, WordsRead(b, s), Dealt(loader[b], s))
           /\ emitter[s].tile =
                [i \in 1..Len(emitter[s].tile) |-> Item(i - 1, s, TilesDone(s))]
           /\ ~Enabled(s) => packets[s] = << >>
           /\ Enabled(s) => /\ Driven(s) <= Emitted(s)
                            /\ packets[s] = CarriedFrom(s, Driven(s), Emitted(s))
<1>1. EmitterAt(s) /\ FlagsRead(s) <= Dealt(distributed, s)
      /\ enables[s] = [i \in 1..(Dealt(distributed, s) - FlagsRead(s)) |-> Enabled(s)]
  BY DEF IInv, Loops, Flags
<1>2. \A b \in BlockIds : /\ WordsRead(b, s) \in Nat /\ Dealt(loader[b], s) \in Nat
                          /\ TilesDone(s) \in Nat
                          /\ Driven(s) \in Nat /\ Emitted(s) \in Nat
  BY Numbers
<1>3. TilesDone(s) \in Nat /\ Driven(s) \in Nat /\ Emitted(s) \in Nat
  BY Numbers
<1>4. \A b \in BlockIds :
                /\ WordsRead(b, s) <= Dealt(loader[b], s)
                /\ words[b][s] = ItemsFrom(b, s, WordsRead(b, s), Dealt(loader[b], s))
  BY <1>2 DEF IInv, Words
<1>5. emitter[s].tile =
                [i \in 1..Len(emitter[s].tile) |-> Item(i - 1, s, TilesDone(s))]
  BY <1>3 DEF IInv, Tile
<1>6. /\ ~Enabled(s) => packets[s] = << >>
      /\ Enabled(s) => /\ Driven(s) <= Emitted(s)
                       /\ packets[s] = CarriedFrom(s, Driven(s), Emitted(s))
  BY <1>3 DEF IInv, Packets
<1>7. QED BY <1>1, <1>4, <1>5, <1>6

(* The loops of the sides that do not move. *)
LEMMA LoopsKept ==
    ASSUME IInv, Inside,
           distributed' \in 0..(WaveCount * SlotCount),
           loader' = [b \in BlockIds |-> loader'[b]],
           \A b \in BlockIds : loader'[b] \in 0..(WaveCount * (ActiveTiles * SlotCount)),
           emitter' = [s \in Slots |-> emitter'[s]],
           \A s \in Slots : EmitterAt(s)',
           driver' = [wave |-> driver'.wave, k |-> driver'.k, read |-> driver'.read],
           driver'.wave \in 0..WaveCount,
           driver'.k \in 0..(panel.active - 1),
           driver'.read \in 0..(Len(BeatOrder) - 1),
           driver'.wave = WaveCount => driver'.k = 0 /\ driver'.read = 0
    PROVE  Loops'
<1>1. /\ ActiveTiles' = ActiveTiles /\ WaveCount' = WaveCount /\ BeatOrder' = BeatOrder
      /\ panel' = panel
  BY InsideFacts DEF Inside
<1>2. QED BY <1>1 DEF Loops

(* The conjuncts of Loops.                                                 *)
LEMMA LoopFacts ==
    ASSUME IInv, panel # NoPanel
    PROVE  /\ distributed \in 0..(WaveCount * SlotCount)
           /\ loader = [b \in BlockIds |-> loader[b]]
           /\ \A b \in BlockIds : loader[b] \in 0..(WaveCount * (ActiveTiles * SlotCount))
           /\ emitter = [s \in Slots |-> emitter[s]]
           /\ \A s \in Slots : EmitterAt(s)
           /\ driver = [wave |-> driver.wave, k |-> driver.k, read |-> driver.read]
           /\ driver.wave \in 0..WaveCount
           /\ driver.k \in 0..(panel.active - 1)
           /\ driver.read \in 0..(Len(BeatOrder) - 1)
           /\ driver.wave = WaveCount => driver.k = 0 /\ driver.read = 0
BY DEF IInv, Loops

(* An emitter that does not move has the same counts.                      *)
LEMMA EmitterKept ==
    ASSUME IInv, Inside, NEW s \in Slots, emitter'[s] = emitter[s]
    PROVE  /\ EmitterAt(s)' /\ emitter'[s].tile = emitter[s].tile
           /\ FlagsRead(s)' = FlagsRead(s) /\ TilesDone(s)' = TilesDone(s)
           /\ Emitted(s)' = Emitted(s)
           /\ \A b : WordsRead(b, s)' = WordsRead(b, s)
<1>1. /\ ActiveTiles' = ActiveTiles /\ WaveCount' = WaveCount
      /\ PacketCount' = PacketCount /\ Enabled(s)' = Enabled(s)
  BY InsideFacts
<1>2. EmitterAt(s)
  BY SlotFacts DEF Inside
<1>3. EmitterAt(s)'
  BY <1>1, <1>2 DEF EmitterAt
<1>4. FlagsRead(s)' = FlagsRead(s)
  BY DEF FlagsRead
<1>5. TilesDone(s)' = TilesDone(s)
  BY <1>1 DEF TilesDone
<1>6. Emitted(s)' = Emitted(s)
  BY <1>1 DEF Emitted
<1>7. \A b : WordsRead(b, s)' = WordsRead(b, s)
  BY <1>5 DEF WordsRead
<1>8. QED BY <1>3, <1>4, <1>5, <1>6, <1>7

(* A driver that does not move has read the same packets.                  *)
LEMMA DriverKept ==
    ASSUME IInv, Inside, NEW s \in Slots, driver' = driver
    PROVE  Driven(s)' = Driven(s)
<1>1. panel' = panel /\ BeatOrder' = BeatOrder
  BY InsideFacts DEF Inside
<1>2. ReadThisBeat(s)' = ReadThisBeat(s)
  BY <1>1 DEF ReadThisBeat
<1>3. QED BY <1>1, <1>2 DEF Driven

(* A FIFO of equal flags. *)
LEMMA Constant ==
    ASSUME NEW v, NEW n \in Nat, NEW q, q = [i \in 1..n |-> v]
    PROVE  /\ Append(q, v) = [i \in 1..(n + 1) |-> v]
           /\ q # << >> => /\ n # 0 /\ Head(q) = v
                           /\ Tail(q) = [i \in 1..(n - 1) |-> v]
<1> DEFINE f == [k \in Nat |-> v]
<1>1. q = [i \in 1..(n - 0) |-> f[0 + i - 1]]
  <2>1. n - 0 = n /\ \A i \in 1..n : 0 + i - 1 \in Nat
    OBVIOUS
  <2>2. \A i \in 1..n : f[0 + i - 1] = v
    BY <2>1
  <2> HIDE DEF f
  <2>3. QED BY <2>1, <2>2
<1>2. [i \in 1..((n + 1) - 0) |-> f[0 + i - 1]] = [i \in 1..(n + 1) |-> v]
  <2>1. (n + 1) - 0 = n + 1 /\ \A i \in 1..(n + 1) : 0 + i - 1 \in Nat
    OBVIOUS
  <2>2. \A i \in 1..(n + 1) : f[0 + i - 1] = v
    BY <2>1
  <2> HIDE DEF f
  <2>3. QED BY <2>1, <2>2
<1>3. [i \in 1..(n - (0 + 1)) |-> f[(0 + 1) + i - 1]] = [i \in 1..(n - 1) |-> v]
  <2>1. n - (0 + 1) = n - 1 /\ \A i \in 1..(n - 1) : (0 + 1) + i - 1 \in Nat
    OBVIOUS
  <2>2. \A i \in 1..(n - 1) : f[(0 + 1) + i - 1] = v
    BY <2>1
  <2> HIDE DEF f
  <2>3. QED BY <2>1, <2>2
<1>4. f[n] = v /\ f[0] = v
  OBVIOUS
<1> HIDE DEF f
<1>5. /\ Append(q, f[n]) = [i \in 1..((n + 1) - 0) |-> f[0 + i - 1]]
      /\ q # << >> =>
                /\ 0 + 1 <= n /\ Head(q) = f[0]
                /\ Tail(q) = [i \in 1..(n - (0 + 1)) |-> f[(0 + 1) + i - 1]]
  BY <1>1, Stream
<1>6. 0 + 1 <= n => n # 0
  OBVIOUS
<1>7. QED BY <1>2, <1>3, <1>4, <1>5, <1>6

-----------------------------------------------------------------------------
(* The flags of a wave are written. *)
LEMMA DistributeIInv == IInv /\ Distribute => IInv'
<1> SUFFICES ASSUME IInv, Distribute PROVE IInv'
  OBVIOUS
<1> DEFINE slot == distributed % SlotCount
<1>1. /\ panel # NoPanel /\ distributed < WaveCount * SlotCount
      /\ enables' = [enables EXCEPT ![slot] = Append(@, Enabled(slot))]
      /\ distributed' = distributed + 1
      /\ UNCHANGED <<panel, begin, end, loader, emitter, driver, words, packets>>
  BY DEF Distribute
<1>2. Inside
  BY <1>1 DEF Inside
<1>3. distributed \in Nat /\ SlotCount \in Nat \ {0} /\ Slots = 0..(SlotCount - 1)
  BY <1>1, Numbers, Sizes
<1>4. slot \in Slots
  BY <1>3, Division
<1>5. /\ enables = [s \in Slots |-> enables[s]]
      /\ words = [b \in BlockIds |-> [s \in Slots |-> words[b][s]]]
      /\ packets = [s \in Slots |-> packets[s]]
  BY ShapeFacts
<1> DEFINE x == Append(enables[slot], Enabled(slot))
<1>6. enables' = [enables EXCEPT ![slot] = x]
  BY <1>1
<1>7. /\ enables' = [s \in Slots |-> enables'[s]] /\ enables'[slot] = x
      /\ \A s \in Slots : s # slot => enables'[s] = enables[s]
  <2> HIDE DEF slot, x
  <2> QED BY <1>4, <1>5, <1>6, Put
<1>8. Shape'
  BY <1>1, <1>2, <1>5, <1>7, ShapeKept
<1>9. \A s \in Slots : /\ EmitterAt(s)' /\ emitter'[s].tile = emitter[s].tile
           /\ FlagsRead(s)' = FlagsRead(s) /\ TilesDone(s)' = TilesDone(s)
           /\ Emitted(s)' = Emitted(s) /\ Driven(s)' = Driven(s)
           /\ \A b : WordsRead(b, s)' = WordsRead(b, s)
  BY <1>1, <1>2, EmitterKept, DriverKept
<1>10. Loops'
  <2>1. WaveCount * SlotCount \in Nat
    <3>1. PanelShape
      BY <1>2, InsideFacts
    <3>2. WaveCount \in Nat
      BY <3>1, PanelNumbers
    <3>3. QED BY <1>3, <3>2, Product
  <2>2. distributed' \in 0..(WaveCount * SlotCount)
    <3> HIDE DEF slot
    <3> QED BY <1>1, <1>3, <2>1
  <2> HIDE DEF slot, x
  <2>3. QED BY <1>1, <1>2, <1>9, <2>2, LoopFacts, LoopsKept
<1>11. Flags'
  <2>1. SUFFICES ASSUME NEW s \in Slots
                 PROVE  /\ FlagsRead(s)' <= Dealt(distributed', s)
                        /\ enables'[s] = [i \in 1..(Dealt(distributed', s) - FlagsRead(s)') |->
                                           Enabled(s)']
    BY DEF Flags, Dealt
  <2> DEFINE on == Enabled(s)
             on1 == Enabled(s)'
             read == FlagsRead(s)
             read1 == FlagsRead(s)'
             d == Dealt(distributed, s)
             d1 == Dealt(distributed', s)
  <2>2. read1 = read /\ on1 = on
    BY <1>2, <1>9, InsideFacts
  <2>3. read \in Nat /\ d \in Nat
    BY <1>1, Numbers
  <2>4. read <= d /\ enables[s] = [i \in 1..(d - read) |-> on]
    BY <1>1, SlotFacts
  <2>5. d1 = d + (IF s = slot THEN 1 ELSE 0)
    <3>1. Dealt(distributed + 1, s) = d + (IF s = slot THEN 1 ELSE 0)
      BY <1>3, DealtNext
    <3>2. QED BY <1>1, <3>1
  <2>6. IF s = slot THEN enables'[s] = Append(enables[s], on) ELSE enables'[s] = enables[s]
    BY <1>7
  <2> HIDE DEF on, on1, read, read1, d, d1, slot
  <2>7. read1 <= d1 /\ enables'[s] = [i \in 1..(d1 - read1) |-> on1]
    <3>1. CASE s = slot
      <4>1. d - read \in Nat /\ (d - read) + 1 = d1 - read1 /\ read1 <= d1
        BY <2>2, <2>3, <2>4, <2>5, <3>1
      <4>2. Append(enables[s], on) = [i \in 1..((d - read) + 1) |-> on]
        BY <2>4, <4>1, Constant
      <4>3. QED BY <2>2, <2>6, <3>1, <4>1, <4>2
    <3>2. CASE s # slot
      <4>1. d1 = d
        BY <2>3, <2>5, <3>2
      <4>2. QED BY <2>2, <2>4, <2>6, <3>2, <4>1
    <3>3. QED BY <3>1, <3>2
  <2>8. QED BY <2>7 DEF on1, read1, d1
<1>12. Words'
  <2> HIDE DEF slot, x
  <2> QED BY <1>1, <1>2, <1>9, WordsKept
<1>13. Tile'
  BY <1>2, <1>9, TileKept
<1>14. Packets'
  <2> HIDE DEF slot, x
  <2> QED BY <1>1, <1>2, <1>9, PacketsKept
<1>15. QED BY <1>8, <1>10, <1>11, <1>12, <1>13, <1>14 DEF IInv
(* A loader writes the next word, the one the next tile of its slot needs. *)
LEMMA LoadIInv == ASSUME IInv, NEW b \in BlockIds, Load(b) PROVE IInv'
<1> DEFINE L == loader[b]
           perWave == ActiveTiles * SlotCount
           flat == L % perWave
           slot == flat % SlotCount
           word == WordAt(b, begin + (L \div perWave), flat \div SlotCount, slot)
<1>1. /\ panel # NoPanel /\ L < WaveCount * perWave
      /\ words' = [words EXCEPT ![b][slot] = Append(@, word)]
      /\ loader' = [loader EXCEPT ![b] = @ + 1]
      /\ UNCHANGED <<panel, begin, end, distributed, emitter, driver, enables, packets>>
  BY DEF Load
<1>2. Inside /\ PanelShape
  BY <1>1, InsideFacts DEF Inside
<1>3. /\ L \in Nat /\ SlotCount \in Nat \ {0} /\ Slots = 0..(SlotCount - 1)
      /\ ActiveTiles \in Nat \ {0} /\ WaveCount \in Nat /\ perWave \in Nat
  BY <1>1, <1>2, Numbers, Sizes, PanelNumbers
<1> DEFINE n == L \div SlotCount
<1>4. slot = L % SlotCount /\ L \div perWave = n \div ActiveTiles
      /\ flat \div SlotCount = n % ActiveTiles
  BY <1>3, MixedRadix
<1>5. word = Item(b, slot, n)
  <2>1. WordAt(b, begin + (L \div perWave), flat \div SlotCount, slot)
          = WordAt(b, begin + (n \div ActiveTiles), n % ActiveTiles, slot)
    <3> HIDE DEF n, slot, flat, perWave, L
    <3> QED BY <1>4
  <2> HIDE DEF n, slot, flat, perWave, L
  <2>2. QED BY <2>1 DEF Item
<1>6. slot \in Slots
  BY <1>3, <1>4, Division
<1>7. Dealt(L, slot) = n
  BY <1>3, <1>4, <1>6, DealtNext
<1> HIDE DEF word, slot, flat, n
<1>8. /\ enables = [s \in Slots |-> enables[s]]
      /\ words = [c \in BlockIds |-> [s \in Slots |-> words[c][s]]]
      /\ packets = [s \in Slots |-> packets[s]]
  BY ShapeFacts
<1> DEFINE x == Append(words[b][slot], word)
<1>9. words' = [words EXCEPT ![b][slot] = x]
  BY <1>1
<1>10. /\ WordsGrid' /\ words'[b][slot] = x
       /\ \A c \in BlockIds, s \in Slots : c # b \/ s # slot => words'[c][s] = words[c][s]
  <2>1. WordsBecome(b, slot, x)
    BY <1>9 DEF WordsBecome
  <2> HIDE DEF x
  <2>2. /\ WordsGrid' /\ words'[b][slot] = x
        /\ \A c \in BlockIds, s \in Slots : c # b \/ s # slot => words'[c][s] = words[c][s]
    BY <1>6, <2>1, WordsPut
  <2>3. QED BY <2>2
<1>11. Shape'
  <2>1. words' = [c \in BlockIds |-> [s \in Slots |-> words'[c][s]]]
    BY <1>10 DEF WordsGrid
  <2>2. QED BY <1>1, <1>2, <1>8, <2>1, ShapeKept
<1>12. \A s \in Slots : /\ EmitterAt(s)' /\ emitter'[s].tile = emitter[s].tile
           /\ FlagsRead(s)' = FlagsRead(s) /\ TilesDone(s)' = TilesDone(s)
           /\ Emitted(s)' = Emitted(s) /\ Driven(s)' = Driven(s)
           /\ \A c : WordsRead(c, s)' = WordsRead(c, s)
  BY <1>1, <1>2, EmitterKept, DriverKept
<1>13. loader = [c \in BlockIds |-> loader[c]]
  BY <1>1, LoopFacts
<1>14. /\ loader' = [c \in BlockIds |-> loader'[c]] /\ loader'[b] = L + 1
       /\ \A c \in BlockIds : c # b => loader'[c] = loader[c]
  <2> DEFINE y == loader[b] + 1
  <2>1. loader' = [loader EXCEPT ![b] = y]
    BY <1>1
  <2> HIDE DEF y
  <2>2. /\ loader' = [c \in BlockIds |-> loader'[c]] /\ loader'[b] = y
       /\ \A c \in BlockIds : c # b => loader'[c] = loader[c]
    BY <1>13, <2>1, Put
  <2>3. QED BY <2>2 DEF y
<1>15. Loops'
  <2>1. WaveCount * perWave \in Nat
    BY <1>3, Product
  <2> HIDE DEF L
  <2>2. \A c \in BlockIds : loader'[c] \in 0..(WaveCount * perWave)
    <3>1. TAKE c \in BlockIds
    <3>2. CASE c = b
      <4> HIDE DEF perWave
      <4>1. L + 1 \in 0..(WaveCount * perWave)
        BY <1>1, <1>3, <2>1
      <4>2. QED BY <1>14, <3>2, <4>1
    <3>3. CASE c # b
      BY <1>1, <1>14, <3>3, LoopFacts
    <3>4. QED BY <3>2, <3>3
  <2>3. QED BY <1>1, <1>2, <1>12, <1>14, <2>2, LoopFacts, LoopsKept
<1>16. Flags'
  BY <1>1, <1>2, <1>12, FlagsKept
<1>17. Words'
  <2>1. SUFFICES ASSUME NEW c \in BlockIds, NEW s \in Slots, NEW r \in Nat, NEW w \in Nat,
                        r = WordsRead(c, s)', w = Dealt(loader'[c], s)
                 PROVE  r <= w /\ words'[c][s] = ItemsFrom(c, s, r, w)'
    BY DEF Words, Dealt
  <2>2. r = WordsRead(c, s) /\ ItemsFrom(c, s, r, w)' = ItemsFrom(c, s, r, w)
    BY <1>2, <1>12, <2>1, InsideFacts
  <2> DEFINE d == Dealt(loader[c], s)
  <2>3. d \in Nat /\ r <= d /\ words[c][s] = ItemsFrom(c, s, r, d)
    BY <1>1, <2>2, SlotFacts, Numbers
  <2>4. CASE c = b /\ s = slot
    <3>1. d = n
      BY <1>7, <2>4
    <3>2. w = d + 1
      <4>1. s = L % SlotCount
        BY <1>4, <2>4
      <4>2. Dealt(L + 1, s) = Dealt(L, s) + 1
        BY <1>3, <4>1, DealtNext
      <4>3. QED BY <1>14, <2>1, <2>4, <4>2
    <3>3. words'[c][s] = Append(words[c][s], Item(c, s, d))
      BY <1>5, <1>10, <2>4, <3>1
    <3> HIDE DEF d
    <3>4. Append(ItemsFrom(c, s, r, d), Item(c, s, d)) = ItemsFrom(c, s, r, d + 1)
      BY <2>3, Items
    <3>5. r <= w
      BY <2>3, <3>2
    <3>6. QED BY <2>2, <2>3, <3>2, <3>3, <3>4, <3>5
  <2>5. CASE ~(c = b /\ s = slot)
    <3>1. words'[c][s] = words[c][s]
      BY <1>10, <2>5
    <3>2. w = d
      <4>1. CASE c # b
        BY <1>14, <2>1, <4>1
      <4>2. CASE c = b
        <5>1. s # L % SlotCount
          BY <1>4, <2>5, <4>2
        <5>2. Dealt(L + 1, s) = Dealt(L, s) + 0
          BY <1>3, <5>1, DealtNext
        <5>3. Dealt(L, s) \in Nat
          BY <1>3, DealtNext
        <5>4. QED BY <1>14, <2>1, <4>2, <5>2, <5>3
      <4>3. QED BY <4>1, <4>2
    <3> HIDE DEF d
    <3>3. QED BY <2>2, <2>3, <3>1, <3>2
  <2>6. QED BY <2>4, <2>5
<1>18. Tile'
  BY <1>2, <1>12, TileKept
<1>19. Packets'
  BY <1>1, <1>2, <1>12, PacketsKept
<1>20. QED BY <1>11, <1>15, <1>16, <1>17, <1>18, <1>19 DEF IInv

-----------------------------------------------------------------------------
(* An emitter moves. *)
Emitting(a, o, c, d, e) ==
    [wave |-> a, open |-> o, on |-> c, tile |-> d, packet |-> e]
(* What an emitter's new position must satisfy.                            *)
LEMMA EmitterNow ==
    ASSUME IInv, Inside, NEW s \in Slots,
           emitter'[s] = Emitting(emitter'[s].wave, emitter'[s].open, emitter'[s].on,
                                  emitter'[s].tile, emitter'[s].packet),
           emitter'[s].wave \in 0..WaveCount, emitter'[s].open \in BOOLEAN,
           emitter'[s].packet \in 0..(PacketCount - 1),
           emitter'[s].open => emitter'[s].wave < WaveCount /\ emitter'[s].on = Enabled(s),
           ~emitter'[s].open => emitter'[s].packet = 0 /\ emitter'[s].tile = << >>,
           Len(emitter'[s].tile) \in 0..Blocks,
           emitter'[s].packet % PeIn # 0 => Len(emitter'[s].tile) = Blocks
    PROVE  EmitterAt(s)'
<1>1. /\ ActiveTiles' = ActiveTiles /\ WaveCount' = WaveCount
      /\ PacketCount' = PacketCount /\ Enabled(s)' = Enabled(s)
  BY InsideFacts
<1>2. QED BY <1>1 DEF EmitterAt, Emitting

(* The counts at an emitter's new position.                                *)
LEMMA CountsNow ==
    ASSUME IInv, Inside, NEW s \in Slots
    PROVE  /\ FlagsRead(s)' = emitter'[s].wave + (IF emitter'[s].open THEN 1 ELSE 0)
           /\ TilesDone(s)' = emitter'[s].wave * ActiveTiles + (emitter'[s].packet \div PeIn)
           /\ Emitted(s)' = emitter'[s].wave * PacketCount + emitter'[s].packet
           /\ \A b : WordsRead(b, s)' = TilesDone(s)'
                                          + (IF b < Len(emitter'[s].tile) THEN 1 ELSE 0)
<1>1. ActiveTiles' = ActiveTiles /\ PacketCount' = PacketCount
  BY InsideFacts
<1>2. QED BY <1>1 DEF FlagsRead, TilesDone, Emitted, WordsRead

(* The record of the emitter that moves. *)
LEMMA EmitterFacts ==
    ASSUME IInv, panel # NoPanel, NEW s \in Slots,
           NEW a, NEW o, NEW c, NEW d, NEW e,
           a = emitter[s].wave, o = emitter[s].open, c = emitter[s].on,
           d = emitter[s].tile, e = emitter[s].packet
    PROVE  /\ emitter[s] = Emitting(a, o, c, d, e)
           /\ a \in 0..WaveCount /\ o \in BOOLEAN /\ e \in 0..(PacketCount - 1)
           /\ o => a < WaveCount /\ c = Enabled(s)
           /\ ~o => e = 0 /\ d = << >>
           /\ Len(d) \in 0..Blocks
           /\ e % PeIn # 0 => Len(d) = Blocks
           /\ FlagsRead(s) = a + (IF o THEN 1 ELSE 0)
           /\ TilesDone(s) = a * ActiveTiles + (e \div PeIn)
           /\ Emitted(s) = a * PacketCount + e
           /\ \A b : WordsRead(b, s) = TilesDone(s) + (IF b < Len(d) THEN 1 ELSE 0)
<1>1. EmitterAt(s)
  BY SlotFacts
<1>2. /\ emitter[s] = Emitting(a, o, c, d, e)
      /\ a \in 0..WaveCount /\ o \in BOOLEAN /\ e \in 0..(PacketCount - 1)
      /\ o => a < WaveCount /\ c = Enabled(s)
      /\ ~o => e = 0 /\ d = << >>
      /\ Len(d) \in 0..Blocks
      /\ e % PeIn # 0 => Len(d) = Blocks
  BY <1>1 DEF EmitterAt, Emitting
<1>3. /\ FlagsRead(s) = a + (IF o THEN 1 ELSE 0)
      /\ TilesDone(s) = a * ActiveTiles + (e \div PeIn)
      /\ Emitted(s) = a * PacketCount + e
      /\ \A b : WordsRead(b, s) = TilesDone(s) + (IF b < Len(d) THEN 1 ELSE 0)
  BY DEF FlagsRead, TilesDone, Emitted, WordsRead
<1>4. QED BY <1>2, <1>3

(* The emitter of one slot is replaced. *)
EmitterBecomes(s, x) == emitter' = [emitter EXCEPT ![s] = x]
(* The other emitters stay where they are.                                 *)
LEMMA EmitterPut ==
    ASSUME IInv, panel # NoPanel, NEW s \in Slots, NEW x, EmitterBecomes(s, x)
    PROVE  /\ emitter' = [q \in Slots |-> emitter'[q]] /\ emitter'[s] = x
           /\ \A q \in Slots : q # s => emitter'[q] = emitter[q]
<1> DEFINE f == emitter
           g == emitter'
<1>1. f = [q \in Slots |-> f[q]] /\ g = [f EXCEPT ![s] = x]
  BY LoopFacts DEF EmitterBecomes
<1> HIDE DEF f, g
<1>2. /\ g = [q \in Slots |-> g[q]] /\ g[s] = x
      /\ \A q \in Slots : q # s => g[q] = f[q]
  BY <1>1, Put
<1>3. QED BY <1>2 DEF f, g

(* An emitter reads its flag. *)
LEMMA ReadEnableIInv == ASSUME IInv, NEW s \in Slots, ReadEnable(s) PROVE IInv'
<1>1. /\ panel # NoPanel
      /\ emitter[s].wave < WaveCount /\ ~ emitter[s].open
      /\ enables[s] # << >>
      /\ emitter' = [emitter EXCEPT ![s].open = TRUE, ![s].on = Head(enables[s])]
      /\ enables' = [enables EXCEPT ![s] = Tail(@)]
      /\ UNCHANGED <<panel, begin, end, distributed, loader, driver, words, packets>>
  BY DEF ReadEnable
<1>2. Inside /\ PanelShape
  BY <1>1, InsideFacts DEF Inside
<1> DEFINE a == emitter[s].wave
           o == emitter[s].open
           c == emitter[s].on
           d == emitter[s].tile
           e == emitter[s].packet
<1> HIDE DEF a, o, c, d, e
<1>3. /\ emitter[s] = Emitting(a, o, c, d, e)
      /\ a \in 0..WaveCount /\ o \in BOOLEAN /\ e \in 0..(PacketCount - 1)
      /\ ~o => e = 0 /\ d = << >>
      /\ Len(d) \in 0..Blocks
      /\ e % PeIn # 0 => Len(d) = Blocks
      /\ FlagsRead(s) = a + (IF o THEN 1 ELSE 0)
      /\ TilesDone(s) = a * ActiveTiles + (e \div PeIn)
      /\ Emitted(s) = a * PacketCount + e
      /\ \A b : WordsRead(b, s) = TilesDone(s) + (IF b < Len(d) THEN 1 ELSE 0)
  BY <1>1, EmitterFacts DEF a, o, c, d, e
<1>4. a < WaveCount /\ o = FALSE
  BY <1>1, <1>3 DEF a, o
<1> DEFINE n == Dealt(distributed, s) - FlagsRead(s)
           on == Enabled(s)
           t == Tail(enables[s])
<1>5. /\ FlagsRead(s) \in Nat /\ Dealt(distributed, s) \in Nat
      /\ FlagsRead(s) <= Dealt(distributed, s) /\ n \in Nat
  <2>1. FlagsRead(s) \in Nat /\ Dealt(distributed, s) \in Nat
    BY <1>1, Numbers
  <2>2. FlagsRead(s) <= Dealt(distributed, s)
    BY <1>1, SlotFacts
  <2>3. QED BY <2>1, <2>2
<1>6. enables[s] = [i \in 1..n |-> on]
  BY <1>1, SlotFacts
<1>7. n # 0 /\ Head(enables[s]) = on /\ t = [i \in 1..(n - 1) |-> on]
  <2> HIDE DEF n, on
  <2>1. /\ n # 0 /\ Head(enables[s]) = on
        /\ Tail(enables[s]) = [i \in 1..(n - 1) |-> on]
    BY <1>1, <1>5, <1>6, Constant
  <2>2. QED BY <2>1
<1>8. /\ emitter' = [q \in Slots |-> emitter'[q]]
      /\ emitter'[s] = Emitting(a, TRUE, on, d, e)
      /\ \A q \in Slots : q # s => emitter'[q] = emitter[q]
  <2> DEFINE r == emitter[s]
             yes == TRUE
             r1 == [r EXCEPT !.open = yes]
             r2 == [r1 EXCEPT !.on = on]
  <2>1. emitter = [q \in Slots |-> emitter[q]]
    BY <1>1, LoopFacts
  <2>2. EmitterBecomes(s, r2)
    <3>1. emitter' = [emitter EXCEPT ![s].open = yes, ![s].on = on]
      BY <1>1, <1>7
    <3> HIDE DEF yes, on
    <3>2. [emitter EXCEPT ![s].open = yes, ![s].on = on] = [emitter EXCEPT ![s] = r2]
      BY <2>1
    <3>3. QED BY <3>1, <3>2 DEF EmitterBecomes
  <2>3. r = Emitting(a, o, c, d, e)
    BY <1>3
  <2> HIDE DEF r, yes, on
  <2>4. r1 = Emitting(a, yes, c, d, e)
    BY <2>3 DEF Emitting
  <2> HIDE DEF r1
  <2>5. r2 = Emitting(a, yes, on, d, e)
    BY <2>4 DEF Emitting
  <2> HIDE DEF r2
  <2>6. /\ emitter' = [q \in Slots |-> emitter'[q]] /\ emitter'[s] = r2
        /\ \A q \in Slots : q # s => emitter'[q] = emitter[q]
    BY <1>1, <2>2, EmitterPut
  <2>7. QED BY <2>5, <2>6 DEF yes
<1>9. /\ enables' = [q \in Slots |-> enables'[q]] /\ enables'[s] = t
      /\ \A q \in Slots : q # s => enables'[q] = enables[q]
  <2> DEFINE f == enables
             g == enables'
  <2>1. f = [q \in Slots |-> f[q]]
    BY ShapeFacts
  <2>2. g = [f EXCEPT ![s] = t]
    BY <1>1
  <2> HIDE DEF f, g, t
  <2>3. /\ g = [q \in Slots |-> g[q]] /\ g[s] = t
        /\ \A q \in Slots : q # s => g[q] = f[q]
    BY <2>1, <2>2, Put
  <2>4. QED BY <2>3 DEF f, g
<1>10. Shape'
  BY <1>1, <1>2, <1>9, ShapeFacts, ShapeKept
<1> HIDE DEF n, on, t
<1>11. /\ EmitterAt(s)' /\ emitter'[s].tile = d
       /\ FlagsRead(s)' = a + 1
       /\ TilesDone(s)' = a * ActiveTiles + (e \div PeIn)
       /\ Emitted(s)' = a * PacketCount + e
       /\ \A b : WordsRead(b, s)' = a * ActiveTiles + (e \div PeIn)
                                          + (IF b < Len(d) THEN 1 ELSE 0)
  <2>1. /\ emitter'[s].wave = a /\ emitter'[s].open = TRUE /\ emitter'[s].on = on
        /\ emitter'[s].tile = d /\ emitter'[s].packet = e
    BY <1>8 DEF Emitting
  <2>2. emitter'[s] = Emitting(emitter'[s].wave, emitter'[s].open, emitter'[s].on,
                               emitter'[s].tile, emitter'[s].packet)
    BY <1>8, <2>1
  <2>3. EmitterAt(s)'
    BY <1>2, <1>3, <1>4, <2>1, <2>2, EmitterNow DEF on
  <2>4. /\ FlagsRead(s)' = a + 1
        /\ TilesDone(s)' = a * ActiveTiles + (e \div PeIn)
        /\ Emitted(s)' = a * PacketCount + e
        /\ \A b : WordsRead(b, s)' = TilesDone(s)' + (IF b < Len(d) THEN 1 ELSE 0)
    BY <1>2, <2>1, CountsNow
  <2>5. QED BY <2>1, <2>3, <2>4
<1>12. \A q \in Slots :
           /\ EmitterAt(q)' /\ emitter'[q].tile = emitter[q].tile
           /\ TilesDone(q)' = TilesDone(q) /\ Emitted(q)' = Emitted(q)
           /\ Driven(q)' = Driven(q)
           /\ \A b : WordsRead(b, q)' = WordsRead(b, q)
           /\ FlagsRead(q)' = FlagsRead(q) + (IF q = s THEN 1 ELSE 0)
  <2>1. TAKE q \in Slots
  <2>2. Driven(q)' = Driven(q)
    BY <1>1, <1>2, DriverKept
  <2>3. CASE q = s
    <3>1. FlagsRead(s) = a + 0 /\ a \in Int
      BY <1>3, <1>4
    <3>2. FlagsRead(s)' = FlagsRead(s) + 1
      BY <1>11, <3>1
    <3>3. TilesDone(s)' = TilesDone(s) /\ Emitted(s)' = Emitted(s)
          /\ emitter'[s].tile = emitter[s].tile
      BY <1>3, <1>11 DEF d
    <3>4. \A b : WordsRead(b, s)' = WordsRead(b, s)
      BY <1>3, <1>11
    <3>5. QED BY <1>11, <2>2, <2>3, <3>2, <3>3, <3>4
  <2>4. CASE q # s
    <3>1. emitter'[q] = emitter[q]
      BY <1>8, <2>4
    <3>2. FlagsRead(q) \in Nat
      BY <1>1, Numbers
    <3>3. QED BY <1>2, <2>2, <2>4, <3>1, <3>2, EmitterKept
  <2>5. QED BY <2>3, <2>4
<1>13. Loops'
  BY <1>1, <1>2, <1>8, <1>12, LoopFacts, LoopsKept
<1>14. Flags'
  <2>1. SUFFICES ASSUME NEW q \in Slots
                 PROVE  /\ FlagsRead(q)' <= Dealt(distributed', q)
                        /\ enables'[q] = [i \in 1..(Dealt(distributed', q) - FlagsRead(q)') |->
                                           Enabled(q)']
    BY DEF Flags, Dealt
  <2> DEFINE it == Enabled(q)
             it1 == Enabled(q)'
             read == FlagsRead(q)
             read1 == FlagsRead(q)'
             k == Dealt(distributed, q)
             k1 == Dealt(distributed', q)
  <2>2. it1 = it /\ k1 = k /\ read1 = read + (IF q = s THEN 1 ELSE 0)
    BY <1>1, <1>2, <1>12, InsideFacts
  <2>3. read \in Nat /\ k \in Nat
    BY <1>1, Numbers
  <2>4. read <= k /\ enables[q] = [i \in 1..(k - read) |-> it]
    BY <1>1, SlotFacts
  <2>5. q = s => k - read # 0 /\ enables'[q] = [i \in 1..((k - read) - 1) |-> it]
    BY <1>7, <1>9 DEF n, on
  <2>6. q # s => enables'[q] = enables[q]
    BY <1>9
  <2> HIDE DEF it, it1, read, read1, k, k1
  <2>7. read1 <= k1 /\ enables'[q] = [i \in 1..(k1 - read1) |-> it1]
    <3>1. CASE q = s
      <4>1. read1 <= k1 /\ k1 - read1 = (k - read) - 1
        BY <2>2, <2>3, <2>4, <2>5, <3>1
      <4>2. QED BY <2>2, <2>5, <3>1, <4>1
    <3>2. CASE q # s
      <4>1. read1 = read
        BY <2>2, <2>3, <3>2
      <4>2. QED BY <2>2, <2>4, <2>6, <3>2, <4>1
    <3>3. QED BY <3>1, <3>2
  <2>8. QED BY <2>7 DEF it1, read1, k1
<1>15. Words'
  BY <1>1, <1>2, <1>12, WordsKept
<1>16. Tile'
  BY <1>2, <1>12, TileKept
<1>17. Packets'
  BY <1>1, <1>2, <1>12, PacketsKept
<1>18. QED BY <1>10, <1>13, <1>14, <1>15, <1>16, <1>17 DEF IInv
(* The words of a tile, block by block. *)
LEMMA TileItems ==
    ASSUME NEW s, NEW n, NEW k \in Nat, NEW t,
           t = [i \in 1..k |-> Item(i - 1, s, n)]
    PROVE  Len(t) = k /\ Append(t, Item(k, s, n)) = [i \in 1..(k + 1) |-> Item(i - 1, s, n)]
<1> DEFINE f == [b \in Nat |-> Item(b, s, n)]
<1>1. \A i \in 1..(k + 1) : 0 + i - 1 \in Nat /\ 0 + i - 1 = i - 1
  OBVIOUS
<1>2. k - 0 = k /\ (k + 1) - 0 = k + 1 /\ 0 <= k
  OBVIOUS
<1>3. \A i \in 1..(k + 1) : f[0 + i - 1] = Item(i - 1, s, n)
  BY <1>1
<1>4. f[k] = Item(k, s, n)
  OBVIOUS
<1> HIDE DEF f
<1>5. t = [i \in 1..(k - 0) |-> f[0 + i - 1]]
  <2>1. \A i \in 1..k : i \in 1..(k + 1)
    OBVIOUS
  <2>2. QED BY <1>2, <1>3, <2>1
<1>6. [i \in 1..((k + 1) - 0) |-> f[0 + i - 1]] = [i \in 1..(k + 1) |-> Item(i - 1, s, n)]
  BY <1>2, <1>3
<1>7. Len(t) = k - 0 /\ Append(t, f[k]) = [i \in 1..((k + 1) - 0) |-> f[0 + i - 1]]
  BY <1>2, <1>5, Stream
<1>8. QED BY <1>2, <1>4, <1>6, <1>7

(* An emitter takes the next word of its tile. *)
LEMMA ReadWordIInv ==
    ASSUME IInv, panel # NoPanel, NEW s \in Slots, ReadWord(s) PROVE IInv'
<1> DEFINE a == emitter[s].wave
           o == emitter[s].open
           c == emitter[s].on
           d == emitter[s].tile
           e == emitter[s].packet
           b == Len(d)
           x == Append(d, Head(words[b][s]))
           t == Tail(words[b][s])
<1>1. /\ o /\ b < Blocks /\ words[b][s] # << >>
      /\ emitter' = [emitter EXCEPT ![s].tile = Append(@, Head(words[b][s]))]
      /\ words' = [words EXCEPT ![b][s] = Tail(@)]
      /\ UNCHANGED <<panel, begin, end, distributed, loader, driver, enables, packets>>
  BY DEF ReadWord, TakesWords
<1>2. Inside /\ PanelShape
  BY <1>1, InsideFacts DEF Inside
<1>3. words'[b][s] = words'[b][s] /\ WordsBecome(b, s, t)
  BY <1>1 DEF WordsBecome
<1>4. EmitterBecomes(s, [emitter[s] EXCEPT !.tile = x])
  <2>1. emitter = [q \in Slots |-> emitter[q]]
    BY LoopFacts
  <2>2. emitter' = [emitter EXCEPT ![s].tile = x]
    BY <1>1
  <2> HIDE DEF x
  <2>3. QED BY <2>1, <2>2 DEF EmitterBecomes
<1>5. o
  BY <1>1
<1>6. /\ emitter'[s].tile = x /\ x = Append(d, Head(words[b][s])) /\ t = Tail(words[b][s])
      /\ words[b][s] # << >> /\ b < Blocks /\ b = Len(d)
  <2>1. b < Blocks /\ words[b][s] # << >>
    BY <1>1
  <2>2. emitter'[s] = [emitter[s] EXCEPT !.tile = x]
    <3> HIDE DEF x
    <3> QED BY <1>4, EmitterPut
  <2>3. emitter[s] = Emitting(a, o, c, d, e)
    <3> HIDE DEF a, o, c, d, e
    <3> QED BY EmitterFacts DEF a, o, c, d, e
  <2>4. emitter'[s].tile = x
    <3> HIDE DEF x, a, o, c, d, e
    <3> QED BY <2>2, <2>3 DEF Emitting
  <2>5. QED BY <2>1, <2>4
<1> HIDE DEF a, o, c, d, e, b, x, t
<1>7. /\ emitter[s] = Emitting(a, o, c, d, e)
      /\ a \in 0..WaveCount /\ o \in BOOLEAN /\ e \in 0..(PacketCount - 1)
      /\ o => a < WaveCount /\ c = Enabled(s)
      /\ ~o => e = 0 /\ d = << >>
      /\ Len(d) \in 0..Blocks
      /\ e % PeIn # 0 => Len(d) = Blocks
      /\ FlagsRead(s) = a + (IF o THEN 1 ELSE 0)
      /\ TilesDone(s) = a * ActiveTiles + (e \div PeIn)
      /\ Emitted(s) = a * PacketCount + e
      /\ \A q : WordsRead(q, s) = TilesDone(s) + (IF q < Len(d) THEN 1 ELSE 0)
  BY EmitterFacts DEF a, o, c, d, e
<1>8. b \in BlockIds /\ b \in Nat
  <2>1. b \in 0..Blocks /\ Blocks \in Nat
    BY <1>6, <1>7, Sizes
  <2>2. QED BY <1>6, <2>1, Sizes
<1>9. /\ TilesDone(s) \in Nat /\ WordsRead(b, s) = TilesDone(s)
      /\ Dealt(loader[b], s) \in Nat /\ WordsRead(b, s) <= Dealt(loader[b], s)
      /\ words[b][s] = ItemsFrom(b, s, WordsRead(b, s), Dealt(loader[b], s))
  <2>1. TilesDone(s) \in Nat /\ Dealt(loader[b], s) \in Nat
    BY <1>8, Numbers
  <2>2. ~(b < Len(d))
    BY <1>6, <1>8
  <2>3. WordsRead(b, s) = TilesDone(s)
    BY <1>7, <2>1, <2>2
  <2>4. QED BY <1>8, <2>1, <2>3, SlotFacts
<1> DEFINE n == TilesDone(s)
           w == Dealt(loader[b], s)
<1>10. n + 1 <= w /\ Head(words[b][s]) = Item(b, s, n) /\ t = ItemsFrom(b, s, n + 1, w)
  <2>1. n \in Nat /\ w \in Nat /\ n <= w /\ words[b][s] = ItemsFrom(b, s, n, w)
    BY <1>9
  <2> HIDE DEF n, w
  <2>2. words[b][s] # << >>
    BY <1>6
  <2>3. ItemsFrom(b, s, n, w) # << >> =>
          /\ n + 1 <= w
          /\ Head(ItemsFrom(b, s, n, w)) = Item(b, s, n)
          /\ Tail(ItemsFrom(b, s, n, w)) = ItemsFrom(b, s, n + 1, w)
    BY <2>1, Items
  <2>4. QED BY <1>6, <2>1, <2>2, <2>3
<1>11. d = [i \in 1..b |-> Item(i - 1, s, n)]
  BY <1>6, SlotFacts DEF d
<1>12. x = [i \in 1..(b + 1) |-> Item(i - 1, s, n)] /\ Len(x) = b + 1
  <2>1. x = Append(d, Item(b, s, n))
    BY <1>6, <1>10
  <2>2. b + 1 \in Nat
    BY <1>8
  <2> HIDE DEF n
  <2>3. Append(d, Item(b, s, n)) = [i \in 1..(b + 1) |-> Item(i - 1, s, n)]
    BY <1>8, <1>11, TileItems
  <2>4. x = [i \in 1..(b + 1) |-> Item(i - 1, s, n)]
    BY <2>1, <2>3
  <2>5. QED BY <2>2, <2>4, TileItems
<1>13. /\ emitter' = [q \in Slots |-> emitter'[q]]
       /\ emitter'[s] = Emitting(a, o, c, x, e)
       /\ \A q \in Slots : q # s => emitter'[q] = emitter[q]
  <2> DEFINE r == [emitter[s] EXCEPT !.tile = x]
  <2>1. r = Emitting(a, o, c, x, e)
    BY <1>7 DEF Emitting
  <2>2. EmitterBecomes(s, r)
    BY <1>4
  <2> HIDE DEF r
  <2>3. QED BY <2>1, <2>2, EmitterPut
<1>14. /\ WordsGrid' /\ words'[b][s] = t
       /\ \A p \in BlockIds, q \in Slots : p # b \/ q # s => words'[p][q] = words[p][q]
  BY <1>3, <1>8, WordsPut
<1>15. Shape'
  <2>1. words' = [p \in BlockIds |-> [q \in Slots |-> words'[p][q]]]
    BY <1>14 DEF WordsGrid
  <2>2. QED BY <1>1, <1>2, <2>1, ShapeFacts, ShapeKept
<1>16. /\ emitter'[s].wave = a /\ emitter'[s].open = o /\ emitter'[s].on = c
       /\ emitter'[s].tile = x /\ emitter'[s].packet = e
  BY <1>13 DEF Emitting
<1>17. EmitterAt(s)'
  <2>1. Len(x) \in 0..Blocks
    BY <1>6, <1>8, <1>12, Sizes
  <2>2. e % PeIn = 0
    <3>1. b # Blocks
      BY <1>6, <1>8, Sizes
    <3>2. QED BY <1>6, <1>7, <3>1
  <2>3. emitter'[s] = Emitting(emitter'[s].wave, emitter'[s].open, emitter'[s].on,
                               emitter'[s].tile, emitter'[s].packet)
    BY <1>13, <1>16
  <2>4. QED BY <1>2, <1>5, <1>7, <1>16, <2>1, <2>2, <2>3, EmitterNow
<1>18. /\ FlagsRead(s)' = FlagsRead(s) /\ TilesDone(s)' = TilesDone(s)
       /\ Emitted(s)' = Emitted(s)
       /\ \A p \in BlockIds : WordsRead(p, s)' = WordsRead(p, s) + (IF p = b THEN 1 ELSE 0)
  <2>1. /\ FlagsRead(s)' = a + (IF o THEN 1 ELSE 0)
        /\ TilesDone(s)' = a * ActiveTiles + (e \div PeIn)
        /\ Emitted(s)' = a * PacketCount + e
        /\ \A p : WordsRead(p, s)' = TilesDone(s)' + (IF p < Len(x) THEN 1 ELSE 0)
    BY <1>2, <1>16, CountsNow
  <2>2. TilesDone(s)' = TilesDone(s)
    BY <1>7, <2>1
  <2>3. \A p \in BlockIds : WordsRead(p, s)' = WordsRead(p, s) + (IF p = b THEN 1 ELSE 0)
    <3>1. TAKE p \in BlockIds
    <3>2. p \in Nat
      BY Sizes
    <3>3. (p < Len(x)) <=> (p < Len(d) \/ p = b)
      BY <1>6, <1>8, <1>12, <3>2
    <3>4. b < Len(d) <=> FALSE
      BY <1>6, <1>8
    <3>5. WordsRead(p, s) = TilesDone(s) + (IF p < Len(d) THEN 1 ELSE 0)
      BY <1>7
    <3>6. WordsRead(p, s)' = TilesDone(s) + (IF p < Len(x) THEN 1 ELSE 0)
      BY <2>1, <2>2
    <3>7. QED BY <1>9, <3>3, <3>4, <3>5, <3>6
  <2>4. QED BY <1>7, <2>1, <2>2, <2>3
<1>19. \A q \in Slots :
           /\ EmitterAt(q)' /\ FlagsRead(q)' = FlagsRead(q)
           /\ TilesDone(q)' = TilesDone(q) /\ Emitted(q)' = Emitted(q)
           /\ Driven(q)' = Driven(q)
           /\ q # s => emitter'[q].tile = emitter[q].tile
           /\ \A p \in BlockIds : WordsRead(p, q)' =
                WordsRead(p, q) + (IF p = b /\ q = s THEN 1 ELSE 0)
  <2>1. TAKE q \in Slots
  <2>2. Driven(q)' = Driven(q)
    BY <1>1, <1>2, DriverKept
  <2>3. CASE q = s
    BY <1>17, <1>18, <2>2, <2>3
  <2>4. CASE q # s
    <3>1. emitter'[q] = emitter[q]
      BY <1>13, <2>4
    <3>2. \A p \in BlockIds : WordsRead(p, q) \in Nat
      BY Numbers
    <3>3. QED BY <1>2, <2>2, <2>4, <3>1, <3>2, EmitterKept
  <2>5. QED BY <2>3, <2>4
<1>20. Loops'
  BY <1>1, <1>2, <1>13, <1>19, LoopFacts, LoopsKept
<1>21. Flags'
  BY <1>1, <1>2, <1>19, FlagsKept
<1>22. Words'
  <2>1. SUFFICES ASSUME NEW p \in BlockIds, NEW q \in Slots, NEW r \in Nat, NEW v \in Nat,
                        r = WordsRead(p, q)', v = Dealt(loader'[p], q)
                 PROVE  r <= v /\ words'[p][q] = ItemsFrom(p, q, r, v)'
    BY DEF Words, Dealt
  <2>2. /\ v = Dealt(loader[p], q) /\ ItemsFrom(p, q, r, v)' = ItemsFrom(p, q, r, v)
        /\ r = WordsRead(p, q) + (IF p = b /\ q = s THEN 1 ELSE 0)
    BY <1>1, <1>2, <1>19, <2>1, InsideFacts
  <2>3. CASE p = b /\ q = s
    <3>1. r = n + 1 /\ v = w
      BY <1>9, <2>2, <2>3
    <3> HIDE DEF n, w
    <3>2. QED BY <1>10, <1>14, <2>2, <2>3, <3>1
  <2>4. CASE ~(p = b /\ q = s)
    <3>1. words'[p][q] = words[p][q]
      BY <1>14, <2>4
    <3>2. WordsRead(p, q) \in Nat
      BY Numbers
    <3>3. r = WordsRead(p, q)
      BY <2>2, <2>4, <3>2
    <3>4. r <= v /\ words[p][q] = ItemsFrom(p, q, r, v)
      BY <2>2, <3>3, SlotFacts
    <3>5. QED BY <2>2, <3>1, <3>4
  <2>5. QED BY <2>3, <2>4
<1>23. Tile'
  <2>1. SUFFICES ASSUME NEW q \in Slots, NEW m \in Nat, m = TilesDone(q)'
                 PROVE  emitter'[q].tile =
                          [i \in 1..Len(emitter'[q].tile) |-> Item(i - 1, q, m)']
    BY DEF Tile
  <2>2. m = TilesDone(q) /\ \A i : Item(i, q, m)' = Item(i, q, m)
    BY <1>2, <1>19, <2>1, InsideFacts
  <2>3. emitter'[q].tile = [i \in 1..Len(emitter'[q].tile) |-> Item(i - 1, q, m)]
    <3>1. CASE q = s
      <4>1. m = n
        BY <2>2, <3>1
      <4> HIDE DEF n
      <4>2. QED BY <1>12, <1>16, <3>1, <4>1
    <3>2. CASE q # s
      <4>1. emitter'[q].tile = emitter[q].tile
        BY <1>19, <3>2
      <4>2. emitter[q].tile = [i \in 1..Len(emitter[q].tile) |-> Item(i - 1, q, TilesDone(q))]
        BY SlotFacts
      <4>3. QED BY <2>2, <4>1, <4>2
    <3>3. QED BY <3>1, <3>2
  <2>4. QED BY <2>2, <2>3
<1>24. Packets'
  BY <1>1, <1>2, <1>19, PacketsKept
<1>25. QED BY <1>15, <1>20, <1>21, <1>22, <1>23, <1>24 DEF IInv
(* One packet is one lane of one tile. *)
LEMMA PacketDigits ==
    ASSUME PanelShape, NEW a \in Nat, NEW e \in 0..(PacketCount - 1)
    PROVE  /\ (a * PacketCount + e) \div PeIn = a * ActiveTiles + (e \div PeIn)
           /\ (a * PacketCount + e) % PeIn = e % PeIn
           /\ IF e + 1 = PacketCount
              THEN (a + 1) * PacketCount + 0 = (a * PacketCount + e) + 1
                   /\ (a + 1) * ActiveTiles + (0 \div PeIn)
                        = (a * ActiveTiles + (e \div PeIn)) + 1
              ELSE a * PacketCount + (e + 1) = (a * PacketCount + e) + 1
                   /\ a * ActiveTiles + ((e + 1) \div PeIn)
                        = (a * ActiveTiles + (e \div PeIn))
                            + (IF (e + 1) % PeIn = 0 THEN 1 ELSE 0)
<1> DEFINE A == ActiveTiles
           t == e \div PeIn
           l == e % PeIn
<1>1. /\ A \in Nat \ {0} /\ PeIn \in Nat \ {0} /\ PacketCount = A * PeIn
      /\ PacketCount \in Nat \ {0} /\ e \in Nat
  BY PanelNumbers, Sizes
<1>2. t \in Nat /\ l \in 0..(PeIn - 1) /\ e = t * PeIn + l
  BY <1>1, Division
<1>3. a * A \in Nat /\ t * PeIn \in Nat /\ (a * A) * PeIn = a * (A * PeIn)
      /\ (a + 1) * A = a * A + A /\ (a + 1) * PacketCount = a * PacketCount + PacketCount
      /\ a * PacketCount \in Nat
  BY <1>1, <1>2, Product, Product3
<1>4. (a * A + t) * PeIn = (a * A) * PeIn + t * PeIn
  <2> DEFINE y == a * A
  <2>1. y \in Nat
    BY <1>3
  <2> HIDE DEF y, t
  <2>2. (y + t) * PeIn = y * PeIn + t * PeIn
    BY <1>1, <1>2, <2>1, SMT
  <2>3. QED BY <2>2 DEF y
<1>5. a * PacketCount + e = (a * A + t) * PeIn + l
  <2> HIDE DEF A, t, l
  <2>1. a * PacketCount = (a * A) * PeIn
    BY <1>1, <1>3
  <2>2. (a * A) * PeIn \in Nat
    BY <1>3, <2>1
  <2>3. QED BY <1>2, <1>3, <1>4, <2>1, <2>2
<1>6. (a * PacketCount + e) \div PeIn = a * A + t /\ (a * PacketCount + e) % PeIn = l
  <2> DEFINE y == a * A + t
  <2>1. y \in Nat
    BY <1>2, <1>3
  <2> HIDE DEF y, l
  <2>2. (y * PeIn + l) \div PeIn = y /\ (y * PeIn + l) % PeIn = l
    BY <1>1, <1>2, <2>1, DivisionUnique
  <2>3. QED BY <1>5, <2>2 DEF y
<1>7. IF l = PeIn - 1
      THEN (e + 1) \div PeIn = t + 1 /\ (e + 1) % PeIn = 0
      ELSE (e + 1) \div PeIn = t /\ (e + 1) % PeIn = l + 1
  BY <1>1, NextDigits
<1>8. 0 \div PeIn = 0
  BY <1>1, SMT
<1>9. ASSUME e + 1 = PacketCount PROVE t + 1 = A
  <2>1. (A * PeIn + 0) \div PeIn = A /\ (A * PeIn + 0) % PeIn = 0
    BY <1>1, DivisionUnique
  <2>2. (e + 1) \div PeIn = A /\ (e + 1) % PeIn = 0
    <3>1. A * PeIn + 0 = e + 1
      BY <1>1, <1>9
    <3>2. QED BY <2>1, <3>1
  <2> HIDE DEF A, t, l
  <2>3. l + 1 # 0
    BY <1>1, <1>2
  <2>4. l = PeIn - 1
    BY <1>7, <2>2, <2>3
  <2>5. QED BY <1>7, <2>2, <2>4
<1>10. ASSUME e + 1 = PacketCount
       PROVE  /\ (a + 1) * PacketCount + 0 = (a * PacketCount + e) + 1
              /\ (a + 1) * A + (0 \div PeIn) = (a * A + t) + 1
  <2>1. t + 1 = A
    BY <1>9, <1>10
  <2> HIDE DEF A, t
  <2>2. QED BY <1>1, <1>2, <1>3, <1>8, <1>10, <2>1
<1>11. /\ a * PacketCount + (e + 1) = (a * PacketCount + e) + 1
       /\ a * A + ((e + 1) \div PeIn) = (a * A + t) + (IF (e + 1) % PeIn = 0 THEN 1 ELSE 0)
  <2>1. CASE l = PeIn - 1
    <3> HIDE DEF A, t, l
    <3> QED BY <1>1, <1>2, <1>3, <1>7, <2>1
  <2>2. CASE l # PeIn - 1
    <3> HIDE DEF A, t, l
    <3>1. (e + 1) % PeIn # 0
      BY <1>1, <1>2, <1>7, <2>2
    <3>2. (e + 1) \div PeIn = t
      BY <1>7, <2>2
    <3>3. a * PacketCount + (e + 1) = (a * PacketCount + e) + 1
      BY <1>1, <1>3
    <3>4. a * A + t = (a * A + t) + 0
      BY <1>2, <1>3
    <3>5. QED BY <3>1, <3>2, <3>3, <3>4
  <2>3. QED BY <2>1, <2>2
<1>12. QED BY <1>6, <1>10, <1>11

(* Where the emitter is after a packet. *)
LEMMA AfterPacketFields ==
    ASSUME NEW s \in Slots, NEW r, r = AfterPacket(emitter[s]),
           emitter[s] = Emitting(emitter[s].wave, emitter[s].open, emitter[s].on,
                                 emitter[s].tile, emitter[s].packet)
    PROVE  /\ r = Emitting(r.wave, r.open, r.on, r.tile, r.packet)
           /\ emitter[s].packet + 1 = PacketCount =>
                /\ r.wave = emitter[s].wave + 1 /\ r.open = FALSE /\ r.on = FALSE
                /\ r.tile = << >> /\ r.packet = 0
           /\ emitter[s].packet + 1 # PacketCount =>
                /\ r.wave = emitter[s].wave /\ r.open = emitter[s].open
                /\ r.on = emitter[s].on /\ r.packet = emitter[s].packet + 1
                /\ r.tile = IF (emitter[s].packet + 1) % PeIn = 0 THEN << >>
                            ELSE emitter[s].tile
<1> DEFINE a == emitter[s].wave
           o == emitter[s].open
           c == emitter[s].on
           d == emitter[s].tile
           e == emitter[s].packet
<1>1. CASE e + 1 = PacketCount
  <2>1. r = [RestingEmitter EXCEPT !.wave = a + 1]
    BY <1>1 DEF AfterPacket
  <2>2. QED BY <1>1, <2>1 DEF RestingEmitter, Emitting
<1>2. CASE e + 1 # PacketCount
  <2> DEFINE t == IF (e + 1) % PeIn = 0 THEN << >> ELSE d
  <2>1. r = [emitter[s] EXCEPT !.packet = @ + 1,
                               !.tile = IF (e + 1) % PeIn = 0 THEN << >> ELSE @]
    BY <1>2 DEF AfterPacket
  <2> DEFINE p == e + 1
             u == emitter[s]
             u1 == [u EXCEPT !.packet = p]
  <2>2. u1 = Emitting(a, o, c, d, p)
    BY DEF Emitting
  <2>3. r = [u1 EXCEPT !.tile = t]
    <3>1. u1.tile = d
      BY <2>2 DEF Emitting
    <3>2. r = [u1 EXCEPT !.tile = IF (e + 1) % PeIn = 0 THEN << >> ELSE @]
      BY <2>1
    <3>3. QED BY <3>1, <3>2
  <2> HIDE DEF t, u, u1, p, a, o, c, d, e
  <2>4. r = Emitting(a, o, c, t, p)
    BY <2>2, <2>3 DEF Emitting
  <2>5. r.wave = a /\ r.open = o /\ r.on = c /\ r.tile = t /\ r.packet = p
    BY <2>4 DEF Emitting
  <2>6. r = Emitting(r.wave, r.open, r.on, r.tile, r.packet)
    BY <2>4, <2>5
  <2>7. QED BY <1>2, <2>5, <2>6 DEF t, p, a, o, c, d, e
<1>3. QED BY <1>1, <1>2

(* An emitter emits, or drops, one packet. *)
LEMMA EmitPacketIInv ==
    ASSUME IInv, panel # NoPanel, NEW s \in Slots, EmitPacket(s) PROVE IInv'
<1> DEFINE a == emitter[s].wave
           o == emitter[s].open
           c == emitter[s].on
           d == emitter[s].tile
           e == emitter[s].packet
           r == AfterPacket(emitter[s])
           item == [tile |-> d, lane |-> e % PeIn]
<1>1. /\ o /\ Len(d) = Blocks
      /\ IF c THEN packets' = [packets EXCEPT ![s] = Append(@, item)]
         ELSE packets' = packets
      /\ emitter' = [emitter EXCEPT ![s] = r]
      /\ UNCHANGED <<panel, begin, end, distributed, loader, driver, enables, words>>
  BY DEF EmitPacket
<1>2. Inside /\ PanelShape
  BY <1>1, InsideFacts DEF Inside
<1>3. EmitterBecomes(s, r)
  BY <1>1 DEF EmitterBecomes
<1> HIDE DEF a, o, c, d, e, r
<1>4. /\ emitter[s] = Emitting(a, o, c, d, e)
      /\ a \in 0..WaveCount /\ o \in BOOLEAN /\ e \in 0..(PacketCount - 1)
      /\ o => a < WaveCount /\ c = Enabled(s)
      /\ ~o => e = 0 /\ d = << >>
      /\ Len(d) \in 0..Blocks
      /\ FlagsRead(s) = a + (IF o THEN 1 ELSE 0)
      /\ TilesDone(s) = a * ActiveTiles + (e \div PeIn)
      /\ Emitted(s) = a * PacketCount + e
      /\ \A q : WordsRead(q, s) = TilesDone(s) + (IF q < Len(d) THEN 1 ELSE 0)
  BY EmitterFacts DEF a, o, c, d, e
<1>5. /\ emitter' = [q \in Slots |-> emitter'[q]] /\ emitter'[s] = r
      /\ \A q \in Slots : q # s => emitter'[q] = emitter[q]
  BY <1>3, EmitterPut
<1>6. /\ r = Emitting(r.wave, r.open, r.on, r.tile, r.packet)
      /\ e + 1 = PacketCount =>
                /\ r.wave = a + 1 /\ r.open = FALSE /\ r.on = FALSE
                /\ r.tile = << >> /\ r.packet = 0
      /\ e + 1 # PacketCount =>
                /\ r.wave = a /\ r.open = o /\ r.on = c /\ r.packet = e + 1
                /\ r.tile = IF (e + 1) % PeIn = 0 THEN << >> ELSE d
  <2>1. r = AfterPacket(emitter[s])
    BY DEF r
  <2>2. emitter[s] = Emitting(emitter[s].wave, emitter[s].open, emitter[s].on,
                              emitter[s].tile, emitter[s].packet)
    BY <1>4 DEF a, o, c, d, e
  <2>3. QED BY <2>1, <2>2, AfterPacketFields DEF a, o, c, d, e
<1>7. a \in Nat /\ e \in Nat /\ a < WaveCount /\ WaveCount \in Nat
      /\ PacketCount \in Nat \ {0} /\ Blocks \in Nat \ {0} /\ PeIn \in Nat \ {0}
  BY <1>1, <1>2, <1>4, PanelNumbers, Sizes DEF o
<1> DEFINE t1 == r.wave * ActiveTiles + (r.packet \div PeIn)
           n1 == r.wave * PacketCount + r.packet
           last == e + 1 = PacketCount
<1>8. /\ Emitted(s) \div PeIn = TilesDone(s) /\ Emitted(s) % PeIn = e % PeIn
      /\ n1 = Emitted(s) + 1
      /\ t1 = TilesDone(s) + (IF last \/ (e + 1) % PeIn = 0 THEN 1 ELSE 0)
      /\ r.tile = IF last \/ (e + 1) % PeIn = 0 THEN << >> ELSE d
  <2>1. /\ (a * PacketCount + e) \div PeIn = a * ActiveTiles + (e \div PeIn)
        /\ (a * PacketCount + e) % PeIn = e % PeIn
        /\ IF e + 1 = PacketCount
           THEN (a + 1) * PacketCount + 0 = (a * PacketCount + e) + 1
                /\ (a + 1) * ActiveTiles + (0 \div PeIn)
                     = (a * ActiveTiles + (e \div PeIn)) + 1
           ELSE a * PacketCount + (e + 1) = (a * PacketCount + e) + 1
                /\ a * ActiveTiles + ((e + 1) \div PeIn)
                     = (a * ActiveTiles + (e \div PeIn))
                         + (IF (e + 1) % PeIn = 0 THEN 1 ELSE 0)
    BY <1>2, <1>4, <1>7, PacketDigits
  <2>2. CASE e + 1 = PacketCount
    BY <1>4, <1>6, <2>1, <2>2
  <2>3. CASE e + 1 # PacketCount
    BY <1>4, <1>6, <2>1, <2>3
  <2>4. QED BY <2>2, <2>3
<1> HIDE DEF t1, n1, last
<1>9. EmitterAt(s)'
  <2>1. Len(<< >>) = 0
    OBVIOUS
  <2>2. CASE e + 1 = PacketCount
    <3>1. /\ a + 1 \in 0..WaveCount /\ 0 \in 0..(PacketCount - 1) /\ 0 \in 0..Blocks
          /\ 0 % PeIn = 0
      BY <1>7, SMT
    <3>2. /\ emitter'[s].wave = a + 1 /\ emitter'[s].open = FALSE
          /\ emitter'[s].tile = << >> /\ emitter'[s].packet = 0
      BY <1>5, <1>6, <2>2
    <3>3. QED BY <1>2, <1>5, <1>6, <2>1, <3>1, <3>2, EmitterNow
  <2>3. CASE e + 1 # PacketCount
    <3>1. e + 1 \in 0..(PacketCount - 1)
      BY <1>4, <1>7, <2>3
    <3>2. /\ emitter'[s].wave = a /\ emitter'[s].open = o /\ emitter'[s].on = c
          /\ emitter'[s].packet = e + 1
          /\ emitter'[s].tile = IF (e + 1) % PeIn = 0 THEN << >> ELSE d
      BY <1>5, <1>6, <2>3
    <3>3. o
      BY <1>1 DEF o
    <3>4. /\ Len(emitter'[s].tile) \in 0..Blocks
          /\ (e + 1) % PeIn # 0 => Len(emitter'[s].tile) = Blocks
      <4>1. Len(d) = Blocks /\ 0 \in 0..Blocks
        BY <1>1, <1>7 DEF d
      <4>2. QED BY <1>4, <2>1, <3>2, <4>1
    <3>5. emitter'[s] = Emitting(emitter'[s].wave, emitter'[s].open, emitter'[s].on,
                                 emitter'[s].tile, emitter'[s].packet)
      BY <1>5, <1>6
    <3>6. QED BY <1>2, <1>4, <3>1, <3>2, <3>3, <3>4, <3>5, EmitterNow
  <2>4. QED BY <2>2, <2>3
<1>10. /\ FlagsRead(s)' = FlagsRead(s) /\ TilesDone(s)' = t1
       /\ Emitted(s)' = Emitted(s) + 1
       /\ \A p \in BlockIds : WordsRead(p, s)' = WordsRead(p, s)
  <2>1. /\ FlagsRead(s)' = r.wave + (IF r.open THEN 1 ELSE 0)
        /\ TilesDone(s)' = t1 /\ Emitted(s)' = n1
        /\ \A p : WordsRead(p, s)' = TilesDone(s)' + (IF p < Len(r.tile) THEN 1 ELSE 0)
    BY <1>2, <1>5, CountsNow DEF t1, n1
  <2>2. FlagsRead(s)' = FlagsRead(s)
    <3>1. o
      BY <1>1 DEF o
    <3>2. FlagsRead(s) = a + 1
      BY <1>4, <3>1
    <3>3. CASE e + 1 = PacketCount
      <4>1. r.wave + (IF r.open THEN 1 ELSE 0) = (a + 1) + 0
        BY <1>6, <3>3
      <4>2. QED BY <1>7, <2>1, <3>2, <4>1
    <3>4. CASE e + 1 # PacketCount
      BY <1>6, <2>1, <3>1, <3>2, <3>4
    <3>5. QED BY <3>3, <3>4
  <2>3. \A p \in BlockIds : WordsRead(p, s)' = WordsRead(p, s)
    <3>1. TAKE p \in BlockIds
    <3>2. p \in Nat /\ p < Len(d) /\ ~(p < Len(<< >>))
      <4>1. p \in Nat /\ p < Blocks
        BY Sizes
      <4>2. Len(d) = Blocks /\ Len(<< >>) = 0
        BY <1>1 DEF d
      <4>3. QED BY <4>1, <4>2
    <3>3. WordsRead(p, s) = TilesDone(s) + 1
      BY <1>4, <3>2
    <3>4. TilesDone(s) \in Nat
      BY Numbers
    <3>5. CASE last \/ (e + 1) % PeIn = 0
      <4>1. t1 = TilesDone(s) + 1 /\ r.tile = << >>
        BY <1>8, <3>5
      <4>2. WordsRead(p, s)' = t1 + 0
        BY <2>1, <3>2, <4>1
      <4>3. QED BY <3>3, <3>4, <4>1, <4>2
    <3>6. CASE ~(last \/ (e + 1) % PeIn = 0)
      <4>1. t1 = TilesDone(s) + 0 /\ r.tile = d
        BY <1>8, <3>6
      <4>2. WordsRead(p, s)' = t1 + 1
        BY <2>1, <3>2, <4>1
      <4>3. QED BY <3>3, <3>4, <4>1, <4>2
    <3>7. QED BY <3>5, <3>6
  <2>4. QED BY <1>8, <2>1, <2>2, <2>3
<1>11. \A q \in Slots :
           /\ EmitterAt(q)' /\ FlagsRead(q)' = FlagsRead(q)
           /\ Emitted(q)' = Emitted(q) + (IF q = s THEN 1 ELSE 0)
           /\ Driven(q)' = Driven(q)
           /\ q # s => emitter'[q].tile = emitter[q].tile /\ TilesDone(q)' = TilesDone(q)
           /\ \A p \in BlockIds : WordsRead(p, q)' = WordsRead(p, q)
  <2>1. TAKE q \in Slots
  <2>2. Driven(q)' = Driven(q)
    BY <1>1, <1>2, DriverKept
  <2>3. CASE q = s
    BY <1>9, <1>10, <2>2, <2>3
  <2>4. CASE q # s
    <3>1. emitter'[q] = emitter[q]
      BY <1>5, <2>4
    <3>2. Emitted(q) \in Nat
      BY Numbers
    <3>3. QED BY <1>2, <2>2, <2>4, <3>1, <3>2, EmitterKept
  <2>5. QED BY <2>3, <2>4
<1>12. Loops'
  BY <1>1, <1>2, <1>5, <1>11, LoopFacts, LoopsKept
<1>13. Flags'
  BY <1>1, <1>2, <1>11, FlagsKept
<1>14. Words'
  BY <1>1, <1>2, <1>11, WordsKept
<1>15. d = [i \in 1..Len(d) |-> Item(i - 1, s, TilesDone(s))]
  BY SlotFacts DEF d
<1>16. Tile'
  <2>1. SUFFICES ASSUME NEW q \in Slots, NEW m \in Nat, m = TilesDone(q)'
                 PROVE  emitter'[q].tile =
                          [i \in 1..Len(emitter'[q].tile) |-> Item(i - 1, q, m)']
    BY DEF Tile
  <2>2. \A i : Item(i, q, m)' = Item(i, q, m)
    BY <1>2, InsideFacts
  <2>3. emitter'[q].tile = [i \in 1..Len(emitter'[q].tile) |-> Item(i - 1, q, m)]
    <3>1. CASE q = s /\ (last \/ (e + 1) % PeIn = 0)
      <4>1. emitter'[q].tile = << >>
        BY <1>5, <1>8, <3>1
      <4>2. Len(<< >>) = 0
        OBVIOUS
      <4>3. << >> = [i \in 1..0 |-> Item(i - 1, q, m)]
        OBVIOUS
      <4>4. QED BY <4>1, <4>2, <4>3
    <3>2. CASE q = s /\ ~(last \/ (e + 1) % PeIn = 0)
      <4>1. emitter'[q].tile = d
        BY <1>5, <1>8, <3>2
      <4>2. m = TilesDone(s)
        <5>1. TilesDone(s) \in Nat
          BY Numbers
        <5>2. m = TilesDone(s) + 0
          BY <1>8, <1>10, <2>1, <3>2
        <5>3. QED BY <5>1, <5>2
      <4>3. QED BY <1>15, <3>2, <4>1, <4>2
    <3>3. CASE q # s
      <4>1. emitter'[q].tile = emitter[q].tile /\ m = TilesDone(q)
        BY <1>11, <2>1, <3>3
      <4>2. emitter[q].tile = [i \in 1..Len(emitter[q].tile) |-> Item(i - 1, q, TilesDone(q))]
        BY SlotFacts
      <4>3. QED BY <4>1, <4>2
    <3>4. QED BY <3>1, <3>2, <3>3
  <2>4. QED BY <2>2, <2>3
<1>17. Enabled(s) \in BOOLEAN /\ (c <=> Enabled(s))
  <2>1. o
    BY <1>1 DEF o
  <2>2. Enabled(s) \in BOOLEAN
    BY DEF Enabled
  <2>3. c = Enabled(s)
    BY <1>4, <2>1
  <2>4. QED BY <2>2, <2>3
<1>18. item = Carried(s, Emitted(s))
  <2>1. Carried(s, Emitted(s)) =
          [tile |-> [i \in 1..Blocks |-> Item(i - 1, s, TilesDone(s))], lane |-> e % PeIn]
    BY <1>8 DEF Carried
  <2>2. d = [i \in 1..Blocks |-> Item(i - 1, s, TilesDone(s))]
    <3>1. Len(d) = Blocks
      BY <1>1 DEF d
    <3>2. QED BY <1>15, <3>1
  <2>3. QED BY <2>1, <2>2
<1> HIDE DEF item
<1>19. /\ packets' = [q \in Slots |-> packets'[q]]
       /\ \A q \in Slots : q # s \/ ~c => packets'[q] = packets[q]
       /\ c => packets'[s] = Append(packets[s], item)
  <2>1. packets = [q \in Slots |-> packets[q]]
    BY ShapeFacts
  <2>2. CASE c
    <3> DEFINE x == Append(packets[s], item)
               f == packets
               g == packets'
    <3>1. f = [q \in Slots |-> f[q]] /\ g = [f EXCEPT ![s] = x]
      BY <1>1, <2>1, <2>2 DEF c, item, d, e
    <3> HIDE DEF f, g, x
    <3>2. /\ g = [q \in Slots |-> g[q]] /\ g[s] = x
          /\ \A q \in Slots : q # s => g[q] = f[q]
      BY <3>1, Put
    <3>3. QED BY <2>2, <3>2 DEF f, g, x
  <2>3. CASE ~c
    <3>1. packets' = packets
      BY <1>1, <2>3 DEF c
    <3>2. QED BY <2>1, <2>3, <3>1
  <2>4. QED BY <2>2, <2>3
<1>20. Shape'
  BY <1>1, <1>2, <1>19, ShapeFacts, ShapeKept
<1>21. Packets'
  <2>1. SUFFICES ASSUME NEW q \in Slots, NEW u \in Nat, NEW w \in Nat
               PROVE  /\ ~Enabled(q)' => packets'[q] = << >>
                      /\ Enabled(q)' /\ u = Driven(q)' /\ w = Emitted(q)' =>
                           u <= w /\ packets'[q] = CarriedFrom(q, u, w)'
    BY DEF Packets
  <2>2. /\ Driven(q)' = Driven(q)
        /\ Emitted(q)' = Emitted(q) + (IF q = s THEN 1 ELSE 0)
        /\ Enabled(q)' = Enabled(q)
        /\ CarriedFrom(q, u, w)' = CarriedFrom(q, u, w)
    BY <1>2, <1>11, InsideFacts
  <2>3. /\ ~Enabled(q) => packets[q] = << >>
        /\ Enabled(q) => /\ Driven(q) <= Emitted(q)
                         /\ packets[q] = CarriedFrom(q, Driven(q), Emitted(q))
    BY SlotFacts
  <2>4. Driven(q) \in Nat /\ Emitted(q) \in Nat
    BY Numbers
  <2>5. CASE q = s /\ c
    <3>1. packets'[q] = Append(packets[q], Carried(q, Emitted(q)))
      BY <1>18, <1>19, <2>5
    <3>2. Enabled(q)
      BY <1>17, <2>5
    <3> DEFINE k == Driven(q)
               n == Emitted(q)
    <3>3. k \in Nat /\ n \in Nat /\ k <= n /\ packets[q] = CarriedFrom(q, k, n)
      BY <2>3, <2>4, <3>2
    <3> HIDE DEF k, n
    <3>4. Append(CarriedFrom(q, k, n), Carried(q, n)) = CarriedFrom(q, k, n + 1)
      BY <3>3, Carries
    <3>5. packets'[q] = CarriedFrom(q, k, n + 1) /\ k <= n + 1
      BY <3>1, <3>3, <3>4 DEF n
    <3>6. u = Driven(q)' /\ w = Emitted(q)' => u = k /\ w = n + 1
      BY <2>2, <2>5 DEF k, n
    <3>7. QED BY <2>2, <3>2, <3>5, <3>6
  <2>6. CASE q = s /\ ~c
    BY <1>17, <1>19, <2>2, <2>3, <2>6
  <2>7. CASE q # s
    <3>1. Emitted(q)' = Emitted(q)
      BY <2>2, <2>4, <2>7
    <3>2. packets'[q] = packets[q]
      BY <1>19, <2>7
    <3>3. QED BY <2>2, <2>3, <3>1, <3>2
  <2>8. QED BY <2>5, <2>6, <2>7
<1>22. QED BY <1>12, <1>13, <1>14, <1>16, <1>20, <1>21 DEF IInv

-----------------------------------------------------------------------------
(* What the driver has taken of an enabled slot, by the slot's turn. *)
LEMMA DrivenIs ==
    ASSUME IInv, panel # NoPanel, NEW s \in Slots, Enabled(s)
    PROVE  Driven(s) = driver.wave * panel.active + driver.k
                         + (IF s - FirstSlot + 1 <= driver.read THEN 1 ELSE 0)
<1>1. PanelShape
  BY DEF IInv, Shape
<1>2. driver.read \in 0..Len(BeatOrder)
  <2>1. driver.read \in 0..(Len(BeatOrder) - 1) /\ Len(BeatOrder) \in Nat
    BY <1>1, LoopFacts, Beats
  <2>2. QED BY <2>1
<1>3. ReadThisBeat(s) <=> s - FirstSlot + 1 <= driver.read
  BY <1>1, <1>2, BeatsRead DEF ReadThisBeat
<1>4. QED BY <1>3 DEF Driven

(* What the driver has read of a slot after a step.                        *)
LEMMA DrivenNext ==
    ASSUME IInv, Inside, NEW s \in Slots, Enabled(s),
           driver'.read \in 0..Len(BeatOrder)
    PROVE  Driven(s)' = driver'.wave * panel.active + driver'.k
                          + (IF s - FirstSlot + 1 <= driver'.read THEN 1 ELSE 0)
<1>1. PanelShape /\ BeatOrder' = BeatOrder /\ panel' = panel
  BY InsideFacts DEF Inside
<1>2. (\E j \in 1..driver'.read : BeatOrder[j] = s) <=> s - FirstSlot + 1 <= driver'.read
  BY <1>1, BeatsRead
<1>3. ReadThisBeat(s)' <=> (\E j \in 1..driver'.read : BeatOrder[j] = s)
  BY <1>1 DEF ReadThisBeat
<1>4. QED BY <1>1, <1>2, <1>3 DEF Driven
(* The driver takes the next packet of a beat. *)
LEMMA DriveIInv == IInv /\ Drive => IInv'
<1> SUFFICES ASSUME IInv, Drive PROVE IInv'
  OBVIOUS
<1> DEFINE n == Len(BeatOrder)
           slot == BeatOrder[driver.read + 1]
           beatDone == driver.read + 1 = n
           waveDone == beatDone /\ driver.k + 1 = panel.active
           act == panel.active
           w == driver.wave
           k == driver.k
           i == driver.read
           t == Tail(packets[slot])
<1>1. /\ panel # NoPanel /\ w < WaveCount /\ packets[slot] # << >>
      /\ packets' = [packets EXCEPT ![slot] = Tail(@)]
      /\ driver' = IF waveDone THEN [RestingDriver EXCEPT !.wave = w + 1]
                   ELSE IF beatDone THEN [driver EXCEPT !.k = @ + 1, !.read = 0]
                   ELSE [driver EXCEPT !.read = @ + 1]
      /\ UNCHANGED <<panel, begin, end, distributed, loader, emitter, enables, words>>
  BY DEF Drive
<1>2. Inside /\ PanelShape
  BY <1>1, InsideFacts DEF Inside
<1>3. /\ n \in Nat \ {0} /\ act \in Nat \ {0} /\ WaveCount \in Nat \ {0}
      /\ w \in 0..WaveCount /\ k \in 0..(act - 1) /\ i \in 0..(n - 1)
      /\ driver = [wave |-> w, k |-> k, read |-> i]
  BY <1>1, <1>2, LoopFacts, Beats, PanelNumbers
<1>4. i + 1 \in 1..n
  <2> HIDE DEF n, i
  <2> QED BY <1>3
<1>5. slot = FirstSlot + (i + 1) - 1 /\ slot \in Slots /\ Enabled(slot)
  BY <1>2, <1>4, Beats
<1>6. FirstSlot \in Nat /\ slot \in Nat /\ slot = FirstSlot + i
  <2>1. FirstSlot \in Nat /\ slot \in Nat
    BY <1>5, Sizes DEF FirstSlot
  <2> HIDE DEF slot, n, i
  <2>2. QED BY <1>3, <1>5, <2>1
<1> DEFINE w1 == driver'.wave
           k1 == driver'.k
           i1 == driver'.read
<1>7. /\ driver' = [wave |-> w1, k |-> k1, read |-> i1]
      /\ IF waveDone THEN w1 = w + 1 /\ k1 = 0 /\ i1 = 0
         ELSE IF beatDone THEN w1 = w /\ k1 = k + 1 /\ i1 = 0
         ELSE w1 = w /\ k1 = k /\ i1 = i + 1
  <2>1. CASE waveDone
    <3>1. driver' = [wave |-> w + 1, k |-> 0, read |-> 0]
      BY <1>1, <2>1 DEF RestingDriver
    <3>2. QED BY <2>1, <3>1
  <2>2. CASE ~waveDone /\ beatDone
    <3> DEFINE u == driver
               v == k + 1
               u1 == [u EXCEPT !.k = v]
    <3>1. u = [wave |-> w, k |-> k, read |-> i]
      BY <1>3
    <3>2. driver' = [driver EXCEPT !.k = k + 1, !.read = 0]
      BY <1>1, <2>2
    <3>3. driver' = [u1 EXCEPT !.read = 0]
      BY <3>2
    <3> HIDE DEF u, v
    <3>4. u1 = [wave |-> w, k |-> v, read |-> i]
      BY <3>1
    <3> HIDE DEF u1
    <3>5. driver' = [wave |-> w, k |-> v, read |-> 0]
      BY <3>3, <3>4
    <3>6. QED BY <2>2, <3>5 DEF v
  <2>3. CASE ~waveDone /\ ~beatDone
    <3> DEFINE u == driver
               v == i + 1
    <3>1. u = [wave |-> w, k |-> k, read |-> i]
      BY <1>3
    <3>2. driver' = [u EXCEPT !.read = v]
      BY <1>1, <2>3
    <3> HIDE DEF u, v
    <3>3. driver' = [wave |-> w, k |-> k, read |-> v]
      BY <3>1, <3>2
    <3>4. QED BY <2>3, <3>3 DEF v
  <2>4. QED BY <2>1, <2>2, <2>3
<1>8. beatDone <=> i + 1 = n
  OBVIOUS
<1>9. waveDone <=> i + 1 = n /\ k + 1 = act
  OBVIOUS
<1>10. \A q \in Slots : Enabled(q) <=> q - FirstSlot + 1 \in 1..n
  BY <1>2, Beats
<1>11. w < WaveCount
  BY <1>1
<1> HIDE DEF n, beatDone, waveDone, slot
<1>12. /\ w1 \in 0..WaveCount /\ k1 \in 0..(act - 1) /\ i1 \in 0..(n - 1)
       /\ (w1 = WaveCount => k1 = 0 /\ i1 = 0) /\ i1 \in 0..n
  <2> HIDE DEF w, k, i, act, w1, k1, i1
  <2>1. CASE waveDone
    BY <1>3, <1>7, <1>11, <2>1
  <2>2. CASE ~waveDone /\ beatDone
    <3>1. k + 1 # act
      BY <1>8, <1>9, <2>2
    <3>2. QED BY <1>3, <1>7, <1>11, <2>2, <3>1
  <2>3. CASE ~waveDone /\ ~beatDone
    BY <1>3, <1>7, <1>8, <1>11, <2>3
  <2>4. QED BY <2>1, <2>2, <2>3
<1>13. \A q \in Slots : Enabled(q) =>
          Driven(q)' = Driven(q) + (IF q = slot THEN 1 ELSE 0)
  <2>1. SUFFICES ASSUME NEW q \in Slots, Enabled(q)
                 PROVE  Driven(q)' = Driven(q) + (IF q = slot THEN 1 ELSE 0)
    OBVIOUS
  <2> DEFINE turn == q - FirstSlot + 1
  <2>2. Driven(q) = w * act + k + (IF turn <= i THEN 1 ELSE 0)
    BY <1>1, <2>1, DrivenIs
  <2>3. driver'.read \in 0..Len(BeatOrder)
    BY <1>12 DEF n
  <2>4. Driven(q)' = w1 * act + k1 + (IF turn <= i1 THEN 1 ELSE 0)
    BY <1>2, <2>1, <2>3, DrivenNext
  <2>5. turn \in 1..n
    BY <1>10, <2>1
  <2>6. q = slot <=> turn = i + 1
    <3>1. q \in Nat
      BY Sizes
    <3> HIDE DEF i
    <3>2. QED BY <1>3, <1>6, <3>1
  <2>7. w * act \in Nat /\ (w + 1) * act = w * act + act /\ w \in Nat /\ k \in Nat /\ i \in Nat
    <3>1. w \in Nat /\ k \in Nat /\ i \in Nat
      BY <1>3
    <3> HIDE DEF w, act, k, i
    <3>2. QED BY <1>3, <3>1, Product
  <2>8. turn \in Nat
    BY <2>5
  <2> DEFINE y == w * act
             D == Driven(q)
             D1 == Driven(q)'
  <2>9. D = y + k + (IF turn <= i THEN 1 ELSE 0)
    BY <2>2
  <2> HIDE DEF turn
  <2>10. CASE waveDone
    <3>1. w1 = w + 1 /\ k1 = 0 /\ i1 = 0
      BY <1>7, <2>10
    <3>2. D1 = (w + 1) * act + 0 + (IF turn <= 0 THEN 1 ELSE 0)
      BY <2>4, <3>1
    <3>3. (w + 1) * act = y + act
      BY <2>7
    <3> HIDE DEF w, act, k, i, y, D, D1
    <3>4. i + 1 = n /\ k + 1 = act
      BY <1>9, <2>10
    <3>5. D1 = y + act + (IF turn <= 0 THEN 1 ELSE 0)
      <4>1. y \in Nat
        BY <2>7 DEF y
      <4>2. QED BY <1>3, <3>2, <3>3, <4>1
    <3>6. D1 = D + (IF q = slot THEN 1 ELSE 0)
      <4>1. y \in Nat
        BY <2>7 DEF y
      <4>2. QED BY <1>3, <2>5, <2>6, <2>7, <2>9, <3>4, <3>5, <4>1
    <3>7. QED BY <3>6 DEF D, D1
  <2>11. CASE ~waveDone /\ beatDone
    <3>1. w1 = w /\ k1 = k + 1 /\ i1 = 0
      BY <1>7, <2>11
    <3>2. D1 = y + (k + 1) + (IF turn <= 0 THEN 1 ELSE 0)
      BY <2>4, <3>1
    <3>3. y \in Nat
      BY <2>7
    <3> HIDE DEF w, act, k, i, y, D, D1
    <3>4. i + 1 = n
      BY <1>8, <2>11
    <3>5. D1 = D + (IF q = slot THEN 1 ELSE 0)
      BY <1>3, <2>5, <2>6, <2>7, <2>9, <3>2, <3>3, <3>4
    <3>6. QED BY <3>5 DEF D, D1
  <2>12. CASE ~waveDone /\ ~beatDone
    <3>1. w1 = w /\ k1 = k /\ i1 = i + 1
      BY <1>7, <2>12
    <3>2. D1 = y + k + (IF turn <= i + 1 THEN 1 ELSE 0)
      BY <2>4, <3>1
    <3>3. y \in Nat
      BY <2>7
    <3> HIDE DEF w, act, k, i, y, D, D1
    <3>4. D1 = D + (IF q = slot THEN 1 ELSE 0)
      BY <2>5, <2>6, <2>7, <2>9, <3>2, <3>3
    <3>5. QED BY <3>4 DEF D, D1
  <2>13. QED BY <2>10, <2>11, <2>12
<1>14. /\ packets' = [q \in Slots |-> packets'[q]] /\ packets'[slot] = t
       /\ \A q \in Slots : q # slot => packets'[q] = packets[q]
  <2> DEFINE f == packets
             g == packets'
  <2>1. f = [q \in Slots |-> f[q]]
    BY ShapeFacts
  <2>2. g = [f EXCEPT ![slot] = t]
    BY <1>1 DEF slot
  <2>3. slot \in Slots
    BY <1>5 DEF slot
  <2> HIDE DEF f, g, t
  <2>4. /\ g = [q \in Slots |-> g[q]] /\ g[slot] = t
        /\ \A q \in Slots : q # slot => g[q] = f[q]
    BY <2>1, <2>2, <2>3, Put
  <2>5. QED BY <2>4 DEF f, g
<1>15. Shape'
  BY <1>1, <1>2, <1>14, ShapeFacts, ShapeKept
<1>16. \A s \in Slots : /\ EmitterAt(s)' /\ emitter'[s].tile = emitter[s].tile
           /\ FlagsRead(s)' = FlagsRead(s) /\ TilesDone(s)' = TilesDone(s)
           /\ Emitted(s)' = Emitted(s)
           /\ \A b : WordsRead(b, s)' = WordsRead(b, s)
  BY <1>1, <1>2, EmitterKept
<1>17. Loops'
  <2>1. /\ driver'.wave \in 0..WaveCount /\ driver'.k \in 0..(panel.active - 1)
        /\ driver'.read \in 0..(Len(BeatOrder) - 1)
        /\ driver'.wave = WaveCount => driver'.k = 0 /\ driver'.read = 0
    BY <1>12 DEF n
  <2>2. driver' = [wave |-> driver'.wave, k |-> driver'.k, read |-> driver'.read]
    BY <1>7
  <2>3. QED BY <1>1, <1>2, <1>16, <2>1, <2>2, LoopFacts, LoopsKept
<1>18. Flags'
  BY <1>1, <1>2, <1>16, FlagsKept
<1>19. Words'
  BY <1>1, <1>2, <1>16, WordsKept
<1>20. Tile'
  BY <1>2, <1>16, TileKept
<1>21. Packets'
  <2>1. SUFFICES ASSUME NEW q \in Slots, NEW u \in Nat, NEW v \in Nat
               PROVE  /\ ~Enabled(q)' => packets'[q] = << >>
                      /\ Enabled(q)' /\ u = Driven(q)' /\ v = Emitted(q)' =>
                           u <= v /\ packets'[q] = CarriedFrom(q, u, v)'
    BY DEF Packets
  <2>2. /\ Emitted(q)' = Emitted(q) /\ Enabled(q)' = Enabled(q)
        /\ CarriedFrom(q, u, v)' = CarriedFrom(q, u, v)
    BY <1>2, <1>16, InsideFacts
  <2>3. /\ ~Enabled(q) => packets[q] = << >>
        /\ Enabled(q) => /\ Driven(q) <= Emitted(q)
                         /\ packets[q] = CarriedFrom(q, Driven(q), Emitted(q))
    BY <1>1, SlotFacts
  <2>4. Driven(q) \in Nat /\ Emitted(q) \in Nat
    BY <1>1, Numbers
  <2>5. CASE q = slot
    <3>1. Enabled(q) /\ packets[q] # << >>
      BY <1>1, <1>5, <2>5 DEF slot
    <3> DEFINE a == Driven(q)
               z == Emitted(q)
    <3>2. a \in Nat /\ z \in Nat /\ a <= z /\ packets[q] = CarriedFrom(q, a, z)
      BY <2>3, <2>4, <3>1
    <3>3. packets'[q] = Tail(packets[q])
      BY <1>14, <2>5
    <3>4. u = Driven(q)' /\ v = Emitted(q)' => u = a + 1 /\ v = z
      BY <1>13, <2>2, <2>5, <3>1
    <3> HIDE DEF a, z
    <3>5. CarriedFrom(q, a, z) # << >> =>
            a + 1 <= z /\ Tail(CarriedFrom(q, a, z)) = CarriedFrom(q, a + 1, z)
      BY <3>2, Carries
    <3>6. a + 1 <= z /\ packets'[q] = CarriedFrom(q, a + 1, z)
      BY <3>1, <3>2, <3>3, <3>5
    <3>7. QED BY <2>2, <3>1, <3>4, <3>6
  <2>6. CASE q # slot
    <3>1. packets'[q] = packets[q]
      BY <1>14, <2>6
    <3>2. Enabled(q) => Driven(q)' = Driven(q)
      BY <1>13, <2>4, <2>6
    <3>3. QED BY <2>2, <2>3, <3>1, <3>2
  <2>7. QED BY <2>5, <2>6
<1>22. QED BY <1>15, <1>17, <1>18, <1>19, <1>20, <1>21 DEF IInv

-----------------------------------------------------------------------------
(* Every step keeps the invariant. *)
LEMMA NextIInv == IInv /\ [Next]_vars => IInv'
<1> SUFFICES ASSUME IInv, [Next]_vars PROVE IInv'
  OBVIOUS
<1>1. CASE UNCHANGED vars
  <2>1. CASE panel = NoPanel
    <3>1. Shape'
      BY <1>1, <2>1 DEF IInv, Shape, vars, Fresh, Empty
    <3>2. panel' = NoPanel
      BY <1>1, <2>1 DEF vars
    <3>3. QED BY <3>1, <3>2 DEF IInv, Loops, Flags, Words, Tile, Packets
  <2>2. CASE panel # NoPanel
    <3>1. Inside
      BY <1>1, <2>2 DEF vars, Inside
    <3>2. /\ distributed' = distributed /\ loader' = loader /\ emitter' = emitter
          /\ driver' = driver /\ enables' = enables /\ words' = words
          /\ packets' = packets
      BY <1>1 DEF vars
    <3>3. \A s \in Slots : /\ EmitterAt(s)' /\ emitter'[s].tile = emitter[s].tile
           /\ FlagsRead(s)' = FlagsRead(s) /\ TilesDone(s)' = TilesDone(s)
           /\ Emitted(s)' = Emitted(s) /\ Driven(s)' = Driven(s)
           /\ \A b : WordsRead(b, s)' = WordsRead(b, s)
      BY <3>1, <3>2, EmitterKept, DriverKept
    <3>4. Shape'
      BY <3>1, <3>2, ShapeFacts, ShapeKept
    <3>5. Loops'
      BY <2>2, <3>1, <3>2, <3>3, LoopFacts, LoopsKept
    <3>6. Flags' /\ Words' /\ Tile' /\ Packets'
      BY <3>1, <3>2, <3>3, FlagsKept, WordsKept, TileKept, PacketsKept
    <3>7. QED BY <3>4, <3>5, <3>6 DEF IInv
  <2>3. QED BY <2>1, <2>2
<1>2. CASE StartTask \/ StartOperator
  BY <1>2, StartsIInv
<1>3. CASE Distribute
  BY <1>3, DistributeIInv
<1>4. CASE \E b \in BlockIds : Load(b)
  BY <1>4, LoadIInv
<1>5. CASE \E s \in Slots : ReadEnable(s)
  BY <1>5, ReadEnableIInv
<1>6. ASSUME NEW s \in Slots, emitter[s].open PROVE panel # NoPanel
  <2>1. SUFFICES ASSUME panel = NoPanel PROVE FALSE
    OBVIOUS
  <2>2. emitter[s] = RestingEmitter
    BY <2>1 DEF IInv, Shape, Fresh
  <2>3. emitter[s].open = FALSE
    BY <2>2 DEF RestingEmitter
  <2>4. QED BY <1>6, <2>3
<1>7. CASE \E s \in Slots : ReadWord(s)
  <2>1. PICK s \in Slots : ReadWord(s)
    BY <1>7
  <2>2. emitter[s].open
    BY <2>1 DEF ReadWord, TakesWords
  <2>3. QED BY <1>6, <2>1, <2>2, ReadWordIInv
<1>8. CASE \E s \in Slots : EmitPacket(s)
  <2>1. PICK s \in Slots : EmitPacket(s)
    BY <1>8
  <2>2. emitter[s].open
    BY <2>1 DEF EmitPacket
  <2>3. QED BY <1>6, <2>1, <2>2, EmitPacketIInv
<1>9. CASE Drive
  BY <1>9, DriveIInv
<1>10. CASE NextRegion
  BY <1>10, NextRegionIInv
<1>11. CASE Finish
  BY <1>11, FinishIInv
<1>12. QED
  BY <1>1, <1>2, <1>3, <1>4, <1>5, <1>7, <1>8, <1>9, <1>10, <1>11 DEF Next, Network

(* The invariant of the network.                                           *)
LEMMA Invariant == Spec => []IInv
BY InitIInv, NextIInv, PTL DEF Spec

(* When the processes of a region have returned, its FIFOs are empty       *)
(* (load_cc8_weight_panels_streaming): the loops of the flags, loaders,    *)
(* emitters and driver count the same work.                                *)
THEOREM Drain == Spec => []RegionsDrain
<1>1. IInv => RegionsDrain
  <2> SUFFICES ASSUME IInv PROVE RegionsDrain
    OBVIOUS
  <2>1. RegionDone => Empty
    BY Drained
  <2>2. QED BY <2>1 DEF RegionsDrain, Empty
<1>2. QED BY <1>1, Invariant, PTL
-----------------------------------------------------------------------------
(* Induction, for a set of numbers.                                        *)
LEMMA SetInduction ==
    ASSUME NEW S, 0 \in S, \A n \in Nat : n \in S => n + 1 \in S
    PROVE  \A n \in Nat : n \in S
<1> DEFINE R == OpToRel(<, Nat)
           T == {n \in Nat : n \notin S}
<1> SUFFICES ASSUME T # {} PROVE FALSE
  OBVIOUS
<1>1. IsWellFoundedOn(R, Nat)
  BY NatLessThanWellFounded, Zenon
<1>2. PICK x \in T : \A y \in T : <<y, x>> \notin R
  <2>1. T \subseteq Nat
    OBVIOUS
  <2> HIDE DEF R, T
  <2>2. QED BY <1>1, <2>1, WFMin
<1>3. x # 0 /\ x \in Nat /\ x - 1 \in Nat
  BY SMT
<1>4. x - 1 \in T
  BY <1>3, SMT
<1>5. <<x - 1, x>> \in R
  BY <1>3, SMT DEF OpToRel
<1>6. QED BY <1>2, <1>4, <1>5

(* The tiles packed before a projection, a sum over the list of them.      *)
Count == Len(Projections)
TilesSumTo(f, n) ==
    f = [i \in 1..(n + 1) |-> IF i = 1 THEN 0 ELSE f[i - 1] + TilesOf(Projections[i - 1])]

(* TilesBefore is the recursive function it is defined as.                 *)
LEMMA TilesDefined == Count \in Nat /\ TilesSumTo(TilesBefore, Count)
<1> DEFINE S == {n \in Nat : \E f : TilesSumTo(f, n)}
<1>1. 0 \in S
  <2> DEFINE f == [i \in 1..(0 + 1) |-> 0]
  <2>1. \A i \in 1..(0 + 1) : i = 1
    BY SMT
  <2>2. TilesSumTo(f, 0)
    BY <2>1 DEF TilesSumTo
  <2> HIDE DEF f
  <2>3. QED BY <2>2
<1>2. ASSUME NEW n \in Nat, n \in S
      PROVE  n + 1 \in S
  <2>1. PICK f : TilesSumTo(f, n)
    BY <1>2
  <2> DEFINE add(x, i) == x + TilesOf(Projections[i - 1])
             g == [i \in 1..((n + 1) + 1) |->
                     IF i = (n + 1) + 1 THEN add(f[n + 1], i) ELSE f[i]]
  <2>2. f = [i \in 1..(n + 1) |-> IF i = 1 THEN 0 ELSE add(f[i - 1], i)]
    BY <2>1 DEF TilesSumTo
  <2>3. \A i \in 1..((n + 1) + 1) : g[i] = IF i = 1 THEN 0 ELSE add(g[i - 1], i)
    <3> HIDE DEF add
    <3>0. SUFFICES ASSUME NEW i \in 1..((n + 1) + 1)
                   PROVE  g[i] = IF i = 1 THEN 0 ELSE add(g[i - 1], i)
      OBVIOUS
    <3>1. CASE i = (n + 1) + 1
      <4>1. i # 1 /\ i - 1 = n + 1 /\ n + 1 \in 1..((n + 1) + 1) /\ n + 1 # (n + 1) + 1
        BY <3>1, SMT
      <4>2. g[i - 1] = f[n + 1]
        BY <4>1
      <4>3. QED BY <3>1, <4>1, <4>2
    <3>2. CASE i # (n + 1) + 1
      <4>1. i \in 1..(n + 1)
        BY <3>2, SMT
      <4>2. g[i] = IF i = 1 THEN 0 ELSE add(f[i - 1], i)
        BY <2>2, <3>2, <4>1
      <4>3. i # 1 => i - 1 \in 1..((n + 1) + 1) /\ i - 1 # (n + 1) + 1
        BY <4>1, SMT
      <4>4. QED BY <4>2, <4>3
    <3>3. QED BY <3>1, <3>2
  <2>4. g = [i \in 1..((n + 1) + 1) |-> g[i]]
    OBVIOUS
  <2> HIDE DEF g
  <2>5. TilesSumTo(g, n + 1)
    BY <2>3, <2>4 DEF TilesSumTo
  <2>6. n + 1 \in Nat
    BY SMT
  <2>7. QED BY <2>5, <2>6
<1>3. Count \in Nat
  <2>1. Projections \in Seq([in : Nat, out : Nat])
    BY JobAssumption
  <2>2. QED BY <2>1, LenProperties DEF Count
<1>4. \E f : TilesSumTo(f, Count)
  <2> HIDE DEF S
  <2>1. \A n \in Nat : n \in S
    BY <1>1, <1>2, SetInduction
  <2>2. Count \in S
    BY <1>3, <2>1
  <2>3. QED BY <2>2 DEF S
<1>5. TilesBefore = CHOOSE f : TilesSumTo(f, Count)
  BY DEF TilesBefore, TilesSumTo, Count
<1>6. QED BY <1>3, <1>4, <1>5

(* A rounded-up quotient is a number.                                      *)
LEMMA CeilNat ==
    ASSUME NEW a \in Nat, NEW b \in Nat \ {0}
    PROVE  CeilDiv(a, b) \in Nat
<1>1. a + b - 1 \in Nat
  OBVIOUS
<1>2. QED BY <1>1, Division DEF CeilDiv

(* The tiles before a projection are a number (induction over the list).   *)
LEMMA TilesNumber == \A i \in 1..(Count + 1) : TilesBefore[i] \in Nat
<1> DEFINE S == {n \in Nat : n <= Count => TilesBefore[n + 1] \in Nat}
<1>1. /\ Count \in Nat
      /\ \A i \in 1..(Count + 1) : TilesBefore[i] =
           IF i = 1 THEN 0 ELSE TilesBefore[i - 1] + TilesOf(Projections[i - 1])
  BY TilesDefined DEF TilesSumTo
<1>2. 0 \in S
  <2>1. 0 + 1 \in 1..(Count + 1) /\ 0 + 1 = 1
    BY <1>1
  <2>2. TilesBefore[0 + 1] = 0
    BY <1>1, <2>1
  <2>3. QED BY <2>2
<1>3. ASSUME NEW n \in Nat, n \in S PROVE n + 1 \in S
  <2>1. SUFFICES ASSUME n + 1 <= Count PROVE TilesBefore[(n + 1) + 1] \in Nat
    OBVIOUS
  <2>2. n <= Count /\ (n + 1) + 1 \in 1..(Count + 1) /\ (n + 1) + 1 # 1
        /\ ((n + 1) + 1) - 1 = n + 1 /\ n + 1 \in 1..Count
    BY <1>1, <2>1
  <2>3. TilesBefore[n + 1] \in Nat
    BY <1>3, <2>2
  <2>4. TilesOf(Projections[n + 1]) \in Nat
    <3>1. n + 1 \in DOMAIN Projections
      <4>1. Projections \in Seq([in : Nat, out : Nat])
        BY JobAssumption
      <4>2. DOMAIN Projections = 1..Count
        BY <4>1, LenProperties DEF Count
      <4>3. QED BY <2>2, <4>2
    <3> DEFINE x == CeilDiv(Projections[n + 1].out, PeOut)
               y == CeilDiv(Projections[n + 1].in, PeIn)
    <3>2. x \in Nat /\ y \in Nat
      BY <3>1, Shapes, Sizes, CeilNat
    <3>3. TilesOf(Projections[n + 1]) = x * y
      BY DEF TilesOf
    <3> HIDE DEF x, y
    <3>4. QED BY <3>2, <3>3, Product
  <2>5. TilesBefore[(n + 1) + 1] = TilesBefore[n + 1] + TilesOf(Projections[n + 1])
    BY <1>1, <2>2
  <2>6. QED BY <2>3, <2>4, <2>5
<1>4. \A n \in Nat : n \in S
  <2> HIDE DEF S
  <2> QED BY <1>2, <1>3, SetInduction
<1>5. TAKE i \in 1..(Count + 1)
<1>6. i - 1 \in Nat /\ i - 1 <= Count /\ (i - 1) + 1 = i
  BY <1>1
<1>7. QED BY <1>4, <1>6

(* The controller's base of a projection is a whole number of tiles.       *)
LEMMA BaseTiles ==
    ASSUME NEW layer \in Nat, NEW p \in DOMAIN Projections
    PROVE  /\ layer * LayerTiles + TilesBefore[p] \in Nat
           /\ WeightBase(layer, p) \div TileElems = layer * LayerTiles + TilesBefore[p]
<1> DEFINE x == layer * LayerTiles
           y == TilesBefore[p]
<1>1. Count \in Nat /\ p \in 1..(Count + 1) /\ Count + 1 \in 1..(Count + 1)
  <2>1. Projections \in Seq([in : Nat, out : Nat])
    BY JobAssumption
  <2>2. DOMAIN Projections = 1..Count /\ Count \in Nat
    BY <2>1, LenProperties DEF Count
  <2>3. QED BY <2>2
<1>2. LayerTiles \in Nat /\ y \in Nat
  BY <1>1, TilesNumber DEF LayerTiles, Count
<1>3. x \in Nat
  BY <1>2, Product
<1>4. TileElems \in Nat \ {0}
  BY Sizes, Product DEF TileElems
<1>5. WeightBase(layer, p) = (x + y) * TileElems
  BY DEF WeightBase
<1> HIDE DEF x, y
<1>6. x + y \in Nat
  BY <1>2, <1>3
<1> DEFINE z == x + y
<1>7. z \in Nat /\ WeightBase(layer, p) = z * TileElems
  BY <1>5, <1>6
<1> HIDE DEF z
<1>8. z * TileElems \in Nat /\ (z * TileElems + 0) \div TileElems = z
  BY <1>4, <1>7, Product, DivisionUnique
<1>9. z * TileElems + 0 = z * TileElems
  BY <1>8
<1>10. WeightBase(layer, p) \div TileElems = z
  BY <1>7, <1>8, <1>9
<1>11. QED BY <1>7, <1>10 DEF z, x, y
(* Row r of a tile: its word and its place in the word.                    *)
LEMMA RowDigits ==
    ASSUME NEW r \in 0..(PeOut - 1), NEW l \in 0..(PeIn - 1)
    PROVE  /\ r \div 2 \in 0..(Blocks - 1)
           /\ (r * PeIn + l) \div (2 * PeIn) = r \div 2
           /\ (r * PeIn + l) % (2 * PeIn) = (r % 2) * PeIn + l
<1> DEFINE h == r \div 2
           b == r % 2
<1>1. PeIn \in Nat \ {0} /\ Blocks \in Nat \ {0} /\ PeOut = 2 * Blocks /\ l \in Nat
  BY Sizes
<1>2. h \in Nat /\ b \in 0..1 /\ r = h * 2 + b /\ r \in Nat
  BY <1>1, Division
<1>3. h \in 0..(Blocks - 1)
  <2> HIDE DEF h, b
  <2>1. QED BY <1>1, <1>2
<1>4. r * PeIn = h * (2 * PeIn) + b * PeIn
  <2>1. b * PeIn \in Nat /\ h * (2 * PeIn) \in Nat
    BY <1>1, <1>2, Product
  <2>2. (h * 2) * PeIn = h * (2 * PeIn)
    BY <1>1, <1>2, Product3
  <2> DEFINE g == h * 2
  <2>3. g \in Nat
    BY <1>2
  <2> HIDE DEF h, b, g
  <2>4. (g + b) * PeIn = g * PeIn + b * PeIn
    BY <1>1, <1>2, <2>3, SMT
  <2>5. r = g + b
    BY <1>2 DEF g
  <2>6. QED BY <2>2, <2>4, <2>5 DEF g
<1> DEFINE low == b * PeIn + l
           m == 2 * PeIn
<1>5. low \in Nat /\ low < m /\ m \in Nat \ {0}
  <2>1. b = 0 \/ b = 1
    BY <1>2
  <2>2. 0 * PeIn = 0 /\ 1 * PeIn = PeIn
    BY <1>1
  <2> HIDE DEF b
  <2>3. CASE b = 0
    BY <1>1, <2>2, <2>3
  <2>4. CASE b = 1
    BY <1>1, <2>2, <2>4
  <2>5. QED BY <2>1, <2>3, <2>4
<1>6. r * PeIn + l = h * m + low
  <2>1. b * PeIn \in Nat /\ h * (2 * PeIn) \in Nat
    BY <1>1, <1>2, Product
  <2> DEFINE x == b * PeIn
             y == h * (2 * PeIn)
             z == r * PeIn
  <2>2. z = y + x /\ x \in Nat /\ y \in Nat
    BY <1>4, <2>1
  <2>3. z + l = y + (x + l)
    <3> HIDE DEF x, y, z
    <3> QED BY <1>1, <2>2
  <2>4. QED BY <2>3
<1> HIDE DEF low, m, h
<1>7. (h * m + low) \div m = h /\ (h * m + low) % m = low
  BY <1>2, <1>5, DivisionUnique
<1>8. QED BY <1>3, <1>6, <1>7 DEF h, m, low

(* A lane number completes the place of a weight. *)
LEMMA PairAppend ==
    ASSUME NEW x, NEW y, NEW z
    PROVE  Append(<<x, y>>, z) = <<x, y, z>>
<1> DEFINE S == {x, y, z}
           u == <<x, y>>
           v == <<x, y, z>>
<1>1. u \in Seq(S) /\ Len(u) = 2 /\ u[1] = x /\ u[2] = y
  OBVIOUS
<1>2. v \in Seq(S) /\ Len(v) = 3 /\ v[1] = x /\ v[2] = y /\ v[3] = z
  OBVIOUS
<1>3. z \in S
  OBVIOUS
<1> HIDE DEF S, u, v
<1>4. Append(u, z) = v
  <2>1. Append(u, z) \in Seq(S)
    BY <1>1, <1>3
  <2>2. Len(Append(u, z)) = 3
    BY <1>1, <1>3
  <2>3. Append(u, z)[1] = x /\ Append(u, z)[2] = y /\ Append(u, z)[3] = z
    BY <1>1, <1>3
  <2> DEFINE a == Append(u, z)
  <2>4. a \in Seq(S) /\ Len(a) = 3 /\ a[1] = x /\ a[2] = y /\ a[3] = z
    BY <2>1, <2>2, <2>3
  <2> HIDE DEF a
  <2>5. \A i \in 1..Len(a) : a[i] = v[i]
    BY <1>2, <2>4
  <2>6. a = v
    BY <1>2, <2>4, <2>5, SeqEqual
  <2>7. QED BY <2>6 DEF a
<1>5. QED BY <1>4 DEF u, v

(* The word a loader reads for a wave, slot and input tile, lane by lane,  *)
(* is the host's place of that output and input.                           *)
LEMMA Placed ==
    ASSUME PanelShape, NEW wave \in Nat, NEW s \in Slots, NEW input \in Nat,
           NEW r \in 0..(PeOut - 1), NEW word,
           word = WordAt(r \div 2, wave, input \div PeIn, s)
    PROVE  (IF word = Zero THEN Zero ELSE Append(word, ((r % 2) * PeIn) + (input % PeIn)))
             = Due(panel.layer, panel.p, panel.zero, (wave * SlotCount + s) * PeOut + r, input)
<1> DEFINE outTile == wave * SlotCount + s
           p == panel.p
           out == Projections[p].out
           place == outTile * PeOut
           output == place + r
           base == panel.layer * LayerTiles + TilesBefore[p]
           tile == base + outTile * MatrixTiles + (input \div PeIn)
           l == input % PeIn
           lane == r * PeIn + l
           b == r \div 2
<1>1. /\ p \in DOMAIN Projections /\ panel.layer \in Nat /\ panel.zero \in BOOLEAN
      /\ out \in Nat \ {0} /\ out % PeOut = 0
      /\ PeOut \in Nat \ {0} /\ PeIn \in Nat \ {0} /\ SlotCount \in Nat \ {0}
      /\ s \in Nat /\ r \in Nat
  <2>1. p \in DOMAIN Projections /\ panel.layer \in Nat /\ panel.zero \in BOOLEAN
    BY DEF PanelShape
  <2>2. out \in Nat \ {0} /\ out % PeOut = 0
    BY <2>1, Shapes
  <2>3. PeOut \in Nat \ {0} /\ PeIn \in Nat \ {0} /\ SlotCount \in Nat \ {0}
    BY Sizes
  <2>4. s \in Nat
    BY Sizes
  <2>5. r \in Nat
    BY <2>3
  <2>6. QED BY <2>1, <2>2, <2>3, <2>4, <2>5
<1>2. outTile \in Nat /\ place \in Nat /\ output \in Nat
  <2>1. wave * SlotCount \in Nat
    BY <1>1, Product
  <2>2. outTile \in Nat
    BY <1>1, <2>1
  <2> HIDE DEF outTile
  <2>3. place \in Nat
    BY <1>1, <2>2, Product
  <2>4. QED BY <1>1, <2>2, <2>3
<1>3. output \div PeOut = outTile /\ output % PeOut = r
  <2> HIDE DEF outTile
  <2>1. r < PeOut
    BY <1>1
  <2>2. QED BY <1>1, <1>2, <2>1, DivisionUnique
<1>4. place >= out <=> output >= out
  <2> DEFINE q == out \div PeOut
             t == outTile
  <2>1. q \in Nat /\ out = q * PeOut + 0
    BY <1>1, Division
  <2>2. t \in Nat
    BY <1>2
  <2>3. q * PeOut \in Nat
    BY <1>1, <2>1, Product
  <2> HIDE DEF q, t, out
  <2>4. (q <= t => q * PeOut <= t * PeOut) /\ (t < q => t * PeOut + PeOut <= q * PeOut)
    BY <1>1, <2>1, <2>2, Monotone
  <2>5. place = t * PeOut
    BY DEF t
  <2>6. place \in Nat /\ output = place + r /\ r < PeOut
    BY <1>1, <1>2
  <2> HIDE DEF place, output
  <2>7. CASE q <= t
    BY <1>1, <2>1, <2>3, <2>4, <2>5, <2>6, <2>7
  <2>8. CASE t < q
    BY <1>1, <2>1, <2>3, <2>4, <2>5, <2>6, <2>8
  <2>9. QED BY <2>1, <2>2, <2>7, <2>8
<1>5. base \in Nat /\ WeightBase(panel.layer, panel.p) \div TileElems = base
  BY <1>1, BaseTiles
<1>6. word = IF panel.zero \/ place >= out THEN Zero
             ELSE <<((tile % 2) * Blocks) + b, tile \div 2>>
  BY <1>5 DEF WordAt, RowStride
<1>7. Due(panel.layer, panel.p, panel.zero, output, input)
        = IF panel.zero \/ output >= out THEN Zero
          ELSE HostWeight(panel.layer, panel.p, output, input)
  BY DEF Due
<1>8. /\ l \in 0..(PeIn - 1) /\ lane \div (2 * PeIn) = b
      /\ lane % (2 * PeIn) = (r % 2) * PeIn + l
  BY <1>1, Division, RowDigits
<1>9. HostWeight(panel.layer, panel.p, output, input)
        = <<((tile % 2) * Blocks) + b, tile \div 2, (r % 2) * PeIn + l>>
  <2>1. HostWeight(panel.layer, panel.p, output, input)
          = LET t == panel.layer * LayerTiles + TilesBefore[p]
                       + (output \div PeOut) * CeilDiv(Projections[p].in, PeIn)
                       + (input \div PeIn)
                n == ((output % PeOut) * PeIn) + (input % PeIn)
            IN <<((t % 2) * Blocks) + (n \div (2 * PeIn)), t \div 2, n % (2 * PeIn)>>
    BY DEF HostWeight
  <2>2. tile = panel.layer * LayerTiles + TilesBefore[p]
                       + (output \div PeOut) * CeilDiv(Projections[p].in, PeIn)
                       + (input \div PeIn)
    BY <1>3 DEF MatrixTiles
  <2>3. lane = ((output % PeOut) * PeIn) + (input % PeIn)
    BY <1>3
  <2> HIDE DEF tile, lane, output, b, l
  <2>4. HostWeight(panel.layer, panel.p, output, input)
          = <<((tile % 2) * Blocks) + (lane \div (2 * PeIn)), tile \div 2,
              lane % (2 * PeIn)>>
    BY <2>1, <2>2, <2>3
  <2>5. QED BY <1>8, <2>4
<1>10. ASSUME NEW x, NEW y, NEW z
       PROVE  <<x, y>> # Zero /\ Append(<<x, y>>, z) = <<x, y, z>>
  <2>1. Len(<<x, y>>) = 2 /\ Len(<< >>) = 0
    OBVIOUS
  <2>2. <<x, y>> # Zero
    BY <2>1 DEF Zero
  <2>3. Append(<<x, y>>, z) = <<x, y, z>>
    BY PairAppend, Zenon
  <2>4. QED BY <2>2, <2>3
<1> HIDE DEF outTile, place, output, tile, lane, b, out, l
<1>11. CASE panel.zero \/ place >= out
  <2>1. word = Zero
    BY <1>6, <1>11
  <2>2. Due(panel.layer, panel.p, panel.zero, output, input) = Zero
    BY <1>4, <1>7, <1>11
  <2>3. (IF word = Zero THEN Zero ELSE Append(word, ((r % 2) * PeIn) + l))
          = Due(panel.layer, panel.p, panel.zero, output, input)
    BY <2>1, <2>2
  <2>4. QED BY <2>3 DEF l, output, place, outTile
<1>12. CASE ~(panel.zero \/ place >= out)
  <2> DEFINE x == ((tile % 2) * Blocks) + b
             y == tile \div 2
             z == (r % 2) * PeIn + l
  <2>1. word = <<x, y>> /\ HostWeight(panel.layer, panel.p, output, input) = <<x, y, z>>
    BY <1>6, <1>9, <1>12
  <2>2. Due(panel.layer, panel.p, panel.zero, output, input)
          = HostWeight(panel.layer, panel.p, output, input)
    BY <1>4, <1>7, <1>12
  <2> HIDE DEF x, y, z
  <2>3. word # Zero /\ Append(word, z) = <<x, y, z>>
    BY <1>10, <2>1
  <2>4. (IF word = Zero THEN Zero ELSE Append(word, z))
          = Due(panel.layer, panel.p, panel.zero, output, input)
    BY <2>1, <2>2, <2>3
  <2>5. QED BY <2>4 DEF z, l, output, place, outTile
<1>13. (IF word = Zero THEN Zero ELSE Append(word, ((r % 2) * PeIn) + l))
          = Due(panel.layer, panel.p, panel.zero, output, input)
  BY <1>11, <1>12 DEF l, output, place, outTile
<1>14. QED BY <1>13 DEF l, output, place, outTile

(* A packet carries, in every output lane, the weight of its beat.         *)
LEMMA CarriedWeights ==
    ASSUME PanelShape, NEW s \in Slots, NEW n \in Nat, NEW r \in 0..(PeOut - 1)
    PROVE  RowWeight(Carried(s, n), r)
             = Due(panel.layer, panel.p, panel.zero,
                   ((begin + (n \div panel.active)) * SlotCount + s) * PeOut + r,
                   n % panel.active)
<1> DEFINE act == panel.active
           wave == begin + (n \div act)
           input == n % act
           m == n \div PeIn
           h == r \div 2
           word == Item(h, s, m)
<1>1. /\ ActiveTiles \in Nat \ {0} /\ act = ActiveTiles * PeIn /\ act \in Nat \ {0}
      /\ begin \in Nat /\ PeIn \in Nat \ {0} /\ Blocks \in Nat \ {0}
  BY PanelNumbers, Sizes
<1>2. n \div act = m \div ActiveTiles /\ input \div PeIn = m % ActiveTiles
      /\ input % PeIn = n % PeIn
  <2>1. /\ n \div (ActiveTiles * PeIn) = (n \div PeIn) \div ActiveTiles
        /\ (n % (ActiveTiles * PeIn)) \div PeIn = (n \div PeIn) % ActiveTiles
        /\ (n % (ActiveTiles * PeIn)) % PeIn = n % PeIn
    BY <1>1, MixedRadix
  <2>2. act = ActiveTiles * PeIn
    BY <1>1
  <2> HIDE DEF act
  <2>3. QED BY <2>1, <2>2
<1>3. n \div act \in Nat /\ input \in Nat
  <2>1. act \in Nat \ {0}
    BY <1>1
  <2> HIDE DEF act
  <2>2. n \div act \in Nat /\ n % act \in 0..(act - 1)
    BY <2>1, Division
  <2>3. \A a \in Nat \ {0} : 0..(a - 1) \subseteq Nat
    OBVIOUS
  <2>4. n % act \in Nat
    BY <2>1, <2>2, <2>3
  <2>5. QED BY <2>2, <2>4
<1>4. wave \in Nat
  BY <1>1, <1>3
<1>5. h \in 0..(Blocks - 1) /\ h + 1 \in 1..Blocks /\ (h + 1) - 1 = h
  <2>1. PeIn - 1 \in 0..(PeIn - 1)
    BY <1>1
  <2>2. h \in 0..(Blocks - 1)
    BY <2>1, RowDigits
  <2> HIDE DEF h
  <2>3. QED BY <1>1, <2>2
<1>6. word = WordAt(h, wave, input \div PeIn, s)
  <2>1. word = WordAt(h, begin + (m \div ActiveTiles), m % ActiveTiles, s)
    BY DEF Item
  <2> HIDE DEF m, h, word, input, act
  <2>2. QED BY <1>2, <2>1
<1> DEFINE P == Carried(s, n)
<1>7. P.tile = [i \in 1..Blocks |-> Item(i - 1, s, m)] /\ P.lane = n % PeIn
  BY DEF Carried
<1> HIDE DEF P
<1>8. P.tile[h + 1] = word
  <2>1. P.tile[h + 1] = Item((h + 1) - 1, s, m)
    BY <1>5, <1>7
  <2>2. QED BY <1>5, <2>1
<1>9. RowWeight(P, r) = IF word = Zero THEN Zero
                        ELSE Append(word, ((r % 2) * PeIn) + (input % PeIn))
  <2> HIDE DEF word, input
  <2>1. RowWeight(P, r) = IF P.tile[h + 1] = Zero THEN Zero
                          ELSE Append(P.tile[h + 1], ((r % 2) * PeIn) + P.lane)
    BY DEF RowWeight
  <2>2. P.lane = input % PeIn
    BY <1>2, <1>7
  <2>3. QED BY <1>8, <2>1, <2>2
<1> HIDE DEF wave, input, word
<1>10. (IF word = Zero THEN Zero ELSE Append(word, ((r % 2) * PeIn) + (input % PeIn)))
         = Due(panel.layer, panel.p, panel.zero, (wave * SlotCount + s) * PeOut + r, input)
  BY <1>3, <1>4, <1>6, Placed DEF input
<1>11. QED BY <1>9, <1>10 DEF P, wave, input

(* What waits for the driver is what its coming beats multiply             *)
(* (emit_cc8_mm_wave_inputs_flat), for every order in which the loaders,   *)
(* emitters and the driver run and every size of tile, wave and FIFO.      *)
THEOREM Matching == Spec => []WeightsMatchBeats
<1>1. IInv => WeightsMatchBeats
  <2> SUFFICES ASSUME IInv, panel # NoPanel, NEW s \in Slots, NEW i \in DOMAIN packets[s],
                      NEW r \in 0..(PeOut - 1)
               PROVE  LET read == \E j \in 1..driver.read : BeatOrder[j] = s
                          beat == driver.wave * panel.active + driver.k
                                    + (IF read THEN i ELSE i - 1)
                          wave == begin + (beat \div panel.active)
                      IN RowWeight(packets[s][i], r)
                           = Due(panel.layer, panel.p, panel.zero,
                                 (wave * SlotCount + s) * PeOut + r, beat % panel.active)
    BY DEF WeightsMatchBeats
  <2> DEFINE D == Driven(s)
             E == Emitted(s)
             beat == driver.wave * panel.active + driver.k
                       + (IF ReadThisBeat(s) THEN i ELSE i - 1)
             x == driver.wave * panel.active
  <2>1. PanelShape
    BY DEF IInv, Shape
  <2>2. Enabled(s)
    <3>1. SUFFICES ASSUME ~Enabled(s) PROVE FALSE
      OBVIOUS
    <3>2. packets[s] = << >>
      BY <3>1, SlotFacts
    <3>3. QED BY <3>2
  <2>3. D \in Nat /\ E \in Nat /\ D <= E /\ packets[s] = CarriedFrom(s, D, E)
    BY <2>2, SlotFacts, Numbers
  <2>4. i \in 1..(E - D) /\ packets[s][i] = Carried(s, D + i - 1)
    BY <2>3 DEF CarriedFrom
  <2>5. driver.k \in Nat /\ x \in Nat
    <3>1. panel.active \in Nat \ {0} /\ WaveCount \in Nat
      BY <2>1, PanelNumbers
    <3>2. driver.wave \in 0..WaveCount /\ driver.k \in 0..(panel.active - 1)
      BY LoopFacts
    <3>3. driver.wave \in Nat /\ driver.k \in Nat
      BY <3>1, <3>2
    <3>4. QED BY <3>1, <3>3, Product
  <2>6. beat = D + i - 1 /\ beat \in Nat
    <3>1. D = x + driver.k + (IF ReadThisBeat(s) THEN 1 ELSE 0)
      BY DEF Driven
    <3>2. i \in Nat \ {0}
      BY <2>3, <2>4
    <3> HIDE DEF D, E, x
    <3>3. beat = x + driver.k + (IF ReadThisBeat(s) THEN i ELSE i - 1)
      BY DEF x
    <3> HIDE DEF beat
    <3>4. QED BY <2>5, <3>1, <3>2, <3>3
  <2> HIDE DEF D, E, x, beat
  <2>7. RowWeight(packets[s][i], r)
          = Due(panel.layer, panel.p, panel.zero,
                ((begin + (beat \div panel.active)) * SlotCount + s) * PeOut + r,
                beat % panel.active)
    BY <2>1, <2>4, <2>6, CarriedWeights
  <2>8. ReadThisBeat(s) <=> \E j \in 1..driver.read : BeatOrder[j] = s
    BY DEF ReadThisBeat
  <2>9. QED BY <2>7, <2>8 DEF beat, ReadThisBeat
<1>2. QED BY <1>1, Invariant, PTL
=============================================================================
