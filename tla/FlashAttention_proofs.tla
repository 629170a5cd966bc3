------------------------ MODULE FlashAttention_proofs ------------------------
(***************************************************************************)
(* The attention operators, for every context length, tile size, group of  *)
(* query heads, number of output waves, set of K/V entries and sequence of *)
(* launches: the running maximum, sum and accumulator of a row are those   *)
(* of one softmax over what it has seen, and the operators implement       *)
(* CausalAttention.                                                        *)
(*                                                                         *)
(* The argument: a row that has seen the first n scores of its reach holds *)
(* TopOf, WeightOf and MixOf of them (RowIs), whichever tiles they came    *)
(* in. MixStep is the online step: what is summed over more scores is what *)
(* was summed over the first ones, scaled to the new top, and the terms of *)
(* the others; exactly so, as the scores stay within the clamp of the      *)
(* exponential. RowInv says which n each row of each slot is at, and what  *)
(* it holds between the softmax, the rescale and the waves of a tile.      *)
(***************************************************************************)
EXTENDS FlashAttention, FiniteSetTheorems, SequenceTheorems, WellFoundedInduction, TLAPS

-----------------------------------------------------------------------------
(* Sums.                                                                   *)

(* Induction, for a set of numbers. *)
LEMMA SetInduction ==
    ASSUME NEW S, 0 \in S, \A n \in Nat : n \in S => n + 1 \in S
    PROVE  \A n \in Nat : n \in S
<1> DEFINE R == OpToRel(<, Nat)
           T == {n \in Nat : n \notin S}
<1> SUFFICES ASSUME T # {} PROVE FALSE
    OBVIOUS
<1>1. IsWellFoundedOn(R, Nat)
      BY NatLessThanWellFounded, Zenon
<1>2. PICK x \in T : \A y \in T : <<y, x>> \notin R
  <2>1. T \subseteq Nat
        OBVIOUS
  <2> HIDE DEF R, T
  <2> QED BY <1>1, <2>1, WFMin
<1>3. x # 0 /\ x \in Nat /\ x - 1 \in Nat
      BY SMT
<1>4. x - 1 \in T
      BY <1>3, SMT
<1>5. <<x - 1, x>> \in R
      BY <1>3, SMT DEF OpToRel
<1> QED BY <1>2, <1>4, <1>5

(* The element a fold takes first, and what the fold makes of a set and of *)
(* the rest of it.                                                         *)
Pick(s) == CHOOSE x \in s : TRUE
SumStep(h, f, s) == IF s = {} THEN 0 ELSE f[Pick(s)] + h[s \ {Pick(s)}]
SumLoop(h, f, S) == h = [s \in SUBSET S |-> SumStep(h, f, s)]
SumOver(f, S) == (CHOOSE h : SumLoop(h, f, S))[S]

(* A part of a finite set without an element is smaller. *)
LEMMA Smaller ==
    ASSUME NEW S, IsFiniteSet(S), NEW s \in SUBSET S, NEW x \in s
    PROVE  /\ IsFiniteSet(s) /\ Cardinality(s) \in Nat \ {0}
           /\ s \ {x} \in SUBSET S
           /\ Cardinality(s \ {x}) = Cardinality(s) - 1
<1>1. IsFiniteSet(s)
      BY FS_Subset
<1>2. Cardinality(s) \in Nat
      BY <1>1, FS_CardinalityType
<1>3. Cardinality(s) # 0
      BY <1>1, FS_EmptySet
<1>4. Cardinality(s \ {x}) = Cardinality(s) - 1
      BY <1>1, FS_RemoveElement
<1> QED BY <1>1, <1>2, <1>3, <1>4

(* The first element is one of the set. *)
LEMMA Picked == ASSUME NEW s, s # {} PROVE Pick(s) \in s
BY DEF Pick

(* The recursive sum exists (induction over the size of the parts). *)
LEMMA SumLoopExists ==
    ASSUME NEW f, NEW S, IsFiniteSet(S)
    PROVE  \E h : SumLoop(h, f, S)
<1> DEFINE Good(h, n) == \A s \in SUBSET S : Cardinality(s) <= n => h[s] = SumStep(h, f, s)
           P == {n \in Nat : \E h : h = [s \in SUBSET S |-> h[s]] /\ Good(h, n)}
<1>1. 0 \in P
  <2> DEFINE h == [s \in SUBSET S |-> 0]
  <2>1. ASSUME NEW s \in SUBSET S, Cardinality(s) <= 0 PROVE h[s] = SumStep(h, f, s)
    <3>1. IsFiniteSet(s) /\ Cardinality(s) \in Nat
          BY FS_Subset, FS_CardinalityType
    <3>2. s = {}
          BY <2>1, <3>1, FS_EmptySet
    <3> QED BY <3>2 DEF SumStep
  <2>2. h = [s \in SUBSET S |-> h[s]]
        OBVIOUS
  <2> HIDE DEF h
  <2> QED BY <2>1, <2>2
<1>2. ASSUME NEW n \in Nat, n \in P PROVE n + 1 \in P
  <2>1. PICK h : h = [s \in SUBSET S |-> h[s]] /\ Good(h, n)
        BY <1>2
  <2> DEFINE g == [s \in SUBSET S |-> SumStep(h, f, s)]
  <2>2. g = [s \in SUBSET S |-> g[s]]
        OBVIOUS
  <2>3. ASSUME NEW s \in SUBSET S, Cardinality(s) <= n + 1 PROVE g[s] = SumStep(g, f, s)
    <3>1. CASE s = {}
          BY <3>1 DEF SumStep
    <3>2. CASE s # {}
      <4> DEFINE x == Pick(s)
      <4>1. x \in s
            BY <3>2, Picked
      <4>2. s \ {x} \in SUBSET S /\ Cardinality(s \ {x}) = Cardinality(s) - 1
            /\ Cardinality(s) \in Nat
            BY <4>1, Smaller
      <4>3. Cardinality(s \ {x}) <= n
            BY <2>3, <4>2
      <4>4. h[s \ {x}] = SumStep(h, f, s \ {x})
            BY <2>1, <4>2, <4>3
      <4>5. g[s \ {x}] = h[s \ {x}]
            BY <4>2, <4>4
      <4>6. g[s] = f[x] + h[s \ {x}]
            BY <3>2 DEF SumStep
      <4> HIDE DEF g
      <4> QED BY <3>2, <4>5, <4>6 DEF SumStep
    <3> QED BY <3>1, <3>2
  <2>4. Good(g, n + 1)
        BY <2>3
  <2> HIDE DEF g
  <2>5. \E k : k = [s \in SUBSET S |-> k[s]] /\ Good(k, n + 1)
        BY <2>2, <2>4
  <2>6. n + 1 \in Nat
        OBVIOUS
  <2> HIDE DEF Good
  <2> QED BY <2>5, <2>6
<1>3. \A n \in Nat : n \in P
  <2> HIDE DEF P
  <2> QED BY <1>1, <1>2, SetInduction
<1>4. Cardinality(S) \in Nat
      BY FS_CardinalityType
<1>5. PICK h : h = [s \in SUBSET S |-> h[s]] /\ Good(h, Cardinality(S))
      BY <1>3, <1>4
<1>6. ASSUME NEW s \in SUBSET S PROVE h[s] = SumStep(h, f, s)
  <2>1. Cardinality(s) <= Cardinality(S)
        BY FS_Subset
  <2> QED BY <1>5, <2>1
<1>7. h = [s \in SUBSET S |-> SumStep(h, f, s)]
      BY <1>5, <1>6
<1> QED BY <1>7 DEF SumLoop

(* Whichever sum function of whichever set: on a part that both have, they *)
(* agree, are numbers, and any element may be taken first.                 *)
LEMMA SumLoops ==
    ASSUME NEW f, NEW g, NEW S, NEW T, NEW h, NEW i, IsFiniteSet(S), IsFiniteSet(T),
           SumLoop(h, f, S), SumLoop(i, g, T),
           \A p \in S \cap T : f[p] \in Int /\ f[p] = g[p]
    PROVE  \A s \in SUBSET (S \cap T) :
               /\ h[s] \in Int /\ h[s] = i[s]
               /\ \A y \in s : h[s] = f[y] + h[s \ {y}]
<1> DEFINE Good(s) == /\ h[s] \in Int /\ h[s] = i[s]
                      /\ \A y \in s : h[s] = f[y] + h[s \ {y}]
           P == {n \in Nat : \A s \in SUBSET (S \cap T) : Cardinality(s) <= n => Good(s)}
<1>1. \A s \in SUBSET S : h[s] = SumStep(h, f, s)
      BY DEF SumLoop
<1>2. \A s \in SUBSET T : i[s] = SumStep(i, g, s)
      BY DEF SumLoop
<1>3. IsFiniteSet(S \cap T)
      BY FS_Subset
<1>4. 0 \in P
  <2>1. ASSUME NEW s \in SUBSET (S \cap T), Cardinality(s) <= 0 PROVE Good(s)
    <3>1. IsFiniteSet(s) /\ Cardinality(s) \in Nat
          BY <1>3, FS_Subset, FS_CardinalityType
    <3>2. s = {}
          BY <2>1, <3>1, FS_EmptySet
    <3>3. h[s] = 0 /\ i[s] = 0
          BY <1>1, <1>2, <3>2 DEF SumStep
    <3> QED BY <3>2, <3>3
  <2> QED BY <2>1
<1>5. ASSUME NEW n \in Nat, n \in P PROVE n + 1 \in P
  <2> SUFFICES ASSUME NEW s \in SUBSET (S \cap T), Cardinality(s) <= n + 1
               PROVE  Good(s)
      OBVIOUS
  <2>0. CASE s = {}
    <3>1. h[s] = 0 /\ i[s] = 0
          BY <1>1, <1>2, <2>0 DEF SumStep
    <3> QED BY <2>0, <3>1
  <2>1. CASE s # {}
    <3> DEFINE x == Pick(s)
    <3>1. x \in s /\ x \in S \cap T
          BY <2>1, Picked
    <3>2. h[s] = f[x] + h[s \ {x}] /\ i[s] = g[x] + i[s \ {x}]
          BY <1>1, <1>2, <2>1 DEF SumStep
    <3> HIDE DEF x
    <3>3. ASSUME NEW r \in SUBSET (S \cap T), NEW y \in s, r \subseteq s, y \notin r
          PROVE  Good(r)
      <4>1. s \ {y} \in SUBSET (S \cap T) /\ Cardinality(s \ {y}) = Cardinality(s) - 1
            /\ Cardinality(s) \in Nat
            BY <1>3, Smaller
      <4>2. r \in SUBSET (s \ {y}) /\ IsFiniteSet(s \ {y})
            BY <1>3, <3>3, <4>1, FS_Subset
      <4>3. Cardinality(r) <= Cardinality(s \ {y}) /\ Cardinality(r) \in Nat
            BY <4>2, FS_Subset, FS_CardinalityType
      <4>4. Cardinality(r) <= n
            BY <4>1, <4>3
      <4> QED BY <1>5, <4>4
    <3>4. h[s \ {x}] \in Int /\ h[s \ {x}] = i[s \ {x}]
      <4>1. s \ {x} \in SUBSET (S \cap T)
            OBVIOUS
      <4>2. Good(s \ {x})
            BY <3>1, <3>3, <4>1
      <4> QED BY <4>2
    <3>5. f[x] \in Int /\ f[x] = g[x]
          BY <3>1
    <3>6. h[s] \in Int /\ h[s] = i[s]
          BY <3>2, <3>4, <3>5
    <3>7. ASSUME NEW y \in s, y # x PROVE h[s] = f[y] + h[s \ {y}]
      <4> DEFINE r == (s \ {x}) \ {y}
      <4>1. /\ y \in s \ {x} /\ x \in s \ {y} /\ (s \ {y}) \ {x} = r
            /\ s \ {x} \in SUBSET (S \cap T) /\ s \ {y} \in SUBSET (S \cap T)
            /\ r \in SUBSET (S \cap T)
            BY <3>1, <3>7
      <4>2. Good(s \ {x}) /\ Good(s \ {y}) /\ Good(r)
            BY <3>1, <3>3, <4>1
      <4>3. h[s \ {x}] = f[y] + h[r]
            BY <4>1, <4>2
      <4>4. h[s \ {y}] = f[x] + h[r]
            BY <4>1, <4>2
      <4>5. f[x] \in Int /\ f[y] \in Int /\ h[r] \in Int
            BY <3>5, <4>2
      <4> HIDE DEF r
      <4> QED BY <3>2, <4>3, <4>4, <4>5
    <3> QED BY <3>2, <3>6, <3>7
  <2> QED BY <2>0, <2>1
<1>6. \A n \in Nat : n \in P
  <2> HIDE DEF P
  <2> QED BY <1>4, <1>5, SetInduction
<1>7. ASSUME NEW s \in SUBSET (S \cap T) PROVE Good(s)
  <2>1. Cardinality(s) \in Nat
        BY <1>3, FS_Subset, FS_CardinalityType
  <2> QED BY <1>6, <2>1
<1> QED BY <1>7

(* What a sum over a finite set is. *)
LEMMA Sums ==
    ASSUME NEW f, NEW S, IsFiniteSet(S), \A p \in S : f[p] \in Int
    PROVE  /\ SumOver(f, S) \in Int
           /\ SumOver(f, {}) = 0
           /\ \A y \in S : SumOver(f, S) = f[y] + SumOver(f, S \ {y})
           /\ \A g : (\A p \in S : f[p] = g[p]) => SumOver(f, S) = SumOver(g, S)
<1> DEFINE H(k, T) == CHOOSE h : SumLoop(h, k, T)
<1>1. ASSUME NEW k, NEW T, IsFiniteSet(T) PROVE SumLoop(H(k, T), k, T)
      BY <1>1, SumLoopExists
<1>2. \A k, T : SumOver(k, T) = H(k, T)[T]
      BY DEF SumOver
<1> HIDE DEF H
<1>3. SumLoop(H(f, S), f, S)
      BY <1>1
<1>4. SumOver(f, S) \in Int
  <2>1. \A s \in SUBSET (S \cap S) : H(f, S)[s] \in Int
        BY <1>3, SumLoops
  <2> QED BY <1>2, <2>1
<1>5. SumOver(f, {}) = 0
  <2>1. SumLoop(H(f, {}), f, {})
        BY <1>1, FS_EmptySet
  <2>2. H(f, {})[{}] = SumStep(H(f, {}), f, {})
        BY <2>1 DEF SumLoop
  <2> QED BY <1>2, <2>2 DEF SumStep
<1>6. ASSUME NEW y \in S PROVE SumOver(f, S) = f[y] + SumOver(f, S \ {y})
  <2> DEFINE T == S \ {y}
  <2>1. IsFiniteSet(T)
        BY FS_RemoveElement
  <2>2. SumLoop(H(f, T), f, T)
        BY <1>1, <2>1
  <2>3. /\ \A p \in S \cap T : f[p] \in Int /\ f[p] = f[p]
        /\ \A p \in S \cap S : f[p] \in Int /\ f[p] = f[p]
        OBVIOUS
  <2>4. T \in SUBSET (S \cap T) /\ S \in SUBSET (S \cap S)
        OBVIOUS
  <2> HIDE DEF T
  <2>5. \A s \in SUBSET (S \cap T) : H(f, S)[s] = H(f, T)[s]
        BY <1>3, <2>1, <2>2, <2>3, SumLoops
  <2>6. \A s \in SUBSET (S \cap S) : \A z \in s : H(f, S)[s] = f[z] + H(f, S)[s \ {z}]
    <3>1. PICK h, i, g, U : h = H(f, S) /\ i = h /\ g = f /\ U = S
          OBVIOUS
    <3>2. /\ SumLoop(h, f, S) /\ SumLoop(i, g, U)
          /\ IsFiniteSet(U) /\ \A p \in S \cap U : f[p] \in Int /\ f[p] = g[p]
          BY <1>3, <3>1
    <3>3. ASSUME NEW s \in SUBSET (S \cap U), NEW z \in s PROVE h[s] = f[z] + h[s \ {z}]
      <4>1. \A x \in s : h[s] = f[x] + h[s \ {x}]
            BY <3>2, SumLoops
      <4> QED BY <4>1
    <3> QED BY <3>1, <3>3
  <2>7. H(f, S)[S] = f[y] + H(f, S)[S \ {y}]
        BY <2>4, <2>6
  <2>8. H(f, S)[T] = H(f, T)[T]
        BY <2>4, <2>5
  <2> QED BY <1>2, <2>7, <2>8 DEF T
<1>7. ASSUME NEW g, \A p \in S : f[p] = g[p] PROVE SumOver(f, S) = SumOver(g, S)
  <2>1. SumLoop(H(g, S), g, S)
        BY <1>1
  <2>2. \A p \in S \cap S : f[p] \in Int /\ f[p] = g[p]
        BY <1>7
  <2>3. \A s \in SUBSET (S \cap S) : H(f, S)[s] = H(g, S)[s]
        BY <1>3, <2>1, <2>2, SumLoops
  <2>4. S \in SUBSET (S \cap S)
        OBVIOUS
  <2> QED BY <1>2, <2>3, <2>4
<1> QED BY <1>4, <1>5, <1>6, <1>7

(* The first n numbers: 0, ..., n - 1. *)
Upto(n) == 0..(n - 1)

(* A sum over them grows by its last term. *)
LEMMA SumGrows ==
    ASSUME NEW f, NEW n \in Nat, \A p \in Upto(n + 1) : f[p] \in Int
    PROVE  /\ SumOver(f, Upto(n)) \in Int
           /\ SumOver(f, Upto(n + 1)) = SumOver(f, Upto(n)) + f[n]
<1>1. IsFiniteSet(Upto(n)) /\ IsFiniteSet(Upto(n + 1))
      BY FS_Interval DEF Upto
<1>2. n \in Upto(n + 1) /\ Upto(n + 1) \ {n} = Upto(n) /\ Upto(n) \subseteq Upto(n + 1)
      BY DEF Upto
<1>3. SumOver(f, Upto(n)) \in Int
      BY <1>1, <1>2, Sums
<1>4. SumOver(f, Upto(n + 1)) = f[n] + SumOver(f, Upto(n + 1) \ {n})
      BY <1>1, <1>2, Sums
<1>5. f[n] \in Int
      BY <1>2
<1>6. SumOver(f, Upto(n + 1)) = f[n] + SumOver(f, Upto(n))
      BY <1>2, <1>4
<1> DEFINE x == SumOver(f, Upto(n))
<1> HIDE DEF x
<1>7. f[n] + x = x + f[n] /\ x \in Int
      BY <1>3, <1>5 DEF x
<1> QED BY <1>6, <1>7 DEF x

(* An empty sum is zero; sums of equal terms are equal.                    *)
LEMMA SumBasics ==
    ASSUME NEW f, NEW n \in Nat, \A p \in Upto(n) : f[p] \in Int
    PROVE  /\ SumOver(f, Upto(n)) \in Int
           /\ SumOver(f, Upto(0)) = 0
           /\ \A g : (\A p \in Upto(n) : f[p] = g[p]) => SumOver(f, Upto(n)) = SumOver(g, Upto(n))
<1>1. IsFiniteSet(Upto(n))
      BY FS_Interval DEF Upto
<1>2. Upto(0) = {}
      BY DEF Upto
<1>3. SumOver(f, {}) = 0
      BY <1>1, Sums
<1> QED BY <1>1, <1>2, <1>3, Sums

(* Terms in a fixed proportion sum in that proportion.                     *)
InProportion(f, g, a, b, n) ==
    \A p \in Upto(n) : f[p] \in Int /\ g[p] \in Int /\ f[p] * a = g[p] * b

(* Then the sums are in that proportion too: an induction on their length. *)
LEMMA SumScales ==
    ASSUME NEW f, NEW g, NEW a \in Int, NEW b \in Int, NEW n \in Nat,
           InProportion(f, g, a, b, n)
    PROVE  SumOver(f, Upto(n)) * a = SumOver(g, Upto(n)) * b
<1> \A p \in Upto(n) : f[p] \in Int /\ g[p] \in Int /\ f[p] * a = g[p] * b
    BY DEF InProportion
<1> DEFINE P == {k \in Nat : k <= n => SumOver(f, Upto(k)) * a = SumOver(g, Upto(k)) * b}
<1>1. 0 \in P
  <2>1. SumOver(f, Upto(0)) = 0 /\ SumOver(g, Upto(0)) = 0
        BY SumBasics
  <2> QED BY <2>1
<1>2. ASSUME NEW k \in Nat, k \in P PROVE k + 1 \in P
  <2> SUFFICES ASSUME k + 1 <= n
               PROVE  SumOver(f, Upto(k + 1)) * a = SumOver(g, Upto(k + 1)) * b
      OBVIOUS
  <2>1. Upto(k + 1) \subseteq Upto(n) /\ k \in Upto(n)
        BY DEF Upto
  <2> DEFINE x == SumOver(f, Upto(k))
             y == SumOver(g, Upto(k))
  <2>2. x \in Int /\ SumOver(f, Upto(k + 1)) = x + f[k]
        BY <2>1, SumGrows
  <2>3. y \in Int /\ SumOver(g, Upto(k + 1)) = y + g[k]
        BY <2>1, SumGrows
  <2>4. x * a = y * b
        BY <1>2
  <2>5. f[k] \in Int /\ g[k] \in Int /\ f[k] * a = g[k] * b
        BY <2>1
  <2> HIDE DEF x, y
  <2>6. (x + f[k]) * a = x * a + f[k] * a /\ (y + g[k]) * b = y * b + g[k] * b
        BY <2>2, <2>3, <2>5
  <2> QED BY <2>2, <2>3, <2>4, <2>5, <2>6
<1>3. \A k \in Nat : k \in P
  <2> HIDE DEF P
  <2> QED BY <1>1, <1>2, SetInduction
<1> QED BY <1>3

(* A sum in two parts, the second counted from zero.                       *)
Continues(f, g, n, m, l) ==
    /\ n \in Nat /\ m \in Nat /\ l = n + m
    /\ \A p \in Upto(l) : f[p] \in Int
    /\ \A p \in Upto(m) : g[p] = f[n + p]

(* Its sum is that of the first part and that of the second. *)
LEMMA SumSplits ==
    ASSUME NEW f, NEW g, NEW n, NEW m, NEW l, Continues(f, g, n, m, l)
    PROVE  SumOver(f, Upto(l)) = SumOver(f, Upto(n)) + SumOver(g, Upto(m))
<1> DEFINE P == {k \in Nat : k <= m => SumOver(f, Upto(n + k)) = SumOver(f, Upto(n)) + SumOver(g, Upto(k))}
<1> /\ n \in Nat /\ m \in Nat /\ l = n + m
    /\ \A p \in Upto(n + m) : f[p] \in Int
    /\ \A p \in Upto(m) : g[p] = f[n + p]
    BY DEF Continues
<1>0. ASSUME NEW p \in Upto(m) PROVE g[p] \in Int
  <2>1. n + p \in Upto(n + m)
        BY <1>0 DEF Upto
  <2> QED BY <2>1
<1>1. 0 \in P
  <2>1. SumOver(g, Upto(0)) = 0
        BY <1>0, SumBasics
  <2>2. Upto(n) \subseteq Upto(n + m)
        BY DEF Upto
  <2>3. SumOver(f, Upto(n)) \in Int
        BY <2>2, SumBasics
  <2>4. n + 0 = n
        OBVIOUS
  <2> QED BY <2>1, <2>3, <2>4
<1>2. ASSUME NEW k \in Nat, k \in P PROVE k + 1 \in P
  <2> SUFFICES ASSUME k + 1 <= m
               PROVE  SumOver(f, Upto(n + (k + 1))) = SumOver(f, Upto(n)) + SumOver(g, Upto(k + 1))
      OBVIOUS
  <2>1. /\ Upto(k + 1) \subseteq Upto(m) /\ k \in Upto(m)
        /\ Upto((n + k) + 1) \subseteq Upto(n + m) /\ n + k \in Nat /\ n + (k + 1) = (n + k) + 1
        /\ Upto(n) \subseteq Upto(n + m)
        BY DEF Upto
  <2> DEFINE x == SumOver(f, Upto(n + k))
             y == SumOver(g, Upto(k))
             z == SumOver(f, Upto(n))
  <2>2. x \in Int /\ SumOver(f, Upto((n + k) + 1)) = x + f[n + k]
        BY <2>1, SumGrows
  <2>3. y \in Int /\ SumOver(g, Upto(k + 1)) = y + g[k]
        BY <1>0, <2>1, SumGrows
  <2>4. z \in Int
        BY <2>1, SumBasics
  <2>5. x = z + y
        BY <1>2
  <2>6. g[k] = f[n + k] /\ g[k] \in Int
        BY <1>0, <2>1
  <2> HIDE DEF x, y, z
  <2>7. SumOver(f, Upto(n + (k + 1))) = x + f[n + k]
        BY <2>1, <2>2
  <2>8. x + f[n + k] = z + (y + g[k])
        BY <2>2, <2>3, <2>4, <2>5, <2>6
  <2> QED BY <2>3, <2>7, <2>8 DEF z
<1>3. \A k \in Nat : k \in P
  <2> HIDE DEF P
  <2> QED BY <1>1, <1>2, SetInduction
<1>4. m \in P
      BY <1>3
<1> QED BY <1>4

(* Zeros at the end add nothing.                                           *)
LEMMA SumZeros ==
    ASSUME NEW f, NEW n \in Nat, NEW m \in Nat, n <= m,
           \A p \in Upto(n) : f[p] \in Int,
           \A p \in Upto(m) \ Upto(n) : f[p] = 0
    PROVE  SumOver(f, Upto(m)) = SumOver(f, Upto(n))
<1> DEFINE P == {k \in Nat : n + k <= m => SumOver(f, Upto(n + k)) = SumOver(f, Upto(n))}
<1>1. 0 \in P
  <2>1. n + 0 = n
        OBVIOUS
  <2> QED BY <2>1
<1>2. ASSUME NEW k \in Nat, k \in P PROVE k + 1 \in P
  <2> SUFFICES ASSUME n + (k + 1) <= m
               PROVE  SumOver(f, Upto(n + (k + 1))) = SumOver(f, Upto(n))
      OBVIOUS
  <2>1. /\ n + k \in Upto(m) \ Upto(n) /\ n + k \in Nat /\ n + (k + 1) = (n + k) + 1
        /\ Upto((n + k) + 1) \subseteq Upto(m)
        BY DEF Upto
  <2>2. \A p \in Upto((n + k) + 1) : f[p] \in Int
        BY <2>1
  <2>3. SumOver(f, Upto(n + k)) \in Int
        /\ SumOver(f, Upto((n + k) + 1)) = SumOver(f, Upto(n + k)) + f[n + k]
        BY <2>1, <2>2, SumGrows
  <2>4. SumOver(f, Upto(n + k)) = SumOver(f, Upto(n)) /\ f[n + k] = 0
        BY <1>2, <2>1
  <2> QED BY <2>1, <2>3, <2>4
<1>3. \A k \in Nat : k \in P
  <2> HIDE DEF P
  <2> QED BY <1>1, <1>2, SetInduction
<1>4. m - n \in Nat /\ n + (m - n) = m
      OBVIOUS
<1> QED BY <1>3, <1>4

-----------------------------------------------------------------------------
(* Maxima and powers.                                                      *)

(* The element that is at least every other. *)
LEMMA MaxIs ==
    ASSUME NEW S \in SUBSET Int, NEW x \in S, \A y \in S : x >= y
    PROVE  Max(S) = x
<1>1. \E z \in S : \A y \in S : z >= y
      OBVIOUS
<1>2. Max(S) \in S /\ \A y \in S : Max(S) >= y
      BY <1>1 DEF Max
<1> DEFINE m == Max(S)
<1> HIDE DEF m
<1>3. m \in S /\ m >= x /\ x >= m
      BY <1>2 DEF m
<1>4. m \in Int /\ x \in Int
      BY <1>3
<1>5. m = x
      BY <1>3, <1>4
<1> QED BY <1>5 DEF m

(* The top of the first n scores, and Lowest before any. *)
Tops(f, n) == {Lowest} \cup {f[p] : p \in Upto(n)}
TopOf(f, n) == Max(Tops(f, n))

(* It is one of them, and at least every other. *)
LEMMA TopIs ==
    ASSUME NEW f, NEW n \in Nat, \A p \in Upto(n) : f[p] \in Int
    PROVE  TopOf(f, n) \in Tops(f, n) /\ TopOf(f, n) \in Int
           /\ \A y \in Tops(f, n) : TopOf(f, n) >= y
<1> DEFINE P == {k \in Nat : k <= n =>
                    \E x \in Tops(f, k) : x \in Int /\ \A y \in Tops(f, k) : x >= y}
<1>1. 0 \in P
      BY DEF Tops, Upto, Lowest
<1>2. ASSUME NEW k \in Nat, k \in P PROVE k + 1 \in P
  <2> SUFFICES ASSUME k + 1 <= n
               PROVE  \E x \in Tops(f, k + 1) : x \in Int /\ \A y \in Tops(f, k + 1) : x >= y
      OBVIOUS
  <2>1. Tops(f, k + 1) = Tops(f, k) \cup {f[k]}
    <3>1. Upto(k + 1) = Upto(k) \cup {k}
          BY DEF Upto
    <3> QED BY <3>1 DEF Tops
  <2>2. PICK x \in Tops(f, k) : x \in Int /\ \A y \in Tops(f, k) : x >= y
        BY <1>2
  <2>3. f[k] \in Int
    <3>1. k \in Upto(n)
          BY DEF Upto
    <3> QED BY <3>1
  <2>4. Tops(f, k) \in SUBSET Int
    <3>1. Upto(k) \subseteq Upto(n)
          BY DEF Upto
    <3> QED BY <3>1 DEF Tops, Lowest
  <2>5. CASE x >= f[k]
        BY <2>1, <2>2, <2>5
  <2>6. CASE ~ (x >= f[k])
    <3>1. \A y \in Tops(f, k) : f[k] >= y
          BY <2>2, <2>3, <2>4, <2>6
    <3> QED BY <2>1, <2>3, <3>1
  <2> QED BY <2>5, <2>6
<1>3. n \in P
  <2> HIDE DEF P
  <2> QED BY <1>1, <1>2, SetInduction
<1>4. PICK x \in Tops(f, n) : x \in Int /\ \A y \in Tops(f, n) : x >= y
      BY <1>3
<1>5. Tops(f, n) \in SUBSET Int
      BY DEF Tops, Lowest
<1>6. TopOf(f, n) = x
      BY <1>4, <1>5, MaxIs DEF TopOf
<1> QED BY <1>4, <1>6

(* The top of more scores, from the top of the first ones. *)
Others(f, n, m) == {f[n + j] : j \in Upto(m)}
(* It is the greatest of the old top and the scores that came. *)
LEMMA TopStep ==
    ASSUME NEW f, NEW n \in Nat, NEW m \in Nat, NEW l \in Nat, l = n + m, \A p \in Upto(l) : f[p] \in Int
    PROVE  /\ TopOf(f, n) \in Int /\ TopOf(f, l) \in Int /\ TopOf(f, n) <= TopOf(f, l)
           /\ TopOf(f, l) = Max({TopOf(f, n)} \cup Others(f, n, m))
<1> DEFINE x == TopOf(f, n)
           y == TopOf(f, l)
           S == {x} \cup {f[n + j] : j \in Upto(m)}
<1>1. /\ Upto(n) \subseteq Upto(l) /\ \A j \in Upto(m) : n + j \in Upto(l)
      /\ \A p \in Upto(l) : p \in Upto(n) \/ \E j \in Upto(m) : p = n + j
  <2>1. /\ Upto(n) \subseteq Upto(l) /\ \A j \in Upto(m) : n + j \in Upto(l)
        BY DEF Upto
  <2>2. ASSUME NEW p \in Upto(l), p \notin Upto(n) PROVE p - n \in Upto(m) /\ p = n + (p - n)
        BY <2>2 DEF Upto
  <2> QED BY <2>1, <2>2
<1>2. x \in Tops(f, n) /\ x \in Int /\ \A z \in Tops(f, n) : x >= z
      BY <1>1, TopIs
<1>3. y \in Tops(f, l) /\ y \in Int /\ \A z \in Tops(f, l) : y >= z
      BY TopIs
<1> HIDE DEF x, y
<1>4. x <= y
  <2>1. Tops(f, n) \subseteq Tops(f, l)
        BY <1>1 DEF Tops
  <2> QED BY <1>2, <1>3, <2>1
<1>5. \A z \in S : z \in Int /\ y >= z
  <2>1. ASSUME NEW j \in Upto(m) PROVE f[n + j] \in Int /\ y >= f[n + j]
    <3>1. f[n + j] \in Tops(f, l)
          BY <1>1 DEF Tops
    <3> QED BY <1>1, <1>3, <3>1
  <2> QED BY <1>2, <1>3, <1>4, <2>1
<1>6. y \in S
  <2>1. CASE y = Lowest
    <3>1. x >= y
          BY <1>2, <2>1 DEF Tops
    <3>2. x = y
          BY <1>2, <1>3, <1>4, <3>1
    <3> QED BY <3>2
  <2>2. ASSUME NEW p \in Upto(n), y = f[p] PROVE y \in S
    <3>1. x >= y
          BY <1>2, <2>2 DEF Tops
    <3>2. x = y
          BY <1>2, <1>3, <1>4, <3>1
    <3> QED BY <3>2
  <2>3. ASSUME NEW j \in Upto(m), y = f[n + j] PROVE y \in S
        BY <2>3
  <2> HIDE DEF S
  <2> QED BY <1>1, <1>3, <2>1, <2>2, <2>3 DEF Tops
<1>7. Max(S) = y
  <2> HIDE DEF S
  <2> QED BY <1>5, <1>6, MaxIs
<1> QED BY <1>2, <1>3, <1>4, <1>7 DEF x, y, Others

(* Equal scores have equal tops. *)
LEMMA TopSame ==
    ASSUME NEW f, NEW g, NEW n \in Nat, \A p \in Upto(n) : f[p] = g[p]
    PROVE  TopOf(f, n) = TopOf(g, n)
<1>1. Tops(f, n) = Tops(g, n)
      BY DEF Tops
<1> QED BY <1>1 DEF TopOf

(* The exponential on the range of the clamp, and beyond it. *)
LEMMA Exps ==
    /\ Exp(0) = 256 /\ Exp(-1) = 128 /\ Exp(-2) = 64 /\ Exp(-3) = 32 /\ Exp(-4) = 16
    /\ Exp(-5) = 8 /\ Exp(-6) = 4 /\ Exp(-7) = 2 /\ Exp(-8) = 1
    /\ \A x \in Int : Exp(x) \in Nat /\ (x > 0 => Exp(x) = 256) /\ (x < -8 => Exp(x) = 1)
<1>0. ASSUME NEW n, n = 0 PROVE 2 ^ n = 1
      BY <1>0
<1>1. ASSUME NEW n, n = 1 PROVE 2 ^ n = 2
      BY <1>1
<1>2. ASSUME NEW n, n = 2 PROVE 2 ^ n = 4
      BY <1>2
<1>3. ASSUME NEW n, n = 3 PROVE 2 ^ n = 8
      BY <1>3
<1>4. ASSUME NEW n, n = 4 PROVE 2 ^ n = 16
      BY <1>4
<1>5. ASSUME NEW n, n = 5 PROVE 2 ^ n = 32
      BY <1>5
<1>6. ASSUME NEW n, n = 6 PROVE 2 ^ n = 64
      BY <1>6
<1>7. ASSUME NEW n, n = 7 PROVE 2 ^ n = 128
      BY <1>7
<1>8. ASSUME NEW n, n = 8 PROVE 2 ^ n = 256
      BY <1>8
<1> DEFINE e(x) == Unit + Power(x)
<1>9. /\ e(0) = 8 /\ e(-1) = 7 /\ e(-2) = 6 /\ e(-3) = 5 /\ e(-4) = 4
      /\ e(-5) = 3 /\ e(-6) = 2 /\ e(-7) = 1 /\ e(-8) = 0
      /\ \A x \in Int : (x > 0 => e(x) = 8) /\ (x < -8 => e(x) = 0)
      BY DEF Power, Unit, ExpFloor
<1>10. \A x : Exp(x) = 2 ^ e(x)
      BY DEF Exp
<1> HIDE DEF e
<1>11. /\ Exp(0) = 256 /\ Exp(-1) = 128 /\ Exp(-2) = 64
       BY <1>8, <1>7, <1>6, <1>9, <1>10
<1>12. /\ Exp(-3) = 32 /\ Exp(-4) = 16 /\ Exp(-5) = 8
       BY <1>3, <1>4, <1>5, <1>9, <1>10
<1>13. /\ Exp(-6) = 4 /\ Exp(-7) = 2 /\ Exp(-8) = 1
       BY <1>0, <1>1, <1>2, <1>9, <1>10
<1>14. ASSUME NEW x \in Int PROVE (x > 0 => Exp(x) = 256) /\ (x < -8 => Exp(x) = 1)
       BY <1>0, <1>8, <1>9, <1>10
<1>15. ASSUME NEW x \in Int PROVE Exp(x) \in Nat
  <2>1. x > 0 \/ x < -8 \/ x = 0 \/ x = -1 \/ x = -2 \/ x = -3 \/ x = -4 \/ x = -5 \/ x = -6
        \/ x = -7 \/ x = -8
        OBVIOUS
  <2> QED BY <2>1, <1>11, <1>12, <1>13, <1>14
<1> QED BY <1>11, <1>12, <1>13, <1>14, <1>15

(* A weight against one top, carried over to a later one. *)
LEMMA ExpCarries ==
    ASSUME NEW a \in Int, NEW b \in Int, -8 <= a + b, a <= 0, b <= 0
    PROVE  Exp(a) * Exp(b) = 256 * Exp(a + b)
<1>1. \A x \in {a, b, a + b} : x \in Int /\ x >= -8 /\ x <= 0
      OBVIOUS
<1>2. CASE b = 0
  <2>1. a = 0 \/ a = -1 \/ a = -2 \/ a = -3 \/ a = -4 \/ a = -5 \/ a = -6 \/ a = -7 \/ a = -8
        OBVIOUS
  <2> QED BY <1>2, <2>1, Exps
<1>3. CASE b = -1
  <2>1. a = 0 \/ a = -1 \/ a = -2 \/ a = -3 \/ a = -4 \/ a = -5 \/ a = -6 \/ a = -7
        BY <1>3
  <2> QED BY <1>3, <2>1, Exps
<1>4. CASE b = -2
  <2>1. a = 0 \/ a = -1 \/ a = -2 \/ a = -3 \/ a = -4 \/ a = -5 \/ a = -6
        BY <1>4
  <2> QED BY <1>4, <2>1, Exps
<1>5. CASE b = -3
  <2>1. a = 0 \/ a = -1 \/ a = -2 \/ a = -3 \/ a = -4 \/ a = -5
        BY <1>5
  <2> QED BY <1>5, <2>1, Exps
<1>6. CASE b = -4
  <2>1. a = 0 \/ a = -1 \/ a = -2 \/ a = -3 \/ a = -4
        BY <1>6
  <2> QED BY <1>6, <2>1, Exps
<1>7. CASE b = -5
  <2>1. a = 0 \/ a = -1 \/ a = -2 \/ a = -3
        BY <1>7
  <2> QED BY <1>7, <2>1, Exps
<1>8. CASE b = -6
  <2>1. a = 0 \/ a = -1 \/ a = -2
        BY <1>8
  <2> QED BY <1>8, <2>1, Exps
<1>9. CASE b = -7
  <2>1. a = 0 \/ a = -1
        BY <1>9
  <2> QED BY <1>9, <2>1, Exps
<1>10. CASE b = -8
  <2>1. a = 0
        BY <1>10
  <2> QED BY <1>10, <2>1, Exps
<1>11. b = 0 \/ b = -1 \/ b = -2 \/ b = -3 \/ b = -4 \/ b = -5 \/ b = -6 \/ b = -7 \/ b = -8
       BY <1>1
<1> QED BY <1>2, <1>3, <1>4, <1>5, <1>6, <1>7, <1>8, <1>9, <1>10, <1>11

-----------------------------------------------------------------------------
(* The online step.                                                        *)

(* Scores within the reach of the exponential's clamp. *)
Bounded(f, n) ==
    \A p \in Upto(n) : /\ f[p] \in Int /\ f[p] >= Lowest
                       /\ \A q \in Upto(n) : f[p] - f[q] >= ExpFloor

(* Numbers weighted by the exponentials of n scores, and those weights.    *)
MixTo(f, g, n, top) == SumOver([p \in Upto(n) |-> Exp(f[p] - top) * g[p]], Upto(n))
MixOf(f, g, n) == MixTo(f, g, n, TopOf(f, n))
WeightOf(f, n) == SumOver([p \in Upto(n) |-> Exp(f[p] - TopOf(f, n))], Upto(n))

(* The top is one of the scores, or they all are Lowest. *)
LEMMA TopReached ==
    ASSUME NEW f, NEW n \in Nat, Bounded(f, n), n > 0
    PROVE  \E q \in Upto(n) : TopOf(f, n) = f[q]
<1>1. 0 \in Upto(n) /\ \A p \in Upto(n) : f[p] \in Int /\ f[p] >= Lowest
      BY DEF Bounded, Upto
<1>2. TopOf(f, n) \in Tops(f, n) /\ TopOf(f, n) \in Int /\ \A y \in Tops(f, n) : TopOf(f, n) >= y
      BY <1>1, TopIs
<1> DEFINE x == TopOf(f, n)
<1> HIDE DEF x
<1>3. x >= f[0] /\ x \in Int /\ x \in Tops(f, n)
      BY <1>1, <1>2 DEF Tops, x
<1>4. CASE x = Lowest
  <2>1. x = f[0]
        BY <1>1, <1>3, <1>4
  <2> QED BY <1>1, <2>1 DEF x
<1>5. CASE x # Lowest
      BY <1>3, <1>5 DEF Tops, x
<1> QED BY <1>4, <1>5

(* The first values, and the terms of m more scores. *)
Numbers(g, n) == \A p \in Upto(n) : g[p] \in Int
Terms(h, f, g, n, m, l) ==
    l = n + m /\ \A j \in Upto(m) : h[j] = Exp(f[n + j] - TopOf(f, l)) * g[n + j]

(* What is summed over more scores is what was summed over the first ones, *)
(* scaled to the new top, and the terms of the others.                     *)
LEMMA MixStep ==
    ASSUME NEW f, NEW g, NEW h, NEW n \in Nat, NEW m \in Nat, NEW l \in Nat, Bounded(f, l),
           Numbers(g, l),
           Terms(h, f, g, n, m, l)
    PROVE  /\ MixOf(f, g, n) \in Int /\ MixOf(f, g, l) \in Int /\ SumOver(h, Upto(m)) \in Int
           /\ MixOf(f, g, l) =
                Scaled(MixOf(f, g, n), Exp(TopOf(f, n) - TopOf(f, l))) + SumOver(h, Upto(m))
<1> DEFINE x == TopOf(f, n)
           y == TopOf(f, l)
           old == [p \in Upto(n) |-> Exp(f[p] - x) * g[p]]
           new == [p \in Upto(l) |-> Exp(f[p] - y) * g[p]]
           a == Exp(x - y)
<1> l = n + m /\ \A p \in Upto(l) : g[p] \in Int
    BY DEF Numbers, Terms
<1>0. \A j \in Upto(m) : h[j] = Exp(f[n + j] - y) * g[n + j]
      BY DEF Terms
<1>1. /\ Upto(n) \subseteq Upto(l) /\ \A j \in Upto(m) : n + j \in Upto(l)
      BY DEF Upto
<1>2. \A p \in Upto(l) : f[p] \in Int /\ f[p] >= Lowest /\ \A q \in Upto(l) : f[p] - f[q] >= -8
      BY DEF Bounded, ExpFloor
<1>3. x \in Int /\ y \in Int /\ x <= y
      BY <1>2, TopStep
<1>4. \A p \in Upto(n) : f[p] <= x
  <2>1. \A z \in Tops(f, n) : x >= z
        BY <1>1, <1>2, TopIs
  <2> QED BY <1>1, <1>2, <1>3, <2>1 DEF Tops
<1>5. ASSUME NEW p \in Upto(n) PROVE -8 <= f[p] - y
  <2>1. l > 0 /\ p \in Upto(l)
        BY <1>1 DEF Upto
  <2>3. PICK q \in Upto(l) : y = f[q]
        BY <2>1, TopReached
  <2> QED BY <1>2, <2>1, <2>3
<1> HIDE DEF x, y
<1>6. a \in Int
      BY <1>3, Exps
<1> HIDE DEF a
<1>7. \A p \in Upto(n) : Exp(f[p] - x) \in Int /\ g[p] \in Int /\ old[p] \in Int /\ old[p] = Exp(f[p] - x) * g[p]
  <2>1. ASSUME NEW p \in Upto(n) PROVE Exp(f[p] - x) \in Int /\ g[p] \in Int
        BY <1>1, <1>2, <1>3, Exps
  <2>2. ASSUME NEW p \in Upto(n) PROVE Exp(f[p] - x) * g[p] \in Int
        BY <2>1
  <2> QED BY <2>1, <2>2
<1>8. \A p \in Upto(l) : Exp(f[p] - y) \in Int /\ g[p] \in Int /\ new[p] \in Int /\ new[p] = Exp(f[p] - y) * g[p]
  <2>1. ASSUME NEW p \in Upto(l) PROVE Exp(f[p] - y) \in Int /\ g[p] \in Int
        BY <1>1, <1>2, <1>3, Exps
  <2>2. ASSUME NEW p \in Upto(l) PROVE Exp(f[p] - y) * g[p] \in Int
        BY <2>1
  <2> QED BY <2>1, <2>2
<1>9. ASSUME NEW p \in Upto(n) PROVE old[p] * a = new[p] * 256
  <2>1. f[p] - x \in Int /\ x - y \in Int /\ -8 <= (f[p] - x) + (x - y) /\ f[p] - x <= 0 /\ x - y <= 0
        /\ (f[p] - x) + (x - y) = f[p] - y
        BY <1>1, <1>2, <1>3, <1>4, <1>5
  <2>2. Exp(f[p] - x) * a = 256 * Exp(f[p] - y)
        BY <2>1, ExpCarries DEF a
  <2> DEFINE u == Exp(f[p] - x)
             w == Exp(f[p] - y)
  <2>3. u \in Int /\ w \in Int /\ g[p] \in Int /\ old[p] = u * g[p] /\ new[p] = w * g[p]
        BY <1>1, <1>7, <1>8
  <2> HIDE DEF u, w, old, new
  <2>4. (u * g[p]) * a = g[p] * (u * a) /\ (w * g[p]) * 256 = g[p] * (256 * w)
        BY <1>6, <2>3
  <2>5. u * a = 256 * w
        BY <2>2 DEF u, w
  <2> QED BY <2>3, <2>4, <2>5
<1> HIDE DEF old, new
<1>10. SumOver(old, Upto(n)) * a = SumOver(new, Upto(n)) * 256
  <2>1. InProportion(old, new, a, 256, n)
        BY <1>1, <1>7, <1>8, <1>9 DEF InProportion
  <2>2. 256 \in Int
        OBVIOUS
  <2> QED BY <1>6, <2>1, <2>2, SumScales
<1>11. SumOver(new, Upto(l)) = SumOver(new, Upto(n)) + SumOver(h, Upto(m))
  <2>1. \A j \in Upto(m) : h[j] = new[n + j]
        BY <1>0, <1>1, <1>8
  <2>2. \A p \in Upto(l) : new[p] \in Int
        BY <1>8
  <2>3. Continues(new, h, n, m, l)
        BY <2>1, <2>2 DEF Continues
  <2> QED BY <2>3, SumSplits
<1> DEFINE s == SumOver(old, Upto(n))
           t == SumOver(new, Upto(n))
           k == SumOver(h, Upto(m))
<1>12. s \in Int /\ t \in Int
       BY <1>1, <1>7, <1>8, SumBasics
<1>13. k \in Int
  <2>1. \A j \in Upto(m) : h[j] \in Int
        BY <1>0, <1>1, <1>8
  <2> QED BY <2>1, SumBasics
<1>14. /\ MixOf(f, g, n) = s /\ MixOf(f, g, l) = SumOver(new, Upto(l))
       BY DEF MixOf, MixTo, old, new, x, y
<1> HIDE DEF s, t, k
<1>15. (s * a) \div 256 = t
  <2>1. s * a = t * 256
        BY <1>10 DEF s, t
  <2>2. (t * 256) \div 256 = t
        BY <1>12
  <2> QED BY <2>1, <2>2
<1>16. Scaled(s, a) = t
  <2>1. \A z : z = 8 => 2 ^ z = 256
        BY Exps
  <2>2. 2 ^ Unit = 256
        BY <2>1 DEF Unit
  <2> QED BY <1>15, <2>2 DEF Scaled
<1>17. MixOf(f, g, l) = t + k
       BY <1>11, <1>14 DEF t, k
<1>18. MixOf(f, g, l) \in Int
       BY <1>12, <1>13, <1>17
<1> QED BY <1>12, <1>13, <1>14, <1>16, <1>17, <1>18 DEF a, x, y, k

(* The weights are the mix of ones. *)
Weights(h, f, n, m, l) == l = n + m /\ \A j \in Upto(m) : h[j] = Exp(f[n + j] - TopOf(f, l))

(* The online step of the sum: that of the accumulator with values of one. *)
LEMMA WeightStep ==
    ASSUME NEW f, NEW h, NEW n \in Nat, NEW m \in Nat, NEW l \in Nat, Bounded(f, l),
           Weights(h, f, n, m, l)
    PROVE  /\ WeightOf(f, n) \in Int /\ WeightOf(f, l) \in Int /\ SumOver(h, Upto(m)) \in Int
           /\ WeightOf(f, l) =
                Scaled(WeightOf(f, n), Exp(TopOf(f, n) - TopOf(f, l))) + SumOver(h, Upto(m))
<1> l = n + m
    BY DEF Weights
<1> DEFINE g == [p \in Upto(l) |-> 1]
<1>1. /\ Upto(n) \subseteq Upto(l) /\ \A j \in Upto(m) : n + j \in Upto(l)
      BY DEF Upto
<1>2. \A p \in Upto(l) : g[p] = 1
      OBVIOUS
<1> HIDE DEF g
<1>3. ASSUME NEW k \in Nat, k <= l PROVE MixOf(f, g, k) = WeightOf(f, k)
  <2>1. Upto(k) \subseteq Upto(l)
        BY <1>3 DEF Upto
  <2>2. \A p \in Upto(k) : f[p] \in Int
        BY <2>1 DEF Bounded
  <2>3. TopOf(f, k) \in Int
        BY <2>2, TopIs
  <2>4. ASSUME NEW p \in Upto(k) PROVE Exp(f[p] - TopOf(f, k)) * g[p] = Exp(f[p] - TopOf(f, k))
    <3>1. Exp(f[p] - TopOf(f, k)) \in Int
          BY <2>2, <2>3, Exps
    <3> QED BY <1>2, <2>1, <3>1
  <2>5. [p \in Upto(k) |-> Exp(f[p] - TopOf(f, k)) * g[p]] = [p \in Upto(k) |-> Exp(f[p] - TopOf(f, k))]
        BY <2>4
  <2> QED BY <2>5 DEF MixOf, MixTo, WeightOf
<1>4. \A j \in Upto(m) : h[j] = Exp(f[n + j] - TopOf(f, l)) * g[n + j]
  <2>1. \A p \in Upto(l) : f[p] \in Int
        BY DEF Bounded
  <2>2. TopOf(f, l) \in Int
        BY <2>1, TopIs
  <2>3. ASSUME NEW j \in Upto(m) PROVE h[j] = Exp(f[n + j] - TopOf(f, l)) * g[n + j]
    <3>1. Exp(f[n + j] - TopOf(f, l)) \in Int
          BY <1>1, <2>1, <2>2, Exps
    <3> QED BY <1>1, <1>2, <3>1 DEF Weights
  <2> QED BY <2>3
<1>5. MixOf(f, g, n) = WeightOf(f, n) /\ MixOf(f, g, l) = WeightOf(f, l)
      BY <1>3
<1>6. Numbers(g, l) /\ Terms(h, f, g, n, m, l)
      BY <1>2, <1>4 DEF Numbers, Terms
<1>7. /\ MixOf(f, g, n) \in Int /\ MixOf(f, g, l) \in Int /\ SumOver(h, Upto(m)) \in Int
      /\ MixOf(f, g, l) =
           Scaled(MixOf(f, g, n), Exp(TopOf(f, n) - TopOf(f, l))) + SumOver(h, Upto(m))
  <2>1. n \in Nat /\ m \in Nat /\ l \in Nat /\ l = n + m /\ Bounded(f, l) /\ Numbers(g, l)
        BY <1>6
  <2>2. Terms(h, f, g, n, m, l)
        BY <1>6
  <2> QED BY <2>1, <2>2, MixStep
<1> QED BY <1>5, <1>7

(* Equal scores and values have equal mixes and weights. *)
LEMMA MixSame ==
    ASSUME NEW f, NEW g, NEW i, NEW j, NEW n \in Nat,
           \A p \in Upto(n) : f[p] = i[p] /\ g[p] = j[p]
    PROVE  MixOf(f, g, n) = MixOf(i, j, n) /\ WeightOf(f, n) = WeightOf(i, n)
<1>1. TopOf(f, n) = TopOf(i, n)
      BY TopSame
<1> DEFINE x == TopOf(f, n)
<1> HIDE DEF x
<1>2. [p \in Upto(n) |-> Exp(f[p] - x) * g[p]] = [p \in Upto(n) |-> Exp(i[p] - x) * j[p]]
      OBVIOUS
<1>3. [p \in Upto(n) |-> Exp(f[p] - x)] = [p \in Upto(n) |-> Exp(i[p] - x)]
      OBVIOUS
<1> QED BY <1>1, <1>2, <1>3 DEF MixOf, MixTo, WeightOf, x

(* Nothing seen: the first state of a row. *)
LEMMA MixNone ==
    ASSUME NEW f, NEW g
    PROVE  TopOf(f, 0) = Lowest /\ MixOf(f, g, 0) = 0 /\ WeightOf(f, 0) = 0
<1>1. Upto(0) = {}
      BY DEF Upto
<1>2. TopOf(f, 0) = Lowest
  <2>1. Tops(f, 0) = {Lowest}
        BY <1>1 DEF Tops
  <2>2. Lowest \in Int
        BY DEF Lowest
  <2> QED BY <2>1, <2>2, MaxIs DEF TopOf
<1>3. \A u : SumOver(u, Upto(0)) = 0
  <2>1. ASSUME NEW u PROVE SumOver(u, Upto(0)) = 0
        BY <1>1, SumBasics
  <2> QED BY <2>1
<1> QED BY <1>2, <1>3 DEF MixOf, MixTo, WeightOf

-----------------------------------------------------------------------------
(* The sums of the model.                                                  *)

(* The sum the community modules fold. *)
LEMMA SumSets ==
    ASSUME NEW f, NEW S
    PROVE  MapThenSumSet(LAMBDA p : f[p], S) = SumOver(f, S)
BY DEF MapThenSumSet, MapThenFoldSet, SumOver, SumLoop, SumStep, Pick

-----------------------------------------------------------------------------
(* The inductive invariant.                                                *)

LayerOps == {"LAYER", "BLOCK"}
AllOps == {"FLASH", "SMOKE", "LAYER", "BLOCK", "QK", "PV"}
RowRecords == [max : Int, sum : Int, acc : [Waves -> Int]]

(* What a launch brings.                                                   *)
Launched ==
    /\ job.op \in ops /\ job.op \in AllOps /\ job.position \in Positions
    /\ job.op \in PanelOps => Len(job.tile) \in 1..TileSize /\ job.tile \in [1..Len(job.tile) -> Entries]
    /\ job.op \in PanelOps => job.position = 0
    /\ job.op = "SMOKE" => job.tile \in [1..1 -> Entries]
    /\ job.op \in LayerOps => job.tokens \in 1..RowCount /\ job.position + job.tokens <= MaxSeq
    /\ job.op = "LAYER" => job.tile \in [1..job.tokens -> Entries]

Walking == {"load", "scores", "softmax", "rescale", "values", "next"}
InSlot == {"scores", "softmax", "rescale", "values", "next"}
Reading == Walking \cup {"output"}

TypeInv ==
    /\ ops \in Sessions
    /\ kRow \in [Positions -> Entries] /\ kTr \in [Positions -> Entries]
    /\ v \in [Positions -> Entries]
    /\ token \in Nat /\ tile \in Nat /\ slot \in Nat /\ wave \in Waves
    /\ pc \in {"idle", "store current", "panel"} \cup Reading
    /\ state \in [Cores -> [Heads -> [Rows -> RowRecords]]]

(* Where a launch is, and what is at its first value there.                *)
PlaceInv ==
    /\ pc = "idle" => job = NoJob
    /\ pc # "idle" => Launched
    /\ pc = "store current" => job.op \in {"SMOKE", "LAYER"}
    /\ pc = "panel" => job.op \in PanelOps
    /\ pc \in {"load", "softmax", "rescale"} => job.op \notin PanelOps
    /\ (pc = "scores" /\ job.op \in PanelOps) => job.op = "QK"
    /\ (pc \in {"values", "next"} /\ job.op \in PanelOps) => job.op = "PV"
    /\ token # 0 => pc # "idle" /\ job.op = "LAYER" /\ token < job.tokens
    /\ slot # 0 => pc \in InSlot /\ job.op = "BLOCK" /\ slot \in Heads
    /\ wave # 0 => pc = "values"
    /\ tile # 0 => pc \in Walking /\ job.op \notin PanelOps
    /\ (pc \in Walking /\ job.op \notin PanelOps) => TileBegin < ContextLen
    /\ pc \in {"idle", "store current", "panel"} => state = NoState

(* The K image a run reads is the one its operators write.                 *)
CacheInv ==
    /\ ops \subseteq LayerOps => kTr = kRow
    /\ (job.op = "SMOKE" /\ pc \in Reading) =>
         kRow[Position] = job.tile[1] /\ v[Position] = job.tile[1]

(* The scores of a row over the cache, the values it weighs, the columns   *)
(* it may see and those of the first tiles.                                *)
Line(c, s, r) == [p \in Positions |-> Score(QueryOf(c, s, r), KeyOf(CachedEntry(p), c))]
ValueLine(c, w) == [p \in Positions |-> ValueOf(CachedEntry(p), c, w)]
Reach(r) == IF job.op = "BLOCK" THEN job.position + r + 1 ELSE ContextLen
Count(begin, r) == IF begin < Reach(r) THEN begin ELSE Reach(r)
Before(r) == Count(TileBegin, r)
After(r) == Count(TileBegin + TileSize, r)

(* The tile in the panels.                                                 *)
LoadedInv ==
    (job.op \notin PanelOps /\ pc \in InSlot) =>
      \A c \in Cores, col \in 0..(TileLen - 1) :
        /\ KeyAt(c, col) = KeyOf(CachedEntry(TileBegin + col), c)
        /\ \A w \in Waves : ValueAt(c, col, w) = ValueOf(CachedEntry(TileBegin + col), c, w)

(* The scores of the tile, and what softmax made of them.                  *)
ScoredInv ==
    (job.op \notin PanelOps /\ pc = "softmax") =>
      \A c \in Cores, s \in Slots, r \in LiveRows, col \in 0..(TileLen - 1) :
        s = slot => scores[c][r][col] = Line(c, s, r)[TileBegin + col]

ProbedInv ==
    (job.op \notin PanelOps /\ pc \in {"rescale", "values"}) =>
      \A c \in Cores, s \in Slots, r \in LiveRows : s = slot =>
        /\ oldScale[c][r] = Exp(TopOf(Line(c, s, r), Before(r)) - TopOf(Line(c, s, r), After(r)))
        /\ \A col \in Columns :
             probs[c][r][col] =
               RawPerUnit * (IF Visible(r, col)
                             THEN Exp(Line(c, s, r)[TileBegin + col] - TopOf(Line(c, s, r), After(r)))
                             ELSE 0)

(* The state of a row that has seen n scores.                              *)
HeadIs(x, f, n) == x.max = TopOf(f, n) /\ x.sum = WeightOf(f, n)
AccIs(x, c, f, n) == \A w \in Waves : x.acc[w] = MixOf(f, ValueLine(c, w), n)
RowIs(x, c, f, n) == HeadIs(x, f, n) /\ AccIs(x, c, f, n)

RowInv(c, s, r) ==
    /\ (pc \in Walking /\ (s < slot \/ (pc = "next" /\ s = slot))) =>
         RowIs(state[c][s][r], c, Line(c, s, r), After(r))
    /\ (pc \in Walking /\ (s > slot \/ (pc \in {"load", "scores", "softmax"} /\ s = slot))) =>
         RowIs(state[c][s][r], c, Line(c, s, r), Before(r))
    /\ (pc \in {"rescale", "values"} /\ s = slot) =>
         HeadIs(state[c][s][r], Line(c, s, r), After(r))
    /\ (pc = "rescale" /\ s = slot) =>
         AccIs(state[c][s][r], c, Line(c, s, r), Before(r))
    /\ (pc = "values" /\ s = slot) =>
         \A w \in Waves : state[c][s][r].acc[w] =
            IF w < wave THEN MixOf(Line(c, s, r), ValueLine(c, w), After(r))
            ELSE Scaled(MixOf(Line(c, s, r), ValueLine(c, w), Before(r)), oldScale[c][r])
    /\ pc = "output" => RowIs(state[c][s][r], c, Line(c, s, r), Reach(r))

RowsInv ==
    job.op \notin PanelOps => \A c \in Cores, s \in Slots, r \in LiveRows : RowInv(c, s, r)

(* One product over a panel of the host.                                   *)
PanelSum(c, r, w, n) ==
    SumOver([col \in Upto(n) |-> (1 + r + col) * ValueOf(job.tile[col + 1], c, w)], Upto(n))

PanelInv ==
    /\ (job.op = "QK" /\ pc = "scores") =>
         \A c \in Cores, col \in 0..(TileLen - 1) : panelK[c][col] = KeyOf(job.tile[col + 1], c)
    /\ (job.op = "QK" /\ pc = "output") =>
         \A c \in Cores, r \in Heads, col \in 0..(TileLen - 1) :
            scores[c][r][col] = Score(Query(c, r, 0), KeyOf(job.tile[col + 1], c))
    /\ (job.op = "PV" /\ pc = "values") =>
         /\ \A c \in Cores, col \in 0..(TileLen - 1), w \in Waves :
              panelV[c][col][w] = ValueOf(job.tile[col + 1], c, w)
         /\ \A c \in Cores, r \in Rows, col \in Columns : probs[c][r][col] = 1 + r + col
         /\ \A c \in Cores, r \in Heads, w \in Waves :
              state[c][0][r].acc[w] = IF w < wave THEN PanelSum(c, r, w, TileLen) ELSE 0
    /\ (job.op = "PV" /\ pc \in {"next", "output"}) =>
         \A c \in Cores, r \in Heads, w \in Waves :
            state[c][0][r].acc[w] = PanelSum(c, r, w, TileLen)

IInv ==
    /\ TypeInv /\ PlaceInv /\ CacheInv /\ LoadedInv /\ ScoredInv /\ ProbedInv /\ RowsInv /\ PanelInv

-----------------------------------------------------------------------------
(* The arithmetic of a launch.                                             *)

(* The constants and the queries are numbers. *)
LEMMA Constants ==
    /\ GqaGroup \in Nat \ {0} /\ PvWaves \in Nat \ {0} /\ MaxSeq \in Nat \ {0}
    /\ TileSize \in Nat \ {0} /\ RowCount = GqaGroup
    /\ Rows = Heads /\ 0 \in Heads /\ 0 \in Waves /\ 0 \in Positions
    /\ \A e \in Entries : e.k \in Int /\ e.v \in Int /\ e = [k |-> e.k, v |-> e.v]
<1>1. Entries \subseteq [k : Int, v : Int]
      BY EntryAssumption
<1> QED BY <1>1, AttentionMathAssumption, FlashAssumption DEF Rows, Heads, Waves, Positions

(* A query is one of those EntryAssumption speaks of. *)
LEMMA Queries ==
    ASSUME NEW c \in Cores, NEW h \in Nat, NEW t \in Nat
    PROVE  Query(c, h, t) \in {-1, 1, 2}
<1> DEFINE i == ((c + h + t) % 3) + 1
<1>1. i \in 1..3
      BY DEF Cores
<1> HIDE DEF i
<1>2. <<-1, 2, 1>>[i] \in {-1, 1, 2}
      BY <1>1
<1> QED BY <1>2 DEF Query, i

(* Where the tile of a launch lies in its context, and how many of its     *)
(* columns a row sees.                                                     *)
LEMMA Geometry ==
    ASSUME TypeInv, PlaceInv, job.op \notin PanelOps, pc # "idle"
    PROVE  /\ TileBegin \in Nat /\ ContextLen \in 1..MaxSeq
           /\ token \in Nat /\ job.position \in Nat
           /\ LiveRows \subseteq Rows /\ LiveRows \subseteq Nat
           /\ job.op # "BLOCK" => ContextLen = Position + 1 /\ Position \in Positions
           /\ \A r \in LiveRows : Reach(r) \in 1..ContextLen
<1>1. /\ token \in Nat /\ tile \in Nat /\ Launched
      BY DEF TypeInv, PlaceInv, Reading, Walking
<1>2. TileBegin \in Nat
      BY <1>1, Constants DEF TileBegin
<1>3. CASE job.op = "BLOCK"
  <2>1. job.tokens \in 1..RowCount /\ job.position \in Nat /\ job.position + job.tokens <= MaxSeq
        BY <1>1, <1>3 DEF Launched, LayerOps, Positions
  <2>2. ContextLen = job.position + job.tokens
        BY <1>3 DEF ContextLen
  <2>3. LiveRows = 0..(job.tokens - 1)
        BY <1>3 DEF LiveRows
  <2>4. \A r \in LiveRows : Reach(r) = job.position + r + 1
        BY <1>3 DEF Reach
  <2>5. job.tokens \in Nat \ {0} /\ job.tokens <= RowCount /\ RowCount \in Nat /\ MaxSeq \in Nat
        BY <2>1, Constants
  <2>6. ContextLen \in 1..MaxSeq
        BY <2>1, <2>2, <2>5
  <2>7. LiveRows \subseteq Rows /\ LiveRows \subseteq Nat
        BY <2>3, <2>5 DEF Rows
  <2>8. ASSUME NEW r \in LiveRows PROVE Reach(r) \in 1..ContextLen
    <3>1. r \in Nat /\ r < job.tokens
          BY <2>3, <2>5
    <3> QED BY <2>1, <2>2, <2>4, <2>5, <3>1
  <2> QED BY <1>1, <1>2, <1>3, <2>1, <2>6, <2>7, <2>8
<1>4. CASE job.op # "BLOCK"
  <2>1. job.position \in Positions /\ job.position \in Nat
        BY <1>1 DEF Launched, Positions
  <2>2. token # 0 => job.op = "LAYER" /\ token < job.tokens
        BY DEF PlaceInv
  <2>3. job.position + token \in Positions
    <3>1. CASE token = 0
          BY <2>1, <3>1
    <3>2. CASE token # 0
      <4>1. job.tokens \in 1..RowCount /\ job.position + job.tokens <= MaxSeq
            BY <1>1, <2>2, <3>2 DEF Launched, LayerOps
      <4> QED BY <1>1, <2>1, <2>2, <3>2, <4>1, Constants DEF Positions
    <3> QED BY <3>1, <3>2
  <2>4. ContextLen = (job.position + token) + 1
        BY <1>4 DEF ContextLen, Position
  <2>5. LiveRows = 0..(GqaGroup - 1)
        BY <1>4 DEF LiveRows
  <2>6. \A r \in LiveRows : Reach(r) = ContextLen
        BY <1>4 DEF Reach
  <2> QED BY <1>1, <1>2, <1>4, <2>1, <2>3, <2>4, <2>5, <2>6, Constants DEF Rows, Position, Positions
<1> QED BY <1>3, <1>4

(* The columns a row sees are the first ones of the tile. *)
LEMMA Columned ==
    ASSUME TypeInv, PlaceInv, job.op \notin PanelOps, pc \in Walking, NEW r \in LiveRows
    PROVE  LET k == After(r) - Before(r) IN
           /\ Before(r) \in Nat /\ After(r) \in Nat /\ k \in Nat /\ After(r) = Before(r) + k
           /\ After(r) <= Reach(r) /\ After(r) <= MaxSeq
           /\ TileLen \in 1..TileSize /\ k <= TileLen /\ TileBegin + TileLen <= MaxSeq
           /\ \A col \in Columns : Visible(r, col) <=> col < k
           /\ k > 0 => Before(r) = TileBegin
           /\ LastTile => After(r) = Reach(r)
<1>1. /\ TileBegin \in Nat /\ ContextLen \in 1..MaxSeq /\ Reach(r) \in 1..ContextLen
      /\ TileBegin < ContextLen /\ job.position \in Nat /\ r \in Nat
  <2>1. pc # "idle"
        BY DEF Walking
  <2>2. TileBegin < ContextLen
        BY DEF PlaceInv
  <2> QED BY <2>1, <2>2, Geometry
<1> DEFINE b == TileBegin
           n == ContextLen
           l == Reach(r)
           k == After(r) - Before(r)
<1>2. /\ TileLen = (IF b + TileSize > n THEN n - b ELSE TileSize)
      /\ Before(r) = (IF b < l THEN b ELSE l)
      /\ After(r) = (IF b + TileSize < l THEN b + TileSize ELSE l)
      /\ LastTile <=> b + TileSize >= n
      BY DEF TileLen, Before, After, Count, LastTile
<1>3. \A col \in Columns : Visible(r, col) <=> col < TileLen /\ b + col < l
  <2>1. CASE job.op = "BLOCK"
    <3>1. l = job.position + r + 1
          BY <2>1 DEF Reach
    <3>2. \A col \in Columns : col \in Nat
          BY Constants DEF Columns
    <3>3. \A col \in Columns : b + col <= job.position + r <=> b + col < l
      <4> HIDE DEF b, l
      <4> QED BY <1>1, <3>1, <3>2 DEF b, l
    <3> QED BY <2>1, <3>3 DEF Visible
  <2>2. CASE job.op # "BLOCK"
    <3>1. l = n
          BY <2>2 DEF Reach
    <3>2. \A col \in Columns : col \in Nat
          BY Constants DEF Columns
    <3>3. \A col \in Columns : col < TileLen => b + col < n
      <4> HIDE DEF b, n
      <4> QED BY <1>1, <1>2, <3>2, Constants DEF b, n
    <3> QED BY <2>2, <3>1, <3>3 DEF Visible
  <2> QED BY <2>1, <2>2
<1>4. b \in Nat /\ n \in 1..MaxSeq /\ l \in 1..n /\ b < n
      BY <1>1
<1> HIDE DEF b, n, l
<1>5. /\ Before(r) \in Nat /\ After(r) \in Nat /\ k \in Nat /\ After(r) = Before(r) + k
      /\ After(r) <= l /\ After(r) <= MaxSeq
      /\ TileLen \in 1..TileSize /\ k <= TileLen /\ b + TileLen <= MaxSeq
      BY <1>2, <1>4, Constants
<1>6. \A col \in Columns : Visible(r, col) <=> col < k
  <2>1. \A col \in Columns : col \in Nat /\ col < TileSize
        BY Constants DEF Columns
  <2>2. ASSUME NEW col \in Columns PROVE (col < TileLen /\ b + col < l) <=> col < k
        BY <1>2, <1>4, <1>5, <2>1, Constants
  <2> QED BY <1>3, <2>2
<1>7. k > 0 => Before(r) = b
      BY <1>2, <1>4, Constants
<1>8. LastTile => After(r) = l
      BY <1>2, <1>4, Constants
<1> QED BY <1>5, <1>6, <1>7, <1>8 DEF b, n, l

(* The scores and values of a row over the cache.                          *)
LEMMA Lines ==
    ASSUME TypeInv, PlaceInv, job.op \notin PanelOps, pc \in Reading,
           NEW c \in Cores, NEW s \in Nat, NEW r \in Nat
    PROVE  /\ QueryOf(c, s, r) \in {-1, 1, 2}
           /\ \A p \in Positions :
                /\ CachedEntry(p).k = KeyImage[p].k /\ CachedEntry(p).v = v[p].v
                /\ KeyImage[p] \in Entries /\ v[p] \in Entries
                /\ Line(c, s, r)[p] = Score(QueryOf(c, s, r), KeyOf(CachedEntry(p), c))
                /\ Line(c, s, r)[p] \in Int
                /\ \A w \in Waves : /\ ValueLine(c, w)[p] = ValueOf(CachedEntry(p), c, w)
                                    /\ ValueLine(c, w)[p] \in Int
           /\ \A n \in 0..MaxSeq :
                /\ Upto(n) \subseteq Positions
                /\ Bounded(Line(c, s, r), n)
<1>1. QueryOf(c, s, r) \in {-1, 1, 2}
  <2>1. token \in Nat
        BY DEF TypeInv
  <2> QED BY <2>1, Queries DEF QueryOf
<1>2. ASSUME NEW p \in Positions
      PROVE  /\ CachedEntry(p).k = KeyImage[p].k /\ CachedEntry(p).v = v[p].v
             /\ KeyImage[p] \in Entries /\ v[p] \in Entries
  <2>1. KeyImage[p] \in Entries /\ v[p] \in Entries
        BY DEF TypeInv, KeyImage
  <2> QED BY <2>1 DEF CachedEntry
<1> DEFINE q == QueryOf(c, s, r)
           f == Line(c, s, r)
<1>3. ASSUME NEW p \in Positions
      PROVE  /\ f[p] = Score(q, KeyOf(KeyImage[p], c)) /\ f[p] = Score(q, KeyOf(CachedEntry(p), c))
             /\ f[p] \in Int
  <2>1. f[p] = Score(q, KeyOf(CachedEntry(p), c))
        BY DEF Line
  <2>2. KeyOf(CachedEntry(p), c) = KeyOf(KeyImage[p], c)
        BY <1>2 DEF KeyOf
  <2>3. KeyImage[p].k \in Int /\ c \in Int
        BY <1>2, Constants DEF Cores
  <2> HIDE DEF f, q
  <2>4. Score(q, KeyOf(KeyImage[p], c)) \in Int
        BY <1>1, <2>3 DEF Score, KeyOf, q
  <2> QED BY <2>1, <2>2, <2>4
<1>4. ASSUME NEW p \in Positions, NEW w \in Waves
      PROVE  ValueLine(c, w)[p] = ValueOf(CachedEntry(p), c, w) /\ ValueLine(c, w)[p] \in Int
  <2>1. ValueLine(c, w)[p] = ValueOf(CachedEntry(p), c, w)
        BY DEF ValueLine
  <2>2. CachedEntry(p).v \in Int /\ c \in Int /\ w \in Int
        BY <1>2, Constants DEF Cores, Waves
  <2>3. ValueOf(CachedEntry(p), c, w) \in Int
        BY <2>2 DEF ValueOf
  <2> QED BY <2>1, <2>3
<1>5. ASSUME NEW n \in 0..MaxSeq PROVE Upto(n) \subseteq Positions /\ Bounded(f, n)
  <2>1. Upto(n) \subseteq Positions
        BY Constants DEF Upto, Positions
  <2>2. ASSUME NEW p \in Upto(n)
        PROVE  f[p] \in Int /\ f[p] >= Lowest /\ \A i \in Upto(n) : f[p] - f[i] >= ExpFloor
    <3>1. /\ p \in Positions /\ f[p] \in Int /\ f[p] = Score(q, KeyOf(KeyImage[p], c))
          /\ KeyImage[p] \in Entries
          BY <1>2, <1>3, <2>1, <2>2
    <3>2. ASSUME NEW i \in Upto(n) PROVE f[p] - f[i] >= ExpFloor
      <4>1. f[i] = Score(q, KeyOf(KeyImage[i], c)) /\ KeyImage[i] \in Entries
            BY <1>2, <1>3, <2>1
      <4> HIDE DEF f, q
      <4> QED BY <3>1, <4>1, <1>1, EntryAssumption DEF q
    <3>3. f[p] >= Lowest
      <4> HIDE DEF f, q
      <4> QED BY <3>1, <1>1, EntryAssumption DEF q
    <3> QED BY <3>1, <3>2, <3>3
  <2> HIDE DEF f
  <2> QED BY <2>1, <2>2 DEF Bounded
<1> QED BY <1>1, <1>2, <1>3, <1>4, <1>5

-----------------------------------------------------------------------------
(* The invariant is inductive.                                             *)

(* What a step keeps when the launch and the caches stay.                  *)
LEMMA SteadyLaunch ==
    ASSUME UNCHANGED <<ops, caches, job, token>>
    PROVE  /\ Slots' = Slots /\ LiveRows' = LiveRows /\ ContextLen' = ContextLen /\ Position' = Position
           /\ RawPerUnit' = RawPerUnit /\ OutputScale' = OutputScale /\ KeyImage' = KeyImage
           /\ \A p : CachedEntry(p)' = CachedEntry(p)
           /\ \A c, s, r : QueryOf(c, s, r)' = QueryOf(c, s, r) /\ Line(c, s, r)' = Line(c, s, r)
           /\ \A c, w : ValueLine(c, w)' = ValueLine(c, w)
           /\ \A r : Reach(r)' = Reach(r)
           /\ \A c, r, w, n : PanelSum(c, r, w, n)' = PanelSum(c, r, w, n)
<1>1. /\ ops' = ops /\ kRow' = kRow /\ kTr' = kTr /\ v' = v /\ job' = job /\ token' = token
      BY DEF caches
<1>2. Position' = Position /\ KeyImage' = KeyImage
      BY <1>1 DEF Position, KeyImage
<1>3. ContextLen' = ContextLen
      BY <1>1, <1>2 DEF ContextLen
<1>4. \A p : CachedEntry(p)' = CachedEntry(p)
      BY <1>1, <1>2 DEF CachedEntry
<1>5. \A c, s, r : QueryOf(c, s, r)' = QueryOf(c, s, r)
      BY <1>1 DEF QueryOf
<1>6. \A c, s, r : Line(c, s, r)' = Line(c, s, r)
      BY <1>4, <1>5 DEF Line
<1>7. \A c, w : ValueLine(c, w)' = ValueLine(c, w)
      BY <1>4 DEF ValueLine
<1>8. \A r : Reach(r)' = Reach(r)
      BY <1>1, <1>3 DEF Reach
<1>9. \A c, r, w, n : PanelSum(c, r, w, n)' = PanelSum(c, r, w, n)
      BY <1>1 DEF PanelSum
<1> QED BY <1>1, <1>2, <1>3, <1>4, <1>5, <1>6, <1>7, <1>8, <1>9 DEF Slots, LiveRows, RawPerUnit, OutputScale

(* And while the tile stays, what depends on it does. *)
LEMMA SteadyTile ==
    ASSUME UNCHANGED <<ops, caches, job, token, tile>>
    PROVE  /\ TileBegin' = TileBegin /\ TileLen' = TileLen /\ LastTile' = LastTile
           /\ CurrentInTile' = CurrentInTile /\ CurrentColumn' = CurrentColumn /\ LoadLen' = LoadLen
           /\ \A r : Before(r)' = Before(r) /\ After(r)' = After(r)
           /\ \A r, col : Visible(r, col)' = Visible(r, col)
<1>1. tile' = tile /\ job' = job /\ UNCHANGED <<ops, caches, job, token>>
      OBVIOUS
<1>2. ContextLen' = ContextLen /\ Position' = Position /\ \A r : Reach(r)' = Reach(r)
      BY <1>1, SteadyLaunch
<1>3. TileBegin' = TileBegin
      BY <1>1 DEF TileBegin
<1>4. TileLen' = TileLen
      BY <1>2, <1>3 DEF TileLen
<1>5. LastTile' = LastTile
      BY <1>2, <1>3 DEF LastTile
<1>6. CurrentInTile' = CurrentInTile /\ CurrentColumn' = CurrentColumn
      BY <1>1, <1>2, <1>3, <1>4 DEF CurrentInTile, CurrentColumn
<1>7. LoadLen' = LoadLen
      BY <1>4, <1>6 DEF LoadLen
<1>8. \A r : Before(r)' = Before(r) /\ After(r)' = After(r)
      BY <1>2, <1>3 DEF Before, After, Count
<1>9. \A r, col : Visible(r, col)' = Visible(r, col)
      BY <1>1, <1>3, <1>4 DEF Visible
<1> QED BY <1>3, <1>4, <1>5, <1>6, <1>7, <1>8, <1>9

(* Within a tile the panels and the caches stay. *)
LEMMA Inside ==
    ASSUME IInv, UNCHANGED <<ops, caches, job, token>>, pc \in InSlot,
           UNCHANGED <<tile, panelK, panelV>> \/ pc' \notin InSlot
    PROVE  CacheInv' /\ LoadedInv'
<1>1. CacheInv'
  <2>1. Position' = Position /\ ops' = ops /\ kRow' = kRow /\ kTr' = kTr /\ v' = v /\ job' = job
        BY SteadyLaunch DEF caches
  <2>2. CacheInv /\ pc \in Reading
        BY DEF IInv, InSlot, Reading, Walking
  <2> QED BY <2>1, <2>2 DEF CacheInv
<1>2. CASE pc' \notin InSlot
      BY <1>1, <1>2 DEF LoadedInv
<1>3. CASE UNCHANGED <<tile, panelK, panelV>>
  <2>1. UNCHANGED <<ops, caches, job, token, tile>> /\ panelK' = panelK /\ panelV' = panelV /\ job' = job
        BY <1>3
  <2>2. /\ TileBegin' = TileBegin /\ TileLen' = TileLen
        /\ CurrentInTile' = CurrentInTile /\ CurrentColumn' = CurrentColumn
        BY <2>1, SteadyTile
  <2>3. /\ \A c, col : KeyAt(c, col)' = KeyAt(c, col)
        /\ \A c, col, w : ValueAt(c, col, w)' = ValueAt(c, col, w)
        BY <2>1, <2>2 DEF KeyAt, ValueAt, Bypassed
  <2>4. \A p : CachedEntry(p)' = CachedEntry(p)
        BY SteadyLaunch
  <2>5. LoadedInv /\ pc \in InSlot
        BY DEF IInv
  <2>6. LoadedInv'
        BY <2>1, <2>2, <2>3, <2>4, <2>5 DEF LoadedInv
  <2> QED BY <1>1, <2>6
<1> QED BY <1>2, <1>3

(* A row before its first score. *)
LEMMA FirstRows ==
    ASSUME NEW c \in Cores, NEW s \in Heads, NEW r \in Rows
    PROVE  /\ NoState[c][s][r].max = Lowest /\ NoState[c][s][r].sum = 0
           /\ \A w \in Waves : NoState[c][s][r].acc[w] = 0
BY DEF NoState, FirstRow

(* The state of rows at rest has its type. *)
LEMMA NoStateType == NoState \in [Cores -> [Heads -> [Rows -> RowRecords]]]
<1>1. FirstRow \in RowRecords
      BY DEF FirstRow, RowRecords, Lowest
<1> HIDE DEF FirstRow, RowRecords
<1> QED BY <1>1 DEF NoState

(* Every initial state is one of the invariant. *)
LEMMA InitInv == Init => IInv
<1> SUFFICES ASSUME Init PROVE IInv
    OBVIOUS
<1>1. /\ ops \in Sessions /\ kRow \in [Positions -> Entries] /\ kTr = kRow /\ v = kRow
      /\ job = NoJob /\ pc = "idle" /\ token = 0 /\ tile = 0 /\ slot = 0 /\ wave = 0
      /\ state = NoState
      BY DEF Init
<1>2. TypeInv
      BY <1>1, NoStateType, Constants DEF TypeInv
<1>3. PlaceInv
      BY <1>1 DEF PlaceInv, Walking
<1>4. CacheInv
      BY <1>1 DEF CacheInv, Reading, Walking
<1>5. LoadedInv /\ ScoredInv /\ ProbedInv
      BY <1>1 DEF LoadedInv, ScoredInv, ProbedInv, InSlot
<1>6. RowsInv
      BY <1>1 DEF RowsInv, RowInv, Walking
<1>7. PanelInv
      BY <1>1 DEF PanelInv
<1> QED BY <1>2, <1>3, <1>4, <1>5, <1>6, <1>7 DEF IInv

(* A launch from rest: its rows have seen nothing. *)
LEMMA FreshRow ==
    ASSUME NEW x, NEW f, NEW c, x.max = Lowest, x.sum = 0, \A w \in Waves : x.acc[w] = 0
    PROVE  \A g, n : n = 0 => x.max = TopOf(f, n) /\ x.sum = WeightOf(f, n)
                              /\ \A w \in Waves : x.acc[w] = MixOf(f, g, n)
BY MixNone

(* A launch finds nothing of the one before. *)
LEMMA StartStep == IInv /\ Start => IInv'
<1> SUFFICES ASSUME IInv, Start PROVE IInv'
    OBVIOUS
<1>0. PICK op \in ops : \E j \in Launches(op) :
        /\ Accepted(j) /\ job' = j
        /\ pc' = CASE op \in {"SMOKE", "LAYER"} -> "store current"
                   [] op \in PanelOps -> "panel"
                   [] OTHER -> "load"
      BY DEF Start
<1>1. PICK j \in Launches(op) :
        /\ Accepted(j) /\ job' = j
        /\ pc' = CASE op \in {"SMOKE", "LAYER"} -> "store current"
                   [] op \in PanelOps -> "panel"
                   [] OTHER -> "load"
      BY <1>0
<1>2. /\ pc = "idle" /\ ops' = ops /\ kRow' = kRow /\ kTr' = kTr /\ v' = v
      /\ token' = token /\ tile' = tile /\ slot' = slot /\ wave' = wave /\ state' = state
      BY DEF Start, caches, scratch
<1>3. /\ TypeInv /\ PlaceInv /\ CacheInv
      /\ token = 0 /\ tile = 0 /\ slot = 0 /\ wave = 0 /\ state = NoState
      BY <1>2 DEF IInv, PlaceInv, InSlot, Walking
<1>4. op \in AllOps
  <2>1. ops \subseteq {"FLASH", "SMOKE", "QK", "PV"} \/ ops \subseteq {"LAYER", "BLOCK"}
        BY <1>3, SessionAssumption DEF TypeInv
  <2> QED BY <2>1 DEF AllOps
<1>5. /\ j.op = op /\ j.position \in Positions
      /\ op \in PanelOps => Len(j.tile) \in 1..TileSize /\ j.tile \in [1..Len(j.tile) -> Entries]
      /\ op \in PanelOps => j.position = 0
      /\ op = "SMOKE" => j.tile \in [1..1 -> Entries]
      /\ op \in LayerOps => j.tokens \in 1..RowCount /\ j.position + j.tokens <= MaxSeq
      /\ op = "LAYER" => j.tile \in [1..j.tokens -> Entries]
  <2>1. CASE op \in {"FLASH", "SMOKE"}
        BY <1>1, <2>1 DEF Launches, PanelOps, LayerOps
  <2>2. CASE op \in PanelOps
    <3>1. /\ j \in [op : {op}, tokens : {GqaGroup}, position : {0},
                    tile : UNION {[1..n -> Entries] : n \in 1..TileSize}]
          BY <1>1, <2>2 DEF Launches, PanelOps
    <3>2. PICK n \in 1..TileSize : j.tile \in [1..n -> Entries]
          BY <3>1
    <3>3. n \in Nat
          BY <3>2, Constants
    <3>4. Len(j.tile) = n
      <4>1. j.tile \in Seq(Entries) /\ DOMAIN j.tile = 1..n
            BY <3>2, <3>3
      <4> QED BY <3>3, <4>1, LenProperties
    <3>5. j.op = op /\ j.position = 0
          BY <3>1
    <3> QED BY <2>2, <3>2, <3>4, <3>5, Constants DEF PanelOps, LayerOps
  <2>3. CASE op = "BLOCK"
    <3>1. j \in [op : {op}, tokens : 0..RowCount, position : Positions, tile : {<<>>}]
          BY <1>1, <2>3 DEF Launches, PanelOps
    <3>2. j.tokens \in 1..RowCount /\ j.position + j.tokens <= MaxSeq
          BY <1>1, <2>3, <3>1 DEF Accepted, PanelOps
    <3> QED BY <2>3, <3>1, <3>2 DEF PanelOps, LayerOps
  <2>4. CASE op = "LAYER"
    <3>1. PICK n \in 1..RowCount :
            j \in [op : {op}, tokens : {n}, position : Positions, tile : [1..n -> Entries]]
          BY <1>1, <2>4 DEF Launches, PanelOps
    <3>2. j.tokens \in 1..RowCount /\ j.position + j.tokens <= MaxSeq
          BY <1>1, <2>4, <3>1 DEF Accepted, PanelOps
    <3> QED BY <2>4, <3>1, <3>2 DEF PanelOps, LayerOps
  <2> QED BY <1>4, <2>1, <2>2, <2>3, <2>4 DEF AllOps, PanelOps
<1>6. Launched'
      BY <1>1, <1>2, <1>4, <1>5 DEF Launched
<1>7. /\ pc' \in {"store current", "panel", "load"}
      /\ pc' = "store current" <=> op \in {"SMOKE", "LAYER"}
      /\ pc' = "panel" <=> op \in PanelOps
      BY <1>1 DEF PanelOps
<1>8. TypeInv'
      BY <1>2, <1>3, <1>7 DEF TypeInv, Reading, Walking
<1>9. pc' = "load" => TileBegin' < ContextLen'
  <2> SUFFICES ASSUME pc' = "load" PROVE TileBegin' < ContextLen'
      OBVIOUS
  <2>1. TileBegin' = 0
        BY <1>2, <1>3, Constants DEF TileBegin
  <2>2. job'.position \in Nat /\ job'.op \notin PanelOps
        BY <1>1, <1>5, <1>7 DEF Positions
  <2>3. CASE op = "BLOCK"
    <3>1. ContextLen' = job'.position + job'.tokens
          BY <1>1, <1>5, <2>3 DEF ContextLen
    <3> QED BY <1>1, <1>5, <2>1, <2>2, <2>3, <3>1, Constants DEF LayerOps
  <2>4. CASE op # "BLOCK"
    <3>1. ContextLen' = (job'.position + token') + 1
          BY <1>1, <1>5, <2>2, <2>4 DEF ContextLen, Position
    <3> QED BY <1>2, <1>3, <2>1, <2>2, <3>1
  <2> QED BY <2>3, <2>4
<1>10. PlaceInv'
       BY <1>1, <1>2, <1>3, <1>5, <1>6, <1>7, <1>9 DEF PlaceInv, PanelOps, Walking, InSlot
<1>11. CacheInv'
  <2>1. ~ (job'.op = "SMOKE" /\ pc' \in Reading)
        BY <1>1, <1>5, <1>7 DEF Reading, Walking
  <2> QED BY <1>2, <1>3, <2>1 DEF CacheInv
<1>12. LoadedInv' /\ ScoredInv' /\ ProbedInv'
       BY <1>7 DEF LoadedInv, ScoredInv, ProbedInv, InSlot
<1>13. RowsInv'
  <2> SUFFICES ASSUME (job.op \notin PanelOps)', NEW c \in Cores, NEW s \in Slots', NEW r \in LiveRows'
               PROVE  RowInv(c, s, r)'
      BY DEF RowsInv
  <2>1. CASE pc' # "load"
        BY <1>7, <2>1 DEF RowInv, Walking
  <2>2. CASE pc' = "load"
    <3>1. s \in Heads /\ r \in Rows
      <4>1. s \in Heads
            BY Constants DEF Slots
      <4>2. CASE op = "BLOCK"
        <5>1. r \in 0..(j.tokens - 1) /\ j.tokens \in 1..RowCount
              BY <1>1, <1>5, <4>2 DEF LiveRows, LayerOps
        <5> QED BY <4>1, <5>1, Constants DEF Rows
      <4>3. CASE op # "BLOCK"
        <5>1. r \in 0..(GqaGroup - 1)
              BY <1>1, <1>5, <4>3 DEF LiveRows
        <5> QED BY <4>1, <5>1, Constants DEF Rows
      <4> QED BY <4>2, <4>3
    <3>2. Before(r)' = 0
      <4>1. TileBegin' = 0
            BY <1>2, <1>3, Constants DEF TileBegin
      <4>2. Reach(r)' > 0
        <5>1. job'.position \in Nat /\ job' = j /\ j.op = op
          <6>1. job' = j /\ j.op = op
                BY <1>1, <1>5
          <6>2. j.position \in Nat
                BY <1>5, Constants DEF Positions
          <6> QED BY <6>1, <6>2
        <5>2. CASE op = "BLOCK"
          <6>1. Reach(r)' = job'.position + r + 1
                BY <5>1, <5>2 DEF Reach
          <6> QED BY <3>1, <5>1, <6>1, Constants DEF Rows
        <5>3. CASE op # "BLOCK"
          <6>1. Reach(r)' = ContextLen'
                BY <5>1, <5>3 DEF Reach
          <6> QED BY <1>9, <2>2, <4>1, <6>1
        <5> QED BY <5>2, <5>3
      <4> QED BY <4>1, <4>2 DEF Before, Count
    <3>3. /\ state'[c][s][r].max = Lowest /\ state'[c][s][r].sum = 0
          /\ \A w \in Waves : state'[c][s][r].acc[w] = 0
          BY <1>2, <1>3, <3>1, FirstRows
    <3>4. RowIs(state[c][s][r], c, Line(c, s, r), Before(r))'
      <4> DEFINE x == state'[c][s][r]
                 f == Line(c, s, r)'
      <4>1. x.max = Lowest /\ x.sum = 0 /\ \A w \in Waves : x.acc[w] = 0
            BY <3>3
      <4> HIDE DEF x, f
      <4>2. \A g, n : n = 0 => x.max = TopOf(f, n) /\ x.sum = WeightOf(f, n)
                              /\ \A w \in Waves : x.acc[w] = MixOf(f, g, n)
            BY <4>1, FreshRow
      <4>3. /\ x.max = TopOf(f, Before(r)') /\ x.sum = WeightOf(f, Before(r)')
            /\ \A w \in Waves : x.acc[w] = MixOf(f, ValueLine(c, w)', Before(r)')
            BY <3>2, <4>2
      <4> QED BY <4>3 DEF x, f, RowIs, HeadIs, AccIs
    <3>5. slot' = 0
          BY <1>2, <1>3
    <3>6. s \in Nat
          BY <3>1, Constants DEF Heads
    <3> QED BY <2>2, <3>4, <3>5, <3>6 DEF RowInv, Walking
  <2> QED BY <2>1, <2>2
<1>14. PanelInv'
       BY <1>7 DEF PanelInv
<1> QED BY <1>8, <1>10, <1>11, <1>12, <1>13, <1>14 DEF IInv

(* The current row enters the images its operator writes. *)
LEMMA StoreCurrentStep == IInv /\ StoreCurrent => IInv'
<1> SUFFICES ASSUME IInv, StoreCurrent PROVE IInv'
    OBVIOUS
<1> DEFINE entry == job.tile[token + 1]
<1>1. /\ pc = "store current" /\ pc' = "load"
      /\ kRow' = [kRow EXCEPT ![Position] = entry]
      /\ v' = [v EXCEPT ![Position] = entry]
      /\ kTr' = IF job.op = "LAYER" THEN [kTr EXCEPT ![Position] = entry] ELSE kTr
      /\ ops' = ops /\ job' = job /\ token' = token /\ tile' = tile /\ slot' = slot
      /\ wave' = wave /\ state' = state
      BY DEF StoreCurrent, scratch
<1>2. /\ TypeInv /\ PlaceInv /\ CacheInv
      /\ tile = 0 /\ slot = 0 /\ wave = 0 /\ state = NoState /\ Launched
      /\ job.op \in {"SMOKE", "LAYER"} /\ job.op \notin PanelOps
      BY <1>1 DEF IInv, PlaceInv, InSlot, Walking, PanelOps
<1>3. /\ ContextLen \in 1..MaxSeq /\ LiveRows \subseteq Rows /\ LiveRows \subseteq Nat
      /\ Position \in Positions /\ \A r \in LiveRows : Reach(r) \in 1..ContextLen
      BY <1>1, <1>2, Geometry
<1>4. entry \in Entries
  <2>1. CASE job.op = "SMOKE"
    <3>1. token = 0 /\ job.tile \in [1..1 -> Entries]
          BY <1>2, <2>1 DEF PlaceInv, Launched
    <3> QED BY <3>1
  <2>2. CASE job.op = "LAYER"
    <3>1. job.tile \in [1..job.tokens -> Entries] /\ job.tokens \in 1..RowCount
          BY <1>2, <2>2 DEF Launched, LayerOps
    <3>2. token \in Nat /\ token < job.tokens
      <4>1. token \in Nat
            BY <1>2 DEF TypeInv
      <4>2. token # 0 => token < job.tokens
            BY <1>2 DEF PlaceInv
      <4> QED BY <3>1, <4>1, <4>2, Constants
    <3>3. token + 1 \in 1..job.tokens
          BY <3>1, <3>2, Constants
    <3> QED BY <3>1, <3>3
  <2> QED BY <1>2, <2>1, <2>2
<1> HIDE DEF entry
<1>5. TypeInv'
  <2>1. /\ kRow' \in [Positions -> Entries] /\ kTr' \in [Positions -> Entries]
        /\ v' \in [Positions -> Entries]
        BY <1>1, <1>2, <1>3, <1>4 DEF TypeInv
  <2>2. pc' \in Reading
        BY <1>1 DEF Reading, Walking
  <2> QED BY <1>1, <1>2, <2>1, <2>2 DEF TypeInv
<1>6. Launched' /\ Position' = Position /\ ContextLen' = ContextLen /\ LiveRows' = LiveRows /\ Slots' = Slots
      /\ \A r : Reach(r)' = Reach(r)
  <2>1. Launched' /\ Position' = Position /\ LiveRows' = LiveRows /\ Slots' = Slots
        BY <1>1, <1>2 DEF Launched, Position, LiveRows, Slots
  <2>2. ContextLen' = ContextLen
        BY <1>1, <2>1 DEF ContextLen
  <2> QED BY <1>1, <2>1, <2>2 DEF Reach
<1>7. TileBegin' = 0 /\ TileBegin' < ContextLen'
  <2>1. TileBegin' = 0
    <3>1. tile' = 0
          BY <1>1, <1>2
    <3> QED BY <3>1, Constants DEF TileBegin
  <2> QED BY <1>3, <1>6, <2>1
<1>8. PlaceInv'
      BY <1>1, <1>2, <1>6, <1>7 DEF PlaceInv, PanelOps, Walking, InSlot
<1>9. CacheInv'
  <2>1. (ops \subseteq LayerOps)' => (kTr = kRow)'
    <3>1. (ops \subseteq LayerOps)' => kTr = kRow /\ job.op = "LAYER"
          BY <1>1, <1>2 DEF CacheInv, LayerOps, Launched
    <3> QED BY <1>1, <3>1
  <2>2. job.op = "SMOKE" => kRow'[Position] = job.tile[1] /\ v'[Position] = job.tile[1]
    <3>1. job.op = "SMOKE" => entry = job.tile[1]
          BY <1>2 DEF PlaceInv, entry
    <3> QED BY <1>1, <1>2, <1>3, <3>1 DEF TypeInv
  <2> QED BY <1>1, <1>6, <2>1, <2>2 DEF CacheInv
<1>10. LoadedInv' /\ ScoredInv' /\ ProbedInv' /\ PanelInv'
       BY <1>1 DEF LoadedInv, ScoredInv, ProbedInv, PanelInv, InSlot
<1>11. RowsInv'
  <2> SUFFICES ASSUME NEW c \in Cores, NEW s \in Slots, NEW r \in LiveRows
               PROVE  RowInv(c, s, r)'
      BY <1>6 DEF RowsInv
  <2>1. s \in Heads /\ r \in Rows /\ s \in Nat
        BY <1>3, Constants DEF Slots, Heads
  <2>2. Before(r)' = 0
        BY <1>3, <1>6, <1>7 DEF Before, Count
  <2> DEFINE x == state'[c][s][r]
             f == Line(c, s, r)'
  <2>3. x.max = Lowest /\ x.sum = 0 /\ \A w \in Waves : x.acc[w] = 0
        BY <1>1, <1>2, <2>1, FirstRows
  <2> HIDE DEF x, f
  <2>4. \A g, n : n = 0 => x.max = TopOf(f, n) /\ x.sum = WeightOf(f, n)
                          /\ \A w \in Waves : x.acc[w] = MixOf(f, g, n)
        BY <2>3, FreshRow
  <2>5. /\ x.max = TopOf(f, Before(r)') /\ x.sum = WeightOf(f, Before(r)')
        /\ \A w \in Waves : x.acc[w] = MixOf(f, ValueLine(c, w)', Before(r)')
        BY <2>2, <2>4
  <2>6. RowIs(state[c][s][r], c, Line(c, s, r), Before(r))'
        BY <2>5 DEF x, f, RowIs, HeadIs, AccIs
  <2>7. slot' = 0 /\ pc' = "load"
        BY <1>1, <1>2
  <2> QED BY <2>1, <2>6, <2>7 DEF RowInv, Walking
<1> QED BY <1>5, <1>8, <1>9, <1>10, <1>11 DEF IInv

(* A tile is loaded: the bypassed column is the one the cache holds too. *)
LEMMA LoadTileStep == IInv /\ LoadTile => IInv'
<1> SUFFICES ASSUME IInv, LoadTile PROVE IInv'
    OBVIOUS
<1>1. /\ pc = "load" /\ pc' = "scores"
      /\ panelK' = [c \in Cores |-> [col \in Columns |->
             IF col < LoadLen THEN KeyOf(KeyImage[TileBegin + col], c) ELSE 0]]
      /\ panelV' = [c \in Cores |-> [col \in Columns |-> [w \in Waves |->
             IF col < LoadLen THEN ValueOf(v[TileBegin + col], c, w) ELSE 0]]]
      /\ UNCHANGED <<ops, caches, job, token, tile>>
      /\ job' = job /\ tile' = tile /\ slot' = slot /\ wave' = wave /\ state' = state
      /\ ops' = ops /\ token' = token
      /\ kRow' = kRow /\ kTr' = kTr /\ v' = v
      BY DEF LoadTile, caches
<1>2. /\ TypeInv /\ PlaceInv /\ CacheInv /\ RowsInv
      /\ slot = 0 /\ wave = 0 /\ Launched /\ job.op \notin PanelOps
      BY <1>1 DEF IInv, PlaceInv, InSlot, PanelOps
<1>3. /\ TileBegin \in Nat /\ ContextLen \in 1..MaxSeq /\ TileBegin < ContextLen
      /\ job.op # "BLOCK" => ContextLen = Position + 1 /\ Position \in Positions
      BY <1>1, <1>2, Geometry DEF PlaceInv, Walking
<1>4. /\ TileLen \in 1..TileSize /\ TileBegin + TileLen <= MaxSeq
      /\ TileBegin + TileLen <= ContextLen
  <2>1. TileLen = IF TileBegin + TileSize > ContextLen THEN ContextLen - TileBegin ELSE TileSize
        BY DEF TileLen
  <2> DEFINE b == TileBegin
             n == ContextLen
  <2> HIDE DEF b, n
  <2>2. b \in Nat /\ n \in 1..MaxSeq /\ b < n /\ TileLen = IF b + TileSize > n THEN n - b ELSE TileSize
        BY <1>3, <2>1 DEF b, n
  <2>3. TileLen \in 1..TileSize /\ b + TileLen <= MaxSeq /\ b + TileLen <= n
        BY <2>2, Constants
  <2> QED BY <2>3 DEF b, n
<1>5. UNCHANGED <<ops, caches, job, token>>
      BY <1>1
<1>6. /\ TileBegin' = TileBegin /\ TileLen' = TileLen
      /\ CurrentInTile' = CurrentInTile /\ CurrentColumn' = CurrentColumn
      /\ \A r : Before(r)' = Before(r)
      BY <1>1, SteadyTile
<1>7. /\ Slots' = Slots /\ LiveRows' = LiveRows /\ ContextLen' = ContextLen /\ Position' = Position
      /\ \A p : CachedEntry(p)' = CachedEntry(p)
      /\ \A c, s, r : Line(c, s, r)' = Line(c, s, r)
      /\ \A c, w : ValueLine(c, w)' = ValueLine(c, w)
      BY <1>5, SteadyLaunch
<1>8. TypeInv'
      BY <1>1, <1>2 DEF TypeInv, Reading, Walking
<1>9. PlaceInv'
  <2>1. Launched'
        BY <1>1, <1>2 DEF Launched
  <2> QED BY <1>1, <1>2, <1>3, <1>6, <1>7, <2>1 DEF PlaceInv, PanelOps, Walking, InSlot
<1>10. CacheInv'
       BY <1>1, <1>2, <1>7 DEF CacheInv, Reading, Walking
<1>11. LoadedInv'
  <2> SUFFICES ASSUME NEW c \in Cores, NEW col \in 0..(TileLen - 1)
               PROVE  /\ KeyAt(c, col)' = KeyOf(CachedEntry(TileBegin + col), c)
                      /\ \A w \in Waves :
                           ValueAt(c, col, w)' = ValueOf(CachedEntry(TileBegin + col), c, w)
      BY <1>6, <1>7 DEF LoadedInv
  <2>1. col \in Nat /\ col < TileLen /\ col \in Columns
        BY <1>4, Constants DEF Columns
  <2>2. TileBegin + col \in Positions
        BY <1>3, <1>4, <2>1, Constants DEF Positions
  <2>3. /\ KeyOf(CachedEntry(TileBegin + col), c) = KeyOf(KeyImage[TileBegin + col], c)
        /\ \A w \in Waves : ValueOf(CachedEntry(TileBegin + col), c, w) = ValueOf(v[TileBegin + col], c, w)
        BY DEF CachedEntry, KeyOf, ValueOf
  <2>4. CASE ~ CurrentInTile
    <3>1. LoadLen = TileLen
          BY <2>4 DEF LoadLen
    <3>2. /\ panelK'[c][col] = KeyOf(KeyImage[TileBegin + col], c)
          /\ \A w \in Waves : panelV'[c][col][w] = ValueOf(v[TileBegin + col], c, w)
          BY <1>1, <2>1, <3>1
    <3>3. ~ Bypassed(col)'
          BY <1>6, <2>4 DEF Bypassed
    <3> QED BY <2>3, <3>2, <3>3 DEF KeyAt, ValueAt
  <2>5. CASE CurrentInTile
    <3>1. /\ job.op = "SMOKE" /\ Position >= TileBegin /\ Position < TileBegin + TileLen
          BY <2>5 DEF CurrentInTile
    <3>2. /\ Position \in Positions /\ ContextLen = Position + 1
          /\ LoadLen = Position - TileBegin /\ CurrentColumn = Position - TileBegin
          BY <1>3, <2>5, <3>1 DEF LoadLen, CurrentColumn
    <3>3. TileLen = (Position - TileBegin) + 1
      <4>1. Position \in Nat
            BY <3>2, Constants DEF Positions
      <4> DEFINE p == Position
                 b == TileBegin
      <4>2. p \in Nat /\ b \in Nat /\ p >= b /\ p < b + TileLen /\ b + TileLen <= p + 1 /\ TileLen \in Nat
            BY <1>3, <1>4, <3>1, <3>2, <4>1, Constants
      <4> HIDE DEF p, b
      <4>3. TileLen = (p - b) + 1
            BY <4>2
      <4> QED BY <4>3 DEF p, b
    <3>4. CASE col = CurrentColumn
      <4>1. Bypassed(col)'
            BY <1>6, <2>5, <3>4 DEF Bypassed
      <4>2. TileBegin + col = Position
        <5>1. Position \in Nat
              BY <3>2, Constants DEF Positions
        <5> QED BY <1>3, <3>2, <3>4, <5>1
      <4>3. kRow[Position] = job.tile[1] /\ v[Position] = job.tile[1]
            BY <1>1, <1>2, <3>1 DEF CacheInv, Reading, Walking
      <4>4. KeyImage = kRow
            BY <3>1 DEF KeyImage
      <4>5. /\ KeyAt(c, col)' = KeyOf(job.tile[1], c)
            /\ \A w \in Waves : ValueAt(c, col, w)' = ValueOf(job.tile[1], c, w)
            BY <1>1, <4>1 DEF KeyAt, ValueAt
      <4> QED BY <2>3, <4>2, <4>3, <4>4, <4>5
    <3>5. CASE col # CurrentColumn
      <4>1. ~ Bypassed(col)'
            BY <1>6, <3>5 DEF Bypassed
      <4>2. col < LoadLen
        <5>1. Position \in Nat
              BY <3>2, Constants DEF Positions
        <5>2. Position - TileBegin \in Int
              BY <1>3, <5>1
        <5> DEFINE d == Position - TileBegin
        <5>3. d \in Int /\ col # d /\ col < d + 1 /\ LoadLen = d
              BY <2>1, <3>2, <3>3, <3>5, <5>2
        <5> HIDE DEF d
        <5> QED BY <2>1, <5>3
      <4>3. /\ panelK'[c][col] = KeyOf(KeyImage[TileBegin + col], c)
            /\ \A w \in Waves : panelV'[c][col][w] = ValueOf(v[TileBegin + col], c, w)
            BY <1>1, <2>1, <4>2
      <4> QED BY <2>3, <4>1, <4>3 DEF KeyAt, ValueAt
    <3> QED BY <3>4, <3>5
  <2> QED BY <2>4, <2>5
<1>12. ScoredInv' /\ ProbedInv'
       BY <1>1 DEF ScoredInv, ProbedInv
<1>13. RowsInv'
  <2> SUFFICES ASSUME NEW c \in Cores, NEW s \in Slots, NEW r \in LiveRows
               PROVE  RowInv(c, s, r)'
      BY <1>7 DEF RowsInv
  <2>1. RowInv(c, s, r) /\ s \in Nat
        BY <1>2, Constants DEF RowsInv, Slots, Heads
  <2>2. RowIs(state[c][s][r], c, Line(c, s, r), Before(r))
        BY <1>1, <1>2, <2>1 DEF RowInv, Walking
  <2>3. RowIs(state[c][s][r], c, Line(c, s, r), Before(r))'
        BY <1>1, <1>6, <1>7, <2>2 DEF RowIs, HeadIs, AccIs
  <2> QED BY <1>1, <1>2, <2>1, <2>3 DEF RowInv, Walking
<1>14. PanelInv'
       BY <1>1, <1>2 DEF PanelInv, PanelOps
<1> QED BY <1>8, <1>9, <1>10, <1>11, <1>12, <1>13, <1>14 DEF IInv

(* A panel of the host is loaded. *)
LEMMA LoadPanelStep == IInv /\ LoadPanel => IInv'
<1> SUFFICES ASSUME IInv, LoadPanel PROVE IInv'
    OBVIOUS
<1>1. /\ pc = "panel" /\ pc' = (IF job.op = "QK" THEN "scores" ELSE "values")
      /\ panelK' = [c \in Cores |-> [col \in Columns |->
             IF col < TileLen THEN KeyOf(job.tile[col + 1], c) ELSE 0]]
      /\ panelV' = [c \in Cores |-> [col \in Columns |-> [w \in Waves |->
             IF col < TileLen THEN ValueOf(job.tile[col + 1], c, w) ELSE 0]]]
      /\ probs' = (IF job.op = "QK" THEN probs
                   ELSE [c \in Cores |-> [r \in Rows |-> [col \in Columns |-> 1 + r + col]]])
      /\ UNCHANGED <<ops, caches, job, token, tile>>
      /\ job' = job /\ tile' = tile /\ slot' = slot /\ wave' = wave /\ state' = state
      /\ ops' = ops /\ token' = token
      /\ kRow' = kRow /\ kTr' = kTr /\ v' = v
      BY DEF LoadPanel, caches
<1>2. /\ TypeInv /\ PlaceInv /\ CacheInv
      /\ slot = 0 /\ wave = 0 /\ tile = 0 /\ token = 0 /\ Launched
      /\ job.op \in PanelOps /\ state = NoState
      BY <1>1 DEF IInv, PlaceInv, InSlot, Walking, PanelOps
<1>3. pc' \in {"scores", "values"} /\ (pc' = "scores" <=> job.op = "QK") /\ (pc' = "values" <=> job.op = "PV")
      BY <1>1, <1>2 DEF PanelOps
<1>4. TileLen' = TileLen /\ TileLen \in Int /\ TileLen <= TileSize
  <2>1. TileLen' = TileLen
        BY <1>1, SteadyTile
  <2>2. TileLen = Len(job.tile) /\ Len(job.tile) \in 1..TileSize
    <3>1. ContextLen = Len(job.tile) /\ Len(job.tile) \in 1..TileSize
          BY <1>2 DEF ContextLen, Launched, PanelOps
    <3>2. TileBegin = 0
          BY <1>2, Constants DEF TileBegin
    <3> QED BY <3>1, <3>2, Constants DEF TileLen
  <2> QED BY <2>1, <2>2, Constants
<1>5. TypeInv'
      BY <1>1, <1>2, <1>3 DEF TypeInv, Reading, Walking
<1>6. PlaceInv'
  <2>1. Launched'
        BY <1>1, <1>2 DEF Launched
  <2> QED BY <1>1, <1>2, <1>3, <2>1 DEF PlaceInv, PanelOps, Walking, InSlot
<1>7. CacheInv'
      BY <1>1, <1>2 DEF CacheInv, PanelOps
<1>8. LoadedInv' /\ ScoredInv' /\ ProbedInv' /\ RowsInv'
      BY <1>1, <1>2 DEF LoadedInv, ScoredInv, ProbedInv, RowsInv
<1>9. PanelInv'
  <2>1. (job.op = "QK" /\ pc = "scores")' =>
         \A c \in Cores, col \in 0..(TileLen' - 1) : panelK'[c][col] = KeyOf(job'.tile[col + 1], c)
    <3>1. ASSUME NEW c \in Cores, NEW col \in 0..(TileLen - 1)
          PROVE  panelK'[c][col] = KeyOf(job.tile[col + 1], c)
      <4>1. col \in Columns /\ col < TileLen
            BY <1>4, Constants DEF Columns
      <4> QED BY <1>1, <4>1
    <3> QED BY <1>1, <1>4, <3>1
  <2>2. (job.op = "PV" /\ pc = "values")' =>
         /\ \A c \in Cores, col \in 0..(TileLen' - 1), w \in Waves :
              panelV'[c][col][w] = ValueOf(job'.tile[col + 1], c, w)
         /\ \A c \in Cores, r \in Rows, col \in Columns : probs'[c][r][col] = 1 + r + col
         /\ \A c \in Cores, r \in Heads, w \in Waves :
              state'[c][0][r].acc[w] = IF w < wave' THEN PanelSum(c, r, w, TileLen)' ELSE 0
    <3>1. ASSUME NEW c \in Cores, NEW col \in 0..(TileLen - 1), NEW w \in Waves
          PROVE  panelV'[c][col][w] = ValueOf(job.tile[col + 1], c, w)
      <4>1. col \in Columns /\ col < TileLen
            BY <1>4, Constants DEF Columns
      <4> QED BY <1>1, <4>1
    <3>2. job.op = "PV" => \A c \in Cores, r \in Rows, col \in Columns : probs'[c][r][col] = 1 + r + col
          BY <1>1
    <3>3. ASSUME NEW c \in Cores, NEW r \in Heads, NEW w \in Waves
          PROVE  state'[c][0][r].acc[w] = 0 /\ ~ (w < wave')
      <4>1. state'[c][0][r].acc[w] = 0
            BY <1>1, <1>2, Constants, FirstRows
      <4>2. ~ (w < wave')
            BY <1>1, <1>2, Constants DEF Waves
      <4> QED BY <4>1, <4>2
    <3> QED BY <1>1, <1>4, <3>1, <3>2, <3>3
  <2>3. ~ (pc' \in {"output", "next"})
        BY <1>3
  <2> QED BY <1>3, <2>1, <2>2, <2>3 DEF PanelInv
<1> QED BY <1>5, <1>6, <1>7, <1>8, <1>9 DEF IInv

(* The scores of a tile. *)
LEMMA ScoresStep == IInv /\ Scores => IInv'
<1> SUFFICES ASSUME IInv, Scores PROVE IInv'
    OBVIOUS
<1>1. /\ pc = "scores" /\ pc' = (IF job.op = "QK" THEN "output" ELSE "softmax")
      /\ scores' = [c \in Cores |-> [r \in Rows |-> [col \in Columns |->
           IF r \in LiveRows THEN Score(QueryOf(c, slot, r), KeyAt(c, col)) ELSE 0]]]
      /\ UNCHANGED <<ops, caches, job, token>> /\ UNCHANGED <<ops, caches, job, token, tile>>
      /\ UNCHANGED <<tile, panelK, panelV>>
      /\ job' = job /\ tile' = tile /\ slot' = slot /\ wave' = wave /\ state' = state
      /\ ops' = ops /\ token' = token
      /\ kRow' = kRow /\ kTr' = kTr /\ v' = v
      BY DEF Scores, caches
<1>2. /\ TypeInv /\ PlaceInv /\ RowsInv /\ PanelInv /\ LoadedInv /\ Launched /\ wave = 0
      /\ job.op \in PanelOps => job.op = "QK" /\ slot = 0 /\ tile = 0 /\ token = 0
      /\ (job.op = "QK" <=> job.op \in PanelOps)
      BY <1>1 DEF IInv, PlaceInv, PanelOps
<1>3. CacheInv' /\ LoadedInv'
      BY <1>1, Inside DEF InSlot
<1>4. /\ TileBegin' = TileBegin /\ TileLen' = TileLen
      /\ \A r : Before(r)' = Before(r)
      BY <1>1, SteadyTile
<1>5. /\ Slots' = Slots /\ LiveRows' = LiveRows /\ ContextLen' = ContextLen
      /\ \A p : CachedEntry(p)' = CachedEntry(p)
      /\ \A c, s, r : Line(c, s, r)' = Line(c, s, r)
      /\ \A c, w : ValueLine(c, w)' = ValueLine(c, w)
      BY <1>1, SteadyLaunch
<1>6. pc' \in {"output", "softmax"} /\ (pc' = "output" <=> job.op \in PanelOps)
      BY <1>1, <1>2
<1>7. TypeInv'
      BY <1>1, <1>2, <1>6 DEF TypeInv, Reading, Walking
<1>8. PlaceInv'
  <2>1. Launched'
        BY <1>1, <1>2 DEF Launched
  <2>2. job.op \notin PanelOps => TileBegin < ContextLen
        BY <1>1, <1>2 DEF PlaceInv, Walking
  <2>3. /\ token # 0 => job.op = "LAYER" /\ token < job.tokens
        /\ slot # 0 => job.op = "BLOCK" /\ slot \in Heads
        BY <1>2 DEF PlaceInv
  <2> QED BY <1>1, <1>2, <1>4, <1>5, <1>6, <2>1, <2>2, <2>3 DEF PlaceInv, PanelOps, Walking, InSlot
<1>9. ScoredInv'
  <2> SUFFICES ASSUME job.op \notin PanelOps, NEW c \in Cores, NEW r \in LiveRows, NEW col \in 0..(TileLen - 1),
                      NEW s \in Slots, s = slot
               PROVE  scores'[c][r][col] = Line(c, s, r)[TileBegin + col]
      BY <1>1, <1>4, <1>5 DEF ScoredInv
  <2>1. LiveRows \subseteq Rows /\ r \in Nat
        BY <1>1, <1>2, Geometry
  <2>2. pc \in Walking /\ pc \in Reading
        BY <1>1 DEF Reading, Walking
  <2>3. TileLen \in 1..TileSize /\ TileBegin + TileLen <= MaxSeq /\ TileBegin \in Nat
    <3>1. TileBegin \in Nat
          BY <1>1, <1>2, Geometry
    <3>2. TileLen \in 1..TileSize /\ TileBegin + TileLen <= MaxSeq
          BY <1>2, <2>2, Columned
    <3> QED BY <3>1, <3>2
  <2>4. col \in Columns /\ TileBegin + col \in Positions
        BY <2>3, Constants DEF Columns, Positions
  <2>5. KeyAt(c, col) = KeyOf(CachedEntry(TileBegin + col), c)
        BY <1>1, <1>2 DEF LoadedInv, InSlot
  <2>6. scores'[c][r][col] = Score(QueryOf(c, slot, r), KeyAt(c, col))
        BY <1>1, <2>1, <2>4
  <2>7. Line(c, s, r)[TileBegin + col] = Score(QueryOf(c, slot, r), KeyOf(CachedEntry(TileBegin + col), c))
        BY <2>4 DEF Line
  <2> QED BY <2>5, <2>6, <2>7
<1>10. ProbedInv'
       BY <1>6 DEF ProbedInv
<1>11. RowsInv'
  <2> SUFFICES ASSUME job.op \notin PanelOps, NEW c \in Cores, NEW s \in Slots, NEW r \in LiveRows
               PROVE  RowInv(c, s, r)'
      BY <1>1, <1>5 DEF RowsInv
  <2>1. RowInv(c, s, r) /\ pc' = "softmax"
        BY <1>2, <1>6 DEF RowsInv
  <2>2. s \in Nat /\ slot \in Nat
    <3>1. slot \in Nat
          BY <1>2 DEF TypeInv
    <3>2. s \in Nat
          BY Constants DEF Slots, Heads
    <3> QED BY <3>1, <3>2
  <2>3. CASE s < slot
    <3>1. RowIs(state[c][s][r], c, Line(c, s, r), After(r))
          BY <1>1, <2>1, <2>3 DEF RowInv, Walking
    <3>2. After(r)' = After(r)
          BY <1>1, SteadyTile
    <3>3. RowIs(state[c][s][r], c, Line(c, s, r), After(r))'
          BY <1>1, <1>5, <3>1, <3>2 DEF RowIs, HeadIs, AccIs
    <3> QED BY <1>1, <2>1, <2>2, <2>3, <3>3 DEF RowInv, Walking
  <2>4. CASE ~ (s < slot)
    <3>1. RowIs(state[c][s][r], c, Line(c, s, r), Before(r))
          BY <1>1, <2>1, <2>2, <2>4 DEF RowInv, Walking
    <3>2. RowIs(state[c][s][r], c, Line(c, s, r), Before(r))'
          BY <1>1, <1>4, <1>5, <3>1 DEF RowIs, HeadIs, AccIs
    <3> QED BY <1>1, <2>1, <2>2, <2>4, <3>2 DEF RowInv, Walking
  <2> QED BY <2>3, <2>4
<1>12. PanelInv'
  <2>1. (job.op = "QK" /\ pc = "output")' =>
         \A c \in Cores, r \in Heads, col \in 0..(TileLen' - 1) :
            scores'[c][r][col] = Score(Query(c, r, 0), KeyOf(job'.tile[col + 1], c))
    <3> SUFFICES ASSUME job.op = "QK", NEW c \in Cores, NEW r \in Heads, NEW col \in 0..(TileLen - 1)
                 PROVE  scores'[c][r][col] = Score(Query(c, r, 0), KeyOf(job.tile[col + 1], c))
        BY <1>1, <1>4
    <3>1. r \in Rows /\ r \in LiveRows /\ QueryOf(c, slot, r) = Query(c, r, 0)
          BY <1>2, Constants DEF LiveRows, Heads, QueryOf, PanelOps
    <3>2. TileLen = Len(job.tile) /\ Len(job.tile) \in 1..TileSize
      <4>1. ContextLen = Len(job.tile) /\ Len(job.tile) \in 1..TileSize
            BY <1>2 DEF ContextLen, Launched, PanelOps
      <4>2. TileBegin = 0
            BY <1>2, Constants DEF TileBegin, PanelOps
      <4> QED BY <4>1, <4>2, Constants DEF TileLen
    <3>3. col \in Columns
          BY <3>2, Constants DEF Columns
    <3>4. panelK[c][col] = KeyOf(job.tile[col + 1], c)
          BY <1>1, <1>2 DEF PanelInv
    <3>5. KeyAt(c, col) = panelK[c][col]
          BY DEF KeyAt, Bypassed, CurrentInTile
    <3> QED BY <1>1, <3>1, <3>3, <3>4, <3>5
  <2>2. job'.op # "PV" \/ pc' \notin {"values", "next", "output"}
        BY <1>1, <1>2, <1>6 DEF PanelOps
  <2>3. pc' # "scores"
        BY <1>6
  <2> QED BY <2>1, <2>2, <2>3 DEF PanelInv
<1> QED BY <1>3, <1>7, <1>8, <1>9, <1>10, <1>11, <1>12 DEF IInv

(* Softmax over a tile: the top and the sum of the row are those of all    *)
(* the scores it has seen.                                                 *)
LEMMA SoftmaxExact ==
    ASSUME IInv, job.op \notin PanelOps, pc = "softmax",
           NEW c \in Cores, NEW s \in Slots, s = slot, NEW r \in LiveRows
    PROVE  LET f == Line(c, s, r)
               top == TopOf(f, After(r))
           IN  /\ RowMax(c, s, r) = top
               /\ RescaleOf(c, s, r) = Exp(TopOf(f, Before(r)) - top)
               /\ \A col \in Columns :
                    Probability(c, s, r, col) =
                      IF Visible(r, col) THEN Exp(f[TileBegin + col] - top) ELSE 0
               /\ SumAfter(state[c][s][r].sum, RescaleOf(c, s, r), TileSum(c, s, r)) = WeightOf(f, After(r))
<1> DEFINE f == Line(c, s, r)
           n == Before(r)
           l == After(r)
           k == l - n
           top == TopOf(f, l)
           x == state[c][s][r]
<1>1. TypeInv /\ PlaceInv /\ ScoredInv /\ RowsInv /\ pc \in Walking /\ pc \in Reading /\ pc # "idle"
      BY DEF IInv, Walking, Reading
<1>2. s \in Nat /\ r \in Nat /\ TileBegin \in Nat
  <2>1. LiveRows \subseteq Nat /\ TileBegin \in Nat
        BY <1>1, Geometry
  <2>2. s \in Nat
        BY Constants DEF Slots, Heads
  <2> QED BY <2>1, <2>2
<1>3. /\ n \in Nat /\ l \in Nat /\ k \in Nat /\ l = n + k
      /\ l \in 0..MaxSeq
      /\ TileLen \in 1..TileSize /\ k <= TileLen
      /\ \A col \in Columns : Visible(r, col) <=> col < k
      /\ k > 0 => n = TileBegin
  <2>1. /\ n \in Nat /\ l \in Nat /\ k \in Nat /\ l = n + k /\ l <= MaxSeq
        /\ TileLen \in 1..TileSize /\ k <= TileLen
        /\ \A col \in Columns : Visible(r, col) <=> col < k
        /\ k > 0 => n = TileBegin
        BY <1>1, Columned
  <2> HIDE DEF n, l, k
  <2>2. l \in 0..MaxSeq
        BY <2>1, Constants
  <2> QED BY <2>1, <2>2
<1>4. Bounded(f, l) /\ \A p \in Upto(l) : f[p] \in Int
  <2>1. Bounded(f, l)
        BY <1>1, <1>2, <1>3, Lines
  <2> HIDE DEF f, l
  <2> QED BY <2>1 DEF Bounded
<1>5. x.max = TopOf(f, n) /\ x.sum = WeightOf(f, n)
  <2>1. RowInv(c, s, r)
        BY <1>1 DEF RowsInv
  <2>2. RowIs(x, c, f, n)
        BY <1>1, <1>2, <2>1 DEF RowInv
  <2> HIDE DEF x, f, n
  <2> QED BY <2>2 DEF RowIs, HeadIs
<1>6. \A col \in Upto(k) : scores[c][r][col] = f[TileBegin + col] /\ scores[c][r][col] = f[n + col]
  <2>1. ASSUME NEW col \in Upto(k) PROVE scores[c][r][col] = f[TileBegin + col] /\ TileBegin = n
    <3> HIDE DEF k, n, f
    <3>1. col \in 0..(TileLen - 1) /\ k > 0
          BY <1>3, Constants DEF Upto
    <3>2. TileBegin = n
          BY <1>3, <3>1
    <3> QED BY <1>1, <3>1, <3>2 DEF ScoredInv, f
  <2> HIDE DEF f, n, k
  <2> QED BY <2>1
<1> HIDE DEF f, n, l, k, x
<1>7. Columns = Upto(TileSize) /\ {z \in Columns : Visible(r, z)} = Upto(k) /\ Upto(k) \subseteq Columns
  <2>1. Columns = Upto(TileSize)
        BY DEF Columns, Upto
  <2>2. \A z : z \in Upto(k) <=> z \in Columns /\ z < k
        BY <1>3, Constants DEF Columns, Upto
  <2> QED BY <1>3, <2>1, <2>2
<1>8. /\ TopOf(f, n) \in Int /\ top \in Int
      /\ top = Max({TopOf(f, n)} \cup Others(f, n, k))
  <2>1. n \in Nat /\ k \in Nat /\ l \in Nat /\ l = n + k /\ \A p \in Upto(l) : f[p] \in Int
        BY <1>3, <1>4
  <2>2. /\ TopOf(f, n) \in Int /\ TopOf(f, l) \in Int
        /\ TopOf(f, l) = Max({TopOf(f, n)} \cup Others(f, n, k))
        BY <2>1, TopStep
  <2> QED BY <2>2
<1>9. RowMax(c, s, r) = top
  <2>1. {scores[c][r][col] : col \in {z \in Columns : Visible(r, z)}} = Others(f, n, k)
        BY <1>6, <1>7 DEF Others
  <2> QED BY <1>5, <1>8, <2>1 DEF RowMax, x
<1>10. RescaleOf(c, s, r) = Exp(TopOf(f, n) - top)
       BY <1>5, <1>9 DEF RescaleOf, x
<1>11. ASSUME NEW col \in Columns
       PROVE  Probability(c, s, r, col) = IF Visible(r, col) THEN Exp(f[TileBegin + col] - top) ELSE 0
  <2>1. CASE Visible(r, col)
    <3>1. scores[c][r][col] = f[TileBegin + col]
          BY <1>6, <1>7, <2>1
    <3> QED BY <1>9, <2>1, <3>1 DEF Probability
  <2>2. CASE ~ Visible(r, col)
        BY <2>2 DEF Probability
  <2> QED BY <2>1, <2>2
<1> DEFINE P == [col \in Columns |-> Probability(c, s, r, col)]
           h == [j \in Upto(k) |-> Exp(f[n + j] - top)]
<1>12. TileSum(c, s, r) = SumOver(P, Columns)
  <2>1. MapThenSumSet(LAMBDA p : P[p], Columns) = SumOver(P, Columns)
        BY SumSets
  <2>2. MapThenSumSet(LAMBDA col : Probability(c, s, r, col), Columns) = MapThenSumSet(LAMBDA p : P[p], Columns)
        BY DEF MapThenSumSet, MapThenFoldSet
  <2> QED BY <2>1, <2>2 DEF TileSum
<1>13. /\ \A j \in Upto(k) : P[j] = h[j] /\ h[j] \in Int
       /\ \A j \in Columns \ Upto(k) : P[j] = 0
  <2>1. ASSUME NEW j \in Upto(k) PROVE P[j] = h[j] /\ h[j] \in Int
    <3>1. j \in Columns /\ Visible(r, j)
          BY <1>7
    <3>2. P[j] = Exp(f[TileBegin + j] - top)
          BY <1>11, <3>1
    <3>3. f[TileBegin + j] = f[n + j]
          BY <1>6
    <3>4. f[n + j] \in Int
      <4>1. n + j \in Upto(l)
            BY <1>3 DEF Upto
      <4> QED BY <1>4, <4>1
    <3>5. Exp(f[n + j] - top) \in Int
          BY <1>8, <3>4, Exps
    <3> HIDE DEF P
    <3> QED BY <3>2, <3>3, <3>5
  <2>2. ASSUME NEW j \in Columns, j \notin Upto(k) PROVE P[j] = 0
    <3>1. ~ Visible(r, j)
          BY <1>7, <2>2
    <3> QED BY <1>11, <3>1
  <2> QED BY <2>1, <2>2
<1> HIDE DEF P, h
<1>14. SumOver(P, Columns) = SumOver(h, Upto(k))
  <2>1. /\ k \in Nat /\ TileSize \in Nat /\ k <= TileSize
        /\ \A p \in Upto(k) : P[p] \in Int
        /\ \A p \in Upto(TileSize) \ Upto(k) : P[p] = 0
        BY <1>3, <1>7, <1>13, Constants
  <2>2. SumOver(P, Upto(TileSize)) = SumOver(P, Upto(k))
        BY <2>1, SumZeros
  <2>3. \A p \in Upto(k) : P[p] = h[p]
        BY <1>13
  <2>4. SumOver(P, Upto(k)) = SumOver(h, Upto(k))
        BY <2>1, <2>3, SumBasics
  <2> QED BY <1>7, <2>2, <2>4
<1>15. WeightOf(f, l) = Scaled(WeightOf(f, n), Exp(TopOf(f, n) - top)) + SumOver(h, Upto(k))
  <2>1. \A j \in Upto(k) : h[j] = Exp(f[n + j] - TopOf(f, l))
        BY DEF h
  <2>2. Weights(h, f, n, k, l)
        BY <1>3, <2>1 DEF Weights
  <2>3. n \in Nat /\ k \in Nat /\ l \in Nat /\ l = n + k /\ Bounded(f, l)
        BY <1>3, <1>4
  <2> QED BY <2>2, <2>3, WeightStep
<1>16. SumAfter(x.sum, RescaleOf(c, s, r), TileSum(c, s, r)) = WeightOf(f, l)
       BY <1>5, <1>10, <1>12, <1>14, <1>15 DEF SumAfter
<1> QED BY <1>9, <1>10, <1>11, <1>16 DEF f, n, l, x

(* A step over the live rows of a slot leaves the other slots alone. *)
LEMMA SlotStep ==
    ASSUME state \in [Cores -> [Heads -> [Rows -> RowRecords]]], slot \in Heads, LiveRows \subseteq Rows,
           NEW new \in [Cores -> [LiveRows -> RowRecords]],
           state' = [c \in Cores |-> [state[c] EXCEPT ![slot] = [r \in Rows |->
                       IF r \in LiveRows THEN new[c][r] ELSE state[c][slot][r]]]]
    PROVE  /\ state' \in [Cores -> [Heads -> [Rows -> RowRecords]]]
           /\ \A c \in Cores, s \in Heads, r \in Rows : s # slot => state'[c][s][r] = state[c][s][r]
           /\ \A c \in Cores, r \in LiveRows : state'[c][slot][r] = new[c][r]
<1>1. ASSUME NEW c \in Cores PROVE state'[c] \in [Heads -> [Rows -> RowRecords]]
  <2>1. \A r \in Rows : state[c][slot][r] \in RowRecords
        OBVIOUS
  <2>2. \A r \in LiveRows : new[c][r] \in RowRecords
        OBVIOUS
  <2>3. [r \in Rows |-> IF r \in LiveRows THEN new[c][r] ELSE state[c][slot][r]] \in [Rows -> RowRecords]
        BY <2>1, <2>2
  <2> QED BY <2>3
<1>2. state' \in [Cores -> [Heads -> [Rows -> RowRecords]]]
      BY <1>1
<1>3. \A c \in Cores, s \in Heads, r \in Rows : s # slot => state'[c][s][r] = state[c][s][r]
      OBVIOUS
<1>4. \A c \in Cores, r \in LiveRows : state'[c][slot][r] = new[c][r]
      OBVIOUS
<1> QED BY <1>2, <1>3, <1>4

(* Softmax gives every live row of the slot its new top and sum. *)
LEMMA SoftmaxStep == IInv /\ Softmax => IInv'
<1> SUFFICES ASSUME IInv, Softmax PROVE IInv'
    OBVIOUS
<1>1. /\ pc = "softmax" /\ pc' = "rescale"
      /\ probs' = [c \in Cores |-> [r \in Rows |-> [col \in Columns |->
           IF r \in LiveRows THEN RawPerUnit * Probability(c, slot, r, col) ELSE 0]]]
      /\ oldScale' = [c \in Cores |-> [r \in Rows |->
           IF r \in LiveRows THEN RescaleOf(c, slot, r) ELSE 0]]
      /\ UNCHANGED <<ops, caches, job, token>> /\ UNCHANGED <<ops, caches, job, token, tile>>
      /\ UNCHANGED <<tile, panelK, panelV>>
      /\ job' = job /\ tile' = tile /\ slot' = slot /\ wave' = wave
      /\ ops' = ops /\ token' = token
      /\ kRow' = kRow /\ kTr' = kTr /\ v' = v
      BY DEF Softmax, caches
<1>2. /\ TypeInv /\ PlaceInv /\ RowsInv /\ Launched /\ wave = 0
      /\ job.op \notin PanelOps /\ slot \in Nat
      BY <1>1 DEF IInv, PlaceInv, TypeInv
<1>3. CacheInv' /\ LoadedInv'
      BY <1>1, Inside DEF InSlot
<1>4. /\ TileBegin' = TileBegin
      /\ \A r : Before(r)' = Before(r) /\ After(r)' = After(r)
      /\ \A r, col : Visible(r, col)' = Visible(r, col)
      BY <1>1, SteadyTile
<1>5. /\ Slots' = Slots /\ LiveRows' = LiveRows /\ ContextLen' = ContextLen /\ RawPerUnit' = RawPerUnit
      /\ \A c, s, r : Line(c, s, r)' = Line(c, s, r)
      /\ \A c, w : ValueLine(c, w)' = ValueLine(c, w)
      BY <1>1, SteadyLaunch
<1>6. LiveRows \subseteq Rows /\ LiveRows \subseteq Nat /\ Slots \subseteq Heads /\ Slots \subseteq Nat
      /\ TileBegin < ContextLen
  <2>1. LiveRows \subseteq Rows /\ LiveRows \subseteq Nat
        BY <1>1, <1>2, Geometry
  <2>2. Slots \subseteq Heads /\ Slots \subseteq Nat
        BY Constants DEF Slots, Heads
  <2>3. TileBegin < ContextLen
        BY <1>1, <1>2 DEF PlaceInv, Walking
  <2> QED BY <2>1, <2>2, <2>3
<1>7. slot \in Slots
      BY <1>2, Constants DEF PlaceInv, Slots
<1>8. state' = [c \in Cores |-> [state[c] EXCEPT ![slot] = [r \in Rows |->
           IF r \in LiveRows THEN SoftmaxRow(c, slot, r) ELSE state[c][slot][r]]]]
      BY DEF Softmax
<1>9. ASSUME NEW c \in Cores, NEW r \in LiveRows
      PROVE  /\ RowMax(c, slot, r) = TopOf(Line(c, slot, r), After(r))
             /\ RescaleOf(c, slot, r) = Exp(TopOf(Line(c, slot, r), Before(r)) - TopOf(Line(c, slot, r), After(r)))
             /\ SumAfter(state[c][slot][r].sum, RescaleOf(c, slot, r), TileSum(c, slot, r)) = WeightOf(Line(c, slot, r), After(r))
             /\ \A col \in Columns :
                  Probability(c, slot, r, col) =
                     IF Visible(r, col) THEN Exp(Line(c, slot, r)[TileBegin + col] - TopOf(Line(c, slot, r), After(r)))
                     ELSE 0
      BY <1>1, <1>2, <1>7, SoftmaxExact
<1>10. ASSUME NEW c \in Cores, NEW r \in LiveRows
       PROVE  LET f == Line(c, slot, r)
                  l == After(r)
              IN  TopOf(f, l) \in Int /\ WeightOf(f, l) \in Int
  <2> DEFINE f == Line(c, slot, r)
             l == After(r)
  <2>1. l \in Nat /\ l \in 0..MaxSeq
    <3>1. pc \in Walking
          BY <1>1 DEF Walking
    <3>2. l \in Nat /\ l <= MaxSeq
          BY <1>2, <3>1, Columned
    <3> HIDE DEF l
    <3> QED BY <3>2, Constants
  <2>2. Bounded(f, l)
    <3>1. pc \in Reading /\ r \in Nat
          BY <1>1, <1>6 DEF Reading, Walking
    <3> QED BY <1>2, <2>1, <3>1, Lines
  <2> HIDE DEF f, l
  <2>3. \A p \in Upto(l) : f[p] \in Int
        BY <2>2 DEF Bounded
  <2>4. TopOf(f, l) \in Int
        BY <2>1, <2>3, TopIs
  <2>5. WeightOf(f, l) \in Int
    <3> DEFINE h == [j \in Upto(l) |-> Exp(f[j] - TopOf(f, l))]
    <3>1. \A j \in Upto(l) : h[j] \in Int
          BY <2>3, <2>4, Exps
    <3>2. WeightOf(f, l) = SumOver(h, Upto(l))
          BY DEF WeightOf
    <3> HIDE DEF h
    <3> QED BY <2>1, <3>1, <3>2, SumBasics
  <2> QED BY <2>4, <2>5 DEF f, l
<1>11. /\ state' \in [Cores -> [Heads -> [Rows -> RowRecords]]]
       /\ \A c \in Cores, s \in Heads, r \in Rows : s # slot => state'[c][s][r] = state[c][s][r]
       /\ \A c \in Cores, r \in LiveRows :
            /\ state'[c][slot][r].max = TopOf(Line(c, slot, r), After(r))
            /\ state'[c][slot][r].sum = WeightOf(Line(c, slot, r), After(r))
            /\ state'[c][slot][r].acc = state[c][slot][r].acc
  <2>1. state \in [Cores -> [Heads -> [Rows -> RowRecords]]] /\ slot \in Heads
        BY <1>2, <1>6, <1>7 DEF TypeInv
  <2>2. ASSUME NEW c \in Cores, NEW r \in LiveRows
        PROVE  /\ SoftmaxRow(c, slot, r) \in RowRecords
               /\ SoftmaxRow(c, slot, r).max = TopOf(Line(c, slot, r), After(r))
               /\ SoftmaxRow(c, slot, r).sum = WeightOf(Line(c, slot, r), After(r))
               /\ SoftmaxRow(c, slot, r).acc = state[c][slot][r].acc
    <3> DEFINE x == state[c][slot][r]
               m == TopOf(Line(c, slot, r), After(r))
               u == WeightOf(Line(c, slot, r), After(r))
    <3>1. x \in RowRecords
          BY <1>6, <2>1
    <3>2. SoftmaxRow(c, slot, r) = [x EXCEPT !.max = m, !.sum = u]
          BY <1>9 DEF SoftmaxRow
    <3>3. m \in Int /\ u \in Int
          BY <1>10
    <3> HIDE DEF x, m, u
    <3>4. LET y == [x EXCEPT !.max = m, !.sum = u]
          IN  y \in RowRecords /\ y.max = m /\ y.sum = u /\ y.acc = x.acc
          BY <3>1, <3>3 DEF RowRecords
    <3> QED BY <3>2, <3>4 DEF x, m, u
  <2>3. \A c \in Cores, r \in LiveRows : SoftmaxRow(c, slot, r) \in RowRecords
        BY <2>2
  <2> DEFINE new == [c \in Cores |-> [r \in LiveRows |-> SoftmaxRow(c, slot, r)]]
  <2>4. /\ new \in [Cores -> [LiveRows -> RowRecords]]
        /\ \A c \in Cores, r \in LiveRows : new[c][r] = SoftmaxRow(c, slot, r)
        BY <2>3
  <2> HIDE DEF new
  <2>5. state' = [c \in Cores |-> [state[c] EXCEPT ![slot] = [r \in Rows |->
           IF r \in LiveRows THEN new[c][r] ELSE state[c][slot][r]]]]
        BY <1>8, <2>4
  <2>6. /\ state' \in [Cores -> [Heads -> [Rows -> RowRecords]]]
        /\ \A c \in Cores, s \in Heads, r \in Rows : s # slot => state'[c][s][r] = state[c][s][r]
        /\ \A c \in Cores, r \in LiveRows : state'[c][slot][r] = new[c][r]
        BY <1>6, <2>1, <2>4, <2>5, SlotStep
  <2> QED BY <2>2, <2>4, <2>6
<1>12. TypeInv'
       BY <1>1, <1>2, <1>11 DEF TypeInv, Reading, Walking
<1>13. PlaceInv'
  <2>1. Launched'
        BY <1>1, <1>2 DEF Launched
  <2>2. /\ token # 0 => job.op = "LAYER" /\ token < job.tokens
        /\ slot # 0 => job.op = "BLOCK" /\ slot \in Heads
        BY <1>2 DEF PlaceInv
  <2> QED BY <1>1, <1>2, <1>4, <1>5, <1>6, <2>1, <2>2 DEF PlaceInv, PanelOps, Walking, InSlot
<1>14. ScoredInv' /\ PanelInv'
       BY <1>1, <1>2 DEF ScoredInv, PanelInv, PanelOps
<1>15. ProbedInv'
  <2> SUFFICES ASSUME NEW c \in Cores, NEW s \in Slots, NEW r \in LiveRows, s = slot
               PROVE  /\ oldScale'[c][r] = Exp(TopOf(Line(c, s, r)', Before(r)') - TopOf(Line(c, s, r)', After(r)'))
                      /\ \A col \in Columns :
                           probs'[c][r][col] =
                             RawPerUnit' * (IF Visible(r, col)'
                                            THEN Exp(Line(c, s, r)'[TileBegin' + col] - TopOf(Line(c, s, r)', After(r)'))
                                            ELSE 0)
    <3>1. slot' = slot /\ Slots' = Slots /\ LiveRows' = LiveRows
          BY <1>1, <1>5
    <3> QED BY <3>1 DEF ProbedInv
  <2>1. r \in Rows
        BY <1>6
  <2>2. oldScale'[c][r] = RescaleOf(c, slot, r)
        BY <1>1, <2>1
  <2>3. \A col \in Columns : probs'[c][r][col] = RawPerUnit * Probability(c, slot, r, col)
        BY <1>1, <2>1
  <2>4. /\ oldScale'[c][r] = Exp(TopOf(Line(c, s, r), Before(r)) - TopOf(Line(c, s, r), After(r)))
        /\ \A col \in Columns :
             probs'[c][r][col] =
               RawPerUnit * (IF Visible(r, col)
                             THEN Exp(Line(c, s, r)[TileBegin + col] - TopOf(Line(c, s, r), After(r)))
                             ELSE 0)
        BY <1>9, <2>2, <2>3
  <2> QED BY <1>4, <1>5, <2>4
<1>16. RowsInv'
  <2> SUFFICES ASSUME NEW c \in Cores, NEW s \in Slots, NEW r \in LiveRows
               PROVE  RowInv(c, s, r)'
      BY <1>5 DEF RowsInv
  <2>1. RowInv(c, s, r) /\ s \in Heads /\ s \in Nat /\ r \in Rows
        BY <1>2, <1>6 DEF RowsInv
  <2>2. CASE s # slot
    <3>1. state'[c][s][r] = state[c][s][r]
          BY <1>11, <2>1, <2>2
    <3>2. s < slot => RowIs(state[c][s][r], c, Line(c, s, r), After(r))'
          BY <1>1, <1>4, <1>5, <2>1, <3>1 DEF RowInv, RowIs, HeadIs, AccIs, Walking
    <3>3. s > slot => RowIs(state[c][s][r], c, Line(c, s, r), Before(r))'
          BY <1>1, <1>4, <1>5, <2>1, <3>1 DEF RowInv, RowIs, HeadIs, AccIs, Walking
    <3> QED BY <1>1, <2>2, <3>2, <3>3 DEF RowInv, Walking
  <2>3. CASE s = slot
    <3>1. RowIs(state[c][s][r], c, Line(c, s, r), Before(r))
          BY <1>1, <1>2, <2>1, <2>3 DEF RowInv, Walking
    <3>2. HeadIs(state[c][s][r], Line(c, s, r), After(r))'
      <4>1. state'[c][s][r].max = TopOf(Line(c, s, r), After(r)) /\ state'[c][s][r].sum = WeightOf(Line(c, s, r), After(r))
            BY <1>11, <2>3
      <4> QED BY <1>4, <1>5, <4>1 DEF HeadIs
    <3>3. AccIs(state[c][s][r], c, Line(c, s, r), Before(r))'
      <4>1. state'[c][s][r].acc = state[c][s][r].acc
            BY <1>11, <2>3
      <4> QED BY <1>4, <1>5, <3>1, <4>1 DEF RowIs, AccIs
    <3> QED BY <1>1, <1>2, <2>1, <2>3, <3>2, <3>3 DEF RowInv, Walking
  <2> QED BY <2>2, <2>3
<1> QED BY <1>3, <1>12, <1>13, <1>14, <1>15, <1>16 DEF IInv

(* Scaling keeps whole numbers. *)
LEMMA ScaledInt == \A x, y \in Int : Scaled(x, y) \in Int
<1>1. ASSUME NEW n, n = 8 PROVE 2 ^ n = 256
      BY <1>1
<1>2. 2 ^ Unit = 256
      BY <1>1 DEF Unit
<1>3. ASSUME NEW x \in Int, NEW y \in Int PROVE Scaled(x, y) \in Int
  <2>1. x * y \in Int
        OBVIOUS
  <2> DEFINE z == x * y
  <2> HIDE DEF z
  <2>2. z \div 256 \in Int
        BY <2>1 DEF z
  <2> QED BY <1>2, <2>2 DEF Scaled, z
<1> QED BY <1>3

(* The tops and mixes of a live row are numbers. *)
LEMMA RowNumbers ==
    ASSUME TypeInv, PlaceInv, job.op \notin PanelOps, pc \in Walking,
           NEW c \in Cores, NEW s \in Nat, NEW r \in LiveRows, NEW w \in Waves
    PROVE  LET f == Line(c, s, r)
               g == ValueLine(c, w)
           IN  /\ TopOf(f, Before(r)) \in Int /\ TopOf(f, After(r)) \in Int
               /\ MixOf(f, g, Before(r)) \in Int /\ MixOf(f, g, After(r)) \in Int
               /\ Exp(TopOf(f, Before(r)) - TopOf(f, After(r))) \in Int
<1> DEFINE f == Line(c, s, r)
           g == ValueLine(c, w)
<1>1. Before(r) \in 0..MaxSeq /\ After(r) \in 0..MaxSeq
  <2>1. /\ Before(r) \in Nat /\ After(r) \in Nat /\ After(r) - Before(r) \in Nat
        /\ After(r) <= MaxSeq
        BY Columned
  <2> QED BY <2>1, Constants
<1>2. r \in Nat /\ pc \in Reading
  <2>1. pc # "idle" /\ pc \in Reading
        BY DEF Walking, Reading
  <2> QED BY <2>1, Geometry
<1>3. ASSUME NEW n \in 0..MaxSeq PROVE TopOf(f, n) \in Int /\ MixOf(f, g, n) \in Int
  <2>1. Upto(n) \subseteq Positions /\ n \in Nat
        BY <1>2, Lines, Constants
  <2>2. \A p \in Upto(n) : f[p] \in Int /\ g[p] \in Int
        BY <1>2, <2>1, Lines
  <2> HIDE DEF f, g
  <2>3. TopOf(f, n) \in Int
        BY <2>1, <2>2, TopIs
  <2> DEFINE h == [p \in Upto(n) |-> Exp(f[p] - TopOf(f, n)) * g[p]]
  <2>4. ASSUME NEW p \in Upto(n) PROVE h[p] \in Int
    <3>1. Exp(f[p] - TopOf(f, n)) \in Int
          BY <2>2, <2>3, Exps
    <3>2. Exp(f[p] - TopOf(f, n)) * g[p] \in Int
          BY <2>2, <3>1
    <3> QED BY <3>2
  <2> HIDE DEF h
  <2>5. SumOver(h, Upto(n)) \in Int
        BY <2>1, <2>4, SumBasics
  <2> QED BY <2>3, <2>5 DEF MixOf, MixTo, h
<1> HIDE DEF f, g
<1>4. /\ TopOf(f, Before(r)) \in Int /\ TopOf(f, After(r)) \in Int
      /\ MixOf(f, g, Before(r)) \in Int /\ MixOf(f, g, After(r)) \in Int
      BY <1>1, <1>3
<1>5. Exp(TopOf(f, Before(r)) - TopOf(f, After(r))) \in Int
      BY <1>4, Exps
<1> QED BY <1>4, <1>5 DEF f, g

(* The accumulator of every live row of the slot is scaled once. *)
LEMMA RescaleStep == IInv /\ Rescale => IInv'
<1> SUFFICES ASSUME IInv, Rescale PROVE IInv'
    OBVIOUS
<1>1. /\ pc = "rescale" /\ pc' = "values"
      /\ UNCHANGED <<ops, caches, job, token>> /\ UNCHANGED <<ops, caches, job, token, tile>>
      /\ UNCHANGED <<tile, panelK, panelV>>
      /\ probs' = probs /\ oldScale' = oldScale
      /\ job' = job /\ tile' = tile /\ slot' = slot /\ wave' = wave
      /\ ops' = ops /\ token' = token
      /\ kRow' = kRow /\ kTr' = kTr /\ v' = v
      BY DEF Rescale, caches
<1>2. /\ TypeInv /\ PlaceInv /\ RowsInv /\ ProbedInv /\ Launched /\ wave = 0
      /\ job.op \notin PanelOps /\ slot \in Nat
      BY <1>1 DEF IInv, PlaceInv, TypeInv
<1>3. CacheInv' /\ LoadedInv'
      BY <1>1, Inside DEF InSlot
<1>4. /\ TileBegin' = TileBegin
      /\ \A r : Before(r)' = Before(r) /\ After(r)' = After(r)
      /\ \A r, col : Visible(r, col)' = Visible(r, col)
      BY <1>1, SteadyTile
<1>5. /\ Slots' = Slots /\ LiveRows' = LiveRows /\ ContextLen' = ContextLen /\ RawPerUnit' = RawPerUnit
      /\ \A c, s, r : Line(c, s, r)' = Line(c, s, r)
      /\ \A c, w : ValueLine(c, w)' = ValueLine(c, w)
      BY <1>1, SteadyLaunch
<1>6. LiveRows \subseteq Rows /\ LiveRows \subseteq Nat /\ Slots \subseteq Heads /\ Slots \subseteq Nat
      /\ TileBegin < ContextLen
  <2>1. LiveRows \subseteq Rows /\ LiveRows \subseteq Nat
        BY <1>1, <1>2, Geometry
  <2>2. Slots \subseteq Heads /\ Slots \subseteq Nat
        BY Constants DEF Slots, Heads
  <2>3. TileBegin < ContextLen
        BY <1>1, <1>2 DEF PlaceInv, Walking
  <2> QED BY <2>1, <2>2, <2>3
<1>7. slot \in Slots
      BY <1>2, Constants DEF PlaceInv, Slots
<1>8. state' = [c \in Cores |-> [state[c] EXCEPT ![slot] = [r \in Rows |->
           IF r \in LiveRows THEN RescaledRow(c, slot, r) ELSE state[c][slot][r]]]]
      BY DEF Rescale
<1>9. ASSUME NEW c \in Cores, NEW s \in Slots, NEW r \in LiveRows, s = slot
      PROVE  /\ HeadIs(state[c][s][r], Line(c, s, r), After(r))
             /\ AccIs(state[c][s][r], c, Line(c, s, r), Before(r))
      BY <1>1, <1>2, <1>9 DEF RowsInv, RowInv
<1>10. /\ state' \in [Cores -> [Heads -> [Rows -> RowRecords]]]
       /\ \A c \in Cores, s \in Heads, r \in Rows : s # slot => state'[c][s][r] = state[c][s][r]
       /\ \A c \in Cores, r \in LiveRows :
            /\ state'[c][slot][r].max = state[c][slot][r].max
            /\ state'[c][slot][r].sum = state[c][slot][r].sum
            /\ \A w \in Waves : state'[c][slot][r].acc[w] = Scaled(state[c][slot][r].acc[w], oldScale[c][r])
  <2>1. state \in [Cores -> [Heads -> [Rows -> RowRecords]]] /\ slot \in Heads
        BY <1>2, <1>6, <1>7 DEF TypeInv
  <2>2. ASSUME NEW c \in Cores, NEW r \in LiveRows
        PROVE  /\ RescaledRow(c, slot, r) \in RowRecords
               /\ RescaledRow(c, slot, r).max = state[c][slot][r].max
               /\ RescaledRow(c, slot, r).sum = state[c][slot][r].sum
               /\ \A w \in Waves : RescaledRow(c, slot, r).acc[w] = Scaled(state[c][slot][r].acc[w], oldScale[c][r])
    <3> DEFINE x == state[c][slot][r]
               a == [w \in Waves |-> Scaled(x.acc[w], oldScale[c][r])]
    <3>1. x \in RowRecords
          BY <1>6, <2>1
    <3>2. RescaledRow(c, slot, r) = [x EXCEPT !.acc = a]
          BY DEF RescaledRow
    <3>3. oldScale[c][r] \in Int
      <4>1. oldScale[c][r] = Exp(TopOf(Line(c, slot, r), Before(r)) - TopOf(Line(c, slot, r), After(r)))
            BY <1>1, <1>2, <1>7 DEF ProbedInv
      <4>2. pc \in Walking
            BY <1>1 DEF Walking
      <4>3. Exp(TopOf(Line(c, slot, r), Before(r)) - TopOf(Line(c, slot, r), After(r))) \in Int
            BY <1>2, <4>2, RowNumbers, Constants
      <4> QED BY <4>1, <4>3
    <3>4. a \in [Waves -> Int]
      <4>1. ASSUME NEW w \in Waves PROVE Scaled(x.acc[w], oldScale[c][r]) \in Int
        <5>1. x.acc[w] \in Int
              BY <3>1 DEF RowRecords
        <5> QED BY <3>3, <5>1, ScaledInt
      <4> QED BY <4>1
    <3>5. \A w \in Waves : a[w] = Scaled(x.acc[w], oldScale[c][r])
          OBVIOUS
    <3> HIDE DEF x, a
    <3>6. LET y == [x EXCEPT !.acc = a]
          IN  y \in RowRecords /\ y.max = x.max /\ y.sum = x.sum /\ y.acc = a
          BY <3>1, <3>4 DEF RowRecords
    <3> QED BY <3>2, <3>5, <3>6 DEF x
  <2>3. \A c \in Cores, r \in LiveRows : RescaledRow(c, slot, r) \in RowRecords
        BY <2>2
  <2> DEFINE new == [c \in Cores |-> [r \in LiveRows |-> RescaledRow(c, slot, r)]]
  <2>4. /\ new \in [Cores -> [LiveRows -> RowRecords]]
        /\ \A c \in Cores, r \in LiveRows : new[c][r] = RescaledRow(c, slot, r)
        BY <2>3
  <2> HIDE DEF new
  <2>5. state' = [c \in Cores |-> [state[c] EXCEPT ![slot] = [r \in Rows |->
           IF r \in LiveRows THEN new[c][r] ELSE state[c][slot][r]]]]
        BY <1>8, <2>4
  <2>6. /\ state' \in [Cores -> [Heads -> [Rows -> RowRecords]]]
        /\ \A c \in Cores, s \in Heads, r \in Rows : s # slot => state'[c][s][r] = state[c][s][r]
        /\ \A c \in Cores, r \in LiveRows : state'[c][slot][r] = new[c][r]
        BY <1>6, <2>1, <2>4, <2>5, SlotStep
  <2> QED BY <2>2, <2>4, <2>6
<1>11. TypeInv'
       BY <1>1, <1>2, <1>10 DEF TypeInv, Reading, Walking
<1>12. PlaceInv'
  <2>1. Launched'
        BY <1>1, <1>2 DEF Launched
  <2>2. /\ token # 0 => job.op = "LAYER" /\ token < job.tokens
        /\ slot # 0 => job.op = "BLOCK" /\ slot \in Heads
        BY <1>2 DEF PlaceInv
  <2> QED BY <1>1, <1>2, <1>4, <1>5, <1>6, <2>1, <2>2 DEF PlaceInv, PanelOps, Walking, InSlot
<1>13. ScoredInv' /\ PanelInv'
       BY <1>1, <1>2 DEF ScoredInv, PanelInv, PanelOps
<1>14. ProbedInv'
  <2> SUFFICES ASSUME NEW c \in Cores, NEW s \in Slots, NEW r \in LiveRows, s = slot
               PROVE  /\ oldScale'[c][r] = Exp(TopOf(Line(c, s, r)', Before(r)') - TopOf(Line(c, s, r)', After(r)'))
                      /\ \A col \in Columns :
                           probs'[c][r][col] =
                             RawPerUnit' * (IF Visible(r, col)'
                                            THEN Exp(Line(c, s, r)'[TileBegin' + col] - TopOf(Line(c, s, r)', After(r)'))
                                            ELSE 0)
    <3>1. slot' = slot /\ Slots' = Slots /\ LiveRows' = LiveRows
          BY <1>1, <1>5
    <3> QED BY <3>1 DEF ProbedInv
  <2>1. /\ oldScale[c][r] = Exp(TopOf(Line(c, s, r), Before(r)) - TopOf(Line(c, s, r), After(r)))
        /\ \A col \in Columns :
             probs[c][r][col] =
               RawPerUnit * (IF Visible(r, col)
                             THEN Exp(Line(c, s, r)[TileBegin + col] - TopOf(Line(c, s, r), After(r)))
                             ELSE 0)
        BY <1>1, <1>2 DEF ProbedInv
  <2> QED BY <1>1, <1>4, <1>5, <2>1
<1>15. RowsInv'
  <2> SUFFICES ASSUME NEW c \in Cores, NEW s \in Slots, NEW r \in LiveRows
               PROVE  RowInv(c, s, r)'
      BY <1>5 DEF RowsInv
  <2>1. RowInv(c, s, r) /\ s \in Heads /\ s \in Nat /\ r \in Rows
        BY <1>2, <1>6 DEF RowsInv
  <2>2. CASE s # slot
    <3>1. state'[c][s][r] = state[c][s][r]
          BY <1>10, <2>1, <2>2
    <3>2. s < slot => RowIs(state[c][s][r], c, Line(c, s, r), After(r))'
          BY <1>1, <1>4, <1>5, <2>1, <3>1 DEF RowInv, RowIs, HeadIs, AccIs, Walking
    <3>3. s > slot => RowIs(state[c][s][r], c, Line(c, s, r), Before(r))'
          BY <1>1, <1>4, <1>5, <2>1, <3>1 DEF RowInv, RowIs, HeadIs, AccIs, Walking
    <3> QED BY <1>1, <2>2, <3>2, <3>3 DEF RowInv, Walking
  <2>3. CASE s = slot
    <3>1. HeadIs(state[c][s][r], Line(c, s, r), After(r)) /\ AccIs(state[c][s][r], c, Line(c, s, r), Before(r))
          BY <1>9, <2>3
    <3>2. HeadIs(state[c][s][r], Line(c, s, r), After(r))'
      <4>1. state'[c][s][r].max = state[c][s][r].max /\ state'[c][s][r].sum = state[c][s][r].sum
            BY <1>10, <2>3
      <4> QED BY <1>4, <1>5, <3>1, <4>1 DEF HeadIs
    <3>3. \A w \in Waves : /\ state'[c][s][r].acc[w] = Scaled(MixOf(Line(c, s, r), ValueLine(c, w), Before(r)), oldScale[c][r])
                           /\ ~ (w < wave')
      <4>1. ASSUME NEW w \in Waves
            PROVE  state'[c][s][r].acc[w] = Scaled(MixOf(Line(c, s, r), ValueLine(c, w), Before(r)), oldScale[c][r])
            BY <1>10, <2>3, <3>1 DEF AccIs
      <4>2. \A w \in Waves : ~ (w < wave')
            BY <1>1, <1>2, Constants DEF Waves
      <4> QED BY <4>1, <4>2
    <3>4. \A w \in Waves : state'[c][s][r].acc[w] =
             IF w < wave' THEN MixOf(Line(c, s, r)', ValueLine(c, w)', After(r)')
             ELSE Scaled(MixOf(Line(c, s, r)', ValueLine(c, w)', Before(r)'), oldScale'[c][r])
          BY <1>1, <1>4, <1>5, <3>3
    <3> QED BY <1>1, <1>2, <2>1, <2>3, <3>2, <3>4 DEF RowInv, Walking
  <2> QED BY <2>2, <2>3
<1> QED BY <1>3, <1>11, <1>12, <1>13, <1>14, <1>15 DEF IInv

(* A product of a wave as a sum over the tile. *)
LEMMA ProductSum ==
    ASSUME NEW c, NEW r \in Heads, NEW w
    PROVE  Product(c, r, w) =
             SumOver([col \in Upto(TileLen) |-> probs[c][r][col] * ValueAt(c, col, w)], Upto(TileLen)) \div OutputScale
<1> DEFINE Q == [col \in Upto(TileLen) |-> probs[c][r][col] * ValueAt(c, col, w)]
           S == Upto(TileLen)
<1>1. MapThenSumSet(LAMBDA col : Q[col], S) = SumOver(Q, S)
      BY SumSets
<1>2. MapThenSumSet(LAMBDA col : probs[c][r][col] * ValueAt(c, col, w), S) = MapThenSumSet(LAMBDA col : Q[col], S)
      BY DEF MapThenSumSet, MapThenFoldSet
<1>3. MapThenSumSet(LAMBDA col : probs[c][r][col] * ValueAt(c, col, w), S) = SumOver(Q, S)
      BY <1>1, <1>2
<1>4. ~ (r >= GqaGroup)
      BY Constants DEF Heads
<1>5. Product(c, r, w) = MapThenSumSet(LAMBDA col : probs[c][r][col] * ValueAt(c, col, w), 0..(TileLen - 1)) \div OutputScale
      BY <1>4 DEF Product
<1>6. MapThenSumSet(LAMBDA col : probs[c][r][col] * ValueAt(c, col, w), 0..(TileLen - 1)) = SumOver(Q, S)
      BY <1>3 DEF Upto
<1> HIDE DEF Q, S
<1>7. Product(c, r, w) = SumOver(Q, S) \div OutputScale
      BY <1>5, <1>6
<1> QED BY <1>7 DEF Q, S

(* A product brings the scaled accumulator of its wave to the mix of all   *)
(* the values the row has seen.                                            *)
LEMMA ProductExact ==
    ASSUME IInv, job.op \notin PanelOps, pc = "values",
           NEW c \in Cores, NEW s \in Slots, s = slot, NEW r \in LiveRows, NEW w \in Waves
    PROVE  LET f == Line(c, s, r)
               g == ValueLine(c, w)
           IN  /\ Product(c, r, w) \in Int
               /\ MixOf(f, g, After(r)) = Scaled(MixOf(f, g, Before(r)), oldScale[c][r]) + Product(c, r, w)
<1> DEFINE f == Line(c, s, r)
           g == ValueLine(c, w)
           n == Before(r)
           l == After(r)
           k == l - n
           top == TopOf(f, l)
           m == TileLen
<1>1. TypeInv /\ PlaceInv /\ ProbedInv /\ LoadedInv /\ pc \in Walking /\ pc \in Reading /\ pc # "idle" /\ pc \in InSlot
      BY DEF IInv, Walking, Reading, InSlot
<1>2. s \in Nat /\ r \in Nat /\ r \in Heads /\ TileBegin \in Nat
  <2>1. LiveRows \subseteq Nat /\ LiveRows \subseteq Rows /\ TileBegin \in Nat
        BY <1>1, Geometry
  <2>2. s \in Nat
        BY Constants DEF Slots, Heads
  <2> QED BY <2>1, <2>2, Constants
<1>3. /\ n \in Nat /\ l \in Nat /\ k \in Nat /\ l = n + k
      /\ l \in 0..MaxSeq
      /\ m \in 1..TileSize /\ m \in Nat /\ k <= m /\ TileBegin + m <= MaxSeq
      /\ \A col \in Columns : Visible(r, col) <=> col < k
      /\ k > 0 => n = TileBegin
  <2>1. /\ n \in Nat /\ l \in Nat /\ k \in Nat /\ l = n + k /\ l <= MaxSeq
        /\ m \in 1..TileSize /\ k <= m /\ TileBegin + m <= MaxSeq
        /\ \A col \in Columns : Visible(r, col) <=> col < k
        /\ k > 0 => n = TileBegin
        BY <1>1, Columned
  <2> HIDE DEF n, l, k, m
  <2>2. l \in 0..MaxSeq /\ m \in Nat
        BY <2>1, Constants
  <2> QED BY <2>1, <2>2
<1>4. Bounded(f, l) /\ Upto(l) \subseteq Positions
      BY <1>1, <1>2, <1>3, Lines
<1>5. \A p \in Positions : f[p] \in Int /\ g[p] \in Int
      BY <1>1, <1>2, Lines
<1>6. \A p \in Upto(l) : f[p] \in Int /\ g[p] \in Int
      BY <1>4, <1>5
<1>7. oldScale[c][r] = Exp(TopOf(f, n) - top)
      BY <1>1 DEF ProbedInv
<1>8. \A col \in Columns : probs[c][r][col] =
        RawPerUnit * (IF Visible(r, col) THEN Exp(f[TileBegin + col] - top) ELSE 0)
      BY <1>1 DEF ProbedInv
<1>9. \A col \in Upto(m) : ValueAt(c, col, w) = g[TileBegin + col] /\ TileBegin + col \in Positions /\ col \in Columns
  <2>1. ASSUME NEW col \in Upto(m) PROVE TileBegin + col \in Positions /\ col \in Columns
    <3> DEFINE b == TileBegin
    <3>1. b \in Nat /\ m \in Nat /\ m <= TileSize /\ b + m <= MaxSeq
          BY <1>2, <1>3, Constants
    <3> HIDE DEF b, m
    <3>2. b + col \in Positions /\ col \in Columns
          BY <3>1, Constants DEF Upto, Positions, Columns
    <3> QED BY <3>2 DEF b
  <2>2. ASSUME NEW col \in Upto(m) PROVE ValueAt(c, col, w) = ValueOf(CachedEntry(TileBegin + col), c, w)
    <3>1. col \in 0..(TileLen - 1)
          BY DEF Upto
    <3> QED BY <1>1, <3>1 DEF LoadedInv
  <2>3. \A p \in Positions : g[p] = ValueOf(CachedEntry(p), c, w)
        BY DEF ValueLine
  <2> HIDE DEF g, m
  <2> QED BY <2>1, <2>2, <2>3
<1> HIDE DEF f, g, n, l, k
<1>10. top \in Int
       BY <1>3, <1>6, TopIs
<1> HIDE DEF top
<1> DEFINE e == [col \in Upto(m) |-> IF Visible(r, col) THEN Exp(f[TileBegin + col] - top) * g[TileBegin + col] ELSE 0]
           Q == [col \in Upto(m) |-> probs[c][r][col] * ValueAt(c, col, w)]
           h == [j \in Upto(k) |-> Exp(f[n + j] - top) * g[n + j]]
<1>11. RawPerUnit \in {1, 64} /\ OutputScale = RawPerUnit
       BY DEF RawPerUnit, OutputScale
<1>12. ASSUME NEW col \in Upto(m)
       PROVE  e[col] \in Int /\ Q[col] \in Int /\ Q[col] * 1 = e[col] * RawPerUnit
  <2>1. f[TileBegin + col] \in Int /\ g[TileBegin + col] \in Int /\ col \in Columns
        /\ Q[col] = probs[c][r][col] * g[TileBegin + col]
        BY <1>5, <1>9
  <2> DEFINE y == Exp(f[TileBegin + col] - top)
             z == g[TileBegin + col]
             u == RawPerUnit
  <2>2. y \in Int /\ z \in Int /\ u \in Int
        BY <1>10, <1>11, <2>1, Exps
  <2>3. CASE Visible(r, col)
    <3>1. probs[c][r][col] = u * y
          BY <1>8, <2>1, <2>3
    <3>2. e[col] = y * z
          BY <2>3
    <3>3. Q[col] = (u * y) * z
          BY <2>1, <3>1
    <3> HIDE DEF y, z, u, e, Q
    <3>4. (u * y) * z = (y * z) * u /\ y * z \in Int /\ (u * y) * z \in Int
          BY <2>2
    <3> QED BY <3>2, <3>3, <3>4 DEF u
  <2>4. CASE ~ Visible(r, col)
    <3>1. probs[c][r][col] = u * 0
          BY <1>8, <2>1, <2>4
    <3>2. e[col] = 0
          BY <2>4
    <3>3. Q[col] = (u * 0) * z
          BY <2>1, <3>1
    <3> HIDE DEF y, z, u, e, Q
    <3>4. (u * 0) * z = 0 /\ 0 * u = 0
          BY <2>2
    <3> QED BY <3>2, <3>3, <3>4 DEF u
  <2> QED BY <2>3, <2>4
<1>13. /\ \A j \in Upto(k) : e[j] = h[j] /\ e[j] \in Int
       /\ \A j \in Upto(m) \ Upto(k) : e[j] = 0
       /\ Upto(k) \subseteq Upto(m)
  <2>1. Upto(k) \subseteq Upto(m)
    <3> HIDE DEF m
    <3> QED BY <1>3 DEF Upto
  <2>2. ASSUME NEW j \in Upto(k) PROVE e[j] = h[j] /\ e[j] \in Int
    <3>1. j \in Upto(m) /\ j \in Columns
          BY <1>9, <2>1
    <3>2. j < k /\ k > 0
          BY <1>3 DEF Upto
    <3>3. Visible(r, j) /\ n = TileBegin
          BY <1>3, <3>1, <3>2
    <3>4. e[j] = Exp(f[TileBegin + j] - top) * g[TileBegin + j]
          BY <3>1, <3>3
    <3>5. h[j] = Exp(f[n + j] - top) * g[n + j]
          OBVIOUS
    <3>6. e[j] \in Int
          BY <1>12, <3>1
    <3> HIDE DEF e, h
    <3> QED BY <3>3, <3>4, <3>5, <3>6
  <2>3. ASSUME NEW j \in Upto(m), j \notin Upto(k) PROVE e[j] = 0
    <3>1. j \in Columns
          BY <1>9
    <3>2. ~ (j < k)
      <4> HIDE DEF m
      <4> QED BY <1>3, <2>3 DEF Upto
    <3>3. ~ Visible(r, j)
          BY <1>3, <3>1, <3>2
    <3> QED BY <3>3
  <2> QED BY <2>1, <2>2, <2>3
<1>14. \A j \in Upto(k) : h[j] = Exp(f[n + j] - TopOf(f, l)) * g[n + j]
       BY DEF top
<1>15. Product(c, r, w) = SumOver(Q, Upto(m)) \div OutputScale
       BY <1>2, ProductSum
<1> HIDE DEF e, Q, h, m
<1>16. SumOver(Q, Upto(m)) * 1 = SumOver(e, Upto(m)) * RawPerUnit
  <2>1. 1 \in Int /\ RawPerUnit \in Int /\ m \in Nat
        BY <1>3, <1>11
  <2>2. InProportion(Q, e, 1, RawPerUnit, m)
        BY <1>12 DEF InProportion
  <2> QED BY <2>1, <2>2, SumScales
<1>17. SumOver(e, Upto(m)) = SumOver(h, Upto(k))
  <2>1. k \in Nat /\ m \in Nat /\ k <= m /\ (\A p \in Upto(k) : e[p] \in Int)
        /\ \A p \in Upto(m) \ Upto(k) : e[p] = 0
        BY <1>3, <1>13
  <2>2. SumOver(e, Upto(m)) = SumOver(e, Upto(k))
        BY <2>1, SumZeros
  <2>3. SumOver(e, Upto(k)) = SumOver(h, Upto(k))
        BY <1>13, <2>1, SumBasics
  <2> QED BY <2>2, <2>3
<1>18. /\ SumOver(h, Upto(k)) \in Int
       /\ MixOf(f, g, l) = Scaled(MixOf(f, g, n), Exp(TopOf(f, n) - TopOf(f, l))) + SumOver(h, Upto(k))
  <2>1. n \in Nat /\ k \in Nat /\ l \in Nat /\ l = n + k /\ Bounded(f, l) /\ Numbers(g, l)
        BY <1>3, <1>4, <1>6 DEF Numbers
  <2>2. Terms(h, f, g, n, k, l)
        BY <1>3, <1>14 DEF Terms
  <2> QED BY <2>1, <2>2, MixStep
<1>19. Product(c, r, w) = SumOver(h, Upto(k))
  <2> DEFINE x == SumOver(Q, Upto(m))
             y == SumOver(h, Upto(k))
             u == RawPerUnit
  <2>1. x * 1 = y * u /\ y \in Int /\ u \in {1, 64} /\ Product(c, r, w) = x \div u
        BY <1>11, <1>15, <1>16, <1>17, <1>18
  <2>2. x \in Int
    <3>1. \A p \in Upto(m) : Q[p] \in Int
          BY <1>12
    <3> QED BY <1>3, <3>1, SumBasics
  <2> HIDE DEF x, y, u
  <2>3. x \div u = y
    <3>1. x = y * u
          BY <2>1, <2>2
    <3>2. CASE u = 1
          BY <2>1, <2>2, <3>1, <3>2
    <3>3. CASE u = 64
          BY <2>1, <2>2, <3>1, <3>3
    <3> QED BY <2>1, <3>2, <3>3
  <2> QED BY <2>1, <2>3 DEF y
<1>20. Product(c, r, w) \in Int
       BY <1>18, <1>19
<1>21. MixOf(f, g, l) = Scaled(MixOf(f, g, n), oldScale[c][r]) + Product(c, r, w)
       BY <1>7, <1>18, <1>19 DEF top
<1> QED BY <1>20, <1>21 DEF f, g, n, l

(* The product of a panel: one sum over its columns. *)
LEMMA ProductPanel ==
    ASSUME IInv, job.op = "PV", pc = "values", NEW c \in Cores, NEW r \in Heads, NEW w \in Waves
    PROVE  Product(c, r, w) = PanelSum(c, r, w, TileLen) /\ Product(c, r, w) \in Int
<1>1. TypeInv /\ PlaceInv /\ PanelInv /\ Launched /\ tile = 0 /\ job.op \in PanelOps
      BY DEF IInv, PlaceInv, PanelOps
<1>2. TileLen = Len(job.tile) /\ Len(job.tile) \in 1..TileSize /\ job.tile \in [1..Len(job.tile) -> Entries]
  <2>1. ContextLen = Len(job.tile) /\ Len(job.tile) \in 1..TileSize /\ job.tile \in [1..Len(job.tile) -> Entries]
        BY <1>1 DEF ContextLen, Launched, PanelOps
  <2>2. TileBegin = 0
        BY <1>1, Constants DEF TileBegin
  <2> QED BY <2>1, <2>2, Constants DEF TileLen
<1> DEFINE n == TileLen
           Q == [col \in Upto(n) |-> probs[c][r][col] * ValueAt(c, col, w)]
           P == [col \in Upto(n) |-> (1 + r + col) * ValueOf(job.tile[col + 1], c, w)]
<1>3. ASSUME NEW col \in Upto(n) PROVE Q[col] = P[col] /\ P[col] \in Int
  <2>1. col \in 0..(TileLen - 1) /\ col \in Columns /\ r \in Rows /\ col \in Nat /\ r \in Nat /\ col + 1 \in 1..Len(job.tile)
        BY <1>2, Constants DEF Upto, Columns, Heads
  <2>2. ValueAt(c, col, w) = panelV[c][col][w]
        BY DEF ValueAt, Bypassed, CurrentInTile
  <2>3. panelV[c][col][w] = ValueOf(job.tile[col + 1], c, w) /\ probs[c][r][col] = 1 + r + col
        BY <1>1, <2>1 DEF PanelInv
  <2>4. ValueOf(job.tile[col + 1], c, w) \in Int
    <3>1. job.tile[col + 1] \in Entries
          BY <1>2, <2>1
    <3> QED BY <3>1, Constants DEF ValueOf, Cores, Waves
  <2> DEFINE x == ValueOf(job.tile[col + 1], c, w)
  <2>5. Q[col] = (1 + r + col) * x /\ P[col] = (1 + r + col) * x
        BY <2>2, <2>3
  <2>6. x \in Int
        BY <2>4
  <2> HIDE DEF x, P, Q
  <2>7. (1 + r + col) * x \in Int
        BY <2>1, <2>6
  <2> QED BY <2>5, <2>7
<1>4. OutputScale = 1
      BY DEF OutputScale
<1>5. Product(c, r, w) = SumOver(Q, Upto(n)) \div OutputScale
      BY ProductSum
<1>6. PanelSum(c, r, w, n) = SumOver(P, Upto(n))
      BY DEF PanelSum
<1>7. n \in Nat
      BY <1>2, Constants
<1> HIDE DEF P, Q, n
<1>8. SumOver(P, Upto(n)) \in Int /\ SumOver(P, Upto(n)) = SumOver(Q, Upto(n))
      BY <1>3, <1>7, SumBasics
<1> DEFINE y == SumOver(P, Upto(n))
<1>9. Product(c, r, w) = y \div 1 /\ y \in Int
      BY <1>4, <1>5, <1>8
<1> HIDE DEF y
<1>10. y \div 1 = y
       BY <1>9
<1> QED BY <1>6, <1>9, <1>10 DEF y, n

(* A product of P*V changes one wave of the accumulator of every live row. *)
LEMMA ProductRow ==
    ASSUME NEW c, NEW s, NEW r, NEW p \in Int, wave \in Waves,
           state[c][s][r] \in RowRecords, Product(c, r, wave) = p
    PROVE  /\ AccumulatedRow(c, s, r) \in RowRecords
           /\ AccumulatedRow(c, s, r).max = state[c][s][r].max
           /\ AccumulatedRow(c, s, r).sum = state[c][s][r].sum
           /\ AccumulatedRow(c, s, r).acc[wave] = state[c][s][r].acc[wave] + p
           /\ \A w \in Waves : w # wave => AccumulatedRow(c, s, r).acc[w] = state[c][s][r].acc[w]
<1> DEFINE x == state[c][s][r]
           a == [x.acc EXCEPT ![wave] = x.acc[wave] + p]
           y == [x EXCEPT !.acc = a]
<1>1. AccumulatedRow(c, s, r) = y
      BY DEF AccumulatedRow
<1>2. x \in RowRecords /\ x.acc \in [Waves -> Int]
      BY DEF RowRecords
<1> HIDE DEF x
<1>3. a \in [Waves -> Int] /\ a[wave] = x.acc[wave] + p /\ \A w \in Waves : w # wave => a[w] = x.acc[w]
  <2>1. x.acc[wave] + p \in Int
        BY <1>2
  <2> QED BY <1>2, <2>1
<1> HIDE DEF a
<1>4. y \in RowRecords /\ y.max = x.max /\ y.sum = x.sum /\ y.acc = a
      BY <1>2, <1>3 DEF RowRecords
<1> HIDE DEF y
<1> QED BY <1>1, <1>3, <1>4 DEF x

(* The products of a wave are numbers, whatever the operator. *)
LEMMA ProductInt ==
    ASSUME IInv, pc = "values", NEW c \in Cores, NEW r \in LiveRows
    PROVE  Product(c, r, wave) \in Int
<1>1. TypeInv /\ PlaceInv /\ wave \in Waves
      BY DEF IInv, TypeInv
<1>2. CASE job.op \in PanelOps
  <2>1. job.op = "PV" /\ r \in Heads
        BY <1>1, <1>2 DEF PlaceInv, LiveRows, Heads, PanelOps
  <2> QED BY <1>1, <2>1, ProductPanel
<1>3. CASE job.op \notin PanelOps
  <2>1. slot \in Slots
        BY <1>1, Constants DEF TypeInv, PlaceInv, Slots
  <2> QED BY <1>1, <1>3, <2>1, ProductExact
<1> QED BY <1>2, <1>3

(* The next wave, or the end of the tile in this slot. *)
LEMMA ValuesStep == IInv /\ Values => IInv'
<1> SUFFICES ASSUME IInv, Values PROVE IInv'
    OBVIOUS
<1>1. /\ pc = "values"
      /\ \/ wave + 1 < PvWaves /\ wave' = wave + 1 /\ pc' = "values"
         \/ ~ (wave + 1 < PvWaves) /\ wave' = 0 /\ pc' = "next"
      /\ UNCHANGED <<ops, caches, job, token>> /\ UNCHANGED <<ops, caches, job, token, tile>>
      /\ UNCHANGED <<tile, panelK, panelV>>
      /\ panelV' = panelV /\ probs' = probs /\ oldScale' = oldScale
      /\ job' = job /\ tile' = tile /\ slot' = slot
      /\ ops' = ops /\ token' = token
      /\ kRow' = kRow /\ kTr' = kTr /\ v' = v
      BY DEF Values, caches
<1>2. /\ TypeInv /\ PlaceInv /\ RowsInv /\ ProbedInv /\ PanelInv /\ Launched
      /\ slot \in Nat /\ wave \in Waves /\ wave \in Nat /\ wave < PvWaves
      BY <1>1, Constants DEF IInv, PlaceInv, TypeInv, Waves
<1>3. CacheInv' /\ LoadedInv'
      BY <1>1, Inside DEF InSlot
<1>4. /\ TileBegin' = TileBegin /\ TileLen' = TileLen
      /\ \A r : Before(r)' = Before(r) /\ After(r)' = After(r)
      /\ \A r, col : Visible(r, col)' = Visible(r, col)
      BY <1>1, SteadyTile
<1>5. /\ Slots' = Slots /\ LiveRows' = LiveRows /\ ContextLen' = ContextLen /\ RawPerUnit' = RawPerUnit
      /\ \A c, s, r : Line(c, s, r)' = Line(c, s, r)
      /\ \A c, w : ValueLine(c, w)' = ValueLine(c, w)
      /\ \A c, r, w, n : PanelSum(c, r, w, n)' = PanelSum(c, r, w, n)
      BY <1>1, SteadyLaunch
<1>6. /\ LiveRows \subseteq Rows /\ Slots \subseteq Heads /\ Slots \subseteq Nat /\ slot \in Slots
      /\ job.op \in PanelOps => job.op = "PV" /\ LiveRows = Heads /\ slot = 0 /\ 0 \in Slots
  <2>1. LiveRows \subseteq Rows
    <3>1. CASE job.op \in PanelOps
          BY <3>1, Constants DEF LiveRows, Rows, PanelOps
    <3>2. CASE job.op \notin PanelOps
          BY <1>1, <1>2, <3>2, Geometry
    <3> QED BY <3>1, <3>2
  <2>2. Slots \subseteq Heads /\ Slots \subseteq Nat
        BY Constants DEF Slots, Heads
  <2>3. slot \in Slots
        BY <1>2, Constants DEF PlaceInv, Slots
  <2>4. job.op \in PanelOps => job.op = "PV" /\ LiveRows = Heads /\ slot = 0 /\ 0 \in Slots
        BY <1>1, <1>2 DEF PlaceInv, PanelOps, LiveRows, Heads, Slots
  <2> QED BY <2>1, <2>2, <2>3, <2>4
<1>7. state' = [c \in Cores |-> [state[c] EXCEPT ![slot] = [r \in Rows |->
           IF r \in LiveRows THEN AccumulatedRow(c, slot, r) ELSE state[c][slot][r]]]]
      BY DEF Values
<1>8. /\ state' \in [Cores -> [Heads -> [Rows -> RowRecords]]]
      /\ \A c \in Cores, s \in Heads, r \in Rows : s # slot => state'[c][s][r] = state[c][s][r]
      /\ \A c \in Cores, r \in LiveRows :
           /\ state'[c][slot][r].max = state[c][slot][r].max
           /\ state'[c][slot][r].sum = state[c][slot][r].sum
           /\ state'[c][slot][r].acc[wave] = state[c][slot][r].acc[wave] + Product(c, r, wave)
           /\ \A w \in Waves : w # wave => state'[c][slot][r].acc[w] = state[c][slot][r].acc[w]
  <2>1. state \in [Cores -> [Heads -> [Rows -> RowRecords]]] /\ slot \in Heads
        BY <1>2, <1>6 DEF TypeInv
  <2>2. ASSUME NEW c \in Cores, NEW r \in LiveRows
        PROVE  /\ AccumulatedRow(c, slot, r) \in RowRecords
               /\ AccumulatedRow(c, slot, r).max = state[c][slot][r].max
               /\ AccumulatedRow(c, slot, r).sum = state[c][slot][r].sum
               /\ AccumulatedRow(c, slot, r).acc[wave] = state[c][slot][r].acc[wave] + Product(c, r, wave)
               /\ \A w \in Waves : w # wave => AccumulatedRow(c, slot, r).acc[w] = state[c][slot][r].acc[w]
    <3>1. Product(c, r, wave) \in Int
          BY <1>1, ProductInt
    <3>2. state[c][slot][r] \in RowRecords
          BY <1>6, <2>1
    <3> QED BY <1>2, <3>1, <3>2, ProductRow
  <2> DEFINE new == [c \in Cores |-> [r \in LiveRows |-> AccumulatedRow(c, slot, r)]]
  <2>3. /\ new \in [Cores -> [LiveRows -> RowRecords]]
        /\ \A c \in Cores, r \in LiveRows : new[c][r] = AccumulatedRow(c, slot, r)
    <3>1. \A c \in Cores, r \in LiveRows : AccumulatedRow(c, slot, r) \in RowRecords
          BY <2>2
    <3> QED BY <3>1
  <2> HIDE DEF new
  <2>4. state' = [c \in Cores |-> [state[c] EXCEPT ![slot] = [r \in Rows |->
           IF r \in LiveRows THEN new[c][r] ELSE state[c][slot][r]]]]
        BY <1>7, <2>3
  <2>5. /\ state' \in [Cores -> [Heads -> [Rows -> RowRecords]]]
        /\ \A c \in Cores, s \in Heads, r \in Rows : s # slot => state'[c][s][r] = state[c][s][r]
        /\ \A c \in Cores, r \in LiveRows : state'[c][slot][r] = new[c][r]
        BY <1>6, <2>1, <2>3, <2>4, SlotStep
  <2> QED BY <2>2, <2>3, <2>5
<1>9. wave' \in Waves /\ pc' \in {"values", "next"} /\ (wave' # 0 => pc' = "values")
      BY <1>1, <1>2, Constants DEF Waves
<1>10. TypeInv'
       BY <1>1, <1>2, <1>8, <1>9 DEF TypeInv, Reading, Walking
<1>11. PlaceInv'
  <2>1. Launched'
        BY <1>1, <1>2 DEF Launched
  <2>2. /\ token # 0 => job.op = "LAYER" /\ token < job.tokens
        /\ slot # 0 => job.op = "BLOCK" /\ slot \in Heads
        /\ tile # 0 => job.op \notin PanelOps
        /\ job.op \notin PanelOps => TileBegin < ContextLen
        BY <1>1, <1>2 DEF PlaceInv, Walking
  <2> QED BY <1>1, <1>2, <1>4, <1>5, <1>6, <1>9, <2>1, <2>2 DEF PlaceInv, PanelOps, Walking, InSlot
<1>12. ScoredInv'
       BY <1>9 DEF ScoredInv
<1>13. ProbedInv'
  <2> SUFFICES ASSUME job.op \notin PanelOps, NEW c \in Cores, NEW s \in Slots, NEW r \in LiveRows, s = slot
               PROVE  /\ oldScale'[c][r] = Exp(TopOf(Line(c, s, r)', Before(r)') - TopOf(Line(c, s, r)', After(r)'))
                      /\ \A col \in Columns :
                           probs'[c][r][col] =
                             RawPerUnit' * (IF Visible(r, col)'
                                            THEN Exp(Line(c, s, r)'[TileBegin' + col] - TopOf(Line(c, s, r)', After(r)'))
                                            ELSE 0)
    <3>1. slot' = slot /\ Slots' = Slots /\ LiveRows' = LiveRows /\ job' = job
          BY <1>1, <1>5
    <3> QED BY <3>1 DEF ProbedInv
  <2>1. /\ oldScale[c][r] = Exp(TopOf(Line(c, s, r), Before(r)) - TopOf(Line(c, s, r), After(r)))
        /\ \A col \in Columns :
             probs[c][r][col] =
               RawPerUnit * (IF Visible(r, col)
                             THEN Exp(Line(c, s, r)[TileBegin + col] - TopOf(Line(c, s, r), After(r)))
                             ELSE 0)
        BY <1>1, <1>2 DEF ProbedInv
  <2> QED BY <1>1, <1>4, <1>5, <2>1
<1>14. RowsInv'
  <2> SUFFICES ASSUME job.op \notin PanelOps, NEW c \in Cores, NEW s \in Slots, NEW r \in LiveRows
               PROVE  RowInv(c, s, r)'
    <3>1. Slots' = Slots /\ LiveRows' = LiveRows /\ job' = job
          BY <1>1, <1>5
    <3> QED BY <3>1 DEF RowsInv
  <2>1. RowInv(c, s, r) /\ s \in Heads /\ s \in Nat /\ r \in Rows
        BY <1>2, <1>6 DEF RowsInv
  <2>2. CASE s # slot
    <3>1. state'[c][s][r] = state[c][s][r]
          BY <1>8, <2>1, <2>2
    <3>2. s < slot => RowIs(state[c][s][r], c, Line(c, s, r), After(r))'
          BY <1>1, <1>4, <1>5, <2>1, <3>1 DEF RowInv, RowIs, HeadIs, AccIs, Walking
    <3>3. s > slot => RowIs(state[c][s][r], c, Line(c, s, r), Before(r))'
          BY <1>1, <1>4, <1>5, <2>1, <3>1 DEF RowInv, RowIs, HeadIs, AccIs, Walking
    <3> QED BY <1>1, <1>9, <2>2, <3>2, <3>3 DEF RowInv, Walking
  <2>3. CASE s = slot
    <3>1. /\ HeadIs(state[c][s][r], Line(c, s, r), After(r))
          /\ \A w \in Waves : state[c][s][r].acc[w] =
               IF w < wave THEN MixOf(Line(c, s, r), ValueLine(c, w), After(r))
               ELSE Scaled(MixOf(Line(c, s, r), ValueLine(c, w), Before(r)), oldScale[c][r])
          BY <1>1, <2>1, <2>3 DEF RowInv
    <3>2. HeadIs(state[c][s][r], Line(c, s, r), After(r))'
      <4>1. state'[c][s][r].max = state[c][s][r].max /\ state'[c][s][r].sum = state[c][s][r].sum
            BY <1>8, <2>3
      <4> QED BY <1>4, <1>5, <3>1, <4>1 DEF HeadIs
    <3>3. ASSUME NEW w \in Waves
          PROVE  state'[c][s][r].acc[w] =
                   IF w <= wave THEN MixOf(Line(c, s, r), ValueLine(c, w), After(r))
                   ELSE Scaled(MixOf(Line(c, s, r), ValueLine(c, w), Before(r)), oldScale[c][r])
      <4>1. w \in Nat
            BY Constants DEF Waves
      <4>2. CASE w = wave
        <5>1. state[c][s][r].acc[w] = Scaled(MixOf(Line(c, s, r), ValueLine(c, w), Before(r)), oldScale[c][r])
              BY <1>2, <3>1, <4>2
        <5>2. state'[c][s][r].acc[w] = state[c][s][r].acc[w] + Product(c, r, w)
              BY <1>8, <2>3, <4>2
        <5>3. MixOf(Line(c, s, r), ValueLine(c, w), After(r)) =
                Scaled(MixOf(Line(c, s, r), ValueLine(c, w), Before(r)), oldScale[c][r]) + Product(c, r, w)
              BY <1>1, <2>3, ProductExact
        <5> QED BY <1>2, <4>1, <4>2, <5>1, <5>2, <5>3
      <4>3. CASE w # wave
        <5>1. state'[c][s][r].acc[w] = state[c][s][r].acc[w]
              BY <1>8, <2>3, <4>3
        <5>2. w < wave <=> w <= wave
              BY <1>2, <4>1, <4>3
        <5> QED BY <3>1, <5>1, <5>2
      <4> QED BY <4>2, <4>3
    <3>4. CASE pc' = "values"
      <4>1. wave' = wave + 1
            BY <1>1, <3>4
      <4>2. ASSUME NEW w \in Waves
            PROVE  state'[c][s][r].acc[w] =
                     IF w < wave' THEN MixOf(Line(c, s, r)', ValueLine(c, w)', After(r)')
                     ELSE Scaled(MixOf(Line(c, s, r)', ValueLine(c, w)', Before(r)'), oldScale'[c][r])
        <5>1. w < wave' <=> w <= wave
              BY <1>2, <4>1, Constants DEF Waves
        <5> QED BY <1>1, <1>4, <1>5, <3>3, <5>1
      <4> QED BY <1>1, <2>1, <2>3, <3>2, <3>4, <4>2 DEF RowInv, Walking
    <3>5. CASE pc' = "next"
      <4>1. \A w \in Waves : w <= wave
            BY <1>1, <1>2, <3>5, Constants DEF Waves
      <4>2. AccIs(state[c][s][r], c, Line(c, s, r), After(r))'
            BY <1>4, <1>5, <3>3, <4>1 DEF AccIs
      <4>3. RowIs(state[c][s][r], c, Line(c, s, r), After(r))'
            BY <3>2, <4>2 DEF RowIs
      <4> QED BY <1>1, <2>1, <2>3, <3>5, <4>3 DEF RowInv, Walking
    <3> QED BY <1>9, <3>4, <3>5
  <2> QED BY <2>2, <2>3
<1>15. PanelInv'
  <2>1. CASE job.op # "PV"
        BY <1>1, <1>9, <2>1 DEF PanelInv
  <2>2. CASE job.op = "PV"
    <3>1. /\ \A c \in Cores, col \in 0..(TileLen - 1), w \in Waves :
               panelV[c][col][w] = ValueOf(job.tile[col + 1], c, w)
          /\ \A c \in Cores, r \in Rows, col \in Columns : probs[c][r][col] = 1 + r + col
          /\ \A c \in Cores, r \in Heads, w \in Waves :
               state[c][0][r].acc[w] = IF w < wave THEN PanelSum(c, r, w, TileLen) ELSE 0
          BY <1>1, <1>2, <2>2 DEF PanelInv
    <3>2. LiveRows = Heads /\ slot = 0
          BY <1>6, <2>2 DEF PanelOps
    <3>3. ASSUME NEW c \in Cores, NEW r \in Heads, NEW w \in Waves
          PROVE  state'[c][0][r].acc[w] = IF w <= wave THEN PanelSum(c, r, w, TileLen) ELSE 0
      <4>1. w \in Nat
            BY Constants DEF Waves
      <4>2. CASE w = wave
        <5>1. state[c][0][r].acc[w] = 0
              BY <1>2, <3>1, <4>2
        <5>2. state'[c][0][r].acc[w] = state[c][0][r].acc[w] + Product(c, r, w)
              BY <1>8, <3>2, <4>2
        <5>3. Product(c, r, w) = PanelSum(c, r, w, TileLen) /\ Product(c, r, w) \in Int
              BY <1>1, <2>2, ProductPanel
        <5> QED BY <1>2, <4>1, <4>2, <5>1, <5>2, <5>3
      <4>3. CASE w # wave
        <5>1. state'[c][0][r].acc[w] = state[c][0][r].acc[w]
              BY <1>8, <3>2, <4>3
        <5>2. w < wave <=> w <= wave
              BY <1>2, <4>1, <4>3
        <5> QED BY <3>1, <5>1, <5>2
      <4> QED BY <4>2, <4>3
    <3>4. CASE pc' = "values"
      <4>1. wave' = wave + 1
            BY <1>1, <3>4
      <4>2. ASSUME NEW w \in Waves PROVE w < wave' <=> w <= wave
            BY <1>2, <4>1, Constants DEF Waves
      <4>3. \A c \in Cores, r \in Heads, w \in Waves :
              state'[c][0][r].acc[w] = IF w < wave' THEN PanelSum(c, r, w, TileLen)' ELSE 0
            BY <1>4, <1>5, <3>3, <4>2
      <4> QED BY <1>1, <1>4, <2>2, <3>1, <3>4, <4>3 DEF PanelInv
    <3>5. CASE pc' = "next"
      <4>1. \A w \in Waves : w <= wave
            BY <1>1, <1>2, <3>5, Constants DEF Waves
      <4>2. \A c \in Cores, r \in Heads, w \in Waves :
              state'[c][0][r].acc[w] = PanelSum(c, r, w, TileLen)'
            BY <1>4, <1>5, <3>3, <4>1
      <4> QED BY <1>1, <2>2, <3>5, <4>2 DEF PanelInv
    <3> QED BY <1>9, <3>4, <3>5
  <2> QED BY <2>1, <2>2
<1> QED BY <1>3, <1>10, <1>11, <1>12, <1>13, <1>14, <1>15 DEF IInv

(* The panel of PV is one tile. *)
LEMMA OnePanel ==
    ASSUME PlaceInv, job.op \in PanelOps, pc # "idle"
    PROVE  /\ tile = 0 /\ slot = 0 /\ TileBegin = 0 /\ ContextLen = Len(job.tile)
           /\ TileLen = Len(job.tile) /\ LastTile
           /\ Len(job.tile) \in 1..TileSize /\ job.tile \in [1..Len(job.tile) -> Entries]
<1>1. Launched /\ tile = 0 /\ slot = 0
      BY DEF PlaceInv, PanelOps
<1>2. /\ ContextLen = Len(job.tile) /\ Len(job.tile) \in 1..TileSize
      /\ job.tile \in [1..Len(job.tile) -> Entries]
      BY <1>1 DEF ContextLen, Launched, PanelOps
<1>3. TileBegin = 0
      BY <1>1, Constants DEF TileBegin
<1> QED BY <1>1, <1>2, <1>3, Constants DEF TileLen, LastTile

(* The slots are walked in order, to the last. *)
LEMMA LastSlot ==
    ASSUME PlaceInv, slot \in Nat
    PROVE  /\ Slots \subseteq Nat /\ Slots \subseteq Heads /\ slot \in Slots
           /\ slot + 1 \in Slots => job.op = "BLOCK"
           /\ slot + 1 \notin Slots => \A s \in Slots : s <= slot
<1>1. slot # 0 => job.op = "BLOCK" /\ slot \in Heads
      BY DEF PlaceInv
<1>2. CASE job.op = "BLOCK"
  <2>1. Slots = 0..(GqaGroup - 1)
        BY <1>2 DEF Slots, Heads
  <2> QED BY <1>1, <1>2, <2>1, Constants DEF Heads
<1>3. CASE job.op # "BLOCK"
  <2>1. Slots = {0} /\ slot = 0
        BY <1>1, <1>3 DEF Slots
  <2> QED BY <1>3, <2>1, Constants
<1> QED BY <1>2, <1>3

(* The next slot sees the same tile, the next tile all slots: what a row    *)
(* has seen after a tile is what it has seen before the next.              *)
LEMMA AdvanceStep == IInv /\ Advance => IInv'
<1> SUFFICES ASSUME IInv, Advance PROVE IInv'
    OBVIOUS
<1>1. /\ pc = "next"
      /\ UNCHANGED <<ops, caches, job, token>>
      /\ panelK' = panelK /\ panelV' = panelV /\ scores' = scores /\ state' = state
      /\ job' = job /\ wave' = wave /\ ops' = ops /\ token' = token
      /\ kRow' = kRow /\ kTr' = kTr /\ v' = v
      BY DEF Advance, caches, scratch
<1>2. /\ TypeInv /\ PlaceInv /\ RowsInv /\ PanelInv /\ Launched
      /\ slot \in Nat /\ tile \in Nat /\ wave = 0
      BY <1>1 DEF IInv, PlaceInv, TypeInv
<1>3. /\ Slots' = Slots /\ LiveRows' = LiveRows /\ ContextLen' = ContextLen
      /\ \A c, s, r : Line(c, s, r)' = Line(c, s, r)
      /\ \A c, w : ValueLine(c, w)' = ValueLine(c, w)
      /\ \A r : Reach(r)' = Reach(r)
      /\ \A c, r, w, n : PanelSum(c, r, w, n)' = PanelSum(c, r, w, n)
      BY <1>1, SteadyLaunch
<1>4. /\ Slots \subseteq Nat /\ Slots \subseteq Heads /\ slot \in Slots
      /\ slot + 1 \in Slots => job.op = "BLOCK"
      /\ slot + 1 \notin Slots => \A s \in Slots : s <= slot
      BY <1>2, LastSlot
<1>5. \/ /\ slot + 1 \in Slots /\ slot' = slot + 1 /\ tile' = tile /\ pc' = "scores"
      \/ /\ slot + 1 \notin Slots /\ ~ LastTile
         /\ slot' = 0 /\ tile' = tile + 1 /\ pc' = "load"
      \/ /\ slot + 1 \notin Slots /\ LastTile
         /\ slot' = 0 /\ tile' = 0 /\ pc' = "output"
      BY DEF Advance
<1>6. TypeInv'
  <2>1. slot' \in Nat /\ tile' \in Nat
        BY <1>2, <1>5
  <2>2. pc' \in {"scores", "load", "output"}
        BY <1>5
  <2> QED BY <1>1, <1>2, <2>1, <2>2 DEF TypeInv, Reading, Walking
<1>7. Launched'
      BY <1>1, <1>2 DEF Launched
<1>8. /\ token # 0 => job.op = "LAYER" /\ token < job.tokens
      /\ job.op \in PanelOps => job.op = "PV" /\ LastTile /\ tile = 0
      BY <1>1, <1>2, OnePanel DEF PlaceInv
<1>9. ScoredInv' /\ ProbedInv'
      BY <1>5 DEF ScoredInv, ProbedInv
<1>10. ASSUME job.op \notin PanelOps, NEW c \in Cores, NEW s \in Slots, NEW r \in LiveRows
       PROVE  /\ s <= slot => RowIs(state[c][s][r], c, Line(c, s, r), After(r))
              /\ s > slot => RowIs(state[c][s][r], c, Line(c, s, r), Before(r))
  <2>1. RowInv(c, s, r) /\ s \in Nat
        BY <1>2, <1>4, <1>10 DEF RowsInv
  <2> QED BY <1>1, <1>2, <2>1 DEF RowInv, Walking
<1>11. CASE slot + 1 \in Slots
  <2>1. slot' = slot + 1 /\ tile' = tile /\ pc' = "scores" /\ job.op = "BLOCK" /\ job.op \notin PanelOps
        BY <1>4, <1>5, <1>11 DEF PanelOps
  <2>2. CacheInv' /\ LoadedInv'
        BY <1>1, <2>1, Inside DEF InSlot
  <2>3. /\ TileBegin' = TileBegin /\ \A r : Before(r)' = Before(r) /\ After(r)' = After(r)
        BY <1>1, <2>1, SteadyTile
  <2>4. PlaceInv'
    <3>1. TileBegin < ContextLen /\ slot' \in Heads
          BY <1>1, <1>2, <1>4, <1>11, <2>1 DEF PlaceInv, Walking
    <3> QED BY <1>1, <1>2, <1>3, <1>7, <1>8, <2>1, <2>3, <3>1 DEF PlaceInv, Walking, InSlot
  <2>5. RowsInv'
    <3> SUFFICES ASSUME NEW c \in Cores, NEW s \in Slots, NEW r \in LiveRows PROVE RowInv(c, s, r)'
        BY <1>3 DEF RowsInv
    <3>1. /\ s <= slot => RowIs(state[c][s][r], c, Line(c, s, r), After(r))'
          /\ s > slot => RowIs(state[c][s][r], c, Line(c, s, r), Before(r))'
          BY <1>1, <1>3, <1>10, <2>1, <2>3 DEF RowIs, HeadIs, AccIs
    <3>2. s \in Nat /\ (s < slot' <=> s <= slot) /\ (s >= slot' <=> s > slot)
          BY <1>2, <1>4, <2>1
    <3> QED BY <1>2, <2>1, <3>1, <3>2 DEF RowInv, Walking
  <2>6. PanelInv'
        BY <1>1, <2>1 DEF PanelInv
  <2> QED BY <1>6, <1>9, <2>2, <2>4, <2>5, <2>6 DEF IInv
<1>12. CASE slot + 1 \notin Slots
  <2>1. CacheInv' /\ LoadedInv'
        BY <1>1, <1>5, <1>12, Inside DEF InSlot
  <2>2. \A s \in Slots : s <= slot
        BY <1>4, <1>12
  <2>3. CASE ~ LastTile
    <3>1. slot' = 0 /\ tile' = tile + 1 /\ pc' = "load" /\ job.op \notin PanelOps
          BY <1>5, <1>8, <1>12, <2>3
    <3>2. TileBegin' = TileBegin + TileSize /\ TileBegin' < ContextLen
      <4>1. (tile + 1) * TileSize = tile * TileSize + TileSize /\ tile * TileSize \in Nat
            BY <1>2, Constants
      <4>2. TileBegin' = TileBegin + TileSize
            BY <3>1, <4>1 DEF TileBegin
      <4>3. ContextLen \in 1..MaxSeq
            BY <1>1, <1>2, <3>1, Geometry
      <4> QED BY <2>3, <4>1, <4>2, <4>3, Constants DEF LastTile, TileBegin
    <3>3. PlaceInv'
          BY <1>1, <1>2, <1>3, <1>7, <1>8, <3>1, <3>2 DEF PlaceInv, Walking, InSlot
    <3>4. \A r : Before(r)' = After(r)
          BY <1>3, <3>2 DEF Before, After, Count
    <3>5. RowsInv'
      <4> SUFFICES ASSUME NEW c \in Cores, NEW s \in Slots, NEW r \in LiveRows PROVE RowInv(c, s, r)'
          BY <1>3 DEF RowsInv
      <4>1. RowIs(state[c][s][r], c, Line(c, s, r), Before(r))'
            BY <1>1, <1>3, <1>10, <2>2, <3>1, <3>4 DEF RowIs, HeadIs, AccIs
      <4>2. s \in Nat /\ ~ (s < slot')
            BY <1>4, <3>1
      <4> QED BY <3>1, <4>1, <4>2 DEF RowInv, Walking
    <3>6. PanelInv'
          BY <3>1 DEF PanelInv
    <3> QED BY <1>6, <1>9, <2>1, <3>3, <3>5, <3>6 DEF IInv
  <2>4. CASE LastTile
    <3>1. slot' = 0 /\ tile' = 0 /\ pc' = "output"
          BY <1>5, <1>12, <2>4
    <3>2. PlaceInv'
          BY <1>1, <1>2, <1>7, <1>8, <3>1 DEF PlaceInv, Walking, InSlot
    <3>3. RowsInv'
      <4> SUFFICES ASSUME job.op \notin PanelOps, NEW c \in Cores, NEW s \in Slots, NEW r \in LiveRows
                   PROVE  RowInv(c, s, r)'
          BY <1>1, <1>3 DEF RowsInv
      <4>1. After(r) = Reach(r)
            BY <1>1, <1>2, <2>4, Columned DEF Walking
      <4>2. RowIs(state[c][s][r], c, Line(c, s, r), Reach(r))'
            BY <1>1, <1>3, <1>10, <2>2, <4>1 DEF RowIs, HeadIs, AccIs
      <4> QED BY <3>1, <4>2 DEF RowInv, Walking
    <3>4. PanelInv'
      <4>1. CASE job.op = "PV"
        <5>1. tile' = tile
              BY <1>8, <3>1, <4>1 DEF PanelOps
        <5>2. TileLen' = TileLen
              BY <1>1, <5>1, SteadyTile
        <5> QED BY <1>1, <1>2, <1>3, <3>1, <4>1, <5>2 DEF PanelInv
      <4>2. CASE job.op # "PV"
        <5>1. job.op # "QK"
              BY <1>8, <4>2 DEF PanelOps
        <5> QED BY <1>1, <3>1, <4>2, <5>1 DEF PanelInv
      <4> QED BY <4>1, <4>2
    <3> QED BY <1>6, <1>9, <2>1, <3>2, <3>3, <3>4 DEF IInv
  <2> QED BY <2>3, <2>4
<1> QED BY <1>11, <1>12

(* After the rows are stored nothing of the launch is left. *)
LEMMA StoreOutputStep == IInv /\ StoreOutput => IInv'
<1> SUFFICES ASSUME IInv, StoreOutput PROVE IInv'
    OBVIOUS
<1>1. /\ pc = "output" /\ job.op \notin PanelOps
      /\ state' = NoState
      /\ ops' = ops /\ kRow' = kRow /\ kTr' = kTr /\ v' = v
      /\ tile' = tile /\ slot' = slot /\ wave' = wave
      BY DEF StoreOutput, AtRest, caches
<1>2. \/ /\ job.op = "LAYER" /\ token + 1 < job.tokens
         /\ token' = token + 1 /\ pc' = "store current" /\ job' = job
      \/ token' = 0 /\ pc' = "idle" /\ job' = NoJob
      BY DEF StoreOutput
<1>3. /\ TypeInv /\ PlaceInv /\ CacheInv /\ Launched /\ tile = 0 /\ slot = 0 /\ wave = 0
      /\ token \in Nat
      BY <1>1 DEF IInv, PlaceInv, TypeInv, Walking, InSlot
<1>4. TypeInv'
  <2>1. token' \in Nat
    <3>1. token' = token + 1 \/ token' = 0
          BY <1>2
    <3> QED BY <1>3, <3>1
  <2>2. pc' \in {"store current", "idle"}
        BY <1>2
  <2>3. state' \in [Cores -> [Heads -> [Rows -> RowRecords]]]
        BY <1>1, NoStateType
  <2> QED BY <1>1, <1>3, <2>1, <2>2, <2>3 DEF TypeInv
<1>5. PlaceInv'
  <2>1. CASE pc' = "idle"
        BY <1>1, <1>2, <1>3, <2>1 DEF PlaceInv, Walking
  <2>2. CASE pc' # "idle"
    <3>1. /\ job.op = "LAYER" /\ token + 1 < job.tokens
          /\ token' = token + 1 /\ pc' = "store current" /\ job' = job
          BY <1>2, <2>2
    <3>2. Launched'
          BY <1>1, <1>3, <3>1 DEF Launched
    <3> QED BY <1>1, <1>3, <3>1, <3>2 DEF PlaceInv, Walking, PanelOps
  <2> QED BY <2>1, <2>2
<1>6. pc' \notin Reading
      BY <1>2 DEF Reading, Walking
<1>7. CacheInv'
      BY <1>1, <1>3, <1>6 DEF CacheInv
<1>8. LoadedInv' /\ ScoredInv' /\ ProbedInv' /\ PanelInv'
      BY <1>2 DEF LoadedInv, ScoredInv, ProbedInv, PanelInv, InSlot
<1>9. RowsInv'
      BY <1>6 DEF RowsInv, RowInv, Reading, Walking
<1> QED BY <1>4, <1>5, <1>7, <1>8, <1>9 DEF IInv

(* The same for the rows of a panel. *)
LEMMA StorePanelRowsStep == IInv /\ StorePanelRows => IInv'
<1> SUFFICES ASSUME IInv, StorePanelRows PROVE IInv'
    OBVIOUS
<1>1. /\ pc = "output" /\ job.op \in PanelOps
      /\ state' = NoState /\ pc' = "idle" /\ job' = NoJob
      /\ ops' = ops /\ kRow' = kRow /\ kTr' = kTr /\ v' = v
      /\ token' = token /\ tile' = tile /\ slot' = slot /\ wave' = wave
      BY DEF StorePanelRows, AtRest, caches
<1>2. /\ TypeInv /\ PlaceInv /\ CacheInv /\ tile = 0 /\ slot = 0 /\ wave = 0 /\ token = 0
      BY <1>1 DEF IInv, PlaceInv, PanelOps
<1>3. TypeInv'
      BY <1>1, <1>2, NoStateType DEF TypeInv
<1>4. PlaceInv'
      BY <1>1, <1>2 DEF PlaceInv, Walking
<1>5. pc' \notin Reading
      BY <1>1 DEF Reading, Walking
<1>6. CacheInv'
      BY <1>1, <1>2, <1>5 DEF CacheInv
<1>7. LoadedInv' /\ ScoredInv' /\ ProbedInv' /\ PanelInv'
      BY <1>1 DEF LoadedInv, ScoredInv, ProbedInv, PanelInv, InSlot
<1>8. RowsInv'
      BY <1>5 DEF RowsInv, RowInv, Reading, Walking
<1> QED BY <1>3, <1>4, <1>6, <1>7, <1>8 DEF IInv

-----------------------------------------------------------------------------
(* The softmax of a whole row, as the host's golden computes it.           *)

(* Its sums over the scores of the row. *)
LEMMA GoldenTotal ==
    ASSUME NEW reach
    PROVE  TotalWeight(reach) =
             SumOver([p \in DOMAIN reach |-> Exp(reach[p] - TopScore(reach))], DOMAIN reach)
<1> DEFINE S == DOMAIN reach
           top == TopScore(reach)
           H == [p \in S |-> Exp(reach[p] - top)]
<1>1. TotalWeight(reach) = MapThenSumSet(LAMBDA p : Exp(reach[p] - top), S)
      BY DEF TotalWeight, MapThenSumSet, MapThenFoldSet
<1> HIDE DEF S, top
<1>2. MapThenSumSet(LAMBDA p : Exp(reach[p] - top), S) = MapThenSumSet(LAMBDA p : H[p], S)
      BY DEF MapThenSumSet, MapThenFoldSet
<1>3. MapThenSumSet(LAMBDA p : H[p], S) = SumOver(H, S)
      BY SumSets
<1>4. TotalWeight(reach) = SumOver(H, S)
      BY <1>1, <1>2, <1>3
<1> QED BY <1>4 DEF S, top

LEMMA GoldenWeighted ==
    ASSUME NEW reach, NEW values, NEW w
    PROVE  WaveSum(reach, values, w) =
             SumOver([p \in DOMAIN reach |-> Exp(reach[p] - TopScore(reach)) * values[p][w]], DOMAIN reach)
<1> DEFINE S == DOMAIN reach
           top == TopScore(reach)
           H == [p \in S |-> Exp(reach[p] - top) * values[p][w]]
<1>1. WaveSum(reach, values, w) = MapThenSumSet(LAMBDA p : Exp(reach[p] - top) * values[p][w], S)
      BY DEF WaveSum, MapThenSumSet, MapThenFoldSet
<1> HIDE DEF S, top
<1>2. MapThenSumSet(LAMBDA p : Exp(reach[p] - top) * values[p][w], S) = MapThenSumSet(LAMBDA p : H[p], S)
      BY DEF MapThenSumSet, MapThenFoldSet
<1>3. MapThenSumSet(LAMBDA p : H[p], S) = SumOver(H, S)
      BY SumSets
<1>4. WaveSum(reach, values, w) = SumOver(H, S)
      BY <1>1, <1>2, <1>3
<1> QED BY <1>4 DEF S, top

(* They are the weight and the mix of the row's scores. *)
LEMMA GoldenHead ==
    ASSUME NEW reach, NEW f, NEW n \in Nat, DOMAIN reach = Upto(n), \A p \in Upto(n) : reach[p] = f[p]
    PROVE  TopScore(reach) = TopOf(f, n) /\ TotalWeight(reach) = WeightOf(f, n)
<1>1. TopScore(reach) = TopOf(f, n)
  <2>1. {Lowest} \cup {reach[p] : p \in DOMAIN reach} = Tops(f, n)
        BY DEF Tops
  <2> QED BY <2>1 DEF TopScore, TopOf
<1> DEFINE top == TopOf(f, n)
<1> HIDE DEF top
<1>2. [p \in DOMAIN reach |-> Exp(reach[p] - top)] = [p \in Upto(n) |-> Exp(f[p] - top)]
      OBVIOUS
<1>3. TotalWeight(reach) = SumOver([p \in DOMAIN reach |-> Exp(reach[p] - top)], DOMAIN reach)
      BY <1>1, GoldenTotal DEF top
<1> QED BY <1>1, <1>2, <1>3 DEF WeightOf, top

(* The accumulator of a wave. *)
LEMMA GoldenWave ==
    ASSUME NEW reach, NEW values, NEW f, NEW g, NEW n \in Nat, NEW w, DOMAIN reach = Upto(n),
           \A p \in Upto(n) : reach[p] = f[p],
           \A p \in Upto(n) : values[p][w] = g[p]
    PROVE  WaveSum(reach, values, w) = MixOf(f, g, n)
<1>1. TopScore(reach) = TopOf(f, n)
      BY GoldenHead
<1> DEFINE top == TopOf(f, n)
<1> HIDE DEF top
<1>2. [p \in DOMAIN reach |-> Exp(reach[p] - top) * values[p][w]] = [p \in Upto(n) |-> Exp(f[p] - top) * g[p]]
      OBVIOUS
<1>3. WaveSum(reach, values, w) = SumOver([p \in DOMAIN reach |-> Exp(reach[p] - top) * values[p][w]], DOMAIN reach)
      BY <1>1, GoldenWeighted DEF top
<1> QED BY <1>2, <1>3 DEF MixOf, MixTo, top

-----------------------------------------------------------------------------
(* The theorem of the online state.                                        *)

LEMMA Stutter == IInv /\ UNCHANGED vars => IInv'
<1> SUFFICES ASSUME IInv, UNCHANGED vars PROVE IInv'
    OBVIOUS
<1>1. /\ UNCHANGED <<ops, caches, job, token>> /\ UNCHANGED <<ops, caches, job, token, tile>>
      /\ ops' = ops /\ kRow' = kRow /\ kTr' = kTr /\ v' = v /\ job' = job /\ pc' = pc /\ token' = token
      /\ tile' = tile /\ slot' = slot /\ wave' = wave /\ panelK' = panelK /\ panelV' = panelV
      /\ scores' = scores /\ probs' = probs /\ oldScale' = oldScale /\ state' = state
      BY DEF vars, caches, scratch
<1>2. /\ TypeInv /\ PlaceInv /\ CacheInv /\ LoadedInv /\ ScoredInv /\ ProbedInv /\ RowsInv /\ PanelInv
      BY DEF IInv
<1>3. /\ TileBegin' = TileBegin /\ TileLen' = TileLen
      /\ CurrentInTile' = CurrentInTile /\ CurrentColumn' = CurrentColumn
      /\ \A r : Before(r)' = Before(r) /\ After(r)' = After(r)
      /\ \A r, col : Visible(r, col)' = Visible(r, col)
      BY <1>1, SteadyTile
<1>4. /\ Slots' = Slots /\ LiveRows' = LiveRows /\ ContextLen' = ContextLen /\ Position' = Position
      /\ RawPerUnit' = RawPerUnit
      /\ \A p : CachedEntry(p)' = CachedEntry(p)
      /\ \A c, s, r : Line(c, s, r)' = Line(c, s, r)
      /\ \A c, w : ValueLine(c, w)' = ValueLine(c, w)
      /\ \A r : Reach(r)' = Reach(r)
      /\ \A c, r, w, n : PanelSum(c, r, w, n)' = PanelSum(c, r, w, n)
      BY <1>1, SteadyLaunch
<1>5. TypeInv'
      BY <1>1, <1>2 DEF TypeInv
<1>6. PlaceInv'
  <2>1. Launched' = Launched
        BY <1>1 DEF Launched
  <2> QED BY <1>1, <1>2, <1>3, <1>4, <2>1 DEF PlaceInv
<1>7. CacheInv'
      BY <1>1, <1>2, <1>4 DEF CacheInv
<1>8. LoadedInv'
  <2>1. /\ \A c, col : KeyAt(c, col)' = KeyAt(c, col)
        /\ \A c, col, w : ValueAt(c, col, w)' = ValueAt(c, col, w)
        BY <1>1, <1>3 DEF KeyAt, ValueAt, Bypassed
  <2> QED BY <1>1, <1>2, <1>3, <1>4, <2>1 DEF LoadedInv
<1>9. ScoredInv'
      BY <1>1, <1>2, <1>3, <1>4 DEF ScoredInv
<1>10. ProbedInv'
  <2> SUFFICES ASSUME job.op \notin PanelOps, pc \in {"rescale", "values"},
                      NEW c \in Cores, NEW s \in Slots, NEW r \in LiveRows, s = slot
               PROVE  /\ oldScale'[c][r] = Exp(TopOf(Line(c, s, r)', Before(r)') - TopOf(Line(c, s, r)', After(r)'))
                      /\ \A col \in Columns :
                           probs'[c][r][col] =
                             RawPerUnit' * (IF Visible(r, col)'
                                            THEN Exp(Line(c, s, r)'[TileBegin' + col] - TopOf(Line(c, s, r)', After(r)'))
                                            ELSE 0)
      BY <1>1, <1>4 DEF ProbedInv
  <2>1. /\ oldScale[c][r] = Exp(TopOf(Line(c, s, r), Before(r)) - TopOf(Line(c, s, r), After(r)))
        /\ \A col \in Columns :
             probs[c][r][col] =
               RawPerUnit * (IF Visible(r, col)
                             THEN Exp(Line(c, s, r)[TileBegin + col] - TopOf(Line(c, s, r), After(r)))
                             ELSE 0)
        BY <1>2 DEF ProbedInv
  <2> QED BY <1>1, <1>3, <1>4, <2>1
<1>11. RowsInv'
  <2> SUFFICES ASSUME job.op \notin PanelOps, NEW c \in Cores, NEW s \in Slots, NEW r \in LiveRows
               PROVE  RowInv(c, s, r)'
      BY <1>1, <1>4 DEF RowsInv
  <2>1. RowInv(c, s, r)
        BY <1>2 DEF RowsInv
  <2> QED BY <1>1, <1>3, <1>4, <2>1 DEF RowInv, RowIs, HeadIs, AccIs
<1>12. PanelInv'
       BY <1>1, <1>2, <1>3, <1>4 DEF PanelInv
<1> QED BY <1>5, <1>6, <1>7, <1>8, <1>9, <1>10, <1>11, <1>12 DEF IInv

(* Every step keeps the invariant. *)
LEMMA Inductive == IInv /\ [Next]_vars => IInv'
BY StartStep, StoreCurrentStep, LoadTileStep, LoadPanelStep, ScoresStep, SoftmaxStep, RescaleStep,
   ValuesStep, AdvanceStep, StoreOutputStep, StorePanelRowsStep, Stutter DEF Next

(* It holds in every behaviour. *)
THEOREM Invariance == Spec => []IInv
<1>1. Init => IInv
      BY InitInv
<1>2. IInv /\ [Next]_vars => IInv'
      BY Inductive
<1> QED BY <1>1, <1>2, PTL DEF Spec

(* What a row has seen between two slots: the first positions of its reach. *)
LEMMA SeenIs ==
    ASSUME IInv, pc \in {"load", "scores", "next"}, job.op \notin PanelOps,
           NEW s \in Slots, NEW r \in LiveRows
    PROVE  LET n == IF s < slot \/ (pc = "next" /\ s = slot) THEN After(r) ELSE Before(r)
           IN  n \in 0..MaxSeq /\ Seen(s, r) = Upto(n)
<1>1. TypeInv /\ PlaceInv /\ pc # "idle" /\ pc \in Walking /\ tile \in Nat
      BY DEF IInv, TypeInv, Walking
<1>2. /\ TileBegin \in Nat /\ ContextLen \in 1..MaxSeq /\ Reach(r) \in 1..ContextLen
      /\ job.position \in Nat /\ r \in Nat
      BY <1>1, Geometry
<1> DEFINE m == TilesSeen(s) * TileSize
           n == IF s < slot \/ (pc = "next" /\ s = slot) THEN After(r) ELSE Before(r)
<1>3. m \in Nat /\ n = Count(m, r)
  <2>1. CASE s < slot \/ (pc = "next" /\ s = slot)
    <3>1. TilesSeen(s) = tile + 1
          BY <2>1 DEF TilesSeen
    <3>2. (tile + 1) * TileSize = tile * TileSize + TileSize
          BY <1>1, Constants
    <3>3. m = TileBegin + TileSize
          BY <3>1, <3>2 DEF TileBegin
    <3> QED BY <1>2, <2>1, <3>3, Constants DEF After
  <2>2. CASE ~ (s < slot \/ (pc = "next" /\ s = slot))
    <3>1. m = TileBegin
          BY <2>2 DEF TilesSeen, TileBegin
    <3> QED BY <1>2, <2>2, <3>1 DEF Before
  <2> QED BY <2>1, <2>2
<1> HIDE DEF m, n
<1>4. Seen(s, r) = {p \in 0..(ContextLen - 1) : p < m /\ (job.op = "BLOCK" => p <= job.position + r)}
      BY DEF Seen, m
<1>5. ASSUME NEW p \in 0..(ContextLen - 1)
      PROVE  (job.op = "BLOCK" => p <= job.position + r) <=> p < Reach(r)
  <2>1. CASE job.op = "BLOCK"
    <3>1. Reach(r) = job.position + r + 1
          BY <2>1 DEF Reach
    <3> QED BY <1>2, <2>1, <3>1
  <2>2. CASE job.op # "BLOCK"
    <3>1. Reach(r) = ContextLen
          BY <2>2 DEF Reach
    <3> QED BY <1>2, <2>2, <3>1
  <2> QED BY <2>1, <2>2
<1>6. Seen(s, r) = {p \in 0..(ContextLen - 1) : p < m /\ p < Reach(r)}
      BY <1>4, <1>5
<1>7. n = IF m < Reach(r) THEN m ELSE Reach(r)
      BY <1>3 DEF Count
<1> DEFINE z == Reach(r)
           k == ContextLen
<1>8. z \in 1..k /\ k \in 1..MaxSeq /\ m \in Nat /\ n = (IF m < z THEN m ELSE z)
      /\ Seen(s, r) = {p \in 0..(k - 1) : p < m /\ p < z}
      BY <1>2, <1>3, <1>6, <1>7
<1> HIDE DEF z, k
<1>9. {p \in 0..(k - 1) : p < m /\ p < z} = 0..(n - 1)
      BY <1>8, Constants
<1>10. n \in 0..MaxSeq /\ Seen(s, r) = Upto(n)
       BY <1>8, <1>9, Constants DEF Upto
<1> QED BY <1>10 DEF n

(* The golden of the first positions of the cache is what a row that has   *)
(* seen them holds.                                                        *)
LEMMA GoldenContext ==
    ASSUME TypeInv, PlaceInv, job.op \notin PanelOps, pc \in Reading,
           NEW c \in Cores, NEW s \in Nat, NEW r \in Nat, NEW n \in 0..MaxSeq,
           NEW context, context = [p \in Upto(n) |-> CachedEntry(p)]
    PROVE  LET reach == ScoresOf(context, c, QueryOf(c, s, r))
           IN  /\ TopScore(reach) = TopOf(Line(c, s, r), n)
               /\ TotalWeight(reach) = WeightOf(Line(c, s, r), n)
               /\ WeightedSum(reach, ValuesOf(context, c))
                    = [w \in Waves |-> MixOf(Line(c, s, r), ValueLine(c, w), n)]
<1> DEFINE q == QueryOf(c, s, r)
           f == Line(c, s, r)
           reach == ScoresOf(context, c, q)
           values == ValuesOf(context, c)
<1>1. n \in Nat /\ Upto(n) \subseteq Positions /\ DOMAIN context = Upto(n)
      BY Lines, Constants
<1>2. DOMAIN reach = Upto(n) /\ \A p \in Upto(n) : reach[p] = f[p]
  <2>1. ASSUME NEW p \in Upto(n) PROVE f[p] = Score(q, KeyOf(context[p], c))
    <3>1. context[p] = CachedEntry(p) /\ p \in Positions
          BY <1>1
    <3> QED BY <3>1 DEF Line
  <2>2. reach = [p \in Upto(n) |-> Score(q, KeyOf(context[p], c))]
        BY <1>1 DEF ScoresOf
  <2> HIDE DEF reach, f, q
  <2> QED BY <2>1, <2>2
<1>3. ASSUME NEW w \in Waves PROVE \A p \in Upto(n) : values[p][w] = ValueLine(c, w)[p]
  <2>1. ASSUME NEW p \in Upto(n) PROVE values[p][w] = ValueLine(c, w)[p]
    <3>1. context[p] = CachedEntry(p) /\ p \in Positions
          BY <1>1
    <3>2. values[p][w] = ValueOf(context[p], c, w)
          BY <1>1 DEF ValuesOf
    <3> QED BY <3>1, <3>2 DEF ValueLine
  <2> HIDE DEF values
  <2> QED BY <2>1
<1> HIDE DEF reach, values, f, q
<1>4. TopScore(reach) = TopOf(f, n) /\ TotalWeight(reach) = WeightOf(f, n)
      BY <1>1, <1>2, GoldenHead
<1>5. ASSUME NEW w \in Waves PROVE WaveSum(reach, values, w) = MixOf(f, ValueLine(c, w), n)
  <2> DEFINE g == ValueLine(c, w)
  <2>1. \A p \in Upto(n) : values[p][w] = g[p]
        BY <1>3
  <2> HIDE DEF g
  <2>2. WaveSum(reach, values, w) = MixOf(f, g, n)
        BY <1>1, <1>2, <2>1, GoldenWave
  <2> QED BY <2>2 DEF g
<1>6. WeightedSum(reach, values) = [w \in Waves |-> MixOf(f, ValueLine(c, w), n)]
      BY <1>5 DEF WeightedSum
<1> QED BY <1>4, <1>6 DEF reach, values, f, q

(* A row whose fields are those of the first n positions. *)
LEMMA RowRecord ==
    ASSUME NEW x \in RowRecords, NEW c, NEW f, NEW n, RowIs(x, c, f, n)
    PROVE  x = [max |-> TopOf(f, n), sum |-> WeightOf(f, n),
                acc |-> [w \in Waves |-> MixOf(f, ValueLine(c, w), n)]]
<1>1. x.max = TopOf(f, n) /\ x.sum = WeightOf(f, n)
      BY DEF RowIs, HeadIs
<1>2. x.acc = [w \in Waves |-> MixOf(f, ValueLine(c, w), n)]
  <2>1. x.acc \in [Waves -> Int]
        BY DEF RowRecords
  <2>2. \A w \in Waves : x.acc[w] = MixOf(f, ValueLine(c, w), n)
        BY DEF RowIs, AccIs
  <2> QED BY <2>1, <2>2
<1>3. x = [max |-> x.max, sum |-> x.sum, acc |-> x.acc]
      BY DEF RowRecords
<1> QED BY <1>1, <1>2, <1>3

(* The invariant makes the running state that of one whole softmax. *)
LEMMA Exact == IInv => OnlineStateExact
<1> SUFFICES ASSUME IInv, pc \in {"load", "scores", "next"}, job.op \notin PanelOps,
                    NEW c \in Cores, NEW s \in Slots, NEW r \in LiveRows
             PROVE  LET context == [p \in Seen(s, r) |-> CachedEntry(p)]
                        reach == ScoresOf(context, c, QueryOf(c, s, r))
                    IN state[c][s][r] =
                         [max |-> TopScore(reach), sum |-> TotalWeight(reach),
                          acc |-> WeightedSum(reach, ValuesOf(context, c))]
    BY DEF OnlineStateExact
<1> DEFINE n == IF s < slot \/ (pc = "next" /\ s = slot) THEN After(r) ELSE Before(r)
           context == [p \in Seen(s, r) |-> CachedEntry(p)]
           reach == ScoresOf(context, c, QueryOf(c, s, r))
           x == state[c][s][r]
           f == Line(c, s, r)
<1>1. /\ TypeInv /\ PlaceInv /\ RowsInv /\ pc # "idle" /\ pc \in Walking /\ pc \in Reading
      BY DEF IInv, Walking, Reading
<1>2. s \in Heads /\ s \in Nat /\ r \in Rows /\ r \in Nat /\ slot \in Nat
  <2>1. LiveRows \subseteq Rows /\ LiveRows \subseteq Nat
        BY <1>1, Geometry
  <2>2. Slots \subseteq Heads /\ Slots \subseteq Nat
        BY Constants DEF Slots, Heads
  <2> QED BY <1>1, <2>1, <2>2 DEF TypeInv
<1>3. n \in 0..MaxSeq /\ Seen(s, r) = Upto(n)
      BY SeenIs
<1>4. x \in RowRecords
  <2>1. state \in [Cores -> [Heads -> [Rows -> RowRecords]]]
        BY <1>1 DEF TypeInv
  <2> QED BY <1>2, <2>1
<1>5. RowIs(x, c, f, n)
  <2>1. RowInv(c, s, r)
        BY <1>1 DEF RowsInv
  <2>2. CASE s < slot \/ (pc = "next" /\ s = slot)
        BY <1>1, <2>1, <2>2 DEF RowInv
  <2>3. CASE ~ (s < slot \/ (pc = "next" /\ s = slot))
    <3>1. s > slot \/ (pc \in {"load", "scores", "softmax"} /\ s = slot)
          BY <1>2, <2>3
    <3>2. n = Before(r)
          BY <2>3
    <3> HIDE DEF n, x, f
    <3>3. RowIs(x, c, f, Before(r))
          BY <1>1, <2>1, <3>1 DEF RowInv, x, f
    <3> QED BY <3>2, <3>3
  <2> QED BY <2>2, <2>3
<1> HIDE DEF n, x
<1>6. context = [p \in Upto(n) |-> CachedEntry(p)]
      BY <1>3
<1> HIDE DEF context
<1>7. /\ TopScore(reach) = TopOf(f, n) /\ TotalWeight(reach) = WeightOf(f, n)
      /\ WeightedSum(reach, ValuesOf(context, c)) = [w \in Waves |-> MixOf(f, ValueLine(c, w), n)]
      BY <1>1, <1>2, <1>3, <1>6, GoldenContext
<1> HIDE DEF reach, f
<1>8. x = [max |-> TopOf(f, n), sum |-> WeightOf(f, n),
           acc |-> [w \in Waves |-> MixOf(f, ValueLine(c, w), n)]]
      BY <1>4, <1>5, RowRecord
<1>9. x = [max |-> TopScore(reach), sum |-> TotalWeight(reach),
           acc |-> WeightedSum(reach, ValuesOf(context, c))]
      BY <1>7, <1>8
<1> QED BY <1>9 DEF x, reach, context

(* Whatever tiles a row has been through, its maximum, sum and accumulator *)
(* are those of one softmax over all the positions it has seen.            *)
THEOREM OnlineState == Spec => []OnlineStateExact
<1>1. IInv => OnlineStateExact
      BY Exact
<1> QED BY <1>1, Invariance, PTL

-----------------------------------------------------------------------------
(* The operators implement causal attention over the cache.                *)

(* The numbers of the abstract module are those of the detailed one. *)
LEMMA SameSets ==
    /\ Attention!Cores = Cores /\ Attention!Heads = Heads /\ Attention!Waves = Waves
    /\ Attention!Positions = Positions
BY DEF Attention!Cores, Cores, Attention!Heads, Heads, Attention!Waves, Waves,
       Attention!Positions, Positions

(* So are its keys, values, queries and scores, *)
LEMMA SameKeys ==
    /\ \A e, c : Attention!KeyOf(e, c) = KeyOf(e, c)
    /\ \A e, c, w : Attention!ValueOf(e, c, w) = ValueOf(e, c, w)
    /\ \A c, h, t : Attention!Query(c, h, t) = Query(c, h, t)
    /\ \A q, k : Attention!Score(q, k) = Score(q, k)
    /\ Attention!Lowest = Lowest
BY DEF Attention!KeyOf, KeyOf, Attention!ValueOf, ValueOf, Attention!Query, Query,
       Attention!Score, Score, Attention!Lowest, Lowest

(* the exponential, *)
LEMMA SameExp == \A x : Attention!Exp(x) = Exp(x)
BY DEF Attention!Exp, Exp, Attention!Power, Power, Attention!ExpFloor, ExpFloor, Attention!Unit, Unit

(* the quotient of a row, *)
LEMMA SameRow ==
    /\ \A x, y : Attention!Row(x, y) = Row(x, y)
    /\ \A x : Attention!Whole(x) = Whole(x)
BY DEF Attention!Row, Row, Attention!Whole, Whole, Attention!SmallestSum, SmallestSum

(* the maximum, *)
LEMMA SameMax == \A S : Attention!Max(S) = Max(S)
BY DEF Attention!Max, Max

(* the scores and values of a context, *)
LEMMA SameScores ==
    /\ \A context, c, q : Attention!ScoresOf(context, c, q) = ScoresOf(context, c, q)
    /\ \A context, c : Attention!ValuesOf(context, c) = ValuesOf(context, c)
<1>1. ASSUME NEW context, NEW c, NEW q PROVE Attention!ScoresOf(context, c, q) = ScoresOf(context, c, q)
      BY SameKeys DEF Attention!ScoresOf, ScoresOf
<1>2. ASSUME NEW context, NEW c PROVE Attention!ValuesOf(context, c) = ValuesOf(context, c)
      BY SameKeys, SameSets DEF Attention!ValuesOf, ValuesOf
<1> QED BY <1>1, <1>2

(* and the three sums of the golden, *)
LEMMA SameTop == \A reach : Attention!TopScore(reach) = TopScore(reach)
BY SameMax, SameKeys DEF Attention!TopScore, TopScore

LEMMA SameTotal == \A reach : Attention!TotalWeight(reach) = TotalWeight(reach)
<1> SUFFICES ASSUME NEW reach PROVE Attention!TotalWeight(reach) = TotalWeight(reach)
    OBVIOUS
<1>1. Attention!TopScore(reach) = TopScore(reach)
      BY SameTop
<1> QED BY <1>1, SameExp DEF Attention!TotalWeight, TotalWeight, Attention!MapThenSumSet, MapThenSumSet,
        Attention!MapThenFoldSet, MapThenFoldSet

LEMMA SameWave == \A reach, values, w : Attention!WaveSum(reach, values, w) = WaveSum(reach, values, w)
<1> SUFFICES ASSUME NEW reach, NEW values, NEW w
             PROVE  Attention!WaveSum(reach, values, w) = WaveSum(reach, values, w)
    OBVIOUS
<1>1. Attention!TopScore(reach) = TopScore(reach)
      BY SameTop
<1> QED BY <1>1, SameExp DEF Attention!WaveSum, WaveSum, Attention!MapThenSumSet, MapThenSumSet,
        Attention!MapThenFoldSet, MapThenFoldSet

(* hence the whole row. *)
LEMMA SameWholeRow ==
    \A context, c, q : Attention!WholeRow(context, c, q) = WholeRow(context, c, q)
<1> SUFFICES ASSUME NEW context, NEW c, NEW q
             PROVE  Attention!WholeRow(context, c, q) = WholeRow(context, c, q)
    OBVIOUS
<1> DEFINE reach == ScoresOf(context, c, q)
           values == ValuesOf(context, c)
<1>1. Attention!ScoresOf(context, c, q) = reach /\ Attention!ValuesOf(context, c) = values
      BY SameScores
<1> HIDE DEF reach, values
<1>2. Attention!WeightedSum(reach, values) = WeightedSum(reach, values)
      BY SameSets, SameWave DEF Attention!WeightedSum, WeightedSum
<1>3. Attention!TotalWeight(reach) = TotalWeight(reach)
      BY SameTotal
<1>4. Attention!WholeRow(context, c, q) = Attention!Row(Attention!WeightedSum(reach, values), Attention!TotalWeight(reach))
      BY <1>1 DEF Attention!WholeRow
<1>5. WholeRow(context, c, q) = Row(WeightedSum(reach, values), TotalWeight(reach))
      BY DEF WholeRow, reach, values
<1> QED BY <1>2, <1>3, <1>4, <1>5, SameRow

(* An entry is its key and its value. *)
LEMMA EntryIs ==
    ASSUME NEW e \in Entries
    PROVE  [k |-> e.k, v |-> e.v] = e
BY Constants

(* What the abstract cache shows of a position, for the operators of a run. *)
LEMMA ViewIs ==
    ASSUME IInv, NEW p \in Positions
    PROVE  /\ CacheView[p] = [k |-> IF "LAYER" \in ops THEN kTr[p].k ELSE kRow[p].k, v |-> v[p].v]
           /\ (pc # "idle" /\ job.op \notin PanelOps) => CacheView[p] = CachedEntry(p)
<1>1. CacheView[p] = [k |-> IF "LAYER" \in ops THEN kTr[p].k ELSE kRow[p].k, v |-> v[p].v]
      BY DEF CacheView
<1>2. ASSUME pc # "idle", job.op \notin PanelOps PROVE CacheView[p] = CachedEntry(p)
  <2>1. /\ job.op \in ops /\ job.op \in {"FLASH", "SMOKE", "LAYER", "BLOCK"}
        /\ ops \subseteq LayerOps => kTr = kRow
        /\ ops \subseteq {"FLASH", "SMOKE", "QK", "PV"} \/ ops \subseteq LayerOps
    <3>1. Launched /\ CacheInv /\ ops \in Sessions
          BY <1>2 DEF IInv, PlaceInv, TypeInv
    <3> QED BY <1>2, <3>1, SessionAssumption DEF Launched, CacheInv, LayerOps, PanelOps, AllOps
  <2>2. KeyImage[p].k = IF "LAYER" \in ops THEN kTr[p].k ELSE kRow[p].k
    <3>1. CASE job.op \in {"FLASH", "SMOKE"}
      <4>1. "LAYER" \notin ops
            BY <2>1, <3>1 DEF LayerOps
      <4> QED BY <3>1, <4>1 DEF KeyImage
    <3>2. CASE job.op \in {"LAYER", "BLOCK"}
      <4>1. kTr = kRow
            BY <2>1, <3>2 DEF LayerOps
      <4> QED BY <3>2, <4>1 DEF KeyImage
    <3> QED BY <2>1, <3>1, <3>2
  <2> QED BY <1>1, <2>2 DEF CachedEntry
<1> QED BY <1>1, <1>2

(* It changes only with the images. *)
LEMMA ViewSteady ==
    ASSUME UNCHANGED <<ops, caches>>
    PROVE  CacheView' = CacheView
<1>1. ops' = ops /\ kRow' = kRow /\ kTr' = kTr /\ v' = v
      BY DEF caches
<1> QED BY <1>1 DEF CacheView

(* A run begins with a cache of entries and no row stored. *)
LEMMA RefineInit == Init => Attention!Init
<1> SUFFICES ASSUME Init PROVE Attention!Init
    OBVIOUS
<1>1. kRow \in [Positions -> Entries] /\ kTr = kRow /\ v = kRow /\ output = NoRows
      BY DEF Init
<1>2. CacheView \in [Positions -> Entries]
  <2>1. ASSUME NEW p \in Positions
        PROVE  [k |-> IF "LAYER" \in ops THEN kTr[p].k ELSE kRow[p].k, v |-> v[p].v] \in Entries
    <3>1. kRow[p] \in Entries
          BY <1>1
    <3>2. [k |-> kRow[p].k, v |-> kRow[p].v] = kRow[p]
          BY <3>1, EntryIs
    <3> QED BY <1>1, <3>1, <3>2
  <2> QED BY <2>1 DEF CacheView
<1> QED BY <1>1, <1>2, SameSets DEF Attention!Init

(* A launch clears the rows. *)
LEMMA RefineStart == Start => Attention!Clear
<1> SUFFICES ASSUME Start PROVE Attention!Clear
    OBVIOUS
<1>1. output' = NoRows /\ UNCHANGED <<ops, caches>>
      BY DEF Start
<1>2. CacheView' = CacheView
      BY <1>1, ViewSteady
<1> QED BY <1>1, <1>2 DEF Attention!Clear

(* Storing the current row appends an entry: the image the operators of    *)
(* the run read is among those it writes.                                  *)
LEMMA RefineStore ==
    ASSUME IInv, StoreCurrent
    PROVE  \E position \in Positions, entry \in Entries : Attention!Append(position, entry)
<1> DEFINE e == job.tile[token + 1]
<1>1. /\ pc = "store current" /\ output' = NoRows /\ ops' = ops
      /\ kRow' = [kRow EXCEPT ![Position] = e] /\ v' = [v EXCEPT ![Position] = e]
      /\ kTr' = IF job.op = "LAYER" THEN [kTr EXCEPT ![Position] = e] ELSE kTr
      BY DEF StoreCurrent
<1>2. /\ TypeInv /\ PlaceInv /\ Launched /\ job.op \in {"SMOKE", "LAYER"} /\ job.op \in ops
      /\ token \in Nat
      BY <1>1 DEF IInv, PlaceInv, Launched, TypeInv
<1>3. Position \in Positions
      BY <1>1, <1>2, Geometry DEF PanelOps
<1>4. e \in Entries
  <2>1. CASE job.op = "SMOKE"
    <3>1. token = 0 /\ job.tile \in [1..1 -> Entries]
          BY <1>2, <2>1 DEF PlaceInv, Launched
    <3> QED BY <3>1
  <2>2. CASE job.op = "LAYER"
    <3>1. job.tile \in [1..job.tokens -> Entries] /\ job.tokens \in 1..RowCount
          BY <1>2, <2>2 DEF Launched, LayerOps
    <3>2. token < job.tokens
      <4>1. token # 0 => token < job.tokens
            BY <1>2 DEF PlaceInv
      <4>2. job.tokens \in Nat \ {0}
            BY <3>1, Constants
      <4> QED BY <1>2, <4>1, <4>2
    <3> QED BY <1>2, <3>1, <3>2, Constants
  <2> QED BY <1>2, <2>1, <2>2
<1>5. "LAYER" \in ops <=> job.op = "LAYER"
  <2>1. ops \subseteq {"FLASH", "SMOKE", "QK", "PV"} \/ ops \subseteq {"LAYER", "BLOCK"}
        BY <1>2, SessionAssumption DEF TypeInv
  <2> QED BY <1>2, <2>1
<1>6. kRow \in [Positions -> Entries] /\ kTr \in [Positions -> Entries] /\ v \in [Positions -> Entries]
      BY <1>2 DEF TypeInv
<1> HIDE DEF e
<1>7. [k |-> e.k, v |-> e.v] = e
      BY <1>4, EntryIs
<1>8. CacheView' = [CacheView EXCEPT ![Position] = e]
  <2>1. CASE job.op = "LAYER"
    <3>1. "LAYER" \in ops /\ kTr' = [kTr EXCEPT ![Position] = e]
          BY <1>1, <1>5, <2>1
    <3>2. CacheView = [p \in Positions |-> [k |-> kTr[p].k, v |-> v[p].v]]
          BY <3>1 DEF CacheView
    <3>3. CacheView' = [p \in Positions |-> [k |-> kTr'[p].k, v |-> v'[p].v]]
          BY <1>1, <3>1 DEF CacheView
    <3>4. ASSUME NEW p \in Positions
          PROVE  [k |-> kTr'[p].k, v |-> v'[p].v] = IF p = Position THEN e ELSE [k |-> kTr[p].k, v |-> v[p].v]
          BY <1>1, <1>3, <1>6, <1>7, <3>1
    <3> QED BY <3>2, <3>3, <3>4, <1>3
  <2>2. CASE job.op # "LAYER"
    <3>1. "LAYER" \notin ops /\ kRow' = [kRow EXCEPT ![Position] = e]
          BY <1>1, <1>5, <2>2
    <3>2. CacheView = [p \in Positions |-> [k |-> kRow[p].k, v |-> v[p].v]]
          BY <3>1 DEF CacheView
    <3>3. CacheView' = [p \in Positions |-> [k |-> kRow'[p].k, v |-> v'[p].v]]
          BY <1>1, <3>1 DEF CacheView
    <3>4. ASSUME NEW p \in Positions
          PROVE  [k |-> kRow'[p].k, v |-> v'[p].v] = IF p = Position THEN e ELSE [k |-> kRow[p].k, v |-> v[p].v]
          BY <1>1, <1>3, <1>6, <1>7, <3>1
    <3> QED BY <3>2, <3>3, <3>4, <1>3
  <2> QED BY <2>1, <2>2
<1>9. Attention!Append(Position, e)
      BY <1>1, <1>8 DEF Attention!Append
<1> QED BY <1>3, <1>4, <1>9

(* The last token of a launch is the greatest. *)
LEMMA LastToken ==
    ASSUME NEW first \in Nat, NEW last \in Nat, first <= last
    PROVE  Attention!Max(first..last) = last
<1>1. Max(first..last) = last
  <2>1. first..last \in SUBSET Int /\ last \in first..last /\ \A y \in first..last : last >= y
        OBVIOUS
  <2> QED BY <2>1, MaxIs
<1> QED BY <1>1, SameMax

(* A row at the output is the whole row of the golden over the cache the   *)
(* abstraction shows.                                                      *)
LEMMA RowAtOutput ==
    ASSUME IInv, pc = "output", job.op \notin PanelOps,
           NEW c \in Cores, NEW s \in Slots, NEW r \in LiveRows, NEW t \in Nat,
           job.position + t + 1 = Reach(r), QueryOf(c, s, r) = Query(c, IF job.op = "BLOCK" THEN s ELSE r, t)
    PROVE  Row(state[c][s][r].acc, state[c][s][r].sum)
             = Attention!AttendedRow(job.position, c, IF job.op = "BLOCK" THEN s ELSE r, t)
<1> DEFINE n == Reach(r)
           h == IF job.op = "BLOCK" THEN s ELSE r
           q == QueryOf(c, s, r)
           context == [p \in Upto(n) |-> CachedEntry(p)]
           reach == ScoresOf(context, c, q)
           x == state[c][s][r]
           f == Line(c, s, r)
<1>1. TypeInv /\ PlaceInv /\ RowsInv /\ pc # "idle" /\ pc \in Reading
      BY DEF IInv, Reading
<1>2. /\ n \in 1..ContextLen /\ ContextLen \in 1..MaxSeq /\ job.position \in Nat
      /\ r \in Nat /\ r \in Rows
      BY <1>1, Geometry
<1>3. n \in 0..MaxSeq /\ n \in Nat /\ job.position + t \in Nat /\ n = (job.position + t) + 1
  <2> HIDE DEF n
  <2> QED BY <1>2, Constants DEF n
<1>4. s \in Heads /\ s \in Nat
      BY Constants DEF Slots, Heads
<1>5. x \in RowRecords
  <2>1. state \in [Cores -> [Heads -> [Rows -> RowRecords]]]
        BY <1>1 DEF TypeInv
  <2> QED BY <1>2, <1>4, <2>1
<1>6. RowIs(x, c, f, n)
  <2>1. RowInv(c, s, r)
        BY <1>1 DEF RowsInv
  <2> QED BY <2>1 DEF RowInv
<1>7. Attention!Context(job.position + t) = context
  <2>1. ASSUME NEW p \in Upto(n) PROVE CacheView[p] = CachedEntry(p)
    <3>1. p \in Positions
      <4>1. Upto(n) \subseteq Positions
            BY <1>1, <1>2, <1>3, <1>4, Lines
      <4> QED BY <4>1
    <3> QED BY <1>1, <3>1, ViewIs
  <2>2. 0..(job.position + t) = Upto(n)
    <3> HIDE DEF n
    <3> QED BY <1>3 DEF Upto
  <2>3. Attention!Context(job.position + t) = [p \in Upto(n) |-> CacheView[p]]
        BY <2>2 DEF Attention!Context
  <2> HIDE DEF n
  <2> QED BY <2>1, <2>3
<1> HIDE DEF n, x, context
<1>8. context = [p \in Upto(n) |-> CachedEntry(p)]
      BY DEF context
<1>9. /\ TotalWeight(reach) = WeightOf(f, n)
      /\ WeightedSum(reach, ValuesOf(context, c)) = [w \in Waves |-> MixOf(f, ValueLine(c, w), n)]
      BY <1>1, <1>2, <1>3, <1>4, <1>8, GoldenContext
<1> HIDE DEF f, reach
<1>10. x = [max |-> TopOf(f, n), sum |-> WeightOf(f, n),
            acc |-> [w \in Waves |-> MixOf(f, ValueLine(c, w), n)]]
       BY <1>5, <1>6, RowRecord
<1>11. x.sum = TotalWeight(reach) /\ x.acc = WeightedSum(reach, ValuesOf(context, c))
       BY <1>9, <1>10
<1>12. WholeRow(context, c, q) = Row(x.acc, x.sum)
       BY <1>11 DEF WholeRow, reach
<1> HIDE DEF q, h
<1>13. Attention!AttendedRow(job.position, c, h, t) = WholeRow(context, c, q)
  <2>1. Attention!AttendedRow(job.position, c, h, t) = Attention!WholeRow(context, c, Attention!Query(c, h, t))
        BY <1>7 DEF Attention!AttendedRow
  <2>2. Attention!Query(c, h, t) = q
        BY SameKeys DEF q, h
  <2>3. Attention!WholeRow(context, c, q) = WholeRow(context, c, q)
        BY SameWholeRow
  <2> QED BY <2>1, <2>2, <2>3
<1> QED BY <1>12, <1>13 DEF x, h

(* The rows of a launch are stored together: those of a block's tokens, or *)
(* of the token a layer has reached.                                       *)
LEMMA RefineOutput ==
    ASSUME IInv, StoreOutput
    PROVE  \E position \in Positions, first \in Positions, last \in Positions :
             first <= last /\ Attention!Attend(position, first..last)
<1>1. /\ pc = "output" /\ job.op \notin PanelOps
      /\ output' = [row \in Cores \X Heads \X StoredTokens |-> Stored(row[1], row[2], row[3])]
      /\ UNCHANGED <<ops, caches>>
      BY DEF StoreOutput
<1>2. TypeInv /\ PlaceInv /\ Launched /\ pc # "idle" /\ token \in Nat
      BY <1>1 DEF IInv, PlaceInv, TypeInv
<1>3. CacheView' = CacheView
      BY <1>1, ViewSteady
<1>4. job.position \in Positions /\ job.position \in Nat
      BY <1>2, Constants DEF Launched, Positions
<1>5. CASE job.op = "BLOCK"
  <2>1. job.tokens \in 1..RowCount /\ job.position + job.tokens <= MaxSeq
        BY <1>2, <1>5 DEF Launched, LayerOps
  <2> DEFINE last == job.tokens - 1
  <2>2. 0 \in Positions /\ last \in Positions /\ last \in Nat /\ 0 <= last /\ job.position + last < MaxSeq
        BY <1>4, <2>1, Constants DEF Positions
  <2>3. StoredTokens = 0..last /\ LiveRows = 0..last /\ Slots = Heads
        BY <1>5 DEF StoredTokens, LiveRows, Slots
  <2>4. ASSUME NEW c \in Cores, NEW h \in Heads, NEW t \in 0..last
        PROVE  Stored(c, h, t) = Attention!AttendedRow(job.position, c, h, t)
    <3>1. t \in LiveRows /\ h \in Slots /\ t \in Nat
          BY <2>3
    <3>2. job.position + t + 1 = Reach(t) /\ QueryOf(c, h, t) = Query(c, h, t)
          BY <1>5 DEF Reach, QueryOf
    <3>3. Row(state[c][h][t].acc, state[c][h][t].sum) = Attention!AttendedRow(job.position, c, h, t)
          BY <1>1, <1>5, <3>1, <3>2, RowAtOutput
    <3> QED BY <1>5, <3>3 DEF Stored
  <2> HIDE DEF last
  <2>5. output' = [row \in Cores \X Heads \X (0..last) |->
                     Attention!AttendedRow(job.position, row[1], row[2], row[3])]
        BY <1>1, <2>3, <2>4
  <2>6. Attention!Max(0..last) = last
        BY <2>2, LastToken
  <2>7. Attention!Attend(job.position, 0..last)
        BY <1>3, <2>2, <2>5, <2>6, SameSets DEF Attention!Attend
  <2> QED BY <1>4, <2>2, <2>7
<1>6. CASE job.op # "BLOCK"
  <2>1. /\ ContextLen \in 1..MaxSeq /\ ContextLen = Position + 1 /\ Position \in Positions
        BY <1>1, <1>2, <1>6, Geometry
  <2>2. token \in Positions /\ job.position + token < MaxSeq /\ job.position + token + 1 = ContextLen
    <3>1. job.position + token \in Positions
          BY <2>1 DEF Position
    <3>2. job.position + token + 1 = ContextLen
          BY <2>1 DEF Position
    <3> QED BY <1>2, <1>4, <3>1, <3>2, Constants DEF Positions
  <2>3. StoredTokens = token..token /\ LiveRows = Heads /\ Slots = {0}
        BY <1>2, <1>6 DEF StoredTokens, LiveRows, Slots, Heads
  <2>4. ASSUME NEW c \in Cores, NEW h \in Heads, NEW t \in token..token
        PROVE  Stored(c, h, t) = Attention!AttendedRow(job.position, c, h, t)
    <3>1. h \in LiveRows /\ 0 \in Slots /\ t = token /\ t \in Nat
          BY <1>2, <2>3
    <3>2. job.position + t + 1 = Reach(h) /\ QueryOf(c, 0, h) = Query(c, h, t)
          BY <1>6, <2>2, <3>1 DEF Reach, QueryOf
    <3>3. Row(state[c][0][h].acc, state[c][0][h].sum) = Attention!AttendedRow(job.position, c, h, t)
          BY <1>1, <1>6, <3>1, <3>2, RowAtOutput
    <3> QED BY <1>6, <3>3 DEF Stored
  <2>5. output' = [row \in Cores \X Heads \X (token..token) |->
                     Attention!AttendedRow(job.position, row[1], row[2], row[3])]
        BY <1>1, <2>3, <2>4
  <2>6. Attention!Max(token..token) = token
    <3>1. token <= token
          BY <1>2
    <3> QED BY <1>2, <3>1, LastToken
  <2>7. Attention!Attend(job.position, token..token)
        BY <1>3, <2>2, <2>5, <2>6, SameSets DEF Attention!Attend
  <2>8. token <= token
        BY <1>2
  <2> QED BY <1>4, <2>2, <2>7, <2>8
<1> QED BY <1>5, <1>6

(* The rows of a panel: its scores, or its values weighted column by column. *)
LEMMA HostSums ==
    ASSUME NEW panel, NEW c, NEW h, NEW w
    PROVE  Attention!HostSum(panel, c, h, w) =
             SumOver([p \in DOMAIN panel |-> (1 + h + p) * ValueOf(panel[p], c, w)], DOMAIN panel)
<1> DEFINE S == DOMAIN panel
           H == [p \in S |-> (1 + h + p) * ValueOf(panel[p], c, w)]
<1> HIDE DEF S
<1>1. Attention!HostSum(panel, c, h, w) = MapThenSumSet(LAMBDA p : (1 + h + p) * ValueOf(panel[p], c, w), S)
      BY SameKeys DEF Attention!HostSum, Attention!HostWeight, Attention!MapThenSumSet, MapThenSumSet,
         Attention!MapThenFoldSet, MapThenFoldSet, S
<1>2. MapThenSumSet(LAMBDA p : (1 + h + p) * ValueOf(panel[p], c, w), S) = MapThenSumSet(LAMBDA p : H[p], S)
      BY DEF MapThenSumSet, MapThenFoldSet
<1>3. MapThenSumSet(LAMBDA p : H[p], S) = SumOver(H, S)
      BY SumSets
<1>4. Attention!HostSum(panel, c, h, w) = SumOver(H, S)
      BY <1>1, <1>2, <1>3
<1> QED BY <1>4 DEF S

(* A panel leaves the rows of the panel of the abstract module. *)
LEMMA RefinePanel ==
    ASSUME IInv, StorePanelRows
    PROVE  \E n \in 1..TileSize : \E panel \in [0..(n - 1) -> Entries] :
             Attention!ScoreTile(panel) \/ Attention!WeightTile(panel)
<1> DEFINE n == TileLen
           panel == [p \in 0..(n - 1) |-> job.tile[p + 1]]
<1>1. /\ pc = "output" /\ job.op \in PanelOps
      /\ output' = [row \in Cores \X Heads \X {0} |->
             Whole(IF job.op = "QK"
                   THEN [col \in 0..(n - 1) |-> scores[row[1]][row[2]][col]]
                   ELSE state[row[1]][0][row[2]].acc)]
      /\ UNCHANGED <<ops, caches>>
      BY DEF StorePanelRows
<1>2. TypeInv /\ PlaceInv /\ PanelInv
      BY DEF IInv
<1>3. CacheView' = CacheView
      BY <1>1, ViewSteady
<1>4. n = Len(job.tile) /\ n \in 1..TileSize /\ n \in Nat /\ job.tile \in [1..n -> Entries]
  <2>1. TileLen = Len(job.tile) /\ Len(job.tile) \in 1..TileSize /\ job.tile \in [1..Len(job.tile) -> Entries]
        BY <1>1, <1>2, OnePanel
  <2> QED BY <2>1, Constants
<1>5. panel \in [0..(n - 1) -> Entries] /\ DOMAIN panel = 0..(n - 1)
      /\ \A p \in 0..(n - 1) : panel[p] = job.tile[p + 1]
  <2>1. \A p \in 0..(n - 1) : job.tile[p + 1] \in Entries
    <3> HIDE DEF n
    <3> QED BY <1>4
  <2> HIDE DEF n
  <2> QED BY <2>1
<1> HIDE DEF panel
<1>6. CASE job.op = "QK"
  <2>1. \A c \in Cores, r \in Heads, col \in 0..(n - 1) :
            scores[c][r][col] = Score(Query(c, r, 0), KeyOf(job.tile[col + 1], c))
        BY <1>1, <1>2, <1>6 DEF PanelInv
  <2> HIDE DEF n
  <2>2. ASSUME NEW c \in Cores, NEW h \in Heads
        PROVE  Whole([col \in 0..(n - 1) |-> scores[c][h][col]])
                 = Attention!Whole(Attention!ScoresOf(panel, c, Attention!Query(c, h, 0)))
    <3>1. ScoresOf(panel, c, Query(c, h, 0)) = [p \in 0..(n - 1) |-> Score(Query(c, h, 0), KeyOf(panel[p], c))]
          BY <1>5 DEF ScoresOf
    <3>2. [col \in 0..(n - 1) |-> scores[c][h][col]] = [p \in 0..(n - 1) |-> Score(Query(c, h, 0), KeyOf(panel[p], c))]
          BY <1>5, <2>1
    <3>3. [col \in 0..(n - 1) |-> scores[c][h][col]] = ScoresOf(panel, c, Query(c, h, 0))
          BY <3>1, <3>2
    <3>4. Attention!ScoresOf(panel, c, Attention!Query(c, h, 0)) = ScoresOf(panel, c, Query(c, h, 0))
          BY SameKeys, SameScores
    <3> QED BY <3>3, <3>4, SameRow
  <2>3. output' = [row \in Cores \X Heads \X {0} |->
                     Attention!Whole(Attention!ScoresOf(panel, row[1], Attention!Query(row[1], row[2], 0)))]
        BY <1>1, <1>6, <2>2 DEF n
  <2>4. Attention!ScoreTile(panel)
        BY <1>3, <2>3, SameSets DEF Attention!ScoreTile
  <2> QED BY <1>4, <1>5, <2>4
<1>7. CASE job.op # "QK"
  <2>1. job.op = "PV"
        BY <1>1, <1>7 DEF PanelOps
  <2>2. \A c \in Cores, r \in Heads, w \in Waves : state[c][0][r].acc[w] = PanelSum(c, r, w, n)
        BY <1>1, <1>2, <2>1 DEF PanelInv
  <2>3. \A c \in Cores, r \in Heads : state[c][0][r].acc \in [Waves -> Int]
    <3>1. state \in [Cores -> [Heads -> [Rows -> RowRecords]]]
          BY <1>2 DEF TypeInv
    <3>2. \A c \in Cores, r \in Heads : state[c][0][r] \in RowRecords
          BY <3>1, Constants
    <3> QED BY <3>2 DEF RowRecords
  <2> HIDE DEF n
  <2>4. ASSUME NEW c \in Cores, NEW h \in Heads
        PROVE  Whole(state[c][0][h].acc) = Attention!Whole([w \in Waves |-> Attention!HostSum(panel, c, h, w)])
    <3>1. ASSUME NEW w \in Waves PROVE state[c][0][h].acc[w] = Attention!HostSum(panel, c, h, w)
      <4>1. [p \in DOMAIN panel |-> (1 + h + p) * ValueOf(panel[p], c, w)]
              = [col \in Upto(n) |-> (1 + h + col) * ValueOf(job.tile[col + 1], c, w)]
            BY <1>5 DEF Upto
      <4>2. DOMAIN panel = Upto(n)
            BY <1>5 DEF Upto
      <4>3. Attention!HostSum(panel, c, h, w) = PanelSum(c, h, w, n)
            BY <4>1, <4>2, HostSums DEF PanelSum
      <4> QED BY <2>2, <4>3
    <3>2. state[c][0][h].acc = [w \in Waves |-> Attention!HostSum(panel, c, h, w)]
          BY <2>3, <3>1
    <3> QED BY <3>2, SameRow
  <2>5. output' = [row \in Cores \X Heads \X {0} |->
                     Attention!Whole([w \in Waves |-> Attention!HostSum(panel, row[1], row[2], w)])]
        BY <1>1, <1>7, <2>4
  <2>6. Attention!WeightTile(panel)
        BY <1>3, <2>5, SameSets DEF Attention!WeightTile
  <2> QED BY <1>4, <1>5, <2>6
<1> QED BY <1>6, <1>7

(* Every step is one of the abstract cache and rows, or none. *)
LEMMA RefineStep ==
    ASSUME IInv, [Next]_vars
    PROVE  [Attention!Next]_(Attention!vars)
<1>1. CASE Start
      BY <1>1, RefineStart DEF Attention!Next
<1>2. CASE StoreCurrent
  <2>1. \E position \in Positions, entry \in Entries : Attention!Append(position, entry)
        BY <1>2, RefineStore
  <2> QED BY <2>1, SameSets DEF Attention!Next
<1>3. CASE LoadTile \/ LoadPanel \/ Scores \/ Softmax \/ Rescale \/ Values \/ Advance \/ UNCHANGED vars
  <2>1. UNCHANGED <<ops, caches>> /\ output' = output
        BY <1>3 DEF LoadTile, LoadPanel, Scores, Softmax, Rescale, Values, Advance, vars
  <2>2. CacheView' = CacheView
        BY <2>1, ViewSteady
  <2> QED BY <2>1, <2>2 DEF Attention!vars
<1>4. CASE StoreOutput
  <2>1. \E position \in Positions, first \in Positions, last \in Positions :
             first <= last /\ Attention!Attend(position, first..last)
        BY <1>4, RefineOutput
  <2> QED BY <2>1, SameSets DEF Attention!Next
<1>5. CASE StorePanelRows
  <2>1. \E n \in 1..TileSize : \E panel \in [0..(n - 1) -> Entries] :
             Attention!ScoreTile(panel) \/ Attention!WeightTile(panel)
        BY <1>5, RefinePanel
  <2> QED BY <2>1 DEF Attention!Next
<1> QED BY <1>1, <1>2, <1>3, <1>4, <1>5 DEF Next

(* The operators implement causal attention: whatever the tiles, the slots *)
(* and the bypass, the rows stored are the softmax over the cache entries  *)
(* up to each row's own position, or the rows of the host's panel.         *)
THEOREM AttentionRefinement == Spec => ImplementsAttention
<1>1. Init => Attention!Init
      BY RefineInit
<1>2. IInv /\ [Next]_vars => [Attention!Next]_(Attention!vars)
      BY RefineStep
<1> QED BY <1>1, <1>2, Invariance, PTL DEF Spec, ImplementsAttention, Attention!Spec
====
