-------------------------- MODULE NkSession_proofs --------------------------
(***************************************************************************)
(* The free-running kernels, for every number of hops, every FIFO depth,   *)
(* shape and set of launches within the task budget: no process takes a    *)
(* word it does not expect, the controller reads the results of its own    *)
(* exchange, and a launch leaves every FIFO empty.                         *)
(*                                                                         *)
(* The argument: what a core's tasks move on a stream (Flow) is the same   *)
(* for the controller that feeds and collects it (Served), the forwarders  *)
(* and the core (InputFlow, ResultFlow, ComputeFlow); and a launch sends   *)
(* each core a session of at most MaxTasks tasks of which only the last    *)
(* ends it (ScriptCarries).  So at every step, what is on a FIFO followed  *)
(* by what its producer still has to put is what its consumer still has to *)
(* take (Balanced): the first word on it is the one expected, and it is    *)
(* empty when both ends have finished.                                     *)
(*                                                                         *)
(* Sequences are handled through the names below, so that the provers see  *)
(* no more of them than a step needs.                                      *)
(***************************************************************************)
EXTENDS NkSession, TLAPS, SequenceTheorems, WellFoundedInduction
-----------------------------------------------------------------------------
(* Sequences made of parts: Cat.                                            *)

(* Induction, for a set of numbers. *)
LEMMA SetInduction ==
    ASSUME NEW S, 0 \in S, \A n \in Nat : n \in S => n + 1 \in S
    PROVE  \A n \in Nat : n \in S
<1> DEFINE R == OpToRel(<, Nat)
           T == {n \in Nat : n \notin S}
<1> SUFFICES ASSUME T # {} PROVE FALSE
  OBVIOUS
<1>1. IsWellFoundedOn(R, Nat)
  BY NatLessThanWellFounded, Zenon
<1>2. PICK x \in T : \A y \in T : <<y, x>> \notin R
  <2>1. T \subseteq Nat
    OBVIOUS
  <2> HIDE DEF R, T
  <2>2. QED BY <1>1, <2>1, WFMin
<1>3. x # 0 /\ x \in Nat /\ x - 1 \in Nat
  BY SMT
<1>4. x - 1 \in T
  BY <1>3, SMT
<1>5. <<x - 1, x>> \in R
  BY <1>3, SMT DEF OpToRel
<1>6. QED BY <1>2, <1>4, <1>5

(* Sequences by name, for the provers to reason about without their elements. *)
Nil == << >>
One(a) == <<a>>
Join(s, t) == s \o t
SeqOf(s, S) == s \in Seq(S)

(* g is the recursive function Cat evaluates. *)
CatLoop(g, n, f) == g = [i \in 0..n |-> IF i = 0 THEN Nil ELSE Join(g[i - 1], f[i])]

(* It exists (induction over the number of parts). *)
LEMMA CatLoopExists == \A f : \A n \in Nat : \E g : CatLoop(g, n, f)
<1> SUFFICES ASSUME NEW f PROVE \A n \in Nat : \E g : CatLoop(g, n, f)
  OBVIOUS
<1> DEFINE S == {n \in Nat : \E g : CatLoop(g, n, f)}
<1>1. 0 \in S
  <2> DEFINE g == [i \in 0..0 |-> Nil]
  <2>1. \A i \in 0..0 : i = 0
    BY SMT
  <2>2. CatLoop(g, 0, f)
    BY <2>1 DEF CatLoop
  <2> HIDE DEF g
  <2>3. QED BY <2>2
<1>2. ASSUME NEW n \in Nat, n \in S PROVE n + 1 \in S
  <2>1. PICK g : CatLoop(g, n, f)
    BY <1>2
  <2> DEFINE h == [i \in 0..(n + 1) |-> IF i = n + 1 THEN Join(g[n], f[n + 1]) ELSE g[i]]
  <2>2. g = [i \in 0..n |-> IF i = 0 THEN Nil ELSE Join(g[i - 1], f[i])]
    BY <2>1 DEF CatLoop
  <2>3. \A i \in 0..(n + 1) : h[i] = IF i = 0 THEN Nil ELSE Join(h[i - 1], f[i])
    <3>0. SUFFICES ASSUME NEW i \in 0..(n + 1)
                   PROVE  h[i] = IF i = 0 THEN Nil ELSE Join(h[i - 1], f[i])
      OBVIOUS
    <3>1. CASE i = n + 1
      <4>1. i # 0 /\ i - 1 = n /\ n \in 0..(n + 1) /\ n # n + 1
        BY <3>1, SMT
      <4>2. h[i - 1] = g[n]
        BY <4>1, Zenon
      <4>3. h[i] = Join(g[n], f[n + 1])
        BY <3>1, Zenon
      <4>4. QED BY <3>1, <4>1, <4>2, <4>3, Zenon
    <3>2. CASE i # n + 1
      <4>1. i \in 0..n
        BY <3>2, SMT
      <4>2. h[i] = IF i = 0 THEN Nil ELSE Join(g[i - 1], f[i])
        BY <2>2, <3>2, <4>1, Zenon
      <4>3. i # 0 => i - 1 \in 0..(n + 1) /\ i - 1 # n + 1
        BY <4>1, SMT
      <4>4. i # 0 => h[i - 1] = g[i - 1]
        BY <4>3, Zenon
      <4>5. QED BY <4>2, <4>4, Zenon
    <3>3. QED BY <3>1, <3>2
  <2>4. h = [i \in 0..(n + 1) |-> h[i]]
    OBVIOUS
  <2> HIDE DEF h
  <2>5. CatLoop(h, n + 1, f)
    BY <2>3, <2>4 DEF CatLoop
  <2>6. QED BY <2>5
<1>3. \A n \in Nat : n \in S
  <2> HIDE DEF S
  <2> QED BY <1>1, <1>2, SetInduction
<1>4. QED BY <1>3

(* What it is at its last index. *)
LEMMA CatIsLoop ==
    ASSUME NEW n \in Nat, NEW f
    PROVE  \E g : CatLoop(g, n, f) /\ Cat(n, f) = g[n]
<1> DEFINE g == CHOOSE h : h = [i \in 0..n |-> IF i = 0 THEN Nil ELSE Join(h[i - 1], f[i])]
<1>1. CatLoop(g, n, f)
  BY CatLoopExists, Zenon DEF CatLoop
<1>2. Cat(n, f) = g[n]
  BY Zenon DEF Cat, Join, Nil
<1> HIDE DEF g
<1>3. QED BY <1>1, <1>2

(* Two such functions agree where both are defined. *)
LEMMA CatLoopsAgree ==
    ASSUME NEW n \in Nat, NEW m \in Nat, NEW f, NEW e, NEW g, NEW h, n <= m,
           \A i \in 1..n : f[i] = e[i], CatLoop(g, n, f), CatLoop(h, m, e)
    PROVE  g[n] = h[n]
<1> DEFINE S == {i \in Nat : i <= n => g[i] = h[i]}
<1>1. \A i \in 0..n : g[i] = IF i = 0 THEN Nil ELSE Join(g[i - 1], f[i])
  BY Zenon DEF CatLoop
<1>2. \A i \in 0..m : h[i] = IF i = 0 THEN Nil ELSE Join(h[i - 1], e[i])
  BY Zenon DEF CatLoop
<1>3. 0 \in S
  BY <1>1, <1>2
<1>4. ASSUME NEW i \in Nat, i \in S PROVE i + 1 \in S
  <2>1. CASE i + 1 <= n
    <3>1. /\ i + 1 \in 0..n /\ i + 1 \in 0..m /\ i + 1 \in 1..n
          /\ i + 1 # 0 /\ (i + 1) - 1 = i /\ i <= n
      BY <2>1, SMT
    <3>2. g[i + 1] = Join(g[i], f[i + 1])
      BY <1>1, <3>1, Zenon
    <3>3. h[i + 1] = Join(h[i], e[i + 1])
      BY <1>2, <3>1, Zenon
    <3>4. g[i] = h[i] /\ f[i + 1] = e[i + 1]
      BY <1>4, <3>1, Zenon
    <3>5. g[i + 1] = h[i + 1]
      BY <3>2, <3>3, <3>4, Zenon
    <3>6. QED BY <3>1, <3>5
  <2>2. QED BY <2>1
<1>5. n \in S
  <2> HIDE DEF S
  <2> QED BY <1>3, <1>4, SetInduction
<1>6. QED BY <1>5

(* It has no part, or one more. *)
LEMMA CatSteps ==
    ASSUME NEW f
    PROVE  /\ Cat(0, f) = Nil
           /\ \A n \in Nat : Cat(n + 1, f) = Join(Cat(n, f), f[n + 1])
<1>1. Cat(0, f) = Nil
  <2>1. PICK g : CatLoop(g, 0, f) /\ Cat(0, f) = g[0]
    BY CatIsLoop
  <2>2. QED BY <2>1 DEF CatLoop
<1>2. ASSUME NEW n \in Nat PROVE Cat(n + 1, f) = Join(Cat(n, f), f[n + 1])
  <2>0. n + 1 \in Nat
    BY SMT
  <2>1. PICK h : CatLoop(h, n + 1, f) /\ Cat(n + 1, f) = h[n + 1]
    BY <2>0, CatIsLoop
  <2>2. PICK g : CatLoop(g, n, f) /\ Cat(n, f) = g[n]
    BY CatIsLoop
  <2>3. g[n] = h[n]
    <3>1. n <= n + 1
      BY SMT
    <3>2. QED BY <2>0, <2>1, <2>2, <3>1, CatLoopsAgree
  <2>4. n + 1 \in 0..(n + 1) /\ n + 1 # 0 /\ (n + 1) - 1 = n
    BY SMT
  <2>5. h[n + 1] = Join(h[n], f[n + 1])
    BY <2>1, <2>4, Zenon DEF CatLoop
  <2>6. QED BY <2>1, <2>2, <2>3, <2>5, Zenon
<1>3. QED BY <1>1, <1>2

(* Only the parts matter. *)
LEMMA CatSame ==
    ASSUME NEW n \in Nat, NEW f, NEW e, \A i \in 1..n : f[i] = e[i]
    PROVE  Cat(n, f) = Cat(n, e)
<1>1. PICK g : CatLoop(g, n, f) /\ Cat(n, f) = g[n]
  BY CatIsLoop
<1>2. PICK h : CatLoop(h, n, e) /\ Cat(n, e) = h[n]
  BY CatIsLoop
<1>3. n <= n
  BY SMT
<1>4. QED BY <1>1, <1>2, <1>3, CatLoopsAgree

(* Sequences under Join are a monoid with cancellation. *)
LEMMA NilSeq == ASSUME NEW S PROVE SeqOf(Nil, S)
BY EmptySeq DEF SeqOf, Nil

(* A sequence of one element.                                                *)
LEMMA OneSeq == ASSUME NEW S, NEW a \in S PROVE SeqOf(One(a), S)
BY DEF SeqOf, One

(* Joining two sequences over S gives one over S.                            *)
LEMMA JoinSeq ==
    ASSUME NEW S, NEW s, NEW t, SeqOf(s, S), SeqOf(t, S)
    PROVE  SeqOf(Join(s, t), S)
BY ConcatProperties DEF SeqOf, Join

(* Joining with the empty sequence changes nothing.                          *)
LEMMA JoinNil ==
    ASSUME NEW S, NEW s, SeqOf(s, S)
    PROVE  Join(s, Nil) = s /\ Join(Nil, s) = s
BY ConcatEmptySeq DEF SeqOf, Join, Nil

(* Two empty sequences join to the empty one.                                *)
LEMMA NilNil == Join(Nil, Nil) = Nil
BY NilSeq, JoinNil

(* Joining is associative.                                                   *)
LEMMA JoinAssoc ==
    ASSUME NEW S, NEW s, NEW t, NEW u, SeqOf(s, S), SeqOf(t, S), SeqOf(u, S)
    PROVE  Join(Join(s, t), u) = Join(s, Join(t, u))
BY ConcatAssociative DEF SeqOf, Join

(* Only empty sequences join to the empty one.                               *)
LEMMA JoinIsNil ==
    ASSUME NEW S, NEW s, NEW t, SeqOf(s, S), SeqOf(t, S), Join(s, t) = Nil
    PROVE  s = Nil /\ t = Nil
<1>1. s \in Seq(S) /\ t \in Seq(S) /\ s \o t = << >>
  BY DEF SeqOf, Join, Nil
<1>2. s \o t = << >> <=> s = << >> /\ t = << >>
  BY <1>1, ConcatEqualIffEmpty
<1>3. QED BY <1>1, <1>2 DEF Nil

(* Equal sequences have equal heads and equal tails.                         *)
LEMMA JoinOne ==
    ASSUME NEW S, NEW a, NEW t, NEW b, NEW u, a \in S, b \in S, SeqOf(t, S), SeqOf(u, S),
           Join(One(a), t) = Join(One(b), u)
    PROVE  a = b /\ t = u
<1>1. /\ t \in Seq(S) /\ u \in Seq(S) /\ <<a>> \in Seq(S) /\ <<b>> \in Seq(S)
      /\ <<a>> \o t = <<b>> \o u
      /\ Len(<<a>>) = 1 /\ Len(<<b>>) = 1 /\ <<a>>[1] = a /\ <<b>>[1] = b
  BY DEF SeqOf, Join, One
<1>2. (<<a>> \o t)[1] = a /\ (<<b>> \o u)[1] = b
  <2>1. Len(t) \in Nat /\ Len(u) \in Nat
    BY <1>1, LenProperties
  <2>2. 1 \in 1..(Len(<<a>>) + Len(t)) /\ 1 \in 1..(Len(<<b>>) + Len(u))
    BY <1>1, <2>1
  <2>3. (<<a>> \o t)[1] = IF 1 <= Len(<<a>>) THEN <<a>>[1] ELSE t[1 - Len(<<a>>)]
    BY <1>1, <2>2, ConcatProperties
  <2>4. (<<b>> \o u)[1] = IF 1 <= Len(<<b>>) THEN <<b>>[1] ELSE u[1 - Len(<<b>>)]
    BY <1>1, <2>2, ConcatProperties
  <2>5. QED BY <1>1, <2>3, <2>4
<1>3. a = b
  BY <1>1, <1>2
<1>4. <<a>> \o t = <<a>> \o u
  BY <1>1, <1>3
<1>5. t = u
  <2>1. \A R : \A x, y, z \in Seq(R) : x \o y = x \o z => y = z
    BY ConcatSimplifications
  <2>2. QED BY <1>1, <1>4, <2>1, Zenon
<1>6. QED BY <1>3, <1>5

(* A sequence that is not empty has a first element. *)
LEMMA HeadTail ==
    ASSUME NEW S, NEW s, SeqOf(s, S), s # Nil
    PROVE  /\ s = Join(One(Head(s)), Tail(s))
           /\ Head(s) \in S /\ SeqOf(Tail(s), S)
<1>1. s \in Seq(S) /\ s # << >>
  BY DEF SeqOf, Nil
<1>2. Head(s) \in S /\ Tail(s) \in Seq(S)
  BY <1>1, HeadTailProperties
<1>3. Len(s) \in Nat \ {0}
  BY <1>1, EmptySeq
<1>4. 1 \in 1..Len(s) /\ Len(s) \in 1..Len(s)
  BY <1>3
<1>5. SubSeq(s, 1, Len(s)) = <<s[1]>> \o SubSeq(s, 1 + 1, Len(s))
  BY <1>1, <1>4, SubSeqRecursiveFirst
<1>6. SubSeq(s, 1, Len(s)) = s
  BY <1>1, SubSeqFull
<1>7. SubSeq(s, 1 + 1, Len(s)) = Tail(s)
  BY <1>1, TailIsSubSeq
<1>8. s[1] = Head(s)
  BY <1>1
<1>9. s = <<Head(s)>> \o Tail(s)
  <2> DEFINE a == Head(s)
             t == Tail(s)
  <2>1. s[1] = a
    BY <1>8
  <2>2. SubSeq(s, 1 + 1, Len(s)) = t
    BY <1>7
  <2> HIDE DEF a, t
  <2>3. s = <<a>> \o t
    BY <1>5, <1>6, <2>1, <2>2
  <2>4. QED BY <2>3 DEF a, t
<1>10. QED BY <1>2, <1>9 DEF Join, One, SeqOf

(* Appending an element is joining a sequence of one.                        *)
LEMMA AppendJoin ==
    ASSUME NEW S, NEW s, NEW a \in S, SeqOf(s, S)
    PROVE  Append(s, a) = Join(s, One(a)) /\ SeqOf(Append(s, a), S)
<1>1. s \in Seq(S)
  BY DEF SeqOf
<1>2. Append(s, a) = s \o <<a>>
  BY <1>1, AppendIsConcat
<1>3. QED BY <1>1, <1>2, AppendProperties DEF Join, One, SeqOf

-----------------------------------------------------------------------------
(* Cat of equal, split, empty and nested parts.                             *)

(* f[1] .. f[n] are sequences over S; e is f from its part a + 1 on. *)
Parts(n, f, S) == \A i \in 1..n : SeqOf(f[i], S)
Splits(n, a, b, f, e) == n = a + b /\ \A i \in 1..b : e[i] = f[a + i]
Same(n, f, e) == \A i \in 1..n : f[i] = e[i]

(* Cat of equal parts.                                                       *)
LEMMA CatEqual ==
    ASSUME NEW n \in Nat, NEW f, NEW e, Same(n, f, e)
    PROVE  Cat(n, f) = Cat(n, e)
BY CatSame DEF Same

(* Cat of sequences over S is a sequence over S.                             *)
LEMMA CatSeq ==
    ASSUME NEW S, NEW n \in Nat, NEW f, Parts(n, f, S)
    PROVE  SeqOf(Cat(n, f), S)
<1> DEFINE T == {m \in Nat : m <= n => SeqOf(Cat(m, f), S)}
<1>1. 0 \in T
  BY CatSteps, NilSeq
<1>2. ASSUME NEW m \in Nat, m \in T PROVE m + 1 \in T
  <2>1. CASE m + 1 <= n
    <3>1. m <= n /\ m + 1 \in 1..n /\ m + 1 \in Nat
      BY <2>1
    <3>2. SeqOf(Cat(m, f), S) /\ SeqOf(f[m + 1], S)
      BY <1>2, <3>1 DEF Parts
    <3>3. SeqOf(Cat(m + 1, f), S)
      BY <3>2, CatSteps, JoinSeq
    <3>4. QED BY <3>1, <3>3
  <2>2. QED BY <2>1
<1>3. n \in T
  <2> HIDE DEF T
  <2> QED BY <1>1, <1>2, SetInduction
<1>4. QED BY <1>3

(* The two pieces of a list of parts are lists of parts.                     *)
LEMMA PartsOf ==
    ASSUME NEW S, NEW n \in Nat, NEW f, Parts(n, f, S), NEW a \in Nat, NEW b \in Nat,
           NEW e, Splits(n, a, b, f, e)
    PROVE  Parts(a, f, S) /\ Parts(b, e, S)
<1>0. n = a + b
  BY DEF Splits
<1>1. \A i \in 1..a : i \in 1..n
  BY <1>0
<1>2. \A i \in 1..b : a + i \in 1..n
  BY <1>0
<1>3. QED BY <1>1, <1>2 DEF Parts, Splits

(* The first a parts, then the next b. *)
LEMMA CatSplit ==
    ASSUME NEW S, NEW a \in Nat, NEW b \in Nat, NEW n \in Nat,
           NEW f, NEW e, Parts(n, f, S), Splits(n, a, b, f, e)
    PROVE  Cat(n, f) = Join(Cat(a, f), Cat(b, e))
<1> DEFINE T == {m \in Nat : m <= b => Cat(a + m, f) = Join(Cat(a, f), Cat(m, e))}
<1>0. SeqOf(Cat(a, f), S) /\ Parts(b, e, S)
  BY PartsOf, CatSeq
<1>1. 0 \in T
  <2>1. Cat(0, e) = Nil
    BY CatSteps
  <2>2. a + 0 = a
    OBVIOUS
  <2>3. Cat(a + 0, f) = Join(Cat(a, f), Cat(0, e))
    BY <1>0, <2>1, <2>2, JoinNil
  <2>4. QED BY <2>3
<1>2. ASSUME NEW m \in Nat, m \in T PROVE m + 1 \in T
  <2>1. CASE m + 1 <= b
    <3>1. /\ m <= b /\ m + 1 \in 1..b /\ a + m \in Nat /\ (a + m) + 1 = a + (m + 1)
      BY <2>1
    <3>2. Cat(a + m, f) = Join(Cat(a, f), Cat(m, e))
      BY <1>2, <3>1
    <3>3. Cat(a + (m + 1), f) = Join(Cat(a + m, f), f[a + (m + 1)])
      BY <3>1, CatSteps, Zenon
    <3>4. e[m + 1] = f[a + (m + 1)]
      BY <3>1, Zenon DEF Splits
    <3>5. Cat(m + 1, e) = Join(Cat(m, e), e[m + 1])
      BY CatSteps, Zenon
    <3>6. SeqOf(Cat(m, e), S) /\ SeqOf(e[m + 1], S)
      <4>1. Parts(m, e, S)
        BY <1>0, <3>1 DEF Parts
      <4>2. QED BY <1>0, <3>1, <4>1, CatSeq DEF Parts
    <3>7. Join(Join(Cat(a, f), Cat(m, e)), e[m + 1])
            = Join(Cat(a, f), Join(Cat(m, e), e[m + 1]))
      BY <1>0, <3>6, JoinAssoc
    <3>8. Cat(a + (m + 1), f) = Join(Cat(a, f), Cat(m + 1, e))
      BY <3>2, <3>3, <3>4, <3>5, <3>7, Zenon
    <3>9. QED BY <3>8
  <2>2. QED BY <2>1
<1>3. b \in T
  <2> HIDE DEF T
  <2> QED BY <1>1, <1>2, SetInduction
<1>4. QED BY <1>3 DEF Splits

(* Empty parts make nothing. *)
Empty(n, f) == \A i \in 1..n : f[i] = Nil

(* Empty parts one after the other are empty.                                *)
LEMMA CatNone ==
    ASSUME NEW n \in Nat, NEW f, Empty(n, f)
    PROVE  Cat(n, f) = Nil
<1> DEFINE T == {m \in Nat : m <= n => Cat(m, f) = Nil}
<1>1. 0 \in T
  BY CatSteps
<1>2. ASSUME NEW m \in Nat, m \in T PROVE m + 1 \in T
  <2>1. CASE m + 1 <= n
    <3>1. m <= n /\ m + 1 \in 1..n
      BY <2>1
    <3>2. f[m + 1] = Nil
      BY <3>1 DEF Empty
    <3>3. Cat(m + 1, f) = Nil
      BY <1>2, <3>1, <3>2, CatSteps, NilNil
    <3>4. QED BY <3>3
  <2>2. QED BY <2>1
<1>3. n \in T
  <2> HIDE DEF T
  <2> QED BY <1>1, <1>2, SetInduction
<1>4. QED BY <1>3

(* Parts past the m-th, or before the (a+1)-th, that are empty add nothing. *)
LEMMA CatFirst ==
    ASSUME NEW S, NEW m \in Nat, NEW n \in Nat, m <= n, NEW f, NEW g, Parts(m, g, S),
           \A i \in 1..n : f[i] = IF i <= m THEN g[i] ELSE Nil
    PROVE  Cat(n, f) = Cat(m, g)
<1> DEFINE b == n - m
           e == [i \in 1..b |-> f[m + i]]
<1>1. b \in Nat /\ n = m + b
  OBVIOUS
<1>2. Splits(n, m, b, f, e)
  BY DEF Splits
<1>3. Empty(b, e)
  <2>1. SUFFICES ASSUME NEW i \in 1..b PROVE e[i] = Nil
    BY DEF Empty
  <2>2. m + i \in 1..n /\ ~(m + i <= m)
    OBVIOUS
  <2>3. QED BY <2>2
<1>4. Parts(n, f, S)
  <2>1. SUFFICES ASSUME NEW i \in 1..n PROVE SeqOf(f[i], S)
    BY DEF Parts
  <2>2. CASE i <= m
    <3>1. i \in 1..m
      BY <2>2
    <3>2. QED BY <2>2, <3>1 DEF Parts
  <2>3. CASE ~(i <= m)
    BY <2>3, NilSeq
  <2>4. QED BY <2>2, <2>3
<1> HIDE DEF b, e
<1>5. Cat(n, f) = Join(Cat(m, f), Cat(b, e))
  BY <1>1, <1>2, <1>4, CatSplit
<1>6. Cat(b, e) = Nil
  BY <1>1, <1>3, CatNone
<1>7. Cat(m, f) = Cat(m, g)
  <2>1. Same(m, f, g)
    BY DEF Same
  <2>2. QED BY <2>1, CatEqual
<1>8. SeqOf(Cat(m, g), S)
  BY CatSeq
<1>9. QED BY <1>5, <1>6, <1>7, <1>8, JoinNil

(* Empty parts before the others add nothing.                                *)
LEMMA CatLast ==
    ASSUME NEW S, NEW a \in Nat, NEW b \in Nat, NEW n \in Nat, NEW f, NEW e,
           Empty(a, f), Parts(b, e, S), Splits(n, a, b, f, e)
    PROVE  Cat(n, f) = Cat(b, e)
<1>1. Parts(n, f, S)
  <2>1. SUFFICES ASSUME NEW i \in 1..n PROVE SeqOf(f[i], S)
    BY DEF Parts
  <2>2. CASE i <= a
    BY <2>2, NilSeq DEF Empty
  <2>3. CASE i > a
    <3>1. i - a \in 1..b /\ a + (i - a) = i
      BY <2>3 DEF Splits
    <3>2. f[a + (i - a)] = e[i - a]
      BY <3>1, Zenon DEF Splits
    <3>3. SeqOf(e[i - a], S)
      BY <3>1 DEF Parts
    <3>4. QED BY <3>1, <3>2, <3>3
  <2>4. QED BY <2>2, <2>3
<1>2. Cat(n, f) = Join(Cat(a, f), Cat(b, e))
  BY <1>1, CatSplit
<1>3. Cat(a, f) = Nil
  BY CatNone
<1>4. SeqOf(Cat(b, e), S)
  BY CatSeq
<1>5. QED BY <1>2, <1>3, <1>4, JoinNil

(* b parts, a times over, are a * b parts. *)
LEMMA CatFlatten ==
    ASSUME NEW S, NEW a \in Nat, NEW b \in Nat, NEW f, NEW g, Parts(a * b, f, S),
           \A r \in 1..a : \E e : Splits(r * b, (r - 1) * b, b, f, e) /\ g[r] = Cat(b, e)
    PROVE  Cat(a, g) = Cat(a * b, f)
<1> DEFINE T == {m \in Nat : m <= a => Cat(m, g) = Cat(m * b, f)}
<1>1. 0 \in T
  BY CatSteps
<1>2. ASSUME NEW m \in Nat, m \in T PROVE m + 1 \in T
  <2>1. CASE m + 1 <= a
    <3>1. m <= a /\ m + 1 \in 1..a /\ (m + 1) - 1 = m
      BY <2>1
    <3>2. m * b \in Nat /\ (m + 1) * b \in Nat /\ (m + 1) * b = m * b + b
      OBVIOUS
    <3>3. (m + 1) * b <= a * b
      BY <2>1
    <3>4. Cat(m, g) = Cat(m * b, f)
      BY <1>2, <3>1
    <3>5. PICK e : Splits((m + 1) * b, m * b, b, f, e) /\ g[m + 1] = Cat(b, e)
      BY <3>1, Zenon
    <3>6. Parts((m + 1) * b, f, S)
      <4> DEFINE x == (m + 1) * b
                 y == a * b
      <4>1. x \in Nat /\ y \in Nat /\ x <= y /\ Parts(y, f, S)
        BY <3>2, <3>3
      <4> HIDE DEF x, y
      <4>2. Parts(x, f, S)
        BY <4>1 DEF Parts
      <4>3. QED BY <4>2 DEF x
    <3>7. Cat((m + 1) * b, f) = Join(Cat(m * b, f), Cat(b, e))
      <4> DEFINE x == (m + 1) * b
                 y == m * b
      <4>1. x \in Nat /\ y \in Nat /\ x = y + b /\ Parts(x, f, S) /\ Splits(x, y, b, f, e)
        BY <3>2, <3>5, <3>6
      <4> HIDE DEF x, y
      <4>2. Cat(x, f) = Join(Cat(y, f), Cat(b, e))
        BY <4>1, CatSplit
      <4>3. QED BY <4>2 DEF x, y
    <3>8. Cat(m + 1, g) = Join(Cat(m, g), g[m + 1])
      BY CatSteps, Zenon
    <3>9. Cat(m + 1, g) = Cat((m + 1) * b, f)
      BY <3>4, <3>5, <3>7, <3>8, Zenon
    <3>10. QED BY <3>9
  <2>2. QED BY <2>1
<1>3. a \in T
  <2> HIDE DEF T
  <2> QED BY <1>1, <1>2, SetInduction
<1>4. QED BY <1>3

-----------------------------------------------------------------------------
(* FlatMap: the words of a program, operation by operation.                 *)

(* h maps the elements of O to sequences over S; FlatMap joins the images. *)
Maps(h, O, S) == \A a \in O : SeqOf(h[a], S)
Images(s, h) == [i \in 1..Len(s) |-> h[s[i]]]
FlatMap(s, h) == Cat(Len(s), Images(s, h))

(* The length and the elements of a sequence over O.                         *)
LEMMA SeqFacts ==
    ASSUME NEW O, NEW s, SeqOf(s, O)
    PROVE  Len(s) \in Nat /\ \A i \in 1..Len(s) : s[i] \in O
BY LenProperties, ElementOfSeq DEF SeqOf

(* The images of a sequence's elements are parts.                            *)
LEMMA ImageParts ==
    ASSUME NEW O, NEW S, NEW s, NEW h, SeqOf(s, O), Maps(h, O, S)
    PROVE  Len(s) \in Nat /\ Parts(Len(s), Images(s, h), S)
<1>1. Len(s) \in Nat /\ \A i \in 1..Len(s) : s[i] \in O
  BY SeqFacts
<1>2. \A i \in 1..Len(s) : Images(s, h)[i] = h[s[i]]
  BY DEF Images
<1>3. QED BY <1>1, <1>2 DEF Parts, Maps

(* FlatMap of sequences over S is a sequence over S.                         *)
LEMMA FlatSeq ==
    ASSUME NEW O, NEW S, NEW s, NEW h, SeqOf(s, O), Maps(h, O, S)
    PROVE  SeqOf(FlatMap(s, h), S)
BY ImageParts, CatSeq DEF FlatMap

(* FlatMap of nothing.                                                       *)
LEMMA FlatNil == ASSUME NEW h PROVE FlatMap(Nil, h) = Nil
<1>1. Len(Nil) = 0
  BY DEF Nil
<1>2. QED BY <1>1, CatSteps DEF FlatMap

(* FlatMap of one element is its image.                                      *)
LEMMA FlatOne ==
    ASSUME NEW O, NEW S, NEW a \in O, NEW h, Maps(h, O, S)
    PROVE  FlatMap(One(a), h) = h[a]
<1>1. Len(One(a)) = 1 /\ One(a)[1] = a
  BY DEF One
<1>2. Images(One(a), h)[1] = h[a]
  BY <1>1 DEF Images
<1>3. Cat(0 + 1, Images(One(a), h)) = Join(Cat(0, Images(One(a), h)), Images(One(a), h)[0 + 1])
  BY CatSteps, Zenon
<1>4. 0 + 1 = 1
  OBVIOUS
<1>5. FlatMap(One(a), h) = Join(Nil, h[a])
  BY <1>1, <1>2, <1>3, <1>4, CatSteps DEF FlatMap
<1>6. QED BY <1>5, JoinNil DEF Maps

(* FlatMap of a join is the join of the two.                                 *)
LEMMA FlatJoin ==
    ASSUME NEW O, NEW S, NEW s, NEW t, NEW h, SeqOf(s, O), SeqOf(t, O), Maps(h, O, S)
    PROVE  FlatMap(Join(s, t), h) = Join(FlatMap(s, h), FlatMap(t, h))
<1>1. s \in Seq(O) /\ t \in Seq(O)
  BY DEF SeqOf
<1>2. /\ Len(Join(s, t)) = Len(s) + Len(t)
      /\ \A i \in 1..(Len(s) + Len(t)) :
            Join(s, t)[i] = IF i <= Len(s) THEN s[i] ELSE t[i - Len(s)]
  BY <1>1, ConcatProperties DEF Join
<1>3. Len(s) \in Nat /\ Len(t) \in Nat /\ SeqOf(Join(s, t), O) /\ Len(Join(s, t)) \in Nat
  BY <1>2, SeqFacts, JoinSeq
<1> DEFINE a == Len(s)
           b == Len(t)
           n == Len(Join(s, t))
           f == Images(Join(s, t), h)
           d == Images(s, h)
           e == Images(t, h)
<1>4. \A i \in 1..n : f[i] = IF i <= a THEN h[s[i]] ELSE h[t[i - a]]
  BY <1>2 DEF Images
<1>5. \A i \in 1..a : d[i] = h[s[i]]
  BY DEF Images
<1>6. \A i \in 1..b : e[i] = h[t[i]]
  BY DEF Images
<1>7. a \in Nat /\ b \in Nat /\ n \in Nat /\ n = a + b
  BY <1>2, <1>3
<1>8. Parts(n, f, S)
  BY <1>3, ImageParts
<1> HIDE DEF a, b, n, f, d, e
<1>9. Same(a, f, d)
  BY <1>4, <1>5, <1>7 DEF Same
<1>10. Splits(n, a, b, f, e)
  <2>1. ASSUME NEW i \in 1..b PROVE e[i] = f[a + i]
    <3>1. a + i \in 1..n /\ ~(a + i <= a) /\ (a + i) - a = i
      BY <1>7
    <3>2. f[a + i] = h[t[(a + i) - a]]
      BY <1>4, <3>1, Zenon
    <3>3. QED BY <1>6, <3>1, <3>2
  <2>2. QED BY <1>7, <2>1 DEF Splits
<1>11. Cat(n, f) = Join(Cat(a, f), Cat(b, e))
  BY <1>7, <1>8, <1>10, CatSplit
<1>12. Cat(a, f) = Cat(a, d)
  BY <1>7, <1>9, CatEqual
<1>13. QED BY <1>11, <1>12 DEF FlatMap, a, b, n, f, d, e

(* A map of a concatenation is the concatenation of the maps. *)
FlatOf(n, f, h, g) == \A i \in 1..n : g[i] = FlatMap(f[i], h)

(* FlatMap of parts one after the other, part by part.                       *)
LEMMA FlatCat ==
    ASSUME NEW O, NEW S, NEW n \in Nat, NEW f, NEW h, NEW g,
           Parts(n, f, O), Maps(h, O, S), FlatOf(n, f, h, g)
    PROVE  FlatMap(Cat(n, f), h) = Cat(n, g)
<1> DEFINE T == {m \in Nat : m <= n => FlatMap(Cat(m, f), h) = Cat(m, g)}
<1>1. 0 \in T
  BY CatSteps, FlatNil
<1>2. ASSUME NEW m \in Nat, m \in T PROVE m + 1 \in T
  <2>1. CASE m + 1 <= n
    <3>1. m <= n /\ m + 1 \in 1..n
      BY <2>1
    <3>2. FlatMap(Cat(m, f), h) = Cat(m, g)
      BY <1>2, <3>1
    <3>3. SeqOf(Cat(m, f), O) /\ SeqOf(f[m + 1], O)
      <4>1. Parts(m, f, O) /\ SeqOf(f[m + 1], O)
        BY <3>1 DEF Parts
      <4>2. QED BY <4>1, CatSeq
    <3>4. g[m + 1] = FlatMap(f[m + 1], h)
      BY <3>1, Zenon DEF FlatOf
    <3>5. FlatMap(Join(Cat(m, f), f[m + 1]), h) = Join(Cat(m, g), g[m + 1])
      BY <3>2, <3>3, <3>4, FlatJoin
    <3>6. FlatMap(Cat(m + 1, f), h) = Cat(m + 1, g)
      BY <3>5, CatSteps, Zenon
    <3>7. QED BY <3>6
  <2>2. QED BY <2>1
<1>3. n \in T
  <2> HIDE DEF T
  <2> QED BY <1>1, <1>2, SetInduction
<1>4. QED BY <1>3

Agree(h, e, O) == \A a \in O : h[a] = e[a]

(* FlatMap depends on the images alone.                                      *)
LEMMA FlatSame ==
    ASSUME NEW O, NEW s, NEW h, NEW e, SeqOf(s, O), Agree(h, e, O)
    PROVE  FlatMap(s, h) = FlatMap(s, e)
<1>1. Len(s) \in Nat /\ \A i \in 1..Len(s) : s[i] \in O
  BY SeqFacts
<1>2. \A i \in 1..Len(s) : Images(s, h)[i] = h[s[i]] /\ Images(s, e)[i] = e[s[i]]
  BY DEF Images
<1>3. Same(Len(s), Images(s, h), Images(s, e))
  BY <1>1, <1>2 DEF Same, Agree
<1>4. QED BY <1>1, <1>3, CatEqual DEF FlatMap

(* Two maps in turn are one. *)
Composes(h, e, g, O) == \A a \in O : g[a] = FlatMap(h[a], e)

(* FlatMap after FlatMap is FlatMap of the composition.                      *)
LEMMA FlatFlat ==
    ASSUME NEW O, NEW P, NEW S, NEW s, NEW h, NEW e, NEW g, SeqOf(s, O),
           Maps(h, O, P), Maps(e, P, S), Composes(h, e, g, O)
    PROVE  FlatMap(FlatMap(s, h), e) = FlatMap(s, g)
<1>1. Len(s) \in Nat /\ \A i \in 1..Len(s) : s[i] \in O
  BY SeqFacts
<1>2. Parts(Len(s), Images(s, h), P)
  BY ImageParts
<1>3. \A i \in 1..Len(s) : Images(s, h)[i] = h[s[i]] /\ Images(s, g)[i] = g[s[i]]
  BY DEF Images
<1>4. FlatOf(Len(s), Images(s, h), e, Images(s, g))
  BY <1>1, <1>3 DEF FlatOf, Composes
<1>5. QED BY <1>1, <1>2, <1>4, FlatCat DEF FlatMap

(* Elements mapped to themselves. *)
Wraps(h, O) == \A a \in O : h[a] = One(a)

(* FlatMap by the one-element map changes nothing.                           *)
LEMMA FlatWrap ==
    ASSUME NEW O, NEW s, NEW h, SeqOf(s, O), Wraps(h, O)
    PROVE  FlatMap(s, h) = s
<1>1. s \in Seq(O) /\ Len(s) \in Nat /\ \A i \in 1..Len(s) : s[i] \in O
  BY SeqFacts DEF SeqOf
<1> DEFINE T == {m \in Nat : m <= Len(s) => Cat(m, Images(s, h)) = SubSeq(s, 1, m)}
<1>2. 0 \in T
  <2>1. SubSeq(s, 1, 0) = Nil
    BY SubSeqEmpty DEF Nil
  <2>2. Cat(0, Images(s, h)) = SubSeq(s, 1, 0)
    BY <2>1, CatSteps
  <2>3. QED BY <2>2
<1>3. ASSUME NEW m \in Nat, m \in T PROVE m + 1 \in T
  <2>1. CASE m + 1 <= Len(s)
    <3>1. m <= Len(s) /\ m + 1 \in 1..Len(s) /\ 1 \in 1..Len(s) /\ (m + 1) - 1 = m
      BY <1>1, <2>1
    <3>2. Images(s, h)[m + 1] = One(s[m + 1])
      BY <1>1, <3>1 DEF Images, Wraps
    <3>3. SubSeq(s, 1, m + 1) = SubSeq(s, 1, (m + 1) - 1) \o <<s[m + 1]>>
      BY <1>1, <3>1, SubSeqRecursiveSecond
    <3>4. Cat(m + 1, Images(s, h)) = Join(Cat(m, Images(s, h)), One(s[m + 1]))
      BY <3>2, CatSteps, Zenon
    <3>5. Cat(m, Images(s, h)) = SubSeq(s, 1, m)
      BY <1>3, <3>1
    <3>6. Cat(m + 1, Images(s, h)) = SubSeq(s, 1, m + 1)
      BY <3>1, <3>3, <3>4, <3>5, Zenon DEF Join, One
    <3>7. QED BY <3>6
  <2>2. QED BY <2>1
<1>4. Len(s) \in T
  <2>1. \A m \in Nat : m \in T
    <3> HIDE DEF T
    <3>1. QED BY <1>2, <1>3, SetInduction
  <2>2. QED BY <1>1, <2>1
<1>5. Cat(Len(s), Images(s, h)) = SubSeq(s, 1, Len(s))
  BY <1>1, <1>4
<1>6. QED BY <1>1, <1>5, SubSeqFull DEF FlatMap

(* What is left of s after its first k elements. *)
Rest(s, k) == SubSeq(s, k + 1, Len(s))

(* What is left of a sequence after none, all or some of its elements.       *)
LEMMA RestFacts ==
    ASSUME NEW O, NEW s, SeqOf(s, O)
    PROVE  /\ Rest(s, 0) = s /\ Rest(s, Len(s)) = Nil
           /\ \A k \in 0..Len(s) : SeqOf(Rest(s, k), O)
<1>1. s \in Seq(O) /\ Len(s) \in Nat /\ \A i \in 1..Len(s) : s[i] \in O
  BY SeqFacts DEF SeqOf
<1>2. Rest(s, 0) = s
  BY <1>1, SubSeqFull DEF Rest
<1>3. Rest(s, Len(s)) = Nil
  BY <1>1, SubSeqEmpty DEF Rest, Nil
<1>4. ASSUME NEW k \in 0..Len(s) PROVE SeqOf(Rest(s, k), O)
  <2>1. k + 1 \in Int /\ Len(s) \in Int /\ \A i \in (k + 1)..Len(s) : s[i] \in O
    BY <1>1
  <2>2. QED BY <2>1, SubSeqProperties DEF Rest, SeqOf
<1>5. QED BY <1>2, <1>3, <1>4

(* What is left begins with the next element.                                *)
LEMMA RestStep ==
    ASSUME NEW O, NEW s, SeqOf(s, O), NEW k \in Nat, k < Len(s)
    PROVE  /\ s[k + 1] \in O
           /\ Rest(s, k) = Join(One(s[k + 1]), Rest(s, k + 1))
<1>1. s \in Seq(O) /\ Len(s) \in Nat /\ \A i \in 1..Len(s) : s[i] \in O
  BY SeqFacts DEF SeqOf
<1>2. k + 1 \in 1..Len(s) /\ Len(s) \in (k + 1)..Len(s)
  BY <1>1
<1>3. SubSeq(s, k + 1, Len(s)) = <<s[k + 1]>> \o SubSeq(s, (k + 1) + 1, Len(s))
  BY <1>1, <1>2, SubSeqRecursiveFirst
<1>4. QED BY <1>1, <1>2, <1>3, Zenon DEF Rest, Join, One

(* A pair is two sequences of one, joined.                                   *)
LEMMA TwoJoin == \A a : \A b : <<a, b>> = Join(One(a), One(b))
<1> SUFFICES ASSUME NEW a, NEW b PROVE <<a, b>> = Join(One(a), One(b))
  OBVIOUS
<1> DEFINE S == {a, b}
<1>1. <<a>> \in Seq(S) /\ <<b>> \in Seq(S) /\ <<a, b>> \in Seq(S)
      /\ Len(<<a>>) = 1 /\ Len(<<b>>) = 1 /\ Len(<<a, b>>) = 2
  OBVIOUS
<1>2. /\ <<a>> \o <<b>> \in Seq(S) /\ Len(<<a>> \o <<b>>) = 2
      /\ \A i \in 1..2 : (<<a>> \o <<b>>)[i] = IF i <= 1 THEN <<a>>[i] ELSE <<b>>[i - 1]
  BY <1>1, ConcatProperties
<1>3. \A i \in 1..2 : <<a, b>>[i] = (<<a>> \o <<b>>)[i]
  <2>1. \A i \in 1..2 : i = 1 \/ i = 2
    OBVIOUS
  <2>2. (<<a>> \o <<b>>)[1] = a /\ (<<a>> \o <<b>>)[2] = b
    BY <1>2
  <2>3. <<a, b>>[1] = a /\ <<a, b>>[2] = b
    OBVIOUS
  <2>4. QED BY <2>1, <2>2, <2>3, Zenon
<1>4. <<a, b>> = <<a>> \o <<b>>
  BY <1>1, <1>2, <1>3, SeqEqual
<1>5. QED BY <1>4 DEF Join, One

-----------------------------------------------------------------------------
(* Tasks, words and operations; the words of a loop.                        *)

(* What travels on a stream, and the micro-operations of a process. *)
Kinds == {"task", "rtask", "mm", "v0", "v1", "out"}
VectorModes == PairModes \cup RowModes
Words == Nat \X Nat \X Nat
Tasks ==
    {MmTask(x, w, k, n, last) : x \in Nat, w \in Nat, k \in Nat, n \in Nat, last \in BOOLEAN}
      \cup {VectorTask(x, m, n, last) : x \in Nat, m \in VectorModes, n \in Nat, last \in BOOLEAN}
      \cup {StopTask}
Items == Words \cup Tasks
Ops == [do : {"take", "put", "move"}, kind : Kinds, word : Items]

(* The fields of a task the controller can send.                             *)
LEMMA TaskShape ==
    ASSUME NEW t \in Tasks
    PROVE  /\ t.mode \in {"MM", "STOP"} \cup VectorModes
           /\ t.k \in Nat /\ t.rows \in Nat /\ t.reps \in Nat /\ t.wave \in Nat /\ t.exch \in Nat
           /\ t.last \in BOOLEAN
           /\ t.mode # "MM" => t.reps = 1 /\ t.wave = 0
<1>1. CASE \E x, w, k, n \in Nat, last \in BOOLEAN : t = MmTask(x, w, k, n, last)
  BY <1>1 DEF MmTask
<1>2. CASE \E x, n \in Nat, m \in VectorModes, last \in BOOLEAN : t = VectorTask(x, m, n, last)
  BY <1>2 DEF VectorTask, VectorModes, PairModes, RowModes
<1>3. CASE t = StopTask
  BY <1>3 DEF StopTask
<1>4. QED BY <1>1, <1>2, <1>3 DEF Tasks

(* The three constructors make tasks.                                        *)
LEMMA TaskKinds ==
    /\ \A x, w, k, n \in Nat, last \in BOOLEAN : MmTask(x, w, k, n, last) \in Tasks
    /\ \A x, n \in Nat, m \in VectorModes, last \in BOOLEAN : VectorTask(x, m, n, last) \in Tasks
    /\ StopTask \in Tasks
BY DEF Tasks

(* What a micro-operation puts on, and takes from, the stream of kind k. *)
PutOf(k) == [op \in Ops |-> IF op.kind = k /\ op.do # "take" THEN One(op.word) ELSE Nil]
TakeOf(k) == [op \in Ops |-> IF op.kind = k /\ op.do # "put" THEN One(op.word) ELSE Nil]

(* The words an operation puts or takes are items.                           *)
LEMMA OpMaps ==
    ASSUME NEW k
    PROVE  Maps(PutOf(k), Ops, Items) /\ Maps(TakeOf(k), Ops, Items)
<1>1. ASSUME NEW op \in Ops
      PROVE  SeqOf(PutOf(k)[op], Items) /\ SeqOf(TakeOf(k)[op], Items)
  <2>1. op.word \in Items
    BY DEF Ops
  <2>2. SeqOf(One(op.word), Items) /\ SeqOf(Nil, Items)
    BY <2>1, OneSeq, NilSeq
  <2>3. QED BY <2>2 DEF PutOf, TakeOf
<1>2. QED BY <1>1 DEF Maps

(* w[1] .. w[n] one after the other, and the loop of n micro-operations on them. *)
Ones(n, w) == Cat(n, [i \in 1..n |-> One(w[i])])
OpLoop(n, f, d, kind, w) ==
    \A i \in 1..n : w[i] \in Items /\ f[i] = One([do |-> d, kind |-> kind, word |-> w[i]])

(* A loop's words are a sequence over the words' set.                        *)
LEMMA OnesSeq ==
    ASSUME NEW S, NEW n \in Nat, NEW w, \A i \in 1..n : w[i] \in S
    PROVE  SeqOf(Ones(n, w), S)
<1> DEFINE f == [i \in 1..n |-> One(w[i])]
<1>1. Parts(n, f, S)
  BY OneSeq DEF Parts
<1> HIDE DEF f
<1>2. SeqOf(Cat(n, f), S)
  BY <1>1, CatSeq
<1>3. QED BY <1>2 DEF Ones, f

(* A loop's words depend on its iterations alone.                            *)
LEMMA OnesSame ==
    ASSUME NEW n \in Nat, NEW w, NEW v, \A i \in 1..n : w[i] = v[i]
    PROVE  Ones(n, w) = Ones(n, v)
<1> DEFINE f == [i \in 1..n |-> One(w[i])]
           g == [i \in 1..n |-> One(v[i])]
<1>1. Same(n, f, g)
  BY DEF Same
<1> HIDE DEF f, g
<1>2. Cat(n, f) = Cat(n, g)
  BY <1>1, CatEqual
<1>3. QED BY <1>2 DEF Ones, f, g

(* The words a loop puts and takes. *)
LEMMA LoopWords ==
    ASSUME NEW n \in Nat, NEW f, NEW d \in {"take", "put", "move"}, NEW kind \in Kinds,
           NEW w, OpLoop(n, f, d, kind, w), NEW k
    PROVE  /\ SeqOf(Cat(n, f), Ops)
           /\ FlatMap(Cat(n, f), PutOf(k))
                = IF kind = k /\ d # "take" THEN Ones(n, w) ELSE Nil
           /\ FlatMap(Cat(n, f), TakeOf(k))
                = IF kind = k /\ d # "put" THEN Ones(n, w) ELSE Nil
<1> DEFINE o == [i \in 1..n |-> [do |-> d, kind |-> kind, word |-> w[i]]]
           p == [i \in 1..n |-> PutOf(k)[o[i]]]
           q == [i \in 1..n |-> TakeOf(k)[o[i]]]
           e == [i \in 1..n |-> One(w[i])]
<1>1. \A i \in 1..n : o[i] \in Ops /\ f[i] = One(o[i])
  BY DEF OpLoop, Ops
<1>2. \A i \in 1..n : p[i] = IF kind = k /\ d # "take" THEN e[i] ELSE Nil
  BY <1>1 DEF PutOf
<1>3. \A i \in 1..n : q[i] = IF kind = k /\ d # "put" THEN e[i] ELSE Nil
  BY <1>1 DEF TakeOf
<1>4. \A i \in 1..n : p[i] = PutOf(k)[o[i]] /\ q[i] = TakeOf(k)[o[i]]
  OBVIOUS
<1> HIDE DEF o, p, q, e
<1>5. Parts(n, f, Ops)
  BY <1>1, OneSeq DEF Parts
<1>6. FlatOf(n, f, PutOf(k), p) /\ FlatOf(n, f, TakeOf(k), q)
  BY <1>1, <1>4, OpMaps, FlatOne DEF FlatOf
<1>7. FlatMap(Cat(n, f), PutOf(k)) = Cat(n, p) /\ FlatMap(Cat(n, f), TakeOf(k)) = Cat(n, q)
  BY <1>5, <1>6, OpMaps, FlatCat
<1>8. Cat(n, p) = IF kind = k /\ d # "take" THEN Cat(n, e) ELSE Nil
  <2>1. CASE kind = k /\ d # "take"
    <3>1. Same(n, p, e)
      BY <1>2, <2>1 DEF Same
    <3>2. QED BY <2>1, <3>1, CatEqual
  <2>2. CASE ~(kind = k /\ d # "take")
    <3>1. Empty(n, p)
      BY <1>2, <2>2 DEF Empty
    <3>2. QED BY <2>2, <3>1, CatNone
  <2>3. QED BY <2>1, <2>2
<1>9. Cat(n, q) = IF kind = k /\ d # "put" THEN Cat(n, e) ELSE Nil
  <2>1. CASE kind = k /\ d # "put"
    <3>1. Same(n, q, e)
      BY <1>3, <2>1 DEF Same
    <3>2. QED BY <2>1, <3>1, CatEqual
  <2>2. CASE ~(kind = k /\ d # "put")
    <3>1. Empty(n, q)
      BY <1>3, <2>2 DEF Empty
    <3>2. QED BY <2>2, <3>1, CatNone
  <2>3. QED BY <2>1, <2>2
<1>10. SeqOf(Cat(n, f), Ops)
  BY <1>5, CatSeq
<1>11. Cat(n, e) = Ones(n, w)
  BY DEF Ones, e
<1>12. QED BY <1>7, <1>8, <1>9, <1>10, <1>11

-----------------------------------------------------------------------------
(* What a task moves on each stream; the forwarders of the inputs.          *)

(* The words of one task on each stream. *)
RowWord(t) == [i \in Nat |-> Word(t, 0, i)]
WaveWord(t, r) == [i \in Nat |-> Word(t, WaveOf(t, r), i)]
Row(t, n) == Ones(n, RowWord(t))
WaveWords(t, n) == [r \in 1..Repeats(t) |-> Ones(n, WaveWord(t, r))]
MmWords(t, n) == Cat(Repeats(t), WaveWords(t, n))
V1Rows(t) == IF t.mode = "RMSNORM" THEN 1 ELSE IF t.mode \in PairModes THEN t.rows ELSE 0
Flow(k) ==
    [t \in Tasks |->
        CASE k \in {"task", "rtask"} -> One(t)
          [] k = "mm" -> IF UsesMm(t) THEN MmWords(t, t.k) ELSE Nil
          [] k = "v0" -> IF t.mode \in VectorModes THEN Row(t, t.rows * Blocks) ELSE Nil
          [] k = "v1" -> IF t.mode \in VectorModes THEN Row(t, V1Rows(t) * Blocks) ELSE Nil
          [] k = "out" -> IF UsesMm(t) THEN MmWords(t, Packets)
                          ELSE IF t.mode \in VectorModes THEN Row(t, t.rows * Blocks)
                          ELSE Nil]

(* The packet counts are natural numbers.                                    *)
LEMMA Sizes == Blocks \in Nat /\ Packets \in Nat /\ PairLatency \in Nat
BY BlocksAssumption, PacketsAssumption, PairLatencyAssumption

(* A task repeats a number of times, a vector task once.                     *)
LEMMA RepeatCount ==
    ASSUME NEW t \in Tasks
    PROVE  Repeats(t) \in Nat /\ (t.mode # "MM" => Repeats(t) = 1)
BY TaskShape DEF Repeats

(* The words of a task are items.                                            *)
LEMMA WordsAreItems ==
    ASSUME NEW t \in Tasks
    PROVE  /\ \A i \in Nat : RowWord(t)[i] \in Items /\ RowWord(t)[i] = Word(t, 0, i)
           /\ \A r \in 1..Repeats(t) : \A i \in Nat :
                /\ WaveWord(t, r)[i] \in Items
                /\ WaveWord(t, r)[i] = Word(t, WaveOf(t, r), i)
<1>1. ASSUME NEW i \in Nat PROVE RowWord(t)[i] \in Items /\ RowWord(t)[i] = Word(t, 0, i)
  <2>1. Word(t, 0, i) \in Items
    BY TaskShape DEF Word, Items, Words
  <2>2. QED BY <2>1 DEF RowWord
<1>2. ASSUME NEW r \in 1..Repeats(t), NEW i \in Nat
      PROVE  WaveWord(t, r)[i] \in Items /\ WaveWord(t, r)[i] = Word(t, WaveOf(t, r), i)
  <2>1. t.wave + r - 1 \in Nat
    BY TaskShape, RepeatCount
  <2>2. Word(t, WaveOf(t, r), i) \in Items
    BY <2>1, TaskShape DEF Word, Items, Words, WaveOf
  <2>3. QED BY <2>2 DEF WaveWord
<1>3. QED BY <1>1, <1>2

(* The words of a vector task's rows are items.                              *)
LEMMA RowSeq ==
    ASSUME NEW t \in Tasks, NEW n \in Nat
    PROVE  SeqOf(Row(t, n), Items)
<1>1. \A i \in 1..n : RowWord(t)[i] \in Items
  BY WordsAreItems
<1>2. QED BY <1>1, OnesSeq DEF Row

(* The words of an MM task's waves are items.                                *)
LEMMA MmSeq ==
    ASSUME NEW t \in Tasks, NEW n \in Nat
    PROVE  SeqOf(MmWords(t, n), Items) /\ Parts(Repeats(t), WaveWords(t, n), Items)
<1>1. ASSUME NEW r \in 1..Repeats(t) PROVE SeqOf(WaveWords(t, n)[r], Items)
  <2>1. \A i \in 1..n : WaveWord(t, r)[i] \in Items
    BY WordsAreItems
  <2>2. SeqOf(Ones(n, WaveWord(t, r)), Items)
    BY <2>1, OnesSeq
  <2>3. QED BY <2>2 DEF WaveWords
<1>2. Parts(Repeats(t), WaveWords(t, n), Items)
  BY <1>1 DEF Parts
<1>3. QED BY <1>2, RepeatCount, CatSeq DEF MmWords

(* The operand rows of a task are natural numbers.                           *)
LEMMA V1Facts == ASSUME NEW t \in Tasks PROVE V1Rows(t) * Blocks \in Nat /\ t.rows * Blocks \in Nat
<1>1. V1Rows(t) \in Nat /\ t.rows \in Nat /\ Blocks \in Nat
  BY TaskShape, Sizes DEF V1Rows
<1>2. QED BY <1>1, SMT

(* What a task contributes to a stream is a sequence of items.               *)
LEMMA FlowMaps == ASSUME NEW k \in Kinds PROVE Maps(Flow(k), Tasks, Items)
<1>1. ASSUME NEW t \in Tasks PROVE SeqOf(Flow(k)[t], Items)
  <2>1. SeqOf(One(t), Items)
    BY OneSeq DEF Items
  <2>2. SeqOf(Nil, Items)
    BY NilSeq
  <2>3. SeqOf(MmWords(t, t.k), Items) /\ SeqOf(MmWords(t, Packets), Items)
    BY MmSeq, Sizes, TaskShape
  <2>4. SeqOf(Row(t, t.rows * Blocks), Items) /\ SeqOf(Row(t, V1Rows(t) * Blocks), Items)
    BY RowSeq, V1Facts
  <2>5. QED BY <2>1, <2>2, <2>3, <2>4 DEF Flow, Kinds
<1>2. QED BY <1>1 DEF Maps

(* The repeats of an MM task, each a loop of n micro-operations. *)
WaveLoops(t, n, g, d, kind) ==
    \A r \in 1..Repeats(t) : \E f : g[r] = Cat(n, f) /\ OpLoop(n, f, d, kind, WaveWord(t, r))

(* The words of a loop over waves that uses one stream.                      *)
LEMMA WaveLoopWords ==
    ASSUME NEW t \in Tasks, NEW n \in Nat, NEW g, NEW d \in {"take", "put", "move"},
           NEW kind \in Kinds, WaveLoops(t, n, g, d, kind), NEW k
    PROVE  /\ SeqOf(Cat(Repeats(t), g), Ops)
           /\ FlatMap(Cat(Repeats(t), g), PutOf(k))
                = IF kind = k /\ d # "take" THEN MmWords(t, n) ELSE Nil
           /\ FlatMap(Cat(Repeats(t), g), TakeOf(k))
                = IF kind = k /\ d # "put" THEN MmWords(t, n) ELSE Nil
<1> DEFINE N == Repeats(t)
           e == WaveWords(t, n)
           p == [r \in 1..N |-> FlatMap(g[r], PutOf(k))]
           q == [r \in 1..N |-> FlatMap(g[r], TakeOf(k))]
<1>1. N \in Nat
  BY RepeatCount
<1>2. \A r \in 1..N : p[r] = FlatMap(g[r], PutOf(k)) /\ q[r] = FlatMap(g[r], TakeOf(k))
  OBVIOUS
<1>3. \A r \in 1..N : e[r] = Ones(n, WaveWord(t, r))
  BY DEF WaveWords
<1>4. \A r \in 1..N : \E f : g[r] = Cat(n, f) /\ OpLoop(n, f, d, kind, WaveWord(t, r))
  BY DEF WaveLoops
<1>5. MmWords(t, n) = Cat(N, e)
  BY DEF MmWords
<1> HIDE DEF N, e, p, q
<1>6. ASSUME NEW r \in 1..N
      PROVE  /\ SeqOf(g[r], Ops)
             /\ p[r] = IF kind = k /\ d # "take" THEN e[r] ELSE Nil
             /\ q[r] = IF kind = k /\ d # "put" THEN e[r] ELSE Nil
  <2>1. PICK f : g[r] = Cat(n, f) /\ OpLoop(n, f, d, kind, WaveWord(t, r))
    BY <1>4
  <2>2. /\ SeqOf(Cat(n, f), Ops)
        /\ FlatMap(Cat(n, f), PutOf(k))
             = IF kind = k /\ d # "take" THEN Ones(n, WaveWord(t, r)) ELSE Nil
        /\ FlatMap(Cat(n, f), TakeOf(k))
             = IF kind = k /\ d # "put" THEN Ones(n, WaveWord(t, r)) ELSE Nil
    BY <2>1, LoopWords
  <2>3. QED BY <1>2, <1>3, <2>1, <2>2
<1>7. Parts(N, g, Ops) /\ FlatOf(N, g, PutOf(k), p) /\ FlatOf(N, g, TakeOf(k), q)
  BY <1>2, <1>6 DEF Parts, FlatOf
<1>8. /\ SeqOf(Cat(N, g), Ops)
      /\ FlatMap(Cat(N, g), PutOf(k)) = Cat(N, p)
      /\ FlatMap(Cat(N, g), TakeOf(k)) = Cat(N, q)
  BY <1>1, <1>7, OpMaps, FlatCat, CatSeq
<1>9. Cat(N, p) = IF kind = k /\ d # "take" THEN Cat(N, e) ELSE Nil
  <2>1. CASE kind = k /\ d # "take"
    <3>1. Same(N, p, e)
      BY <1>6, <2>1 DEF Same
    <3>2. QED BY <1>1, <2>1, <3>1, CatEqual
  <2>2. CASE ~(kind = k /\ d # "take")
    <3>1. Empty(N, p)
      BY <1>6, <2>2 DEF Empty
    <3>2. QED BY <1>1, <2>2, <3>1, CatNone
  <2>3. QED BY <2>1, <2>2
<1>10. Cat(N, q) = IF kind = k /\ d # "put" THEN Cat(N, e) ELSE Nil
  <2>1. CASE kind = k /\ d # "put"
    <3>1. Same(N, q, e)
      BY <1>6, <2>1 DEF Same
    <3>2. QED BY <1>1, <2>1, <3>1, CatEqual
  <2>2. CASE ~(kind = k /\ d # "put")
    <3>1. Empty(N, q)
      BY <1>6, <2>2 DEF Empty
    <3>2. QED BY <1>1, <2>2, <3>1, CatNone
  <2>3. QED BY <2>1, <2>2
<1>11. QED BY <1>5, <1>8, <1>9, <1>10 DEF N

(* One micro-operation, and a loop on the words of a row. *)
LEMMA OpWord ==
    ASSUME NEW d \in {"take", "put", "move"}, NEW kind \in Kinds, NEW w \in Items, NEW k
    PROVE  LET a == One([do |-> d, kind |-> kind, word |-> w])
           IN  /\ SeqOf(a, Ops)
               /\ FlatMap(a, PutOf(k)) = IF kind = k /\ d # "take" THEN One(w) ELSE Nil
               /\ FlatMap(a, TakeOf(k)) = IF kind = k /\ d # "put" THEN One(w) ELSE Nil
<1> DEFINE o == [do |-> d, kind |-> kind, word |-> w]
<1>1. /\ o \in Ops
      /\ PutOf(k)[o] = IF kind = k /\ d # "take" THEN One(w) ELSE Nil
      /\ TakeOf(k)[o] = IF kind = k /\ d # "put" THEN One(w) ELSE Nil
  BY DEF Ops, PutOf, TakeOf
<1> HIDE DEF o
<1>2. /\ SeqOf(One(o), Ops)
      /\ FlatMap(One(o), PutOf(k)) = PutOf(k)[o]
      /\ FlatMap(One(o), TakeOf(k)) = TakeOf(k)[o]
  BY <1>1, OneSeq, FlatOne, OpMaps
<1>3. QED BY <1>1, <1>2 DEF o

RowLoop(t, n, f, d, kind) ==
    \A i \in 1..n : f[i] = One([do |-> d, kind |-> kind, word |-> Word(t, 0, i)])

(* The words of a loop over rows that uses one stream.                       *)
LEMMA RowLoopWords ==
    ASSUME NEW t \in Tasks, NEW n \in Nat, NEW f, NEW d \in {"take", "put", "move"},
           NEW kind \in Kinds, RowLoop(t, n, f, d, kind), NEW k
    PROVE  /\ SeqOf(Cat(n, f), Ops)
           /\ FlatMap(Cat(n, f), PutOf(k))
                = IF kind = k /\ d # "take" THEN Row(t, n) ELSE Nil
           /\ FlatMap(Cat(n, f), TakeOf(k))
                = IF kind = k /\ d # "put" THEN Row(t, n) ELSE Nil
<1>1. OpLoop(n, f, d, kind, RowWord(t))
  BY WordsAreItems DEF OpLoop, RowLoop
<1>2. QED BY <1>1, LoopWords DEF Row

(* No rows, no words.                                                        *)
LEMMA RowZero == ASSUME NEW t PROVE Row(t, 0) = Nil
BY CatSteps DEF Row, Ones

(* A loop that moves a pair of operands at a time. *)
LEMMA PairLoopWords ==
    ASSUME NEW t \in Tasks, NEW n \in Nat, NEW f, NEW k \in Kinds,
           \A i \in 1..n : f[i] = Join(
               One([do |-> "move", kind |-> "v0", word |-> Word(t, 0, i)]),
               One([do |-> "move", kind |-> "v1", word |-> Word(t, 0, i)]))
    PROVE  /\ SeqOf(Cat(n, f), Ops)
           /\ FlatMap(Cat(n, f), PutOf(k)) = IF k \in {"v0", "v1"} THEN Row(t, n) ELSE Nil
           /\ FlatMap(Cat(n, f), TakeOf(k)) = IF k \in {"v0", "v1"} THEN Row(t, n) ELSE Nil
<1> DEFINE w == RowWord(t)
           e == [i \in 1..n |-> One(w[i])]
           g == [i \in 1..n |-> IF k \in {"v0", "v1"} THEN e[i] ELSE Nil]
<1>1. ASSUME NEW i \in 1..n
      PROVE  SeqOf(f[i], Ops) /\ FlatMap(f[i], PutOf(k)) = g[i] /\ FlatMap(f[i], TakeOf(k)) = g[i]
  <2> DEFINE x == Word(t, 0, i)
             a == One([do |-> "move", kind |-> "v0", word |-> x])
             b == One([do |-> "move", kind |-> "v1", word |-> x])
  <2>1. x \in Items /\ w[i] = x
    BY WordsAreItems
  <2>2. f[i] = Join(a, b)
    OBVIOUS
  <2>3. g[i] = IF k \in {"v0", "v1"} THEN One(x) ELSE Nil
    BY <2>1
  <2> HIDE DEF x, w, e, g
  <2>4. "v0" \in Kinds /\ "v1" \in Kinds /\ "move" \in {"take", "put", "move"}
    BY DEF Kinds
  <2>5. /\ SeqOf(a, Ops)
        /\ FlatMap(a, PutOf(k)) = IF "v0" = k THEN One(x) ELSE Nil
        /\ FlatMap(a, TakeOf(k)) = IF "v0" = k THEN One(x) ELSE Nil
    BY <2>1, <2>4, OpWord
  <2>6. /\ SeqOf(b, Ops)
        /\ FlatMap(b, PutOf(k)) = IF "v1" = k THEN One(x) ELSE Nil
        /\ FlatMap(b, TakeOf(k)) = IF "v1" = k THEN One(x) ELSE Nil
    BY <2>1, <2>4, OpWord
  <2> HIDE DEF a, b
  <2>7. /\ SeqOf(f[i], Ops)
        /\ FlatMap(f[i], PutOf(k)) = Join(FlatMap(a, PutOf(k)), FlatMap(b, PutOf(k)))
        /\ FlatMap(f[i], TakeOf(k)) = Join(FlatMap(a, TakeOf(k)), FlatMap(b, TakeOf(k)))
    BY <2>2, <2>5, <2>6, JoinSeq, FlatJoin, OpMaps
  <2>8. Join(One(x), Nil) = One(x) /\ Join(Nil, One(x)) = One(x) /\ Join(Nil, Nil) = Nil
    BY <2>1, OneSeq, JoinNil, NilNil
  <2>9. QED BY <2>3, <2>5, <2>6, <2>7, <2>8
<1>2. \A i \in 1..n : g[i] = IF k \in {"v0", "v1"} THEN e[i] ELSE Nil
  OBVIOUS
<1>3. Cat(n, e) = Row(t, n)
  BY DEF Row, Ones
<1> HIDE DEF w, e, g
<1>4. Parts(n, f, Ops) /\ FlatOf(n, f, PutOf(k), g) /\ FlatOf(n, f, TakeOf(k), g)
  BY <1>1 DEF Parts, FlatOf
<1>5. /\ SeqOf(Cat(n, f), Ops) /\ FlatMap(Cat(n, f), PutOf(k)) = Cat(n, g)
      /\ FlatMap(Cat(n, f), TakeOf(k)) = Cat(n, g)
  BY <1>4, OpMaps, CatSeq, FlatCat
<1>6. Cat(n, g) = IF k \in {"v0", "v1"} THEN Row(t, n) ELSE Nil
  <2>1. CASE k \in {"v0", "v1"}
    <3>1. Same(n, g, e)
      BY <1>2, <2>1 DEF Same
    <3>2. QED BY <1>3, <2>1, <3>1, CatEqual
  <2>2. CASE k \notin {"v0", "v1"}
    <3>1. Empty(n, g)
      BY <1>2, <2>2 DEF Empty
    <3>2. QED BY <2>2, <3>1, CatNone
  <2>3. QED BY <2>1, <2>2
<1>7. QED BY <1>5, <1>6

(* What in h moves for one task. *)
LEMMA InputFlow ==
    ASSUME NEW t \in Tasks, NEW k \in Kinds
    PROVE  /\ SeqOf(InputPlan(t), Ops)
           /\ FlatMap(InputPlan(t), PutOf(k))
                = IF k \in {"mm", "v0", "v1"} THEN Flow(k)[t] ELSE Nil
           /\ FlatMap(InputPlan(t), TakeOf(k))
                = IF k \in {"mm", "v0", "v1"} THEN Flow(k)[t] ELSE Nil
<1> DEFINE n == t.rows * Blocks
           L(kind, m) == [i \in 1..m |-> <<Move(kind, Word(t, 0, i))>>]
           W(r) == [i \in 1..t.k |-> <<Move("mm", Word(t, WaveOf(t, r), i))>>]
           G == [r \in 1..Repeats(t) |-> Cat(t.k, W(r))]
           pair == [i \in 1..n |-> <<Move("v0", Word(t, 0, i)), Move("v1", Word(t, 0, i))>>]
<1>1. n \in Nat /\ Blocks \in Nat /\ t.k \in Nat
  BY V1Facts, Sizes, TaskShape
<1>2. Flow(k)[t] = CASE k \in {"task", "rtask"} -> One(t)
          [] k = "mm" -> IF UsesMm(t) THEN MmWords(t, t.k) ELSE Nil
          [] k = "v0" -> IF t.mode \in VectorModes THEN Row(t, n) ELSE Nil
          [] k = "v1" -> IF t.mode \in VectorModes THEN Row(t, V1Rows(t) * Blocks) ELSE Nil
          [] k = "out" -> IF UsesMm(t) THEN MmWords(t, Packets)
                          ELSE IF t.mode \in VectorModes THEN Row(t, n) ELSE Nil
  BY DEF Flow
<1>3. CASE t.mode = "MM"
  <2>1. InputPlan(t) = Cat(Repeats(t), G)
    BY <1>3 DEF InputPlan, Times, UsesMm, MmModes, PairModes
  <2>2. WaveLoops(t, t.k, G, "move", "mm")
    <3>1. ASSUME NEW r \in 1..Repeats(t)
          PROVE  G[r] = Cat(t.k, W(r)) /\ OpLoop(t.k, W(r), "move", "mm", WaveWord(t, r))
      BY WordsAreItems DEF OpLoop, Move, One
    <3> HIDE DEF G, W
    <3>2. QED BY <3>1 DEF WaveLoops
  <2>3. UsesMm(t) /\ t.mode \notin VectorModes
    BY <1>3 DEF UsesMm, MmModes, VectorModes, PairModes, RowModes
  <2>4. "mm" \in Kinds
    BY DEF Kinds
  <2> HIDE DEF G, n
  <2>5. /\ SeqOf(InputPlan(t), Ops)
        /\ FlatMap(InputPlan(t), PutOf(k)) = IF "mm" = k THEN MmWords(t, t.k) ELSE Nil
        /\ FlatMap(InputPlan(t), TakeOf(k)) = IF "mm" = k THEN MmWords(t, t.k) ELSE Nil
    BY <1>1, <2>1, <2>2, <2>4, WaveLoopWords
  <2>6. QED BY <1>2, <2>3, <2>5 DEF Kinds
<1>4. CASE t.mode = "RMSNORM"
  <2> DEFINE A == Cat(Blocks, L("v1", Blocks))
             B == Cat(n, L("v0", n))
  <2>1. InputPlan(t) = Join(A, B)
    BY <1>4 DEF InputPlan, Times, UsesMm, MmModes, PairModes, Join
  <2>2. RowLoop(t, Blocks, L("v1", Blocks), "move", "v1") /\ RowLoop(t, n, L("v0", n), "move", "v0")
    BY DEF RowLoop, Move, One
  <2>3. ~UsesMm(t) /\ t.mode \in VectorModes /\ V1Rows(t) * Blocks = Blocks
    BY <1>1, <1>4 DEF UsesMm, MmModes, VectorModes, PairModes, RowModes, V1Rows
  <2>4. "v0" \in Kinds /\ "v1" \in Kinds
    BY DEF Kinds
  <2> HIDE DEF L, n
  <2>5. /\ SeqOf(A, Ops)
        /\ FlatMap(A, PutOf(k)) = IF "v1" = k THEN Row(t, Blocks) ELSE Nil
        /\ FlatMap(A, TakeOf(k)) = IF "v1" = k THEN Row(t, Blocks) ELSE Nil
    BY <1>1, <2>2, <2>4, RowLoopWords
  <2>6. /\ SeqOf(B, Ops)
        /\ FlatMap(B, PutOf(k)) = IF "v0" = k THEN Row(t, n) ELSE Nil
        /\ FlatMap(B, TakeOf(k)) = IF "v0" = k THEN Row(t, n) ELSE Nil
    BY <1>1, <2>2, <2>4, RowLoopWords
  <2> HIDE DEF A, B
  <2>7. /\ SeqOf(InputPlan(t), Ops)
        /\ FlatMap(InputPlan(t), PutOf(k)) = Join(FlatMap(A, PutOf(k)), FlatMap(B, PutOf(k)))
        /\ FlatMap(InputPlan(t), TakeOf(k)) = Join(FlatMap(A, TakeOf(k)), FlatMap(B, TakeOf(k)))
    BY <2>1, <2>5, <2>6, JoinSeq, FlatJoin, OpMaps
  <2>8. SeqOf(Row(t, Blocks), Items) /\ SeqOf(Row(t, n), Items)
    BY <1>1, RowSeq
  <2>9. /\ Join(Row(t, Blocks), Nil) = Row(t, Blocks) /\ Join(Nil, Row(t, n)) = Row(t, n)
        /\ Join(Nil, Nil) = Nil
    BY <2>8, JoinNil, NilNil
  <2>10. QED BY <1>2, <2>3, <2>5, <2>6, <2>7, <2>9 DEF Kinds
<1>5. CASE t.mode = "SOFTMAX"
  <2>1. InputPlan(t) = Cat(n, L("v0", n))
    BY <1>5 DEF InputPlan, Times, UsesMm, MmModes, PairModes
  <2>2. RowLoop(t, n, L("v0", n), "move", "v0")
    BY DEF RowLoop, Move, One
  <2>3. ~UsesMm(t) /\ t.mode \in VectorModes /\ V1Rows(t) * Blocks = 0
    BY <1>1, <1>5 DEF UsesMm, MmModes, VectorModes, PairModes, RowModes, V1Rows
  <2>4. "v0" \in Kinds
    BY DEF Kinds
  <2> HIDE DEF L, n
  <2>5. /\ SeqOf(InputPlan(t), Ops)
        /\ FlatMap(InputPlan(t), PutOf(k)) = IF "v0" = k THEN Row(t, n) ELSE Nil
        /\ FlatMap(InputPlan(t), TakeOf(k)) = IF "v0" = k THEN Row(t, n) ELSE Nil
    BY <1>1, <2>1, <2>2, <2>4, RowLoopWords
  <2>6. QED BY <1>2, <2>3, <2>5, RowZero DEF Kinds
<1>6. CASE t.mode \in PairModes
  <2>1. InputPlan(t) = Cat(n, pair)
    BY <1>6 DEF InputPlan, Times, UsesMm, MmModes, PairModes
  <2>2. \A i \in 1..n : pair[i] = Join(
               One([do |-> "move", kind |-> "v0", word |-> Word(t, 0, i)]),
               One([do |-> "move", kind |-> "v1", word |-> Word(t, 0, i)]))
    <3>1. \A i \in 1..n : pair[i] = <<Move("v0", Word(t, 0, i)), Move("v1", Word(t, 0, i))>>
      OBVIOUS
    <3>2. QED BY <3>1, TwoJoin, Zenon DEF Move
  <2>3. ~UsesMm(t) /\ t.mode \in VectorModes /\ V1Rows(t) * Blocks = n
    BY <1>6 DEF UsesMm, MmModes, VectorModes, PairModes, RowModes, V1Rows
  <2> HIDE DEF pair, n
  <2>5. /\ SeqOf(InputPlan(t), Ops)
        /\ FlatMap(InputPlan(t), PutOf(k)) = IF k \in {"v0", "v1"} THEN Row(t, n) ELSE Nil
        /\ FlatMap(InputPlan(t), TakeOf(k)) = IF k \in {"v0", "v1"} THEN Row(t, n) ELSE Nil
    BY <1>1, <2>1, <2>2, PairLoopWords
  <2>6. QED BY <1>2, <2>3, <2>5 DEF Kinds
<1>7. CASE t.mode = "STOP"
  <2>1. InputPlan(t) = Nil
    BY <1>7 DEF InputPlan, UsesMm, MmModes, PairModes, Nil
  <2>2. ~UsesMm(t) /\ t.mode \notin VectorModes
    BY <1>7 DEF UsesMm, MmModes, VectorModes, PairModes, RowModes
  <2> HIDE DEF n
  <2>3. QED BY <1>2, <2>1, <2>2, FlatNil, NilSeq DEF Kinds
<1>8. QED BY <1>3, <1>4, <1>5, <1>6, <1>7, TaskShape DEF VectorModes, RowModes

-----------------------------------------------------------------------------
(* The forwarders of the results.                                           *)

(* A vector task has one repeat, at wave 0. *)
LEMMA VectorWords ==
    ASSUME NEW t \in Tasks, t.mode # "MM", NEW n \in Nat
    PROVE  MmWords(t, n) = Row(t, n)
<1>1. Repeats(t) = 1 /\ t.wave = 0
  BY RepeatCount, TaskShape
<1> DEFINE g == WaveWords(t, n)
<1>2. g[1] = Ones(n, WaveWord(t, 1))
  BY <1>1 DEF WaveWords
<1>3. WaveOf(t, 1) = 0
  BY <1>1 DEF WaveOf
<1>4. \A i \in 1..n : WaveWord(t, 1)[i] = RowWord(t)[i]
  BY <1>3 DEF WaveWord, RowWord
<1>5. g[1] = Row(t, n)
  BY <1>2, <1>4, OnesSame DEF Row
<1>6. MmWords(t, n) = Cat(1, g)
  BY <1>1 DEF MmWords
<1> HIDE DEF g
<1>7. Cat(0 + 1, g) = Join(Cat(0, g), g[0 + 1])
  BY CatSteps, Zenon
<1>8. 0 + 1 = 1
  OBVIOUS
<1>9. SeqOf(Row(t, n), Items)
  BY RowSeq
<1>10. Cat(1, g) = Join(Nil, Row(t, n))
  BY <1>5, <1>7, <1>8, CatSteps
<1>11. QED BY <1>6, <1>9, <1>10, JoinNil

(* What out h moves for one task. *)
LEMMA ResultFlow ==
    ASSUME NEW t \in Tasks, NEW k \in Kinds
    PROVE  /\ SeqOf(ResultPlan(t), Ops)
           /\ FlatMap(ResultPlan(t), PutOf(k)) = IF k = "out" THEN Flow("out")[t] ELSE Nil
           /\ FlatMap(ResultPlan(t), TakeOf(k)) = IF k = "out" THEN Flow("out")[t] ELSE Nil
<1> DEFINE n == t.rows * Blocks
           m == IF UsesMm(t) THEN Packets ELSE n
           W(r) == [i \in 1..m |-> <<Move("out", Word(t, WaveOf(t, r), i))>>]
           G == [r \in 1..Repeats(t) |-> Cat(m, W(r))]
<1>1. n \in Nat /\ Packets \in Nat
  BY V1Facts, Sizes
<1>2. Flow("out")[t] = IF UsesMm(t) THEN MmWords(t, Packets)
                       ELSE IF t.mode \in VectorModes THEN Row(t, n) ELSE Nil
  BY DEF Flow
<1>3. m \in Nat
  BY <1>1
<1>4. CASE t.mode # "STOP"
  <2>1. ResultPlan(t) = Cat(Repeats(t), G)
    BY <1>4 DEF ResultPlan, Times
  <2>2. WaveLoops(t, m, G, "move", "out")
    <3>1. ASSUME NEW r \in 1..Repeats(t)
          PROVE  G[r] = Cat(m, W(r)) /\ OpLoop(m, W(r), "move", "out", WaveWord(t, r))
      <4>1. G[r] = Cat(m, W(r))
        OBVIOUS
      <4>2. \A i \in 1..m : W(r)[i] = One(Move("out", Word(t, WaveOf(t, r), i)))
        BY DEF One
      <4> HIDE DEF W, G, m
      <4>3. OpLoop(m, W(r), "move", "out", WaveWord(t, r))
        BY <1>3, <4>2, WordsAreItems DEF OpLoop, Move
      <4>4. QED BY <4>1, <4>3
    <3> HIDE DEF G, W
    <3>2. QED BY <3>1 DEF WaveLoops
  <2>3. "out" \in Kinds
    BY DEF Kinds
  <2> HIDE DEF G
  <2>4. MmWords(t, m) = Flow("out")[t]
    <3>1. CASE t.mode = "MM"
      <4>1. UsesMm(t)
        BY <3>1 DEF UsesMm, MmModes
      <4>2. QED BY <1>2, <4>1
    <3>2. CASE t.mode \in VectorModes
      <4>1. ~UsesMm(t) /\ t.mode # "MM"
        BY <3>2 DEF UsesMm, MmModes, VectorModes, PairModes, RowModes
      <4>2. QED BY <1>1, <1>2, <3>2, <4>1, VectorWords
    <3>3. QED BY <1>4, <3>1, <3>2, TaskShape
  <2> HIDE DEF m
  <2>5. /\ SeqOf(ResultPlan(t), Ops)
        /\ FlatMap(ResultPlan(t), PutOf(k)) = IF "out" = k THEN MmWords(t, m) ELSE Nil
        /\ FlatMap(ResultPlan(t), TakeOf(k)) = IF "out" = k THEN MmWords(t, m) ELSE Nil
    BY <1>3, <2>1, <2>2, <2>3, WaveLoopWords
  <2>6. QED BY <2>4, <2>5
<1>5. CASE t.mode = "STOP"
  <2>1. ResultPlan(t) = Nil
    BY <1>5 DEF ResultPlan, Nil
  <2>2. ~UsesMm(t) /\ t.mode \notin VectorModes
    BY <1>5 DEF UsesMm, MmModes, VectorModes, PairModes, RowModes
  <2> HIDE DEF n, m
  <2>3. QED BY <1>2, <2>1, <2>2, FlatNil, NilSeq
<1>6. QED BY <1>4, <1>5

(* Rows of Blocks words each make the whole row. *)
ShiftWord(t, s) == [i \in Nat |-> Word(t, 0, s + i)]

(* The words of one row are items.                                           *)
LEMMA ShiftItems ==
    ASSUME NEW t \in Tasks, NEW s \in Nat
    PROVE  \A i \in Nat : ShiftWord(t, s)[i] \in Items /\ ShiftWord(t, s)[i] = Word(t, 0, s + i)
<1>1. ASSUME NEW i \in Nat
      PROVE  ShiftWord(t, s)[i] \in Items /\ ShiftWord(t, s)[i] = Word(t, 0, s + i)
  <2>1. s + i \in Nat
    OBVIOUS
  <2>2. Word(t, 0, s + i) \in Items
    BY <2>1, TaskShape DEF Word, Items, Words
  <2>3. QED BY <2>2 DEF ShiftWord
<1>2. QED BY <1>1

(* Rows of Blocks words, one after the other, are the words of all rows.     *)
LEMMA RowsFlatten ==
    ASSUME NEW t \in Tasks, NEW g,
           \A r \in 1..t.rows : g[r] = Ones(Blocks, ShiftWord(t, (r - 1) * Blocks))
    PROVE  Cat(t.rows, g) = Row(t, t.rows * Blocks)
<1> DEFINE n == t.rows * Blocks
           f == [i \in 1..n |-> One(RowWord(t)[i])]
           e(r) == [i \in 1..Blocks |-> One(ShiftWord(t, (r - 1) * Blocks)[i])]
<1>1. t.rows \in Nat /\ Blocks \in Nat /\ n \in Nat
  BY TaskShape, Sizes, V1Facts
<1>2. Cat(n, f) = Row(t, n)
  BY DEF Row, Ones
<1>3. Parts(n, f, Items)
  <2>1. \A i \in 1..n : SeqOf(One(RowWord(t)[i]), Items)
    BY <1>1, WordsAreItems, OneSeq
  <2>2. QED BY <2>1 DEF Parts
<1>4. ASSUME NEW r \in 1..t.rows
      PROVE  Splits(r * Blocks, (r - 1) * Blocks, Blocks, f, e(r)) /\ g[r] = Cat(Blocks, e(r))
  <2> DEFINE s == (r - 1) * Blocks
  <2>1. s \in Nat /\ r * Blocks = s + Blocks
    BY <1>1
  <2>2. r * Blocks <= n
    BY <1>1
  <2>3. g[r] = Ones(Blocks, ShiftWord(t, s))
    OBVIOUS
  <2>4. e(r) = [i \in 1..Blocks |-> One(ShiftWord(t, s)[i])]
    OBVIOUS
  <2>5. \A i \in 1..n : f[i] = One(RowWord(t)[i])
    OBVIOUS
  <2> HIDE DEF s, n, f, e
  <2>6. g[r] = Cat(Blocks, e(r))
    BY <2>3, <2>4 DEF Ones
  <2>7. ASSUME NEW i \in 1..Blocks PROVE e(r)[i] = f[s + i]
    <3>1. s + i \in 1..n /\ i \in Nat /\ s + i \in Nat
      BY <1>1, <2>1, <2>2
    <3>2. ShiftWord(t, s)[i] = RowWord(t)[s + i]
      BY <2>1, <3>1, ShiftItems, WordsAreItems
    <3>3. e(r)[i] = One(ShiftWord(t, s)[i])
      BY <2>4, Zenon
    <3>4. QED BY <2>5, <3>1, <3>2, <3>3, Zenon
  <2>8. Splits(r * Blocks, s, Blocks, f, e(r))
    BY <2>1, <2>7 DEF Splits
  <2>9. QED BY <2>6, <2>8 DEF s
<1>5. \A r \in 1..t.rows :
        \E d : Splits(r * Blocks, (r - 1) * Blocks, Blocks, f, d) /\ g[r] = Cat(Blocks, d)
  <2> HIDE DEF e, f
  <2>1. QED BY <1>4, Zenon
<1> HIDE DEF f, n
<1>6. Parts(t.rows * Blocks, f, Items)
  BY <1>3 DEF n
<1>7. Cat(t.rows, g) = Cat(t.rows * Blocks, f)
  BY <1>1, <1>5, <1>6, CatFlatten
<1>8. QED BY <1>2, <1>7 DEF n

-----------------------------------------------------------------------------
(* The cores.                                                               *)

(* Cat of one part.                                                          *)
LEMMA CatSingle ==
    ASSUME NEW S, NEW f, SeqOf(f[1], S)
    PROVE  Cat(1, f) = f[1]
<1>1. Cat(0 + 1, f) = Join(Cat(0, f), f[0 + 1])
  BY CatSteps, Zenon
<1>2. 0 + 1 = 1
  OBVIOUS
<1>3. Cat(1, f) = Join(Nil, f[1])
  BY <1>1, <1>2, CatSteps
<1>4. QED BY <1>3, JoinNil

(* What the two halves of a program make together. *)
LEMMA JoinWords ==
    ASSUME NEW a, NEW b, SeqOf(a, Ops), SeqOf(b, Ops), NEW k
    PROVE  /\ SeqOf(Join(a, b), Ops)
           /\ FlatMap(Join(a, b), PutOf(k)) = Join(FlatMap(a, PutOf(k)), FlatMap(b, PutOf(k)))
           /\ FlatMap(Join(a, b), TakeOf(k)) = Join(FlatMap(a, TakeOf(k)), FlatMap(b, TakeOf(k)))
BY JoinSeq, FlatJoin, OpMaps

(* RMSNORM and SOFTMAX take a row, then put it. *)
RowLoops(t, g) ==
    \A r \in 1..t.rows : \E f, h :
        /\ g[r] = Join(Cat(Blocks, f), Cat(Blocks, h))
        /\ OpLoop(Blocks, f, "take", "v0", ShiftWord(t, (r - 1) * Blocks))
        /\ OpLoop(Blocks, h, "put", "out", ShiftWord(t, (r - 1) * Blocks))

(* RMSNORM and SOFTMAX rows: the words taken on v0 are those put on out.     *)
LEMMA RowLoopsWords ==
    ASSUME NEW t \in Tasks, NEW g, RowLoops(t, g), NEW k \in Kinds
    PROVE  LET row == Row(t, t.rows * Blocks)
           IN  /\ SeqOf(Cat(t.rows, g), Ops)
               /\ FlatMap(Cat(t.rows, g), PutOf(k)) = IF k = "out" THEN row ELSE Nil
               /\ FlatMap(Cat(t.rows, g), TakeOf(k)) = IF k = "v0" THEN row ELSE Nil
<1> DEFINE N == t.rows
           e == [r \in 1..N |-> Ones(Blocks, ShiftWord(t, (r - 1) * Blocks))]
           p == [r \in 1..N |-> IF k = "out" THEN e[r] ELSE Nil]
           q == [r \in 1..N |-> IF k = "v0" THEN e[r] ELSE Nil]
<1>1. N \in Nat /\ Blocks \in Nat
  BY TaskShape, Sizes
<1>2. \A r \in 1..N : /\ e[r] = Ones(Blocks, ShiftWord(t, (r - 1) * Blocks))
                      /\ p[r] = IF k = "out" THEN e[r] ELSE Nil
                      /\ q[r] = IF k = "v0" THEN e[r] ELSE Nil
  OBVIOUS
<1>3. \A r \in 1..N : \E f, h :
        /\ g[r] = Join(Cat(Blocks, f), Cat(Blocks, h))
        /\ OpLoop(Blocks, f, "take", "v0", ShiftWord(t, (r - 1) * Blocks))
        /\ OpLoop(Blocks, h, "put", "out", ShiftWord(t, (r - 1) * Blocks))
  BY DEF RowLoops
<1>4. Cat(N, e) = Row(t, t.rows * Blocks)
  <2> HIDE DEF e
  <2>1. QED BY <1>2, RowsFlatten DEF N
<1> HIDE DEF N, e, p, q
<1>5. ASSUME NEW r \in 1..N
      PROVE  /\ SeqOf(g[r], Ops)
             /\ FlatMap(g[r], PutOf(k)) = p[r]
             /\ FlatMap(g[r], TakeOf(k)) = q[r]
  <2> DEFINE w == ShiftWord(t, (r - 1) * Blocks)
  <2>1. (r - 1) * Blocks \in Nat
    BY <1>1
  <2>2. PICK f, h : /\ g[r] = Join(Cat(Blocks, f), Cat(Blocks, h))
                    /\ OpLoop(Blocks, f, "take", "v0", w) /\ OpLoop(Blocks, h, "put", "out", w)
    BY <1>3
  <2>3. SeqOf(Ones(Blocks, w), Items)
    <3>1. \A i \in 1..Blocks : w[i] \in Items
      BY <1>1, <2>1, ShiftItems
    <3>2. QED BY <1>1, <3>1, OnesSeq
  <2>4. e[r] = Ones(Blocks, w)
    BY <1>2
  <2>5. "v0" \in Kinds /\ "out" \in Kinds
    BY DEF Kinds
  <2> HIDE DEF w
  <2>6. /\ SeqOf(Cat(Blocks, f), Ops)
        /\ FlatMap(Cat(Blocks, f), PutOf(k)) = Nil
        /\ FlatMap(Cat(Blocks, f), TakeOf(k)) = IF "v0" = k THEN e[r] ELSE Nil
    BY <1>1, <2>2, <2>4, <2>5, LoopWords
  <2>7. /\ SeqOf(Cat(Blocks, h), Ops)
        /\ FlatMap(Cat(Blocks, h), PutOf(k)) = IF "out" = k THEN e[r] ELSE Nil
        /\ FlatMap(Cat(Blocks, h), TakeOf(k)) = Nil
    BY <1>1, <2>2, <2>4, <2>5, LoopWords
  <2>8. /\ SeqOf(g[r], Ops)
        /\ FlatMap(g[r], PutOf(k)) = Join(Nil, IF "out" = k THEN e[r] ELSE Nil)
        /\ FlatMap(g[r], TakeOf(k)) = Join(IF "v0" = k THEN e[r] ELSE Nil, Nil)
    BY <2>2, <2>6, <2>7, JoinWords
  <2>9. Join(Nil, e[r]) = e[r] /\ Join(e[r], Nil) = e[r] /\ Join(Nil, Nil) = Nil
    BY <2>3, <2>4, JoinNil, NilNil
  <2>10. QED BY <1>2, <2>8, <2>9
<1>6. Parts(N, g, Ops) /\ FlatOf(N, g, PutOf(k), p) /\ FlatOf(N, g, TakeOf(k), q)
  BY <1>5 DEF Parts, FlatOf
<1>7. /\ SeqOf(Cat(N, g), Ops) /\ FlatMap(Cat(N, g), PutOf(k)) = Cat(N, p)
      /\ FlatMap(Cat(N, g), TakeOf(k)) = Cat(N, q)
  BY <1>1, <1>6, OpMaps, CatSeq, FlatCat
<1>8. Cat(N, p) = IF k = "out" THEN Cat(N, e) ELSE Nil
  <2>1. CASE k = "out"
    <3>1. Same(N, p, e)
      BY <1>2, <2>1 DEF Same
    <3>2. QED BY <1>1, <2>1, <3>1, CatEqual
  <2>2. CASE k # "out"
    <3>1. Empty(N, p)
      BY <1>2, <2>2 DEF Empty
    <3>2. QED BY <1>1, <2>2, <3>1, CatNone
  <2>3. QED BY <2>1, <2>2
<1>9. Cat(N, q) = IF k = "v0" THEN Cat(N, e) ELSE Nil
  <2>1. CASE k = "v0"
    <3>1. Same(N, q, e)
      BY <1>2, <2>1 DEF Same
    <3>2. QED BY <1>1, <2>1, <3>1, CatEqual
  <2>2. CASE k # "v0"
    <3>1. Empty(N, q)
      BY <1>2, <2>2 DEF Empty
    <3>2. QED BY <1>1, <2>2, <3>1, CatNone
  <2>3. QED BY <2>1, <2>2
<1>10. QED BY <1>4, <1>7, <1>8, <1>9 DEF N

(* A binary pipeline takes the pair i until the last, and puts a result late. *)
PairLoops(t, g) ==
    LET n == t.rows * Blocks
        op(d, k, i) == One([do |-> d, kind |-> k, word |-> Word(t, 0, i)])
    IN  \A i \in 1..(n + PairLatency) :
            g[i] = Join(IF i <= n THEN Join(op("take", "v0", i), op("take", "v1", i)) ELSE Nil,
                        IF i > PairLatency THEN op("put", "out", i - PairLatency) ELSE Nil)

(* The binary pipeline: PairLatency later, every word taken is put.          *)
LEMMA PairLoopsWords ==
    ASSUME NEW t \in Tasks, NEW g, PairLoops(t, g), NEW k \in Kinds
    PROVE  LET row == Row(t, t.rows * Blocks)
               m == t.rows * Blocks + PairLatency
           IN  /\ SeqOf(Cat(m, g), Ops)
               /\ FlatMap(Cat(m, g), PutOf(k)) = IF k = "out" THEN row ELSE Nil
               /\ FlatMap(Cat(m, g), TakeOf(k)) = IF k \in {"v0", "v1"} THEN row ELSE Nil
<1> DEFINE n == t.rows * Blocks
           L == PairLatency
           m == n + L
           e == [i \in 1..n |-> One(RowWord(t)[i])]
           p == [i \in 1..m |-> IF k = "out" /\ i > L THEN e[i - L] ELSE Nil]
           q == [i \in 1..m |-> IF k \in {"v0", "v1"} /\ i <= n THEN e[i] ELSE Nil]
           op(d, j, i) == One([do |-> d, kind |-> j, word |-> Word(t, 0, i)])
<1>1. n \in Nat /\ L \in Nat /\ m \in Nat /\ m = n + L
  BY V1Facts, Sizes
<1>2. \A i \in 1..n : e[i] = One(Word(t, 0, i)) /\ SeqOf(e[i], Items)
  BY <1>1, WordsAreItems, OneSeq
<1>3. \A i \in 1..m : /\ p[i] = IF k = "out" /\ i > L THEN e[i - L] ELSE Nil
                      /\ q[i] = IF k \in {"v0", "v1"} /\ i <= n THEN e[i] ELSE Nil
  OBVIOUS
<1>4. \A i \in 1..m :
        g[i] = Join(IF i <= n THEN Join(op("take", "v0", i), op("take", "v1", i)) ELSE Nil,
                    IF i > L THEN op("put", "out", i - L) ELSE Nil)
  BY DEF PairLoops
<1>5. Cat(n, e) = Row(t, n)
  BY DEF Row, Ones
<1>6. \A i \in Nat : Word(t, 0, i) \in Items
  BY WordsAreItems
<1> HIDE DEF n, m, e, p, q, L
<1>7. ASSUME NEW i \in 1..m
      PROVE  /\ SeqOf(g[i], Ops)
             /\ FlatMap(g[i], PutOf(k)) = p[i]
             /\ FlatMap(g[i], TakeOf(k)) = q[i]
  <2> DEFINE x == IF i <= n THEN Join(op("take", "v0", i), op("take", "v1", i)) ELSE Nil
             y == IF i > L THEN op("put", "out", i - L) ELSE Nil
             a == op("take", "v0", i)
             b == op("take", "v1", i)
             c == op("put", "out", i - L)
  <2>1. /\ "v0" \in Kinds /\ "v1" \in Kinds /\ "out" \in Kinds
        /\ "take" \in {"take", "put", "move"} /\ "put" \in {"take", "put", "move"}
    BY DEF Kinds
  <2>2. Word(t, 0, i) \in Items /\ (i > L => Word(t, 0, i - L) \in Items)
    BY <1>1, <1>6
  <2>3. /\ SeqOf(a, Ops) /\ FlatMap(a, PutOf(k)) = Nil
        /\ FlatMap(a, TakeOf(k)) = IF "v0" = k THEN One(Word(t, 0, i)) ELSE Nil
    BY <2>1, <2>2, OpWord
  <2>4. /\ SeqOf(b, Ops) /\ FlatMap(b, PutOf(k)) = Nil
        /\ FlatMap(b, TakeOf(k)) = IF "v1" = k THEN One(Word(t, 0, i)) ELSE Nil
    BY <2>1, <2>2, OpWord
  <2>5. ASSUME i > L
        PROVE  /\ SeqOf(c, Ops) /\ FlatMap(c, TakeOf(k)) = Nil
               /\ FlatMap(c, PutOf(k)) = IF "out" = k THEN One(Word(t, 0, i - L)) ELSE Nil
    BY <2>1, <2>2, <2>5, OpWord
  <2>6. x = (IF i <= n THEN Join(a, b) ELSE Nil) /\ y = (IF i > L THEN c ELSE Nil)
    OBVIOUS
  <2>7. g[i] = Join(x, y)
    BY <1>4
  <2> HIDE DEF a, b, c, x, y
  <2>8. SeqOf(One(Word(t, 0, i)), Items)
    BY <2>2, OneSeq
  <2>9. /\ SeqOf(x, Ops) /\ FlatMap(x, PutOf(k)) = Nil
        /\ FlatMap(x, TakeOf(k)) = q[i]
    <3>1. CASE i <= n
      <4>1. i \in 1..n
        BY <1>1, <3>1
      <4>2. q[i] = IF k \in {"v0", "v1"} THEN One(Word(t, 0, i)) ELSE Nil
        BY <1>2, <1>3, <3>1, <4>1
      <4>3. /\ SeqOf(Join(a, b), Ops) /\ FlatMap(Join(a, b), PutOf(k)) = Join(Nil, Nil)
            /\ FlatMap(Join(a, b), TakeOf(k))
                 = Join(FlatMap(a, TakeOf(k)), FlatMap(b, TakeOf(k)))
        BY <2>3, <2>4, JoinWords
      <4>4. Join(FlatMap(a, TakeOf(k)), FlatMap(b, TakeOf(k)))
              = IF k \in {"v0", "v1"} THEN One(Word(t, 0, i)) ELSE Nil
        BY <2>3, <2>4, <2>8, JoinNil, NilNil
      <4>5. QED BY <2>6, <3>1, <4>2, <4>3, <4>4, NilNil
    <3>2. CASE ~(i <= n)
      BY <1>3, <2>6, <3>2, FlatNil, NilSeq
    <3>3. QED BY <3>1, <3>2
  <2>10. /\ SeqOf(y, Ops) /\ FlatMap(y, TakeOf(k)) = Nil
         /\ FlatMap(y, PutOf(k)) = p[i]
    <3>1. CASE i > L
      <4>1. i - L \in 1..n
        BY <1>1, <3>1
      <4>2. p[i] = IF k = "out" THEN One(Word(t, 0, i - L)) ELSE Nil
        BY <1>2, <1>3, <3>1, <4>1
      <4>3. QED BY <2>5, <2>6, <3>1, <4>2
    <3>2. CASE ~(i > L)
      BY <1>3, <2>6, <3>2, FlatNil, NilSeq
    <3>3. QED BY <3>1, <3>2
  <2>11. SeqOf(p[i], Items) /\ SeqOf(q[i], Items)
    <3>1. SeqOf(FlatMap(y, PutOf(k)), Items) /\ SeqOf(FlatMap(x, TakeOf(k)), Items)
      BY <2>9, <2>10, FlatSeq, OpMaps
    <3>2. QED BY <2>9, <2>10, <3>1
  <2>12. QED BY <2>7, <2>9, <2>10, <2>11, JoinWords, JoinNil
<1>8. Parts(m, g, Ops) /\ FlatOf(m, g, PutOf(k), p) /\ FlatOf(m, g, TakeOf(k), q)
  BY <1>7 DEF Parts, FlatOf
<1>9. /\ SeqOf(Cat(m, g), Ops) /\ FlatMap(Cat(m, g), PutOf(k)) = Cat(m, p)
      /\ FlatMap(Cat(m, g), TakeOf(k)) = Cat(m, q)
  BY <1>1, <1>8, OpMaps, CatSeq, FlatCat
<1>10. Parts(n, e, Items)
  BY <1>2 DEF Parts
<1>11. Cat(m, p) = IF k = "out" THEN Cat(n, e) ELSE Nil
  <2>1. CASE k = "out"
    <3>1. Empty(L, p)
      BY <1>1, <1>3 DEF Empty
    <3>2. Splits(m, L, n, p, e)
      <4>1. ASSUME NEW i \in 1..n PROVE e[i] = p[L + i]
        <5>1. L + i \in 1..m /\ L + i > L /\ (L + i) - L = i
          BY <1>1
        <5>2. p[L + i] = e[(L + i) - L]
          BY <1>3, <2>1, <5>1, Zenon
        <5>3. QED BY <5>1, <5>2
      <4>2. m = L + n
        BY <1>1
      <4>3. QED BY <4>1, <4>2 DEF Splits
    <3>3. QED BY <1>1, <1>10, <2>1, <3>1, <3>2, CatLast
  <2>2. CASE k # "out"
    <3>1. Empty(m, p)
      BY <1>3, <2>2 DEF Empty
    <3>2. QED BY <1>1, <2>2, <3>1, CatNone
  <2>3. QED BY <2>1, <2>2
<1>12. Cat(m, q) = IF k \in {"v0", "v1"} THEN Cat(n, e) ELSE Nil
  <2>1. CASE k \in {"v0", "v1"}
    <3>1. n <= m
      BY <1>1
    <3>2. \A i \in 1..m : q[i] = IF i <= n THEN e[i] ELSE Nil
      BY <1>3, <2>1
    <3>3. Cat(m, q) = Cat(n, e)
      BY <1>1, <1>10, <3>1, <3>2, CatFirst
    <3>4. QED BY <2>1, <3>3
  <2>2. CASE k \notin {"v0", "v1"}
    <3>1. Empty(m, q)
      BY <1>3, <2>2 DEF Empty
    <3>2. QED BY <1>1, <2>2, <3>1, CatNone
  <2>3. QED BY <2>1, <2>2
<1>13. QED BY <1>5, <1>9, <1>11, <1>12 DEF n, m, L

(* The repeats of an MM task on a core: take k beats, put the packets. *)
LEMMA MmLoopsWords ==
    ASSUME NEW t \in Tasks, t.mode = "MM", NEW k \in Kinds
    PROVE  /\ SeqOf(ComputePlan(t), Ops)
           /\ FlatMap(ComputePlan(t), PutOf(k)) = IF k = "out" THEN MmWords(t, Packets) ELSE Nil
           /\ FlatMap(ComputePlan(t), TakeOf(k)) = IF k = "mm" THEN MmWords(t, t.k) ELSE Nil
<1> DEFINE N == Repeats(t)
           A(r) == [i \in 1..t.k |-> <<Take("mm", Word(t, WaveOf(t, r), i))>>]
           B(r) == [i \in 1..Packets |-> <<Put("out", Word(t, WaveOf(t, r), i))>>]
           g == [r \in 1..N |-> Join(Cat(t.k, A(r)), Cat(Packets, B(r)))]
           d == WaveWords(t, t.k)
           e == WaveWords(t, Packets)
           p == [r \in 1..N |-> IF k = "out" THEN e[r] ELSE Nil]
           q == [r \in 1..N |-> IF k = "mm" THEN d[r] ELSE Nil]
<1>1. N \in Nat /\ t.k \in Nat /\ Packets \in Nat
  BY RepeatCount, TaskShape, Sizes
<1>2. ComputePlan(t) = Cat(N, g)
  BY DEF ComputePlan, UsesMm, MmModes, PairModes, Times, Join
<1>3. \A r \in 1..N : /\ p[r] = IF k = "out" THEN e[r] ELSE Nil
                      /\ q[r] = IF k = "mm" THEN d[r] ELSE Nil
                      /\ d[r] = Ones(t.k, WaveWord(t, r))
                      /\ e[r] = Ones(Packets, WaveWord(t, r))
                      /\ g[r] = Join(Cat(t.k, A(r)), Cat(Packets, B(r)))
  BY DEF WaveWords
<1>4. /\ Cat(N, d) = MmWords(t, t.k) /\ Cat(N, e) = MmWords(t, Packets)
      /\ Parts(N, d, Items) /\ Parts(N, e, Items)
  BY <1>1, MmSeq DEF MmWords
<1>5. \A r \in 1..N : /\ OpLoop(t.k, A(r), "take", "mm", WaveWord(t, r))
                      /\ OpLoop(Packets, B(r), "put", "out", WaveWord(t, r))
  BY <1>1, WordsAreItems DEF OpLoop, Take, Put, One
<1> HIDE DEF N, A, B, g, d, e, p, q
<1>6. ASSUME NEW r \in 1..N
      PROVE  /\ SeqOf(g[r], Ops)
             /\ FlatMap(g[r], PutOf(k)) = p[r]
             /\ FlatMap(g[r], TakeOf(k)) = q[r]
  <2>1. "mm" \in Kinds /\ "out" \in Kinds
    BY DEF Kinds
  <2>2. /\ SeqOf(Cat(t.k, A(r)), Ops)
        /\ FlatMap(Cat(t.k, A(r)), PutOf(k)) = Nil
        /\ FlatMap(Cat(t.k, A(r)), TakeOf(k)) = IF "mm" = k THEN d[r] ELSE Nil
    BY <1>1, <1>3, <1>5, <2>1, LoopWords
  <2>3. /\ SeqOf(Cat(Packets, B(r)), Ops)
        /\ FlatMap(Cat(Packets, B(r)), PutOf(k)) = IF "out" = k THEN e[r] ELSE Nil
        /\ FlatMap(Cat(Packets, B(r)), TakeOf(k)) = Nil
    BY <1>1, <1>3, <1>5, <2>1, LoopWords
  <2>4. /\ SeqOf(g[r], Ops)
        /\ FlatMap(g[r], PutOf(k)) = Join(Nil, IF "out" = k THEN e[r] ELSE Nil)
        /\ FlatMap(g[r], TakeOf(k)) = Join(IF "mm" = k THEN d[r] ELSE Nil, Nil)
    BY <1>3, <2>2, <2>3, JoinWords
  <2>5. SeqOf(d[r], Items) /\ SeqOf(e[r], Items)
    BY <1>4 DEF Parts
  <2>6. /\ Join(Nil, e[r]) = e[r] /\ Join(d[r], Nil) = d[r] /\ Join(Nil, Nil) = Nil
    BY <2>5, JoinNil, NilNil
  <2>7. QED BY <1>3, <2>4, <2>6
<1>7. Parts(N, g, Ops) /\ FlatOf(N, g, PutOf(k), p) /\ FlatOf(N, g, TakeOf(k), q)
  BY <1>6 DEF Parts, FlatOf
<1>8. /\ SeqOf(Cat(N, g), Ops) /\ FlatMap(Cat(N, g), PutOf(k)) = Cat(N, p)
      /\ FlatMap(Cat(N, g), TakeOf(k)) = Cat(N, q)
  BY <1>1, <1>7, OpMaps, CatSeq, FlatCat
<1>9. Cat(N, p) = IF k = "out" THEN Cat(N, e) ELSE Nil
  <2>1. CASE k = "out"
    <3>1. Same(N, p, e)
      BY <1>3, <2>1 DEF Same
    <3>2. QED BY <1>1, <2>1, <3>1, CatEqual
  <2>2. CASE k # "out"
    <3>1. Empty(N, p)
      BY <1>3, <2>2 DEF Empty
    <3>2. QED BY <1>1, <2>2, <3>1, CatNone
  <2>3. QED BY <2>1, <2>2
<1>10. Cat(N, q) = IF k = "mm" THEN Cat(N, d) ELSE Nil
  <2>1. CASE k = "mm"
    <3>1. Same(N, q, d)
      BY <1>3, <2>1 DEF Same
    <3>2. QED BY <1>1, <2>1, <3>1, CatEqual
  <2>2. CASE k # "mm"
    <3>1. Empty(N, q)
      BY <1>3, <2>2 DEF Empty
    <3>2. QED BY <1>1, <2>2, <3>1, CatNone
  <2>3. QED BY <2>1, <2>2
<1>11. QED BY <1>2, <1>4, <1>8, <1>9, <1>10

(* Cat of one operation.                                                     *)
LEMMA CatOneOp == ASSUME NEW f, NEW x, f[1] = One(x) PROVE Cat(1, f) = One(x)
<1>1. SeqOf(f[1], {x})
  BY OneSeq
<1>2. QED BY <1>1, CatSingle

RowProgram(t) ==
    [r \in 1..t.rows |->
        Join(Cat(Blocks, [i \in 1..Blocks |-> <<Take("v0", Word(t, 0, (r - 1) * Blocks + i))>>]),
             Cat(Blocks, [i \in 1..Blocks |-> <<Put("out", Word(t, 0, (r - 1) * Blocks + i))>>]))]

(* The row program reads a row and then writes it.                           *)
LEMMA RowPlan == ASSUME NEW t \in Tasks PROVE RowLoops(t, RowProgram(t))
<1> DEFINE A(r) == [i \in 1..Blocks |-> <<Take("v0", Word(t, 0, (r - 1) * Blocks + i))>>]
           B(r) == [i \in 1..Blocks |-> <<Put("out", Word(t, 0, (r - 1) * Blocks + i))>>]
<1>1. ASSUME NEW r \in 1..t.rows
      PROVE  /\ RowProgram(t)[r] = Join(Cat(Blocks, A(r)), Cat(Blocks, B(r)))
             /\ OpLoop(Blocks, A(r), "take", "v0", ShiftWord(t, (r - 1) * Blocks))
             /\ OpLoop(Blocks, B(r), "put", "out", ShiftWord(t, (r - 1) * Blocks))
  <2>1. RowProgram(t)[r] = Join(Cat(Blocks, A(r)), Cat(Blocks, B(r)))
    BY DEF RowProgram
  <2> DEFINE s == (r - 1) * Blocks
  <2>2. s \in Nat /\ Blocks \in Nat
    <3>1. t.rows \in Nat /\ Blocks \in Nat
      BY Sizes, TaskShape
    <3>2. r - 1 \in Nat
      BY <3>1
    <3>3. QED BY <3>1, <3>2
  <2>3. /\ A(r) = [i \in 1..Blocks |-> <<Take("v0", Word(t, 0, s + i))>>]
        /\ B(r) = [i \in 1..Blocks |-> <<Put("out", Word(t, 0, s + i))>>]
    OBVIOUS
  <2> HIDE DEF s, A, B
  <2>4. OpLoop(Blocks, A(r), "take", "v0", ShiftWord(t, s))
    <3>1. ASSUME NEW i \in 1..Blocks
          PROVE  /\ ShiftWord(t, s)[i] \in Items
                 /\ A(r)[i] = One(Take("v0", ShiftWord(t, s)[i]))
      <4>1. i \in Nat
        BY <2>2
      <4>2. ShiftWord(t, s)[i] \in Items /\ ShiftWord(t, s)[i] = Word(t, 0, s + i)
        BY <2>2, <4>1, ShiftItems
      <4>3. A(r)[i] = <<Take("v0", Word(t, 0, s + i))>>
        BY <2>3, Zenon
      <4>4. QED BY <4>2, <4>3, Zenon DEF One
    <3>2. QED BY <3>1 DEF OpLoop, Take
  <2>5. OpLoop(Blocks, B(r), "put", "out", ShiftWord(t, s))
    <3>1. ASSUME NEW i \in 1..Blocks
          PROVE  /\ ShiftWord(t, s)[i] \in Items
                 /\ B(r)[i] = One(Put("out", ShiftWord(t, s)[i]))
      <4>1. i \in Nat
        BY <2>2
      <4>2. ShiftWord(t, s)[i] \in Items /\ ShiftWord(t, s)[i] = Word(t, 0, s + i)
        BY <2>2, <4>1, ShiftItems
      <4>3. B(r)[i] = <<Put("out", Word(t, 0, s + i))>>
        BY <2>3, Zenon
      <4>4. QED BY <4>2, <4>3, Zenon DEF One
    <3>2. QED BY <3>1 DEF OpLoop, Put
  <2>6. QED BY <2>1, <2>4, <2>5 DEF s
<1> HIDE DEF A, B
<1>2. QED BY <1>1 DEF RowLoops

(* What a core takes and puts for one task. *)
LEMMA ComputeFlow ==
    ASSUME NEW t \in Tasks, NEW k \in Kinds
    PROVE  /\ SeqOf(ComputePlan(t), Ops)
           /\ FlatMap(ComputePlan(t), PutOf(k)) = IF k = "out" THEN Flow("out")[t] ELSE Nil
           /\ FlatMap(ComputePlan(t), TakeOf(k))
                = IF k \in {"mm", "v0", "v1"} THEN Flow(k)[t] ELSE Nil
<1> DEFINE n == t.rows * Blocks
           row == Row(t, n)
           A == [i \in 1..Blocks |-> <<Take("v1", Word(t, 0, 0 + i))>>]
           B == RowProgram(t)
           rowsOf == Cat(t.rows, B)
<1>1. n \in Nat /\ Blocks \in Nat
  BY V1Facts, Sizes
<1>2. /\ Flow("out")[t] = IF UsesMm(t) THEN MmWords(t, Packets)
                          ELSE IF t.mode \in VectorModes THEN row ELSE Nil
      /\ Flow("mm")[t] = IF UsesMm(t) THEN MmWords(t, t.k) ELSE Nil
      /\ Flow("v0")[t] = IF t.mode \in VectorModes THEN row ELSE Nil
      /\ Flow("v1")[t] = IF t.mode \in VectorModes THEN Row(t, V1Rows(t) * Blocks) ELSE Nil
  BY DEF Flow
<1>3. RowLoops(t, B)
  BY RowPlan
<1>4. ASSUME t.mode \in RowModes
      PROVE  /\ SeqOf(rowsOf, Ops)
             /\ FlatMap(rowsOf, PutOf(k)) = IF k = "out" THEN row ELSE Nil
             /\ FlatMap(rowsOf, TakeOf(k)) = IF k = "v0" THEN row ELSE Nil
  <2> HIDE DEF B
  <2>1. QED BY <1>3, RowLoopsWords
<1>5. CASE t.mode = "MM"
  <2>1. UsesMm(t) /\ t.mode \notin VectorModes
    BY <1>5 DEF UsesMm, MmModes, VectorModes, PairModes, RowModes
  <2> HIDE DEF n, row
  <2>2. QED BY <1>2, <1>5, <2>1, MmLoopsWords DEF Kinds
<1>6. CASE t.mode = "RMSNORM"
  <2>1. ComputePlan(t) = Join(Cat(Blocks, A), rowsOf)
    BY <1>6 DEF ComputePlan, UsesMm, MmModes, PairModes, Times, Join, RowProgram
  <2>2. ~UsesMm(t) /\ t.mode \in VectorModes /\ t.mode \in RowModes /\ V1Rows(t) * Blocks = Blocks
    BY <1>1, <1>6 DEF UsesMm, MmModes, VectorModes, PairModes, RowModes, V1Rows
  <2>3. RowLoop(t, Blocks, A, "take", "v1")
    BY <1>1 DEF RowLoop, Take, One
  <2>4. "v1" \in Kinds
    BY DEF Kinds
  <2> HIDE DEF A, rowsOf
  <2>5. /\ SeqOf(Cat(Blocks, A), Ops)
        /\ FlatMap(Cat(Blocks, A), PutOf(k)) = Nil
        /\ FlatMap(Cat(Blocks, A), TakeOf(k)) = IF "v1" = k THEN Row(t, Blocks) ELSE Nil
    BY <1>1, <2>3, <2>4, RowLoopWords
  <2>6. SeqOf(row, Items) /\ SeqOf(Row(t, Blocks), Items)
    BY <1>1, RowSeq
  <2> HIDE DEF n, row
  <2>7. /\ SeqOf(ComputePlan(t), Ops)
        /\ FlatMap(ComputePlan(t), PutOf(k)) = Join(Nil, IF k = "out" THEN row ELSE Nil)
        /\ FlatMap(ComputePlan(t), TakeOf(k))
             = Join(IF "v1" = k THEN Row(t, Blocks) ELSE Nil, IF k = "v0" THEN row ELSE Nil)
    BY <1>4, <2>1, <2>2, <2>5, JoinWords
  <2>8. /\ Join(Nil, row) = row /\ Join(Row(t, Blocks), Nil) = Row(t, Blocks)
        /\ Join(Nil, Nil) = Nil
    BY <2>6, JoinNil, NilNil
  <2>9. QED BY <1>2, <2>2, <2>7, <2>8
<1>7. CASE t.mode = "SOFTMAX"
  <2>1. ComputePlan(t) = rowsOf
    BY <1>7 DEF ComputePlan, UsesMm, MmModes, PairModes, Times, Join, RowProgram
  <2>2. ~UsesMm(t) /\ t.mode \in VectorModes /\ t.mode \in RowModes /\ V1Rows(t) * Blocks = 0
    BY <1>1, <1>7 DEF UsesMm, MmModes, VectorModes, PairModes, RowModes, V1Rows
  <2> HIDE DEF rowsOf, n, row
  <2>3. QED BY <1>2, <1>4, <2>1, <2>2, RowZero
<1>8. CASE t.mode \in PairModes
  <2> DEFINE m == n + PairLatency
             G == [i \in 1..m |->
                     Join(IF i <= n
                          THEN Join(Cat(1, [j \in 1..1 |-> <<Take("v0", Word(t, 0, i - 1 + j))>>]),
                                    Cat(1, [j \in 1..1 |-> <<Take("v1", Word(t, 0, i - 1 + j))>>]))
                          ELSE Nil,
                          IF i > PairLatency
                          THEN Cat(1, [j \in 1..1 |-> <<Put("out", Word(t, 0, i - 1 - PairLatency + j))>>])
                          ELSE Nil)]
             op(d, j, i) == One([do |-> d, kind |-> j, word |-> Word(t, 0, i)])
  <2>1. ComputePlan(t) = Cat(m, G)
    BY <1>8 DEF ComputePlan, UsesMm, MmModes, PairModes, Times, Join, Nil
  <2>2. ~UsesMm(t) /\ t.mode \in VectorModes /\ V1Rows(t) * Blocks = n
    BY <1>8 DEF UsesMm, MmModes, VectorModes, PairModes, RowModes, V1Rows
  <2>3. PairLoops(t, G)
    <3>1. ASSUME NEW i \in 1..m
          PROVE  G[i] = Join(IF i <= n THEN Join(op("take", "v0", i), op("take", "v1", i)) ELSE Nil,
                             IF i > PairLatency THEN op("put", "out", i - PairLatency) ELSE Nil)
      <4> DEFINE a == [j \in 1..1 |-> <<Take("v0", Word(t, 0, i - 1 + j))>>]
                 b == [j \in 1..1 |-> <<Take("v1", Word(t, 0, i - 1 + j))>>]
                 c == [j \in 1..1 |-> <<Put("out", Word(t, 0, i - 1 - PairLatency + j))>>]
      <4>0. i \in Nat /\ PairLatency \in Nat /\ i - 1 + 1 = i
            /\ i - 1 - PairLatency + 1 = i - PairLatency
        BY <1>1, Sizes
      <4>1. a[1] = op("take", "v0", i) /\ b[1] = op("take", "v1", i)
            /\ c[1] = op("put", "out", i - PairLatency)
        BY <4>0 DEF Take, Put, One
      <4>3. G[i] = Join(IF i <= n THEN Join(Cat(1, a), Cat(1, b)) ELSE Nil,
                        IF i > PairLatency THEN Cat(1, c) ELSE Nil)
        OBVIOUS
      <4> HIDE DEF a, b, c, G
      <4>4. Cat(1, a) = a[1] /\ Cat(1, b) = b[1] /\ Cat(1, c) = c[1]
        BY <4>1, CatOneOp
      <4>5. QED BY <4>1, <4>3, <4>4
    <3> HIDE DEF G
    <3>2. QED BY <3>1 DEF PairLoops
  <2> HIDE DEF G
  <2>4. /\ SeqOf(Cat(m, G), Ops)
        /\ FlatMap(Cat(m, G), PutOf(k)) = IF k = "out" THEN row ELSE Nil
        /\ FlatMap(Cat(m, G), TakeOf(k)) = IF k \in {"v0", "v1"} THEN row ELSE Nil
    BY <2>3, PairLoopsWords
  <2> HIDE DEF m, n
  <2>5. QED BY <1>2, <2>1, <2>2, <2>4
<1>9. CASE t.mode = "STOP"
  <2>1. ComputePlan(t) = Nil
    BY <1>9 DEF ComputePlan, UsesMm, MmModes, PairModes, Nil
  <2>2. ~UsesMm(t) /\ t.mode \notin VectorModes
    BY <1>9 DEF UsesMm, MmModes, VectorModes, PairModes, RowModes
  <2> HIDE DEF n, row
  <2>3. QED BY <1>2, <2>1, <2>2, FlatNil, NilSeq
<1>10. QED BY <1>5, <1>6, <1>7, <1>8, <1>9, TaskShape DEF VectorModes, RowModes

-----------------------------------------------------------------------------
(* The controller's operations, and the words of a link.                    *)

(* A triple is three sequences of one, joined.                               *)
LEMMA ThreeJoin == \A a : \A b : \A c : <<a, b, c>> = Join(One(a), Join(One(b), One(c)))
<1> SUFFICES ASSUME NEW a, NEW b, NEW c PROVE <<a, b, c>> = Join(One(a), Join(One(b), One(c)))
  OBVIOUS
<1> DEFINE S == {a, b, c}
<1>1. Join(One(b), One(c)) = <<b, c>>
  BY TwoJoin
<1>2. <<a>> \in Seq(S) /\ <<b, c>> \in Seq(S) /\ <<a, b, c>> \in Seq(S)
      /\ Len(<<a>>) = 1 /\ Len(<<b, c>>) = 2 /\ Len(<<a, b, c>>) = 3
  OBVIOUS
<1>3. /\ <<a>> \o <<b, c>> \in Seq(S) /\ Len(<<a>> \o <<b, c>>) = 3
      /\ \A i \in 1..3 : (<<a>> \o <<b, c>>)[i] = IF i <= 1 THEN <<a>>[i] ELSE <<b, c>>[i - 1]
  BY <1>2, ConcatProperties
<1>4. \A i \in 1..3 : <<a, b, c>>[i] = (<<a>> \o <<b, c>>)[i]
  <2>1. \A i \in 1..3 : i = 1 \/ i = 2 \/ i = 3
    OBVIOUS
  <2>2. (<<a>> \o <<b, c>>)[1] = a
    BY <1>3
  <2>3. (<<a>> \o <<b, c>>)[2] = b
    BY <1>3
  <2>4. (<<a>> \o <<b, c>>)[3] = c
    BY <1>3
  <2>5. <<a, b, c>>[1] = a /\ <<a, b, c>>[2] = b /\ <<a, b, c>>[3] = c
    OBVIOUS
  <2>6. QED BY <2>1, <2>2, <2>3, <2>4, <2>5, Zenon
<1>5. <<a, b, c>> = <<a>> \o <<b, c>>
  BY <1>2, <1>3, <1>4, SeqEqual
<1>6. QED BY <1>1, <1>5 DEF Join, One

(* The operations of the controller, and the words among them for one link. *)
SendKinds == {"task", "mm", "v0", "v1"}
EmitOps == [do : {"put"}, kind : SendKinds, core : Cores, word : Items]
CollectOps == [do : {"take"}, kind : {"out"}, core : Cores, word : Items]
Sides == {EmitOps, CollectOps}

OnLink(O, k, d) == [op \in O |-> IF op.kind = k /\ op.core = d THEN One(op.word) ELSE Nil]

(* The fields of the controller's operations.                                *)
LEMMA SideWords == \A O \in Sides : \A op \in O : op.word \in Items /\ op.core \in Cores
<1>1. \A op \in EmitOps : op.word \in Items /\ op.core \in Cores
  BY DEF EmitOps
<1>2. \A op \in CollectOps : op.word \in Items /\ op.core \in Cores
  BY DEF CollectOps
<1>3. QED BY <1>1, <1>2 DEF Sides

(* The words of an operation on one link are items.                          *)
LEMMA LinkMaps == ASSUME NEW O \in Sides, NEW k, NEW d PROVE Maps(OnLink(O, k, d), O, Items)
<1>1. ASSUME NEW op \in O PROVE SeqOf(OnLink(O, k, d)[op], Items)
  <2>1. op.word \in Items
    BY SideWords
  <2>2. SeqOf(One(op.word), Items) /\ SeqOf(Nil, Items)
    BY <2>1, OneSeq, NilSeq
  <2>3. QED BY <2>2 DEF OnLink
<1>2. QED BY <1>1 DEF Maps

(* s sends core d the words f[d] on each stream of K and nothing else. *)
Lines(O, K, f, s) ==
    /\ SeqOf(s, O)
    /\ \A d \in Cores : SeqOf(f[d], Items)
    /\ \A k \in Kinds, d \in Cores : FlatMap(s, OnLink(O, k, d)) = IF k \in K THEN f[d] ELSE Nil

(* No operation, no words.                                                   *)
LEMMA LinesNil ==
    ASSUME NEW O \in Sides, NEW K, NEW f, \A d \in Cores : f[d] = Nil
    PROVE  Lines(O, K, f, Nil)
BY NilSeq, FlatNil DEF Lines

(* One operation puts its word on its link.                                  *)
LEMMA LinesOne ==
    ASSUME NEW O \in Sides, NEW op \in O, NEW f,
           \A d \in Cores : f[d] = IF d = op.core THEN One(op.word) ELSE Nil
    PROVE  Lines(O, {op.kind}, f, One(op))
<1>0. op.word \in Items
  BY SideWords
<1>1. SeqOf(One(op), O) /\ SeqOf(One(op.word), Items) /\ SeqOf(Nil, Items)
  BY <1>0, OneSeq, NilSeq
<1>2. ASSUME NEW k \in Kinds, NEW d \in Cores
      PROVE  FlatMap(One(op), OnLink(O, k, d)) = IF k \in {op.kind} THEN f[d] ELSE Nil
  <2>1. FlatMap(One(op), OnLink(O, k, d)) = OnLink(O, k, d)[op]
    BY LinkMaps, FlatOne
  <2>2. QED BY <2>1 DEF OnLink
<1>3. QED BY <1>1, <1>2 DEF Lines

(* Operations one after the other: their words one after the other.          *)
LEMMA LinesJoin ==
    ASSUME NEW O \in Sides, NEW K, NEW f, NEW s, NEW g, NEW t, NEW h,
           Lines(O, K, f, s), Lines(O, K, g, t), \A d \in Cores : h[d] = Join(f[d], g[d])
    PROVE  Lines(O, K, h, Join(s, t))
<1>1. SeqOf(s, O) /\ SeqOf(t, O) /\ SeqOf(Join(s, t), O)
  BY JoinSeq DEF Lines
<1>2. \A d \in Cores : SeqOf(h[d], Items)
  BY JoinSeq DEF Lines
<1>3. ASSUME NEW k \in Kinds, NEW d \in Cores
      PROVE  FlatMap(Join(s, t), OnLink(O, k, d)) = IF k \in K THEN h[d] ELSE Nil
  <2>1. FlatMap(Join(s, t), OnLink(O, k, d))
          = Join(FlatMap(s, OnLink(O, k, d)), FlatMap(t, OnLink(O, k, d)))
    BY <1>1, LinkMaps, FlatJoin
  <2>2. /\ FlatMap(s, OnLink(O, k, d)) = IF k \in K THEN f[d] ELSE Nil
        /\ FlatMap(t, OnLink(O, k, d)) = IF k \in K THEN g[d] ELSE Nil
    BY DEF Lines
  <2>3. QED BY <2>1, <2>2, NilNil
<1>4. QED BY <1>1, <1>2, <1>3 DEF Lines

(* Core 0's part, then core 1's. *)
LEMMA LinesCores ==
    ASSUME NEW O \in Sides, NEW K, NEW a, NEW b, NEW s, NEW t,
           Lines(O, K, [d \in Cores |-> IF d = 0 THEN a ELSE Nil], s),
           Lines(O, K, [d \in Cores |-> IF d = 1 THEN b ELSE Nil], t)
    PROVE  Lines(O, K, [d \in Cores |-> IF d = 0 THEN a ELSE b], Join(s, t))
<1> DEFINE f == [d \in Cores |-> IF d = 0 THEN a ELSE Nil]
           g == [d \in Cores |-> IF d = 1 THEN b ELSE Nil]
           h == [d \in Cores |-> IF d = 0 THEN a ELSE b]
<1>1. 0 \in Cores /\ 1 \in Cores /\ \A d \in Cores : d = 0 \/ d = 1
  BY DEF Cores
<1>2. f[0] = a /\ f[1] = Nil /\ g[0] = Nil /\ g[1] = b /\ h[0] = a /\ h[1] = b
  BY <1>1
<1> HIDE DEF f, g, h
<1>3. SeqOf(a, Items) /\ SeqOf(b, Items)
  BY <1>1, <1>2 DEF Lines, f, g
<1>4. Join(a, Nil) = a /\ Join(Nil, b) = b
  BY <1>3, JoinNil
<1>5. \A d \in Cores : h[d] = Join(f[d], g[d])
  BY <1>1, <1>2, <1>4
<1>6. Lines(O, K, f, s) /\ Lines(O, K, g, t)
  BY DEF f, g
<1>7. Lines(O, K, h, Join(s, t))
  BY <1>5, <1>6, LinesJoin
<1>8. QED BY <1>7 DEF h

(* A loop whose turn i sends core d the word w[i], for its first m[d] turns. *)
Turns(O, K, n, m, w, f) ==
    \A i \in 1..n : Lines(O, K, [d \in Cores |-> IF i <= m[d] THEN One(w[i]) ELSE Nil], f[i])

(* A loop in which the cores take turns, for m[d] iterations each.           *)
LEMMA LinesLoop ==
    ASSUME NEW O \in Sides, NEW K, NEW n \in Nat, NEW m, NEW w, NEW f,
           \A d \in Cores : m[d] \in Nat /\ m[d] <= n, \A i \in 1..n : w[i] \in Items,
           Turns(O, K, n, m, w, f)
    PROVE  Lines(O, K, [d \in Cores |-> Ones(m[d], w)], Cat(n, f))
<1>1. Parts(n, f, O)
  BY DEF Parts, Turns, Lines
<1>2. SeqOf(Cat(n, f), O)
  BY <1>1, CatSeq
<1>3. ASSUME NEW d \in Cores
      PROVE  /\ SeqOf(Ones(m[d], w), Items)
             /\ \A k \in Kinds : FlatMap(Cat(n, f), OnLink(O, k, d))
                                   = IF k \in K THEN Ones(m[d], w) ELSE Nil
  <2>1. m[d] \in Nat /\ m[d] <= n /\ \A i \in 1..m[d] : w[i] \in Items
    OBVIOUS
  <2>2. SeqOf(Ones(m[d], w), Items)
    BY <2>1, OnesSeq
  <2>3. ASSUME NEW k \in Kinds
        PROVE  FlatMap(Cat(n, f), OnLink(O, k, d)) = IF k \in K THEN Ones(m[d], w) ELSE Nil
    <3> DEFINE h == OnLink(O, k, d)
               p == [i \in 1..n |-> FlatMap(f[i], h)]
               e == [i \in 1..m[d] |-> One(w[i])]
    <3>1. FlatOf(n, f, h, p)
      BY DEF FlatOf
    <3>2. Maps(h, O, Items)
      BY LinkMaps
    <3>3. ASSUME NEW i \in 1..n
          PROVE  p[i] = IF k \in K /\ i <= m[d] THEN One(w[i]) ELSE Nil
      <4>1. p[i] = FlatMap(f[i], OnLink(O, k, d))
        OBVIOUS
      <4> DEFINE l == [c \in Cores |-> IF i <= m[c] THEN One(w[i]) ELSE Nil]
      <4>2. l[d] = IF i <= m[d] THEN One(w[i]) ELSE Nil
        OBVIOUS
      <4>3. Lines(O, K, l, f[i])
        BY DEF Turns
      <4> HIDE DEF l, p
      <4>4. FlatMap(f[i], OnLink(O, k, d)) = IF k \in K THEN l[d] ELSE Nil
        BY <4>3 DEF Lines
      <4>5. QED BY <4>1, <4>2, <4>4
    <3>4. \A i \in 1..m[d] : e[i] = One(w[i])
      OBVIOUS
    <3>5. Cat(m[d], e) = Ones(m[d], w)
      BY DEF Ones
    <3> HIDE DEF h, p, e
    <3>6. FlatMap(Cat(n, f), h) = Cat(n, p)
      BY <1>1, <3>1, <3>2, FlatCat
    <3>7. CASE k \in K
      <4>1. Parts(m[d], e, Items)
        BY <2>1, <3>4, OneSeq DEF Parts
      <4>2. ASSUME NEW i \in 1..n PROVE p[i] = IF i <= m[d] THEN e[i] ELSE Nil
        <5>1. i <= m[d] => i \in 1..m[d]
          BY <2>1
        <5>2. QED BY <3>3, <3>4, <3>7, <5>1
      <4>3. Cat(n, p) = Cat(m[d], e)
        BY <2>1, <4>1, <4>2, CatFirst
      <4>4. QED BY <3>5, <3>6, <3>7, <4>3 DEF h
    <3>8. CASE k \notin K
      <4>1. Empty(n, p)
        BY <3>3, <3>8 DEF Empty
      <4>2. QED BY <3>6, <3>8, <4>1, CatNone DEF h
    <3>9. QED BY <3>7, <3>8
  <2>4. QED BY <2>2, <2>3
<1> DEFINE l == [d \in Cores |-> Ones(m[d], w)]
<1>4. \A d \in Cores : l[d] = Ones(m[d], w)
  OBVIOUS
<1> HIDE DEF l
<1>5. Lines(O, K, l, Cat(n, f))
  BY <1>2, <1>3, <1>4 DEF Lines
<1>6. QED BY <1>5 DEF l

Only(c, a) == [d \in Cores |-> IF d = c THEN a ELSE Nil]
LinkWord(x, v) == [i \in Nat |-> <<x, v, i>>]

(* There are two cores.                                                      *)
LEMMA BothCores == 0 \in Cores /\ 1 \in Cores /\ \A d \in Cores : d = 0 \/ d = 1
BY DEF Cores

(* The words of an exchange are items.                                       *)
LEMMA LinkItems ==
    ASSUME NEW x \in Nat, NEW v \in Nat
    PROVE  \A i \in Nat : LinkWord(x, v)[i] \in Items /\ LinkWord(x, v)[i] = <<x, v, i>>
BY DEF LinkWord, Items, Words

(* Lines depends on the words of each core alone.                            *)
LEMMA LinesSame ==
    ASSUME NEW O, NEW K, NEW f, NEW g, NEW s, Lines(O, K, f, s), \A d \in Cores : f[d] = g[d]
    PROVE  Lines(O, K, g, s)
BY DEF Lines

(* A core's operation, if it has one. *)
LEMMA LinesMaybe ==
    ASSUME NEW O \in Sides, NEW op \in O, NEW on \in BOOLEAN
    PROVE  Lines(O, {op.kind}, Only(op.core, IF on THEN One(op.word) ELSE Nil),
                 IF on THEN One(op) ELSE Nil)
<1>1. CASE on
  <2>1. \A d \in Cores : Only(op.core, One(op.word))[d] = IF d = op.core THEN One(op.word) ELSE Nil
    BY DEF Only
  <2>2. Lines(O, {op.kind}, Only(op.core, One(op.word)), One(op))
    BY <2>1, LinesOne
  <2>3. QED BY <1>1, <2>2
<1>2. CASE ~on
  <2>1. \A d \in Cores : Only(op.core, Nil)[d] = Nil
    BY DEF Only
  <2>2. Lines(O, {op.kind}, Only(op.core, Nil), Nil)
    BY <2>1, LinesNil
  <2>3. QED BY <1>2, <2>2
<1>3. QED BY <1>1, <1>2

(* Two streams served in turn. *)
LEMMA LinesBoth ==
    ASSUME NEW O \in Sides, NEW K, NEW L, NEW f, NEW s, NEW t,
           Lines(O, K, f, s), Lines(O, L, f, t), K \cap L = {}
    PROVE  Lines(O, K \cup L, f, Join(s, t))
<1>1. SeqOf(s, O) /\ SeqOf(t, O) /\ SeqOf(Join(s, t), O)
  BY JoinSeq DEF Lines
<1>2. ASSUME NEW k \in Kinds, NEW d \in Cores
      PROVE  FlatMap(Join(s, t), OnLink(O, k, d)) = IF k \in K \cup L THEN f[d] ELSE Nil
  <2>1. FlatMap(Join(s, t), OnLink(O, k, d))
          = Join(FlatMap(s, OnLink(O, k, d)), FlatMap(t, OnLink(O, k, d)))
    BY <1>1, LinkMaps, FlatJoin
  <2>2. /\ FlatMap(s, OnLink(O, k, d)) = IF k \in K THEN f[d] ELSE Nil
        /\ FlatMap(t, OnLink(O, k, d)) = IF k \in L THEN f[d] ELSE Nil
        /\ SeqOf(f[d], Items)
    BY DEF Lines
  <2>3. Join(f[d], Nil) = f[d] /\ Join(Nil, f[d]) = f[d] /\ Join(Nil, Nil) = Nil
    BY <2>2, JoinNil, NilNil
  <2>4. QED BY <2>1, <2>2, <2>3
<1>3. QED BY <1>1, <1>2 DEF Lines

(* One part for each core. *)
LEMMA LinesForCores ==
    ASSUME NEW O \in Sides, NEW K, NEW P, NEW g,
           \A c \in Cores : Lines(O, K, Only(c, g[c]), P[c])
    PROVE  Lines(O, K, g, Join(P[0], P[1]))
<1>1. Lines(O, K, Only(0, g[0]), P[0]) /\ Lines(O, K, Only(1, g[1]), P[1])
  BY BothCores
<1>2. Lines(O, K, [d \in Cores |-> IF d = 0 THEN g[0] ELSE g[1]], Join(P[0], P[1]))
  <2>1. /\ Lines(O, K, [d \in Cores |-> IF d = 0 THEN g[0] ELSE Nil], P[0])
        /\ Lines(O, K, [d \in Cores |-> IF d = 1 THEN g[1] ELSE Nil], P[1])
    BY <1>1 DEF Only
  <2>2. QED BY <2>1, LinesCores
<1> DEFINE f == [d \in Cores |-> IF d = 0 THEN g[0] ELSE g[1]]
<1>3. \A d \in Cores : f[d] = g[d]
  BY BothCores
<1> HIDE DEF f
<1>4. Lines(O, K, f, Join(P[0], P[1]))
  BY <1>2 DEF f
<1>5. QED BY <1>3, <1>4, LinesSame

(* The operations on the links. *)
LEMMA SendOps ==
    ASSUME NEW c \in Cores, NEW kind \in SendKinds, NEW w \in Items
    PROVE  /\ Send(c, kind, w) \in EmitOps /\ EmitOps \in Sides
           /\ Send(c, kind, w).kind = kind /\ Send(c, kind, w).core = c
           /\ Send(c, kind, w).word = w
BY DEF Send, EmitOps, Sides

(* Receive is an operation of the controller's collecting side.              *)
LEMMA ReceiveOps ==
    ASSUME NEW c \in Cores, NEW w \in Items
    PROVE  /\ Receive(c, w) \in CollectOps /\ CollectOps \in Sides
           /\ Receive(c, w).kind = "out" /\ Receive(c, w).core = c /\ Receive(c, w).word = w
BY DEF Receive, CollectOps, Sides

(* The kinds sent in one slot. *)
SlotKinds(kinds, K) ==
    \/ kinds = <<"v0">> /\ K = {"v0"}
    \/ kinds = <<"v1">> /\ K = {"v1"}
    \/ kinds = <<"v0", "v1">> /\ K = {"v0", "v1"}

(* One slot sends its word on each of its kinds, to one core.                *)
LEMMA SlotLines ==
    ASSUME NEW kinds, NEW K, SlotKinds(kinds, K), NEW c \in Cores, NEW w \in Items
    PROVE  Lines(EmitOps, K, Only(c, One(w)), [j \in 1..Len(kinds) |-> Send(c, kinds[j], w)])
<1> DEFINE s == [j \in 1..Len(kinds) |-> Send(c, kinds[j], w)]
<1>1. ASSUME NEW k \in SendKinds PROVE Lines(EmitOps, {k}, Only(c, One(w)), One(Send(c, k, w)))
  <2> DEFINE op == Send(c, k, w)
  <2>1. op \in EmitOps /\ EmitOps \in Sides /\ op.kind = k /\ op.core = c /\ op.word = w
    BY SendOps
  <2> HIDE DEF op
  <2>2. TRUE \in BOOLEAN
    OBVIOUS
  <2>3. Lines(EmitOps, {op.kind}, Only(op.core, One(op.word)), One(op))
    BY <2>1, <2>2, LinesMaybe
  <2>4. QED BY <2>1, <2>3 DEF op
<1>2. "v0" \in SendKinds /\ "v1" \in SendKinds
  BY DEF SendKinds
<1>3. ASSUME NEW k, kinds = <<k>> PROVE s = One(Send(c, k, w))
  <2>1. Len(kinds) = 1 /\ kinds[1] = k /\ 1..1 = {1}
    BY <1>3
  <2>2. s = [j \in 1..1 |-> Send(c, k, w)]
    BY <2>1
  <2>3. \A x : [j \in 1..1 |-> x] = <<x>>
    OBVIOUS
  <2>4. QED BY <2>2, <2>3 DEF One
<1>4. ASSUME kinds = <<"v0", "v1">>
      PROVE  s = Join(One(Send(c, "v0", w)), One(Send(c, "v1", w)))
  <2>1. Len(kinds) = 2 /\ kinds[1] = "v0" /\ kinds[2] = "v1"
    BY <1>4
  <2>2. s = [j \in 1..2 |-> Send(c, kinds[j], w)]
    BY <2>1
  <2>3. \A x, y : [j \in 1..2 |-> IF j = 1 THEN x ELSE y] = <<x, y>>
    OBVIOUS
  <2>4. s = [j \in 1..2 |-> IF j = 1 THEN Send(c, "v0", w) ELSE Send(c, "v1", w)]
    BY <2>1, <2>2
  <2>5. s = <<Send(c, "v0", w), Send(c, "v1", w)>>
    BY <2>3, <2>4, Zenon
  <2> HIDE DEF s
  <2>6. QED BY <2>5, TwoJoin
<1> HIDE DEF s
<1>5. CASE kinds = <<"v0">> /\ K = {"v0"}
  BY <1>1, <1>2, <1>3, <1>5 DEF s
<1>6. CASE kinds = <<"v1">> /\ K = {"v1"}
  BY <1>1, <1>2, <1>3, <1>6 DEF s
<1>7. CASE kinds = <<"v0", "v1">> /\ K = {"v0", "v1"}
  <2>1. {"v0"} \cap {"v1"} = {} /\ {"v0"} \cup {"v1"} = {"v0", "v1"} /\ EmitOps \in Sides
    BY DEF Sides
  <2>2. Lines(EmitOps, {"v0"} \cup {"v1"}, Only(c, One(w)),
              Join(One(Send(c, "v0", w)), One(Send(c, "v1", w))))
    BY <1>1, <1>2, <2>1, LinesBoth
  <2>3. QED BY <1>4, <1>7, <2>1, <2>2 DEF s
<1>8. QED BY <1>5, <1>6, <1>7 DEF SlotKinds

-----------------------------------------------------------------------------
(* The operands and results of vector operations.                           *)

RowWords(x, rows) == [d \in Cores |-> Ones(rows[d] * Blocks, LinkWord(x, 0))]
MaskWords(x, v, n, mask) == [d \in Cores |-> IF d \in mask THEN Ones(n, LinkWord(x, v)) ELSE Nil]

(* No core has more rows than MostOf.                                        *)
LEMMA MostFacts ==
    ASSUME NEW rows \in [Cores -> Nat]
    PROVE  /\ MostOf(rows) * Blocks \in Nat
           /\ \A d \in Cores : rows[d] * Blocks \in Nat /\ rows[d] * Blocks <= MostOf(rows) * Blocks
<1>1. MostOf(rows) \in Nat /\ \A d \in Cores : rows[d] \in Nat /\ rows[d] <= MostOf(rows)
  BY BothCores DEF MostOf
<1>2. Blocks \in Nat
  BY Sizes
<1>3. \A a \in Nat, b \in Nat, k \in Nat : a <= b => a * k \in Nat /\ a * k <= b * k
  OBVIOUS
<1>4. QED BY <1>1, <1>2, <1>3

(* A turn of a loop over both cores, in which core c takes part i times. *)
LEMMA CoreTurn ==
    ASSUME NEW O \in Sides, NEW K, NEW w, NEW m, NEW i, NEW P,
           \A c \in Cores : (i <= m[c]) \in BOOLEAN
               /\ Lines(O, K, Only(c, IF i <= m[c] THEN One(w) ELSE Nil), P[c])
    PROVE  Lines(O, K, [d \in Cores |-> IF i <= m[d] THEN One(w) ELSE Nil], Join(P[0], P[1]))
<1> DEFINE g == [d \in Cores |-> IF i <= m[d] THEN One(w) ELSE Nil]
<1>1. \A c \in Cores : g[c] = IF i <= m[c] THEN One(w) ELSE Nil
  OBVIOUS
<1> HIDE DEF g
<1>2. \A c \in Cores : Lines(O, K, Only(c, g[c]), P[c])
  BY <1>1
<1>3. Lines(O, K, g, Join(P[0], P[1]))
  BY <1>2, LinesForCores
<1>4. QED BY <1>3 DEF g

(* emit_cc8_vec_dual_range_from_gbuf, emit_cc8_vec_pair_dual_from_gbuf *)
LEMMA EmitRowsLines ==
    ASSUME NEW x \in Nat, NEW kinds, NEW K, SlotKinds(kinds, K), NEW rows \in [Cores -> Nat]
    PROVE  Lines(EmitOps, K, RowWords(x, rows), EmitRows(x, kinds, rows))
<1> DEFINE n == MostOf(rows) * Blocks
           m == [d \in Cores |-> rows[d] * Blocks]
           w == LinkWord(x, 0)
           s(c, i) == [j \in 1..Len(kinds) |-> Send(c, kinds[j], <<x, 0, i>>)]
           P(i) == [c \in Cores |-> IF i <= rows[c] * Blocks THEN s(c, i) ELSE << >>]
           f == [i \in 1..n |-> Join(P(i)[0], P(i)[1])]
<1>1. EmitRows(x, kinds, rows) = Cat(n, f)
  BY BothCores DEF EmitRows, Times, ForCores, Join
<1>2. n \in Nat /\ \A d \in Cores : m[d] \in Nat /\ m[d] <= n /\ m[d] = rows[d] * Blocks
  BY MostFacts
<1>3. \A i \in Nat : w[i] \in Items /\ w[i] = <<x, 0, i>>
  BY LinkItems
<1>4. EmitOps \in Sides
  BY DEF Sides
<1>5. ASSUME NEW i \in 1..n
      PROVE  Lines(EmitOps, K, [d \in Cores |-> IF i <= m[d] THEN One(w[i]) ELSE Nil], f[i])
  <2>1. i \in Nat /\ w[i] \in Items /\ w[i] = <<x, 0, i>>
    BY <1>2, <1>3
  <2>2. f[i] = Join(P(i)[0], P(i)[1])
    OBVIOUS
  <2>3. ASSUME NEW c \in Cores
        PROVE  /\ (i <= m[c]) \in BOOLEAN
               /\ Lines(EmitOps, K, Only(c, IF i <= m[c] THEN One(w[i]) ELSE Nil), P(i)[c])
    <3>1. CASE i <= m[c]
      <4>1. P(i)[c] = s(c, i)
        BY <1>2, <3>1
      <4>2. Lines(EmitOps, K, Only(c, One(w[i])), s(c, i))
        BY <2>1, SlotLines
      <4> HIDE DEF P, s, w, m
      <4>3. QED BY <3>1, <4>1, <4>2
    <3>2. CASE ~(i <= m[c])
      <4>1. P(i)[c] = Nil
        BY <1>2, <3>2 DEF Nil
      <4>2. \A d \in Cores : Only(c, Nil)[d] = Nil
        BY DEF Only
      <4> HIDE DEF P, s, w, m
      <4>3. QED BY <1>4, <3>2, <4>1, <4>2, LinesNil
    <3>3. QED BY <3>1, <3>2
  <2> HIDE DEF P, f, m, w, n
  <2>4. Lines(EmitOps, K, [d \in Cores |-> IF i <= m[d] THEN One(w[i]) ELSE Nil],
              Join(P(i)[0], P(i)[1]))
    <3> DEFINE y == w[i]
               Q == P(i)
    <3>1. \A c \in Cores : (i <= m[c]) \in BOOLEAN
            /\ Lines(EmitOps, K, Only(c, IF i <= m[c] THEN One(y) ELSE Nil), Q[c])
      BY <2>3
    <3> HIDE DEF y, Q
    <3>2. Lines(EmitOps, K, [d \in Cores |-> IF i <= m[d] THEN One(y) ELSE Nil], Join(Q[0], Q[1]))
      BY <1>4, <3>1, CoreTurn
    <3>3. QED BY <3>2 DEF y, Q
  <2>5. QED BY <2>2, <2>4
<1> HIDE DEF P, f, n, m, w
<1>6. Turns(EmitOps, K, n, m, w, f)
  BY <1>5 DEF Turns
<1>7. \A i \in 1..n : w[i] \in Items
  BY <1>2, <1>3
<1>8. Lines(EmitOps, K, [d \in Cores |-> Ones(m[d], w)], Cat(n, f))
  BY <1>2, <1>4, <1>6, <1>7, LinesLoop
<1> DEFINE l == [d \in Cores |-> Ones(m[d], w)]
<1>9. \A d \in Cores : l[d] = RowWords(x, rows)[d]
  BY <1>2 DEF RowWords, w
<1>10. Lines(EmitOps, K, l, Cat(n, f))
  BY <1>8
<1> HIDE DEF l
<1>11. QED BY <1>1, <1>9, <1>10, LinesSame

-----------------------------------------------------------------------------
(* The operands and results of waves.                                       *)

CoreLoop(O, K, n, m, w, f) ==
    \A i \in 1..n : \E P :
        /\ f[i] = Join(P[0], P[1])
        /\ \A c \in Cores : Lines(O, K, Only(c, IF i <= m[c] THEN One(w[i]) ELSE Nil), P[c])

(* A loop of both cores, where core d has m[d] iterations.                   *)
LEMMA CoreLoopLines ==
    ASSUME NEW O \in Sides, NEW K, NEW n \in Nat, NEW m \in [Cores -> Nat], NEW w, NEW f,
           \A d \in Cores : m[d] <= n, \A i \in 1..n : w[i] \in Items,
           CoreLoop(O, K, n, m, w, f)
    PROVE  Lines(O, K, [d \in Cores |-> Ones(m[d], w)], Cat(n, f))
<1>1. ASSUME NEW i \in 1..n
      PROVE  Lines(O, K, [d \in Cores |-> IF i <= m[d] THEN One(w[i]) ELSE Nil], f[i])
  <2>1. PICK P : /\ f[i] = Join(P[0], P[1])
                 /\ \A c \in Cores : Lines(O, K, Only(c, IF i <= m[c] THEN One(w[i]) ELSE Nil), P[c])
    BY DEF CoreLoop
  <2>2. \A c \in Cores : (i <= m[c]) \in BOOLEAN
    OBVIOUS
  <2> DEFINE y == w[i]
  <2>3. \A c \in Cores : (i <= m[c]) \in BOOLEAN
            /\ Lines(O, K, Only(c, IF i <= m[c] THEN One(y) ELSE Nil), P[c])
    BY <2>1, <2>2
  <2> HIDE DEF y
  <2>4. Lines(O, K, [d \in Cores |-> IF i <= m[d] THEN One(y) ELSE Nil], Join(P[0], P[1]))
    BY <2>3, CoreTurn
  <2>5. QED BY <2>1, <2>4 DEF y
<1>2. Turns(O, K, n, m, w, f)
  BY <1>1 DEF Turns
<1>3. \A d \in Cores : m[d] \in Nat /\ m[d] <= n
  OBVIOUS
<1>4. QED BY <1>2, <1>3, LinesLoop

(* One operation of core c, when on. *)
LEMMA OneSend ==
    ASSUME NEW c \in Cores, NEW kind \in SendKinds, NEW w \in Items, NEW on \in BOOLEAN
    PROVE  Lines(EmitOps, {kind}, Only(c, IF on THEN One(w) ELSE Nil),
                 IF on THEN <<Send(c, kind, w)>> ELSE << >>)
<1> DEFINE op == Send(c, kind, w)
<1>1. op \in EmitOps /\ EmitOps \in Sides /\ op.kind = kind /\ op.core = c /\ op.word = w
  BY SendOps
<1>2. (IF on THEN <<Send(c, kind, w)>> ELSE << >>) = IF on THEN One(op) ELSE Nil
  BY DEF One, Nil
<1> HIDE DEF op
<1>3. Lines(EmitOps, {op.kind}, Only(op.core, IF on THEN One(op.word) ELSE Nil),
            IF on THEN One(op) ELSE Nil)
  BY <1>1, LinesMaybe
<1>4. QED BY <1>1, <1>2, <1>3

(* A receive that is made or not.                                            *)
LEMMA OneReceive ==
    ASSUME NEW c \in Cores, NEW w \in Items, NEW on \in BOOLEAN
    PROVE  Lines(CollectOps, {"out"}, Only(c, IF on THEN One(w) ELSE Nil),
                 IF on THEN <<Receive(c, w)>> ELSE << >>)
<1> DEFINE op == Receive(c, w)
<1>1. op \in CollectOps /\ CollectOps \in Sides /\ op.kind = "out" /\ op.core = c /\ op.word = w
  BY ReceiveOps
<1>2. (IF on THEN <<Receive(c, w)>> ELSE << >>) = IF on THEN One(op) ELSE Nil
  BY DEF One, Nil
<1> HIDE DEF op
<1>3. Lines(CollectOps, {op.kind}, Only(op.core, IF on THEN One(op.word) ELSE Nil),
            IF on THEN One(op) ELSE Nil)
  BY <1>1, LinesMaybe
<1>4. QED BY <1>1, <1>2, <1>3

(* collect_cc8_vector_results *)
LEMMA CollectVectorLines ==
    ASSUME NEW x \in Nat, NEW rows \in [Cores -> Nat]
    PROVE  Lines(CollectOps, {"out"}, RowWords(x, rows), CollectVector(x, rows))
<1> DEFINE n == MostOf(rows) * Blocks
           m == [d \in Cores |-> rows[d] * Blocks]
           w == LinkWord(x, 0)
           P(i) == [c \in Cores |-> IF i <= rows[c] * Blocks THEN <<Receive(c, <<x, 0, i>>)>> ELSE << >>]
           f == [i \in 1..n |-> Join(P(i)[0], P(i)[1])]
<1>1. CollectVector(x, rows) = Cat(n, f)
  BY BothCores DEF CollectVector, Times, ForCores, Join
<1>2. n \in Nat /\ m \in [Cores -> Nat] /\ \A d \in Cores : m[d] <= n /\ m[d] = rows[d] * Blocks
  BY MostFacts
<1>3. \A i \in Nat : w[i] \in Items /\ w[i] = <<x, 0, i>>
  BY LinkItems
<1>4. CollectOps \in Sides
  BY DEF Sides
<1>5. ASSUME NEW i \in 1..n
      PROVE  /\ f[i] = Join(P(i)[0], P(i)[1])
             /\ \A c \in Cores : Lines(CollectOps, {"out"},
                                       Only(c, IF i <= m[c] THEN One(w[i]) ELSE Nil), P(i)[c])
  <2>1. i \in Nat /\ w[i] \in Items /\ w[i] = <<x, 0, i>>
    BY <1>2, <1>3
  <2>2. f[i] = Join(P(i)[0], P(i)[1])
    OBVIOUS
  <2>3. ASSUME NEW c \in Cores
        PROVE  Lines(CollectOps, {"out"}, Only(c, IF i <= m[c] THEN One(w[i]) ELSE Nil), P(i)[c])
    <3> DEFINE on == i <= m[c]
    <3>1. P(i)[c] = IF on THEN <<Receive(c, w[i])>> ELSE << >>
      BY <1>2, <2>1
    <3>2. on \in BOOLEAN
      BY <1>2
    <3> HIDE DEF P, on, m, w
    <3>3. Lines(CollectOps, {"out"}, Only(c, IF on THEN One(w[i]) ELSE Nil),
                IF on THEN <<Receive(c, w[i])>> ELSE << >>)
      BY <2>1, <3>2, OneReceive
    <3>4. QED BY <3>1, <3>3 DEF on
  <2>4. QED BY <2>2, <2>3
<1> HIDE DEF P, f, n, m, w
<1>6. CoreLoop(CollectOps, {"out"}, n, m, w, f)
  BY <1>5 DEF CoreLoop
<1>7. \A i \in 1..n : w[i] \in Items
  BY <1>2, <1>3
<1> DEFINE l == [d \in Cores |-> Ones(m[d], w)]
<1>8. Lines(CollectOps, {"out"}, l, Cat(n, f))
  BY <1>2, <1>4, <1>6, <1>7, CoreLoopLines
<1>9. \A d \in Cores : l[d] = RowWords(x, rows)[d]
  BY <1>2 DEF RowWords, w
<1> HIDE DEF l
<1>10. QED BY <1>1, <1>8, <1>9, LinesSame

(* The beats of a wave, or its packets, on the cores of a mask. *)
LEMMA MaskLoop ==
    ASSUME NEW O \in Sides, NEW K, NEW x \in Nat, NEW v \in Nat, NEW n \in Nat,
           NEW mask \in SUBSET Cores, NEW f,
           \A i \in 1..n : \E P :
              /\ f[i] = Join(P[0], P[1])
              /\ \A c \in Cores : Lines(O, K,
                    Only(c, IF c \in mask THEN One(LinkWord(x, v)[i]) ELSE Nil), P[c])
    PROVE  Lines(O, K, MaskWords(x, v, n, mask), Cat(n, f))
<1> DEFINE m == [d \in Cores |-> IF d \in mask THEN n ELSE 0]
           w == LinkWord(x, v)
<1>1. m \in [Cores -> Nat] /\ \A d \in Cores : m[d] <= n /\ m[d] = IF d \in mask THEN n ELSE 0
  OBVIOUS
<1>2. \A i \in Nat : w[i] \in Items
  BY LinkItems
<1> HIDE DEF m, w
<1>3. CoreLoop(O, K, n, m, w, f)
  <2>1. SUFFICES ASSUME NEW i \in 1..n
                 PROVE  \E P : /\ f[i] = Join(P[0], P[1])
                               /\ \A c \in Cores : Lines(O, K,
                                     Only(c, IF i <= m[c] THEN One(w[i]) ELSE Nil), P[c])
    BY DEF CoreLoop
  <2>2. \A c \in Cores : (i <= m[c]) = (c \in mask)
    BY <1>1
  <2>3. PICK P : /\ f[i] = Join(P[0], P[1])
                 /\ \A c \in Cores : Lines(O, K, Only(c, IF c \in mask THEN One(w[i]) ELSE Nil), P[c])
    BY DEF w
  <2>4. \A c \in Cores : Lines(O, K, Only(c, IF i <= m[c] THEN One(w[i]) ELSE Nil), P[c])
    BY <2>2, <2>3
  <2>5. QED BY <2>3, <2>4
<1> DEFINE l == [d \in Cores |-> Ones(m[d], w)]
<1>4. Lines(O, K, l, Cat(n, f))
  BY <1>1, <1>2, <1>3, CoreLoopLines
<1>5. \A d \in Cores : l[d] = MaskWords(x, v, n, mask)[d]
  <2>1. Ones(0, w) = Nil
    BY CatSteps DEF Ones
  <2>2. QED BY <1>1, <2>1 DEF MaskWords, w
<1> HIDE DEF l
<1>6. QED BY <1>4, <1>5, LinesSame

(* emit_cc8_mm_wave_inputs_flat *)
LEMMA EmitWaveLines ==
    ASSUME NEW x \in Nat, NEW v \in Nat, NEW n \in Nat, NEW mask \in SUBSET Cores
    PROVE  Lines(EmitOps, {"mm"}, MaskWords(x, v, n, mask), EmitWave(x, v, n, mask))
<1> DEFINE w == LinkWord(x, v)
           P(i) == [c \in Cores |-> IF c \in mask THEN <<Send(c, "mm", <<x, v, i>>)>> ELSE << >>]
           f == [i \in 1..n |-> Join(P(i)[0], P(i)[1])]
<1>1. EmitWave(x, v, n, mask) = Cat(n, f)
  BY BothCores DEF EmitWave, Times, ForCores, Join
<1>2. \A i \in Nat : w[i] \in Items /\ w[i] = <<x, v, i>>
  BY LinkItems
<1>3. EmitOps \in Sides /\ "mm" \in SendKinds
  BY DEF Sides, SendKinds
<1>4. ASSUME NEW i \in 1..n
      PROVE  /\ f[i] = Join(P(i)[0], P(i)[1])
             /\ \A c \in Cores : Lines(EmitOps, {"mm"},
                    Only(c, IF c \in mask THEN One(w[i]) ELSE Nil), P(i)[c])
  <2>1. w[i] \in Items /\ w[i] = <<x, v, i>>
    BY <1>2
  <2>2. f[i] = Join(P(i)[0], P(i)[1])
    OBVIOUS
  <2>3. ASSUME NEW c \in Cores
        PROVE  Lines(EmitOps, {"mm"}, Only(c, IF c \in mask THEN One(w[i]) ELSE Nil), P(i)[c])
    <3> DEFINE on == c \in mask
    <3>1. P(i)[c] = (IF on THEN <<Send(c, "mm", w[i])>> ELSE << >>) /\ on \in BOOLEAN
      BY <2>1
    <3> HIDE DEF P, on, w
    <3>2. Lines(EmitOps, {"mm"}, Only(c, IF on THEN One(w[i]) ELSE Nil),
                IF on THEN <<Send(c, "mm", w[i])>> ELSE << >>)
      BY <1>3, <2>1, <3>1, OneSend
    <3>3. QED BY <3>1, <3>2 DEF on
  <2>4. QED BY <2>2, <2>3
<1> HIDE DEF P, f
<1>5. Lines(EmitOps, {"mm"}, MaskWords(x, v, n, mask), Cat(n, f))
  BY <1>3, <1>4, MaskLoop
<1>6. QED BY <1>1, <1>5

(* collect_cc8_mm_wave_results_flat *)
LEMMA CollectWaveLines ==
    ASSUME NEW x \in Nat, NEW v \in Nat, NEW mask \in SUBSET Cores
    PROVE  Lines(CollectOps, {"out"}, MaskWords(x, v, Packets, mask), CollectWave(x, v, mask))
<1> DEFINE w == LinkWord(x, v)
           P(i) == [c \in Cores |-> IF c \in mask THEN <<Receive(c, <<x, v, i>>)>> ELSE << >>]
           f == [i \in 1..Packets |-> Join(P(i)[0], P(i)[1])]
<1>1. CollectWave(x, v, mask) = Cat(Packets, f)
  BY BothCores DEF CollectWave, Times, ForCores, Join
<1>2. Packets \in Nat /\ \A i \in Nat : w[i] \in Items /\ w[i] = <<x, v, i>>
  BY LinkItems, Sizes
<1>3. CollectOps \in Sides
  BY DEF Sides
<1>4. ASSUME NEW i \in 1..Packets
      PROVE  /\ f[i] = Join(P(i)[0], P(i)[1])
             /\ \A c \in Cores : Lines(CollectOps, {"out"},
                    Only(c, IF c \in mask THEN One(w[i]) ELSE Nil), P(i)[c])
  <2>1. w[i] \in Items /\ w[i] = <<x, v, i>>
    BY <1>2
  <2>2. f[i] = Join(P(i)[0], P(i)[1])
    OBVIOUS
  <2>3. ASSUME NEW c \in Cores
        PROVE  Lines(CollectOps, {"out"}, Only(c, IF c \in mask THEN One(w[i]) ELSE Nil), P(i)[c])
    <3> DEFINE on == c \in mask
    <3>1. P(i)[c] = (IF on THEN <<Receive(c, w[i])>> ELSE << >>) /\ on \in BOOLEAN
      BY <2>1
    <3> HIDE DEF P, on, w
    <3>2. Lines(CollectOps, {"out"}, Only(c, IF on THEN One(w[i]) ELSE Nil),
                IF on THEN <<Receive(c, w[i])>> ELSE << >>)
      BY <2>1, <3>1, OneReceive
    <3>3. QED BY <3>1, <3>2 DEF on
  <2>4. QED BY <2>2, <2>3
<1> HIDE DEF P, f
<1>5. Lines(CollectOps, {"out"}, MaskWords(x, v, Packets, mask), Cat(Packets, f))
  BY <1>2, <1>3, <1>4, MaskLoop
<1>6. QED BY <1>1, <1>5

-----------------------------------------------------------------------------
(* A controller that serves the tasks it sends.                             *)

(* E sends each core c the tasks T[c] and their operands; C collects their  *)
(* results.                                                                 *)
OperandKinds == {"mm", "v0", "v1"}
Served(E, C, T) ==
    /\ SeqOf(E, EmitOps) /\ SeqOf(C, CollectOps)
    /\ \A c \in Cores :
        /\ SeqOf(T[c], Tasks)
        /\ FlatMap(E, OnLink(EmitOps, "task", c)) = T[c]
        /\ \A k \in OperandKinds : FlatMap(E, OnLink(EmitOps, k, c)) = FlatMap(T[c], Flow(k))
        /\ FlatMap(C, OnLink(CollectOps, "out", c)) = FlatMap(T[c], Flow("out"))

(* The stream kinds the lemmas use.                                          *)
LEMMA KindSets ==
    /\ \A k \in OperandKinds : k \in Kinds /\ k \in SendKinds /\ k # "task" /\ k # "out"
    /\ "task" \in Kinds /\ "out" \in Kinds /\ "mm" \in Kinds /\ "v0" \in Kinds /\ "v1" \in Kinds
    /\ EmitOps \in Sides /\ CollectOps \in Sides
BY DEF OperandKinds, Kinds, SendKinds, Sides

(* Tasks are items.                                                          *)
LEMMA TaskItems == ASSUME NEW s, SeqOf(s, Tasks) PROVE SeqOf(s, Items)
<1>1. Tasks \subseteq Items
  BY DEF Items
<1>2. \A i \in 1..Len(s) : s[i] \in Items
  BY <1>1, SeqFacts
<1>3. QED BY <1>1, <1>2 DEF SeqOf

(* Sending and collecting nothing serves no task.                            *)
LEMMA ServedNil == ASSUME NEW T, \A c \in Cores : T[c] = Nil PROVE Served(Nil, Nil, T)
BY NilSeq, FlatNil DEF Served

(* Served depends on the tasks of each core alone.                           *)
LEMMA ServedSame ==
    ASSUME NEW E, NEW C, NEW T, NEW U, Served(E, C, T), \A c \in Cores : U[c] = T[c]
    PROVE  Served(E, C, U)
BY DEF Served

(* Two served parts, one after the other.                                    *)
LEMMA ServedJoin ==
    ASSUME NEW E, NEW C, NEW T, NEW F, NEW D, NEW U, NEW V, Served(E, C, T), Served(F, D, U),
           \A c \in Cores : V[c] = Join(T[c], U[c])
    PROVE  Served(Join(E, F), Join(C, D), V)
<1>1. /\ SeqOf(E, EmitOps) /\ SeqOf(F, EmitOps) /\ SeqOf(C, CollectOps) /\ SeqOf(D, CollectOps)
  BY DEF Served
<1>2. SeqOf(Join(E, F), EmitOps) /\ SeqOf(Join(C, D), CollectOps)
  BY <1>1, JoinSeq
<1>3. ASSUME NEW c \in Cores
      PROVE  /\ SeqOf(V[c], Tasks)
             /\ FlatMap(Join(E, F), OnLink(EmitOps, "task", c)) = V[c]
             /\ \A k \in OperandKinds :
                  FlatMap(Join(E, F), OnLink(EmitOps, k, c)) = FlatMap(V[c], Flow(k))
             /\ FlatMap(Join(C, D), OnLink(CollectOps, "out", c)) = FlatMap(V[c], Flow("out"))
  <2>1. SeqOf(T[c], Tasks) /\ SeqOf(U[c], Tasks) /\ V[c] = Join(T[c], U[c])
    BY DEF Served
  <2>2. \A k \in Kinds : FlatMap(V[c], Flow(k)) = Join(FlatMap(T[c], Flow(k)), FlatMap(U[c], Flow(k)))
    BY <2>1, FlowMaps, FlatJoin
  <2>3. \A k \in Kinds : FlatMap(Join(E, F), OnLink(EmitOps, k, c))
            = Join(FlatMap(E, OnLink(EmitOps, k, c)), FlatMap(F, OnLink(EmitOps, k, c)))
    BY <1>1, LinkMaps, FlatJoin, KindSets
  <2>4. FlatMap(Join(C, D), OnLink(CollectOps, "out", c))
            = Join(FlatMap(C, OnLink(CollectOps, "out", c)), FlatMap(D, OnLink(CollectOps, "out", c)))
    BY <1>1, LinkMaps, FlatJoin, KindSets
  <2>5. /\ FlatMap(E, OnLink(EmitOps, "task", c)) = T[c]
        /\ FlatMap(F, OnLink(EmitOps, "task", c)) = U[c]
        /\ \A k \in OperandKinds : /\ FlatMap(E, OnLink(EmitOps, k, c)) = FlatMap(T[c], Flow(k))
                                   /\ FlatMap(F, OnLink(EmitOps, k, c)) = FlatMap(U[c], Flow(k))
        /\ FlatMap(C, OnLink(CollectOps, "out", c)) = FlatMap(T[c], Flow("out"))
        /\ FlatMap(D, OnLink(CollectOps, "out", c)) = FlatMap(U[c], Flow("out"))
    BY DEF Served
  <2>6. SeqOf(V[c], Tasks)
    BY <2>1, JoinSeq
  <2>7. FlatMap(Join(E, F), OnLink(EmitOps, "task", c)) = V[c]
    BY <2>1, <2>3, <2>5, KindSets
  <2>8. ASSUME NEW k \in OperandKinds
        PROVE  FlatMap(Join(E, F), OnLink(EmitOps, k, c)) = FlatMap(V[c], Flow(k))
    <3>1. k \in Kinds
      BY KindSets
    <3>2. QED BY <2>2, <2>3, <2>5, <3>1
  <2>9. FlatMap(Join(C, D), OnLink(CollectOps, "out", c)) = FlatMap(V[c], Flow("out"))
    BY <2>2, <2>4, <2>5, KindSets
  <2>10. QED BY <2>6, <2>7, <2>8, <2>9
<1>4. QED BY <1>2, <1>3 DEF Served

ServedParts(n, E, C, T) == \A i \in 1..n : Served(E[i], C[i], T[i])
TaskParts(n, T) == [c \in Cores |-> Cat(n, [i \in 1..n |-> T[i][c]])]

(* The tasks of parts, one part more at a time.                              *)
LEMMA TaskPartsSteps ==
    ASSUME NEW T
    PROVE  /\ \A c \in Cores : TaskParts(0, T)[c] = Nil
           /\ \A n \in Nat : \A c \in Cores :
                TaskParts(n + 1, T)[c] = Join(TaskParts(n, T)[c], T[n + 1][c])
<1>1. \A c \in Cores : TaskParts(0, T)[c] = Nil
  BY CatSteps DEF TaskParts
<1>2. ASSUME NEW n \in Nat, NEW c \in Cores
      PROVE  TaskParts(n + 1, T)[c] = Join(TaskParts(n, T)[c], T[n + 1][c])
  <2> DEFINE f == [i \in 1..n |-> T[i][c]]
             e == [i \in 1..(n + 1) |-> T[i][c]]
  <2>1. TaskParts(n, T)[c] = Cat(n, f) /\ TaskParts(n + 1, T)[c] = Cat(n + 1, e)
    BY DEF TaskParts
  <2>2. e[n + 1] = T[n + 1][c]
    OBVIOUS
  <2>3. \A i \in 1..n : e[i] = f[i]
    OBVIOUS
  <2> HIDE DEF e, f
  <2>4. Cat(n + 1, e) = Join(Cat(n, e), e[n + 1])
    BY CatSteps, Zenon
  <2>5. Cat(n, e) = Cat(n, f)
    BY <2>3, CatEqual DEF Same
  <2>6. QED BY <2>1, <2>2, <2>4, <2>5
<1>3. QED BY <1>1, <1>2

(* Served parts one after the other.                                         *)
LEMMA ServedCat ==
    ASSUME NEW n \in Nat, NEW E, NEW C, NEW T, ServedParts(n, E, C, T)
    PROVE  Served(Cat(n, E), Cat(n, C), TaskParts(n, T))
<1> DEFINE S == {m \in Nat : m <= n => Served(Cat(m, E), Cat(m, C), TaskParts(m, T))}
<1>1. 0 \in S
  BY CatSteps, TaskPartsSteps, ServedNil
<1>2. ASSUME NEW m \in Nat, m \in S PROVE m + 1 \in S
  <2>1. CASE m + 1 <= n
    <3>1. m <= n /\ m + 1 \in 1..n
      BY <2>1
    <3>2. Served(Cat(m, E), Cat(m, C), TaskParts(m, T)) /\ Served(E[m + 1], C[m + 1], T[m + 1])
      BY <1>2, <3>1 DEF ServedParts
    <3>3. Cat(m + 1, E) = Join(Cat(m, E), E[m + 1]) /\ Cat(m + 1, C) = Join(Cat(m, C), C[m + 1])
      BY CatSteps
    <3>4. \A c \in Cores : TaskParts(m + 1, T)[c] = Join(TaskParts(m, T)[c], T[m + 1][c])
      BY TaskPartsSteps
    <3>5. Served(Join(Cat(m, E), E[m + 1]), Join(Cat(m, C), C[m + 1]), TaskParts(m + 1, T))
      BY <3>2, <3>4, ServedJoin
    <3>6. QED BY <3>3, <3>5
  <2>2. QED BY <2>1
<1>3. n \in S
  <2> HIDE DEF S
  <2> QED BY <1>1, <1>2, SetInduction
<1>4. QED BY <1>3

-----------------------------------------------------------------------------
(* The tasks of vector operations and waves.                                *)

VectorTaskOf(x, mode, rows, e) ==
    [c \in Cores |-> IF rows[c] # 0 THEN One(VectorTask(x, mode, rows[c], e))
                     ELSE IF e THEN One(StopTask) ELSE Nil]
WaveTaskOf(x, v, reps, mask, e) ==
    [c \in Cores |-> IF c \in mask THEN One(MmTask(x, v, KCount, reps, e))
                     ELSE IF e THEN One(StopTask) ELSE Nil]

(* The types of the constants, as the assumptions give them.                 *)
LEMMA CoreConstants ==
    /\ KCount \in Nat /\ MaxSeq \in Nat /\ MaxTasks \in Nat
    /\ GqaGroup \in Nat \ {0} /\ PvWaves \in Nat \ {0} /\ AttnTile \in Nat \ {0}
    /\ TokensPerPort \in Nat \ {0} /\ ActiveTokens \in Nat
    /\ \A s \in 0..6 : Waves[s] \in Nat \ {0}
BY ShapeAssumption, TokenAssumption

(* A core is sent t, or u, or no task. *)
LEMMA TaskChoice ==
    ASSUME NEW c \in Cores, NEW t \in Tasks, NEW a \in BOOLEAN, NEW e \in BOOLEAN
    PROVE  Lines(EmitOps, {"task"},
                 Only(c, IF a THEN One(t) ELSE IF e THEN One(StopTask) ELSE Nil),
                 IF a THEN <<Send(c, "task", t)>>
                 ELSE IF e THEN <<Send(c, "task", StopTask)>> ELSE << >>)
<1>1. t \in Items /\ StopTask \in Items /\ "task" \in SendKinds
  BY TaskKinds DEF Items, SendKinds
<1>2. CASE a
  <2>1. Lines(EmitOps, {"task"}, Only(c, IF a THEN One(t) ELSE Nil),
              IF a THEN <<Send(c, "task", t)>> ELSE << >>)
    BY <1>1, OneSend
  <2>2. QED BY <1>2, <2>1
<1>3. CASE ~a
  <2>1. Lines(EmitOps, {"task"}, Only(c, IF e THEN One(StopTask) ELSE Nil),
              IF e THEN <<Send(c, "task", StopTask)>> ELSE << >>)
    BY <1>1, OneSend
  <2>2. QED BY <1>3, <2>1
<1>4. QED BY <1>2, <1>3

(* The tasks of a vector operation: the rows' tasks, or a STOP for a core    *)
(* without any.                                                              *)
LEMMA VectorTasksLines ==
    ASSUME NEW x \in Nat, NEW mode \in VectorModes, NEW rows \in [Cores -> Nat], NEW e \in BOOLEAN
    PROVE  Lines(EmitOps, {"task"}, VectorTaskOf(x, mode, rows, e), VectorTasks(x, mode, rows, e))
<1> DEFINE P == [c \in Cores |->
                   IF rows[c] # 0 THEN <<Send(c, "task", VectorTask(x, mode, rows[c], e))>>
                   ELSE IF e THEN <<Send(c, "task", StopTask)>> ELSE << >>]
           g == VectorTaskOf(x, mode, rows, e)
<1>1. VectorTasks(x, mode, rows, e) = Join(P[0], P[1])
  BY BothCores DEF VectorTasks, ForCores, Join
<1>2. ASSUME NEW c \in Cores PROVE Lines(EmitOps, {"task"}, Only(c, g[c]), P[c])
  <2> DEFINE t == VectorTask(x, mode, rows[c], e)
             a == rows[c] # 0
  <2>1. t \in Tasks /\ a \in BOOLEAN
    BY TaskKinds
  <2>2. g[c] = IF a THEN One(t) ELSE IF e THEN One(StopTask) ELSE Nil
    BY DEF VectorTaskOf
  <2>3. P[c] = IF a THEN <<Send(c, "task", t)>>
               ELSE IF e THEN <<Send(c, "task", StopTask)>> ELSE << >>
    OBVIOUS
  <2> HIDE DEF P, g, t, a
  <2>4. QED BY <2>1, <2>2, <2>3, TaskChoice
<1> HIDE DEF P, g
<1>3. Lines(EmitOps, {"task"}, g, Join(P[0], P[1]))
  BY <1>2, LinesForCores, KindSets
<1>4. QED BY <1>1, <1>3 DEF g

(* The tasks of a wave: to the masked cores, a STOP to the others at the     *)
(* end.                                                                      *)
LEMMA WaveTasksLines ==
    ASSUME NEW x \in Nat, NEW v \in Nat, NEW reps \in Nat, NEW mask \in SUBSET Cores, NEW e \in BOOLEAN
    PROVE  Lines(EmitOps, {"task"}, WaveTaskOf(x, v, reps, mask, e), WaveTasks(x, v, reps, mask, e))
<1> DEFINE t == MmTask(x, v, KCount, reps, e)
           P == [c \in Cores |->
                   IF c \in mask THEN <<Send(c, "task", t)>>
                   ELSE IF e THEN <<Send(c, "task", StopTask)>> ELSE << >>]
           g == WaveTaskOf(x, v, reps, mask, e)
<1>1. WaveTasks(x, v, reps, mask, e) = Join(P[0], P[1])
  BY BothCores DEF WaveTasks, ForCores, Join
<1>2. t \in Tasks
  BY TaskKinds, CoreConstants
<1>3. ASSUME NEW c \in Cores PROVE Lines(EmitOps, {"task"}, Only(c, g[c]), P[c])
  <2> DEFINE a == c \in mask
  <2>1. a \in BOOLEAN
    OBVIOUS
  <2>2. g[c] = IF a THEN One(t) ELSE IF e THEN One(StopTask) ELSE Nil
    BY DEF WaveTaskOf
  <2>3. P[c] = IF a THEN <<Send(c, "task", t)>>
               ELSE IF e THEN <<Send(c, "task", StopTask)>> ELSE << >>
    OBVIOUS
  <2> HIDE DEF P, g, t, a
  <2>4. QED BY <1>2, <2>1, <2>2, <2>3, TaskChoice
<1> HIDE DEF P, g, t
<1>4. Lines(EmitOps, {"task"}, g, Join(P[0], P[1]))
  BY <1>3, LinesForCores, KindSets
<1>5. QED BY <1>1, <1>4 DEF g

(* Tasks, then their operands; the results on the other side. *)
LEMMA ServedExchange ==
    ASSUME NEW T, NEW A, NEW B, NEW C, NEW R,
           Lines(EmitOps, {"task"}, T, A), SeqOf(B, EmitOps), Lines(CollectOps, {"out"}, R, C),
           \A c \in Cores :
              /\ SeqOf(T[c], Tasks)
              /\ FlatMap(B, OnLink(EmitOps, "task", c)) = Nil
              /\ \A k \in OperandKinds :
                    FlatMap(B, OnLink(EmitOps, k, c)) = FlatMap(T[c], Flow(k))
              /\ R[c] = FlatMap(T[c], Flow("out"))
    PROVE  Served(Join(A, B), C, T)
<1>1. SeqOf(A, EmitOps) /\ SeqOf(C, CollectOps) /\ SeqOf(Join(A, B), EmitOps)
  BY JoinSeq DEF Lines
<1>2. ASSUME NEW c \in Cores
      PROVE  /\ FlatMap(Join(A, B), OnLink(EmitOps, "task", c)) = T[c]
             /\ \A k \in OperandKinds :
                  FlatMap(Join(A, B), OnLink(EmitOps, k, c)) = FlatMap(T[c], Flow(k))
             /\ FlatMap(C, OnLink(CollectOps, "out", c)) = FlatMap(T[c], Flow("out"))
  <2>1. \A k \in Kinds : FlatMap(Join(A, B), OnLink(EmitOps, k, c))
            = Join(FlatMap(A, OnLink(EmitOps, k, c)), FlatMap(B, OnLink(EmitOps, k, c)))
    BY <1>1, LinkMaps, FlatJoin, KindSets
  <2>2. \A k \in Kinds : FlatMap(A, OnLink(EmitOps, k, c)) = IF k = "task" THEN T[c] ELSE Nil
    BY DEF Lines
  <2>3. FlatMap(C, OnLink(CollectOps, "out", c)) = R[c]
    BY KindSets DEF Lines
  <2>4. FlatMap(Join(A, B), OnLink(EmitOps, "task", c)) = Join(T[c], Nil)
    BY <2>1, <2>2, KindSets
  <2>5. Join(T[c], Nil) = T[c]
    BY JoinNil
  <2>6. ASSUME NEW k \in OperandKinds
        PROVE  FlatMap(Join(A, B), OnLink(EmitOps, k, c)) = FlatMap(T[c], Flow(k))
    <3>1. k \in Kinds /\ k # "task"
      BY KindSets
    <3>2. FlatMap(Join(A, B), OnLink(EmitOps, k, c)) = Join(Nil, FlatMap(T[c], Flow(k)))
      BY <2>1, <2>2, <3>1
    <3>3. SeqOf(FlatMap(T[c], Flow(k)), Items)
      BY <3>1, FlowMaps, FlatSeq
    <3>4. QED BY <3>2, <3>3, JoinNil
  <2>7. QED BY <2>3, <2>4, <2>5, <2>6
<1>3. QED BY <1>1, <1>2 DEF Served

(* The words of the tasks the controller sends. *)
LEMMA OneFlow ==
    ASSUME NEW t \in Tasks, NEW k \in Kinds
    PROVE  SeqOf(One(t), Tasks) /\ FlatMap(One(t), Flow(k)) = Flow(k)[t]
BY OneSeq, FlowMaps, FlatOne

(* A STOP moves no operand and no result.                                    *)
LEMMA StopFlow ==
    ASSUME NEW k \in OperandKinds \cup {"out"}
    PROVE  Flow(k)[StopTask] = Nil
<1>1. StopTask \in Tasks
  BY TaskKinds
<1>2. ~UsesMm(StopTask) /\ StopTask.mode \notin VectorModes
  BY DEF StopTask, UsesMm, MmModes, VectorModes, PairModes, RowModes
<1>3. k \in {"mm", "v0", "v1", "out"}
  BY DEF OperandKinds
<1> HIDE DEF StopTask
<1>4. QED BY <1>1, <1>2, <1>3 DEF Flow

(* The streams of a vector task.                                             *)
LEMMA VectorFlow ==
    ASSUME NEW x \in Nat, NEW mode \in VectorModes, NEW n \in Nat, NEW e \in BOOLEAN
    PROVE  LET t == VectorTask(x, mode, n, e)
               row(m) == Ones(m, LinkWord(x, 0))
           IN  /\ t \in Tasks
               /\ Flow("mm")[t] = Nil /\ Flow("v0")[t] = row(n * Blocks)
               /\ Flow("v1")[t] = row(IF mode = "RMSNORM" THEN Blocks
                                      ELSE IF mode \in PairModes THEN n * Blocks ELSE 0)
               /\ Flow("out")[t] = row(n * Blocks)
<1> DEFINE t == VectorTask(x, mode, n, e)
           row(m) == Ones(m, LinkWord(x, 0))
<1>1. t \in Tasks /\ ~UsesMm(t) /\ t.mode = mode /\ t.rows = n /\ t.exch = x
  BY TaskKinds DEF VectorTask, UsesMm, MmModes, VectorModes, PairModes, RowModes
<1>2. V1Rows(t) * Blocks = IF mode = "RMSNORM" THEN Blocks
                           ELSE IF mode \in PairModes THEN n * Blocks ELSE 0
  BY <1>1, Sizes DEF V1Rows
<1>3. n * Blocks \in Nat /\ Blocks \in Nat
  BY Sizes
<1> HIDE DEF t
<1>4. ASSUME NEW m \in Nat PROVE Row(t, m) = row(m)
  <2>1. \A i \in 1..m : RowWord(t)[i] = LinkWord(x, 0)[i]
    BY <1>1 DEF RowWord, LinkWord, Word
  <2>2. QED BY <2>1, OnesSame DEF Row
<1>5. /\ Flow("mm")[t] = Nil /\ Flow("v0")[t] = Row(t, n * Blocks)
      /\ Flow("v1")[t] = Row(t, V1Rows(t) * Blocks) /\ Flow("out")[t] = Row(t, n * Blocks)
  BY <1>1 DEF Flow
<1>6. V1Rows(t) * Blocks \in Nat
  BY <1>2, <1>3
<1>7. QED BY <1>1, <1>2, <1>3, <1>4, <1>5, <1>6 DEF t

WaveLinks(x, n) == [v \in Nat |-> Ones(n, LinkWord(x, v))]

(* The streams of an MM task of one wave.                                    *)
LEMMA WaveFlow ==
    ASSUME NEW x \in Nat, NEW v \in Nat, NEW n \in Nat, NEW e \in BOOLEAN
    PROVE  LET t == MmTask(x, v, n, 1, e)
           IN  /\ t \in Tasks
               /\ Flow("mm")[t] = Ones(n, LinkWord(x, v))
               /\ Flow("v0")[t] = Nil /\ Flow("v1")[t] = Nil
               /\ Flow("out")[t] = Ones(Packets, LinkWord(x, v))
<1> DEFINE t == MmTask(x, v, n, 1, e)
<1>1. /\ t \in Tasks /\ UsesMm(t) /\ t.mode \notin VectorModes
      /\ t.exch = x /\ t.wave = v /\ t.k = n /\ Repeats(t) = 1
  BY TaskKinds DEF MmTask, UsesMm, MmModes, VectorModes, PairModes, RowModes, Repeats
<1> HIDE DEF t
<1>2. ASSUME NEW m \in Nat PROVE MmWords(t, m) = Ones(m, LinkWord(x, v))
  <2> DEFINE g == WaveWords(t, m)
  <2>1. g[1] = Ones(m, WaveWord(t, 1)) /\ MmWords(t, m) = Cat(1, g)
    BY <1>1 DEF WaveWords, MmWords
  <2>2. WaveOf(t, 1) = v
    BY <1>1 DEF WaveOf
  <2>3. \A i \in 1..m : WaveWord(t, 1)[i] = LinkWord(x, v)[i]
    BY <1>1, <2>2 DEF WaveWord, LinkWord, Word
  <2>4. \A i \in 1..m : LinkWord(x, v)[i] \in Items
    BY LinkItems
  <2> HIDE DEF g
  <2>5. g[1] = Ones(m, LinkWord(x, v)) /\ SeqOf(Ones(m, LinkWord(x, v)), Items)
    BY <2>1, <2>3, <2>4, OnesSame, OnesSeq
  <2>6. QED BY <2>1, <2>5, CatSingle
<1>3. /\ Flow("mm")[t] = MmWords(t, n) /\ Flow("v0")[t] = Nil /\ Flow("v1")[t] = Nil
      /\ Flow("out")[t] = MmWords(t, Packets)
  BY <1>1 DEF Flow
<1>4. QED BY <1>1, <1>2, <1>3, Sizes DEF t

(* The streams of an MM task of repeated waves.                              *)
LEMMA RepeatFlow ==
    ASSUME NEW x \in Nat, NEW n \in Nat, NEW reps \in Nat \ {0}, NEW e \in BOOLEAN
    PROVE  LET t == MmTask(x, 1, n, reps, e)
           IN  /\ t \in Tasks
               /\ Flow("mm")[t] = Cat(reps, WaveLinks(x, n))
               /\ Flow("v0")[t] = Nil /\ Flow("v1")[t] = Nil
               /\ Flow("out")[t] = Cat(reps, WaveLinks(x, Packets))
<1> DEFINE t == MmTask(x, 1, n, reps, e)
<1>1. /\ t \in Tasks /\ UsesMm(t) /\ t.mode \notin VectorModes
      /\ t.exch = x /\ t.wave = 1 /\ t.k = n /\ Repeats(t) = reps
  BY TaskKinds DEF MmTask, UsesMm, MmModes, VectorModes, PairModes, RowModes, Repeats
<1> HIDE DEF t
<1>2. ASSUME NEW m \in Nat PROVE MmWords(t, m) = Cat(reps, WaveLinks(x, m))
  <2>1. ASSUME NEW r \in 1..reps PROVE WaveWords(t, m)[r] = WaveLinks(x, m)[r]
    <3>1. WaveOf(t, r) = r /\ r \in Nat
      BY <1>1 DEF WaveOf
    <3>2. \A i \in 1..m : WaveWord(t, r)[i] = LinkWord(x, r)[i]
      BY <1>1, <3>1 DEF WaveWord, LinkWord, Word
    <3>3. WaveWords(t, m)[r] = Ones(m, WaveWord(t, r))
      BY <1>1 DEF WaveWords
    <3>4. WaveLinks(x, m)[r] = Ones(m, LinkWord(x, r))
      BY <3>1 DEF WaveLinks
    <3>5. QED BY <3>2, <3>3, <3>4, OnesSame
  <2>2. Same(reps, WaveWords(t, m), WaveLinks(x, m))
    BY <2>1 DEF Same
  <2>3. QED BY <1>1, <2>2, CatEqual DEF MmWords
<1>3. /\ Flow("mm")[t] = MmWords(t, n) /\ Flow("v0")[t] = Nil /\ Flow("v1")[t] = Nil
      /\ Flow("out")[t] = MmWords(t, Packets)
  BY <1>1 DEF Flow
<1>4. QED BY <1>1, <1>2, <1>3, Sizes DEF t

-----------------------------------------------------------------------------
(* Exchanges.                                                               *)

(* The cores' rows are all the tokens, at most TokensPerPort on each.        *)
LEMMA RowsOfCores ==
    ASSUME NEW tokens \in Nat
    PROVE  /\ CoreRows(tokens) \in [Cores -> Nat]
           /\ CoreRows(tokens)[0] + CoreRows(tokens)[1] = tokens
           /\ tokens <= ActiveTokens =>
                \A c \in Cores : CoreRows(tokens)[c] <= TokensPerPort
BY CoreConstants, TokenAssumption DEF CoreRows, Cores

(* A loop that does not run has no words.                                    *)
LEMMA OnesNone == ASSUME NEW w PROVE Ones(0, w) = Nil
BY CatSteps DEF Ones

(* The operands emit_cc8_generic_vector_inputs sends. *)
LEMMA VectorInputs ==
    ASSUME NEW x \in Nat, NEW mode \in {"RMSNORM"} \cup PairModes, NEW rows \in [Cores -> Nat]
    PROVE  LET B == EmitVectorInputs(x, mode, rows)
               row(m) == Ones(m, LinkWord(x, 0))
           IN  /\ SeqOf(B, EmitOps)
               /\ \A c \in Cores :
                    /\ FlatMap(B, OnLink(EmitOps, "task", c)) = Nil
                    /\ FlatMap(B, OnLink(EmitOps, "mm", c)) = Nil
                    /\ FlatMap(B, OnLink(EmitOps, "v0", c)) = row(rows[c] * Blocks)
                    /\ FlatMap(B, OnLink(EmitOps, "v1", c))
                         = IF mode \in PairModes THEN row(rows[c] * Blocks)
                           ELSE IF rows[c] # 0 THEN row(Blocks) ELSE Nil
<1> DEFINE B == EmitVectorInputs(x, mode, rows)
           row(m) == Ones(m, LinkWord(x, 0))
<1>1. CASE mode = "RMSNORM"
  <2> DEFINE first == [c \in Cores |-> IF rows[c] # 0 THEN 1 ELSE 0]
             U == EmitRows(x, <<"v1">>, first)
             V == EmitRows(x, <<"v0">>, rows)
  <2>1. B = Join(U, V) /\ mode \notin PairModes
    BY <1>1 DEF EmitVectorInputs, Join, PairModes
  <2>2. first \in [Cores -> Nat]
    OBVIOUS
  <2>3. SlotKinds(<<"v1">>, {"v1"}) /\ SlotKinds(<<"v0">>, {"v0"})
    BY DEF SlotKinds
  <2>4. \A c \in Cores : first[c] * Blocks = IF rows[c] # 0 THEN Blocks ELSE 0
    BY Sizes
  <2> HIDE DEF first
  <2>5. Lines(EmitOps, {"v1"}, RowWords(x, first), U) /\ Lines(EmitOps, {"v0"}, RowWords(x, rows), V)
    BY <2>2, <2>3, EmitRowsLines
  <2> HIDE DEF U, V, B
  <2>6. SeqOf(U, EmitOps) /\ SeqOf(V, EmitOps) /\ SeqOf(B, EmitOps)
    BY <2>1, <2>5, JoinSeq DEF Lines
  <2>7. ASSUME NEW c \in Cores
        PROVE  /\ FlatMap(B, OnLink(EmitOps, "task", c)) = Nil
               /\ FlatMap(B, OnLink(EmitOps, "mm", c)) = Nil
               /\ FlatMap(B, OnLink(EmitOps, "v0", c)) = row(rows[c] * Blocks)
               /\ FlatMap(B, OnLink(EmitOps, "v1", c)) = IF rows[c] # 0 THEN row(Blocks) ELSE Nil
    <3> DEFINE a == RowWords(x, first)[c]
               b == RowWords(x, rows)[c]
    <3>1. \A k \in Kinds : FlatMap(B, OnLink(EmitOps, k, c))
            = Join(FlatMap(U, OnLink(EmitOps, k, c)), FlatMap(V, OnLink(EmitOps, k, c)))
      BY <2>1, <2>6, LinkMaps, FlatJoin, KindSets
    <3>2. a = (IF rows[c] # 0 THEN row(Blocks) ELSE Nil) /\ b = row(rows[c] * Blocks)
      BY <2>4, OnesNone DEF RowWords
    <3>3. SeqOf(a, Items) /\ SeqOf(b, Items)
      BY <2>5 DEF Lines
    <3>4. /\ \A k \in Kinds : FlatMap(U, OnLink(EmitOps, k, c)) = IF k \in {"v1"} THEN a ELSE Nil
          /\ \A k \in Kinds : FlatMap(V, OnLink(EmitOps, k, c)) = IF k \in {"v0"} THEN b ELSE Nil
      BY <2>5 DEF Lines
    <3> HIDE DEF a, b
    <3>5. Join(a, Nil) = a /\ Join(Nil, b) = b /\ Join(Nil, Nil) = Nil
      BY <3>3, JoinNil, NilNil
    <3>6. /\ FlatMap(B, OnLink(EmitOps, "task", c)) = Nil /\ FlatMap(B, OnLink(EmitOps, "mm", c)) = Nil
          /\ FlatMap(B, OnLink(EmitOps, "v0", c)) = b /\ FlatMap(B, OnLink(EmitOps, "v1", c)) = a
      BY <3>1, <3>4, <3>5, KindSets
    <3>7. QED BY <3>2, <3>6
  <2>8. QED BY <2>1, <2>6, <2>7 DEF B
<1>2. CASE mode \in PairModes
  <2>1. B = EmitRows(x, <<"v0", "v1">>, rows)
    BY <1>2 DEF EmitVectorInputs, PairModes
  <2>2. SlotKinds(<<"v0", "v1">>, {"v0", "v1"})
    BY DEF SlotKinds
  <2> HIDE DEF B
  <2>3. Lines(EmitOps, {"v0", "v1"}, RowWords(x, rows), B)
    BY <2>1, <2>2, EmitRowsLines
  <2>4. ASSUME NEW c \in Cores
        PROVE  /\ FlatMap(B, OnLink(EmitOps, "task", c)) = Nil
               /\ FlatMap(B, OnLink(EmitOps, "mm", c)) = Nil
               /\ FlatMap(B, OnLink(EmitOps, "v0", c)) = row(rows[c] * Blocks)
               /\ FlatMap(B, OnLink(EmitOps, "v1", c)) = row(rows[c] * Blocks)
    <3>1. RowWords(x, rows)[c] = row(rows[c] * Blocks)
      BY DEF RowWords
    <3>2. QED BY <2>3, <3>1, KindSets DEF Lines
  <2>5. QED BY <1>2, <2>3, <2>4 DEF B, Lines
<1>3. QED BY <1>1, <1>2

(* A vector operation sends the operands and collects the results its tasks  *)
(* use.                                                                      *)
LEMMA VectorServed ==
    ASSUME NEW x \in Nat, NEW mode \in {"RMSNORM"} \cup PairModes, NEW rows \in [Cores -> Nat],
           NEW e \in BOOLEAN
    PROVE  Served(Join(VectorTasks(x, mode, rows, e), EmitVectorInputs(x, mode, rows)),
                  CollectVector(x, rows), VectorTaskOf(x, mode, rows, e))
<1> DEFINE A == VectorTasks(x, mode, rows, e)
           B == EmitVectorInputs(x, mode, rows)
           C == CollectVector(x, rows)
           T == VectorTaskOf(x, mode, rows, e)
           R == RowWords(x, rows)
           row(m) == Ones(m, LinkWord(x, 0))
<1>1. mode \in VectorModes
  BY DEF VectorModes, RowModes
<1>2. Lines(EmitOps, {"task"}, T, A)
  BY <1>1, VectorTasksLines
<1>3. Lines(CollectOps, {"out"}, R, C)
  BY CollectVectorLines
<1>4. SeqOf(B, EmitOps)
  BY VectorInputs
<1>5. ASSUME NEW c \in Cores
      PROVE  /\ SeqOf(T[c], Tasks)
             /\ FlatMap(B, OnLink(EmitOps, "task", c)) = Nil
             /\ \A k \in OperandKinds :
                  FlatMap(B, OnLink(EmitOps, k, c)) = FlatMap(T[c], Flow(k))
             /\ R[c] = FlatMap(T[c], Flow("out"))
  <2>1. /\ FlatMap(B, OnLink(EmitOps, "task", c)) = Nil
        /\ FlatMap(B, OnLink(EmitOps, "mm", c)) = Nil
        /\ FlatMap(B, OnLink(EmitOps, "v0", c)) = row(rows[c] * Blocks)
        /\ FlatMap(B, OnLink(EmitOps, "v1", c))
             = IF mode \in PairModes THEN row(rows[c] * Blocks)
               ELSE IF rows[c] # 0 THEN row(Blocks) ELSE Nil
    BY VectorInputs
  <2>2. R[c] = row(rows[c] * Blocks)
    BY DEF RowWords
  <2>3. T[c] = IF rows[c] # 0 THEN One(VectorTask(x, mode, rows[c], e))
               ELSE IF e THEN One(StopTask) ELSE Nil
    BY DEF VectorTaskOf
  <2>4. \A k \in OperandKinds : k = "mm" \/ k = "v0" \/ k = "v1"
    BY DEF OperandKinds
  <2> HIDE DEF B, T, R
  <2>5. CASE rows[c] # 0
    <3> DEFINE t == VectorTask(x, mode, rows[c], e)
    <3>1. /\ t \in Tasks
          /\ Flow("mm")[t] = Nil /\ Flow("v0")[t] = row(rows[c] * Blocks)
          /\ Flow("v1")[t] = row(IF mode = "RMSNORM" THEN Blocks
                                 ELSE IF mode \in PairModes THEN rows[c] * Blocks ELSE 0)
          /\ Flow("out")[t] = row(rows[c] * Blocks)
      BY <1>1, VectorFlow
    <3>2. T[c] = One(t)
      BY <2>3, <2>5
    <3> HIDE DEF t, row
    <3>3. SeqOf(One(t), Tasks) /\ \A k \in Kinds : FlatMap(One(t), Flow(k)) = Flow(k)[t]
      <4>1. t \in Tasks
        BY <3>1
      <4>2. QED BY <4>1, OneFlow, KindSets
    <3>4. mode = "RMSNORM" => mode \notin PairModes
      BY DEF PairModes
    <3>5. QED BY <2>1, <2>2, <2>4, <2>5, <3>1, <3>2, <3>3, <3>4, KindSets
  <2>6. CASE rows[c] = 0
    <3>1. rows[c] * Blocks = 0 /\ row(0) = Nil
      BY <2>6, Sizes, OnesNone
    <3>2. SeqOf(T[c], Tasks) /\ \A k \in OperandKinds \cup {"out"} : FlatMap(T[c], Flow(k)) = Nil
      <4>1. CASE e
        <5>1. T[c] = One(StopTask) /\ StopTask \in Tasks
          BY <2>3, <2>6, <4>1, TaskKinds
        <5>2. \A k \in OperandKinds \cup {"out"} : k \in Kinds
          BY KindSets
        <5> HIDE DEF StopTask
        <5>3. QED BY <5>1, <5>2, OneFlow, StopFlow
      <4>2. CASE ~e
        BY <2>3, <2>6, <4>2, NilSeq, FlatNil
      <4>3. QED BY <4>1, <4>2
    <3> HIDE DEF row
    <3>3. QED BY <2>1, <2>2, <2>4, <2>6, <3>1, <3>2
  <2>7. QED BY <2>5, <2>6
<1> HIDE DEF A, B, C, T, R
<1>6. Served(Join(A, B), C, T)
  BY <1>2, <1>3, <1>4, <1>5, ServedExchange
<1>7. QED BY <1>6 DEF A, B, C, T

(* A task or STOP, or no task, and the words it stands for. *)
LEMMA ChoiceFlow ==
    ASSUME NEW t \in Tasks, NEW a \in BOOLEAN, NEW e \in BOOLEAN, NEW T,
           T = IF a THEN One(t) ELSE IF e THEN One(StopTask) ELSE Nil
    PROVE  /\ SeqOf(T, Tasks)
           /\ \A k \in OperandKinds \cup {"out"} :
                FlatMap(T, Flow(k)) = IF a THEN Flow(k)[t] ELSE Nil
<1>1. \A k \in OperandKinds \cup {"out"} : k \in Kinds
  BY KindSets
<1>2. CASE a
  BY <1>1, <1>2, OneFlow
<1>3. CASE ~a /\ e
  <2>1. T = One(StopTask) /\ StopTask \in Tasks
    BY <1>3, TaskKinds
  <2> HIDE DEF StopTask
  <2>2. QED BY <1>1, <1>3, <2>1, OneFlow, StopFlow
<1>4. CASE ~a /\ ~e
  BY <1>4, NilSeq, FlatNil
<1>5. QED BY <1>2, <1>3, <1>4

(* One wave on the cores of a mask. *)
LEMMA MmServed ==
    ASSUME NEW x \in Nat, NEW v \in Nat, NEW n \in Nat, NEW mask \in SUBSET Cores,
           NEW e \in BOOLEAN, NEW T, NEW A, NEW C, Lines(EmitOps, {"task"}, T, A),
           Lines(CollectOps, {"out"}, MaskWords(x, v, Packets, mask), C),
           \A c \in Cores : T[c] = IF c \in mask THEN One(MmTask(x, v, n, 1, e))
                                   ELSE IF e THEN One(StopTask) ELSE Nil
    PROVE  Served(Join(A, EmitWave(x, v, n, mask)), C, T)
<1> DEFINE B == EmitWave(x, v, n, mask)
           t == MmTask(x, v, n, 1, e)
           M == MaskWords(x, v, n, mask)
           R == MaskWords(x, v, Packets, mask)
<1>1. /\ t \in Tasks
      /\ Flow("mm")[t] = Ones(n, LinkWord(x, v))
      /\ Flow("v0")[t] = Nil /\ Flow("v1")[t] = Nil
      /\ Flow("out")[t] = Ones(Packets, LinkWord(x, v))
  BY WaveFlow
<1>2. Lines(EmitOps, {"mm"}, M, B)
  BY EmitWaveLines
<1>3. \A c \in Cores : /\ M[c] = IF c \in mask THEN Ones(n, LinkWord(x, v)) ELSE Nil
                       /\ R[c] = IF c \in mask THEN Ones(Packets, LinkWord(x, v)) ELSE Nil
  BY DEF MaskWords
<1> HIDE DEF B, t, M, R
<1>4. ASSUME NEW c \in Cores
      PROVE  /\ SeqOf(T[c], Tasks)
             /\ FlatMap(B, OnLink(EmitOps, "task", c)) = Nil
             /\ \A k \in OperandKinds :
                  FlatMap(B, OnLink(EmitOps, k, c)) = FlatMap(T[c], Flow(k))
             /\ R[c] = FlatMap(T[c], Flow("out"))
  <2> DEFINE a == c \in mask
             S == T[c]
  <2>1. a \in BOOLEAN /\ S = IF a THEN One(t) ELSE IF e THEN One(StopTask) ELSE Nil
    BY DEF t
  <2>2. \A k \in Kinds : FlatMap(B, OnLink(EmitOps, k, c)) = IF k \in {"mm"} THEN M[c] ELSE Nil
    BY <1>2 DEF Lines
  <2> HIDE DEF a, S
  <2>3. /\ SeqOf(S, Tasks)
        /\ \A k \in OperandKinds \cup {"out"} : FlatMap(S, Flow(k)) = IF a THEN Flow(k)[t] ELSE Nil
    BY <1>1, <2>1, ChoiceFlow
  <2>4. /\ M[c] = IF a THEN Flow("mm")[t] ELSE Nil
        /\ R[c] = IF a THEN Flow("out")[t] ELSE Nil
    BY <1>1, <1>3 DEF a
  <2>5. R[c] = FlatMap(S, Flow("out"))
    BY <2>3, <2>4
  <2>6. FlatMap(B, OnLink(EmitOps, "task", c)) = Nil
    BY <2>2, KindSets
  <2>7. ASSUME NEW k \in OperandKinds
        PROVE  FlatMap(B, OnLink(EmitOps, k, c)) = FlatMap(S, Flow(k))
    <3>1. k \in Kinds /\ (k = "mm" \/ k = "v0" \/ k = "v1")
      BY KindSets DEF OperandKinds
    <3>2. QED BY <1>1, <2>2, <2>3, <2>4, <3>1
  <2>8. QED BY <2>3, <2>5, <2>6, <2>7 DEF S
<1>5. SeqOf(B, EmitOps) /\ Lines(CollectOps, {"out"}, R, C)
  BY <1>2 DEF Lines, R
<1>6. Served(Join(A, B), C, T)
  BY <1>4, <1>5, ServedExchange
<1>7. QED BY <1>6 DEF B

(* So does one wave of a projection.                                         *)
LEMMA WaveServed ==
    ASSUME NEW x \in Nat, NEW v \in Nat, NEW mask \in SUBSET Cores, NEW e \in BOOLEAN
    PROVE  Served(Join(WaveTasks(x, v, 1, mask, e), EmitWave(x, v, KCount, mask)),
                  CollectWave(x, v, mask), WaveTaskOf(x, v, 1, mask, e))
<1>1. Lines(EmitOps, {"task"}, WaveTaskOf(x, v, 1, mask, e), WaveTasks(x, v, 1, mask, e))
  BY WaveTasksLines
<1>2. Lines(CollectOps, {"out"}, MaskWords(x, v, Packets, mask), CollectWave(x, v, mask))
  BY CollectWaveLines
<1>3. \A c \in Cores : WaveTaskOf(x, v, 1, mask, e)[c]
          = IF c \in mask THEN One(MmTask(x, v, KCount, 1, e)) ELSE IF e THEN One(StopTask) ELSE Nil
  BY DEF WaveTaskOf
<1>4. QED BY <1>1, <1>2, <1>3, CoreConstants, MmServed

(* Waves one after the other, on one side of the links. *)
Waving(O, K, x, n, mask, N, s) == \A v \in 1..N : Lines(O, K, MaskWords(x, v, n, mask), s[v])

(* Waves one after the other, on the masked cores.                           *)
LEMMA LinesWaves ==
    ASSUME NEW O \in Sides, NEW K, NEW x \in Nat, NEW n \in Nat, NEW mask \in SUBSET Cores,
           NEW N \in Nat, NEW s, Waving(O, K, x, n, mask, N, s)
    PROVE  Lines(O, K, [d \in Cores |-> IF d \in mask THEN Cat(N, WaveLinks(x, n)) ELSE Nil], Cat(N, s))
<1> DEFINE f(m) == [d \in Cores |-> IF d \in mask THEN Cat(m, WaveLinks(x, n)) ELSE Nil]
           S == {m \in Nat : m <= N => Lines(O, K, f(m), Cat(m, s))}
<1>1. 0 \in S
  <2>1. \A d \in Cores : f(0)[d] = Nil
    BY CatSteps
  <2> HIDE DEF f
  <2>2. Lines(O, K, f(0), Cat(0, s))
    BY <2>1, CatSteps, LinesNil
  <2>3. QED BY <2>2
<1>2. ASSUME NEW m \in Nat, m \in S PROVE m + 1 \in S
  <2>1. CASE m + 1 <= N
    <3>1. m <= N /\ m + 1 \in 1..N /\ m + 1 \in Nat
      BY <2>1
    <3>2. Lines(O, K, f(m), Cat(m, s)) /\ Lines(O, K, MaskWords(x, m + 1, n, mask), s[m + 1])
      BY <1>2, <3>1 DEF Waving
    <3>3. WaveLinks(x, n)[m + 1] = Ones(n, LinkWord(x, m + 1))
      BY <3>1 DEF WaveLinks
    <3>4. Cat(m + 1, WaveLinks(x, n)) = Join(Cat(m, WaveLinks(x, n)), WaveLinks(x, n)[m + 1])
      BY CatSteps
    <3>5. \A d \in Cores : f(m + 1)[d] = Join(f(m)[d], MaskWords(x, m + 1, n, mask)[d])
      BY <3>3, <3>4, NilNil DEF MaskWords
    <3> HIDE DEF f
    <3>6. Lines(O, K, f(m + 1), Join(Cat(m, s), s[m + 1]))
      BY <3>2, <3>5, LinesJoin
    <3>7. Cat(m + 1, s) = Join(Cat(m, s), s[m + 1])
      BY CatSteps
    <3>8. QED BY <3>6, <3>7
  <2>2. QED BY <2>1
<1>3. N \in S
  <2> HIDE DEF S
  <2> QED BY <1>1, <1>2, SetInduction
<1>4. QED BY <1>3

(* One repeated task for all waves. *)
LEMMA RepeatServed ==
    ASSUME NEW x \in Nat, NEW N \in Nat \ {0}, NEW mask \in SUBSET Cores, NEW e \in BOOLEAN,
           NEW s, NEW r, \A v \in 1..N : s[v] = EmitWave(x, v, KCount, mask),
           \A v \in 1..N : r[v] = CollectWave(x, v, mask)
    PROVE  Served(Join(WaveTasks(x, 1, N, mask, e), Cat(N, s)), Cat(N, r),
                  WaveTaskOf(x, 1, N, mask, e))
<1> DEFINE A == WaveTasks(x, 1, N, mask, e)
           B == Cat(N, s)
           C == Cat(N, r)
           T == WaveTaskOf(x, 1, N, mask, e)
           t == MmTask(x, 1, KCount, N, e)
           M == [d \in Cores |-> IF d \in mask THEN Cat(N, WaveLinks(x, KCount)) ELSE Nil]
           R == [d \in Cores |-> IF d \in mask THEN Cat(N, WaveLinks(x, Packets)) ELSE Nil]
<1>1. /\ t \in Tasks
      /\ Flow("mm")[t] = Cat(N, WaveLinks(x, KCount))
      /\ Flow("v0")[t] = Nil /\ Flow("v1")[t] = Nil
      /\ Flow("out")[t] = Cat(N, WaveLinks(x, Packets))
  BY CoreConstants, RepeatFlow
<1>2. Lines(EmitOps, {"task"}, T, A)
  BY WaveTasksLines
<1>3. Lines(EmitOps, {"mm"}, M, B)
  <2>1. \A v \in 1..N : v \in Nat
    OBVIOUS
  <2>2. Waving(EmitOps, {"mm"}, x, KCount, mask, N, s)
    BY <2>1, EmitWaveLines, CoreConstants DEF Waving
  <2>3. QED BY <2>2, LinesWaves, KindSets, CoreConstants
<1>4. Lines(CollectOps, {"out"}, R, C)
  <2>1. \A v \in 1..N : v \in Nat
    OBVIOUS
  <2>2. Waving(CollectOps, {"out"}, x, Packets, mask, N, r)
    BY <2>1, CollectWaveLines DEF Waving
  <2>3. QED BY <2>2, LinesWaves, KindSets, Sizes
<1>5. \A c \in Cores :
        /\ M[c] = (IF c \in mask THEN Flow("mm")[t] ELSE Nil)
        /\ R[c] = (IF c \in mask THEN Flow("out")[t] ELSE Nil)
        /\ T[c] = IF c \in mask THEN One(t) ELSE IF e THEN One(StopTask) ELSE Nil
  BY <1>1 DEF WaveTaskOf
<1> HIDE DEF A, B, C, T, t, M, R
<1>6. ASSUME NEW c \in Cores
      PROVE  /\ SeqOf(T[c], Tasks)
             /\ FlatMap(B, OnLink(EmitOps, "task", c)) = Nil
             /\ \A k \in OperandKinds :
                  FlatMap(B, OnLink(EmitOps, k, c)) = FlatMap(T[c], Flow(k))
             /\ R[c] = FlatMap(T[c], Flow("out"))
  <2> DEFINE a == c \in mask
             S == T[c]
  <2>1. a \in BOOLEAN /\ S = IF a THEN One(t) ELSE IF e THEN One(StopTask) ELSE Nil
    BY <1>5
  <2>2. \A k \in Kinds : FlatMap(B, OnLink(EmitOps, k, c)) = IF k \in {"mm"} THEN M[c] ELSE Nil
    BY <1>3 DEF Lines
  <2>3. /\ M[c] = (IF a THEN Flow("mm")[t] ELSE Nil)
        /\ R[c] = (IF a THEN Flow("out")[t] ELSE Nil)
    BY <1>5
  <2> HIDE DEF a, S
  <2>4. /\ SeqOf(S, Tasks)
        /\ \A k \in OperandKinds \cup {"out"} : FlatMap(S, Flow(k)) = IF a THEN Flow(k)[t] ELSE Nil
    BY <1>1, <2>1, ChoiceFlow
  <2>5. R[c] = FlatMap(S, Flow("out"))
    BY <2>3, <2>4
  <2>6. FlatMap(B, OnLink(EmitOps, "task", c)) = Nil
    BY <2>2, KindSets
  <2>7. ASSUME NEW k \in OperandKinds
        PROVE  FlatMap(B, OnLink(EmitOps, k, c)) = FlatMap(S, Flow(k))
    <3>1. k \in Kinds /\ (k = "mm" \/ k = "v0" \/ k = "v1")
      BY KindSets DEF OperandKinds
    <3>2. QED BY <1>1, <2>2, <2>3, <2>4, <3>1
  <2>8. QED BY <2>4, <2>5, <2>6, <2>7 DEF S
<1>7. SeqOf(B, EmitOps)
  BY <1>3 DEF Lines
<1>8. Served(Join(A, B), C, T)
  BY <1>2, <1>4, <1>6, <1>7, ServedExchange
<1>9. QED BY <1>8 DEF A, B, C, T

-----------------------------------------------------------------------------
(* Scripts: sessions of tasks that end once.                                *)

(* Scripts: the words their blocks send and ask for. *)
BlockSet == [emit : Seq(EmitOps), collect : Seq(CollectOps)]
EmitSide == [b \in BlockSet |-> b.emit]
CollectSide == [b \in BlockSet |-> b.collect]
Emits(S) == FlatMap(S, EmitSide)
Collects(S) == FlatMap(S, CollectSide)

(* The two sides of a block.                                                 *)
LEMMA SideMaps == Maps(EmitSide, BlockSet, EmitOps) /\ Maps(CollectSide, BlockSet, CollectOps)
<1>1. \A b \in BlockSet : b.emit \in Seq(EmitOps) /\ b.collect \in Seq(CollectOps)
  BY DEF BlockSet
<1>2. QED BY <1>1 DEF Maps, EmitSide, CollectSide, SeqOf

(* A block of two sides is a block.                                          *)
LEMMA BlockFacts ==
    ASSUME NEW E, NEW C, SeqOf(E, EmitOps), SeqOf(C, CollectOps)
    PROVE  /\ Block(E, C) \in BlockSet
           /\ EmitSide[Block(E, C)] = E /\ CollectSide[Block(E, C)] = C
<1>1. E \in Seq(EmitOps) /\ C \in Seq(CollectOps)
  BY DEF SeqOf
<1>2. Block(E, C) \in BlockSet /\ Block(E, C).emit = E /\ Block(E, C).collect = C
  BY <1>1 DEF Block, BlockSet
<1>3. QED BY <1>2 DEF EmitSide, CollectSide

(* A script of one block.                                                    *)
LEMMA ScriptOne ==
    ASSUME NEW E, NEW C, SeqOf(E, EmitOps), SeqOf(C, CollectOps)
    PROVE  /\ SeqOf(One(Block(E, C)), BlockSet)
           /\ Emits(One(Block(E, C))) = E /\ Collects(One(Block(E, C))) = C
<1> DEFINE b == Block(E, C)
<1>1. b \in BlockSet /\ EmitSide[b] = E /\ CollectSide[b] = C
  BY BlockFacts
<1> HIDE DEF b
<1>2. SeqOf(One(b), BlockSet)
  BY <1>1, OneSeq
<1>3. FlatMap(One(b), EmitSide) = E /\ FlatMap(One(b), CollectSide) = C
  BY <1>1, FlatOne, SideMaps
<1>4. QED BY <1>2, <1>3 DEF Emits, Collects, b

(* The sides of two scripts joined.                                          *)
LEMMA ScriptJoin ==
    ASSUME NEW S, NEW U, SeqOf(S, BlockSet), SeqOf(U, BlockSet)
    PROVE  /\ SeqOf(Join(S, U), BlockSet)
           /\ Emits(Join(S, U)) = Join(Emits(S), Emits(U))
           /\ Collects(Join(S, U)) = Join(Collects(S), Collects(U))
BY JoinSeq, FlatJoin, SideMaps DEF Emits, Collects

(* The empty script.                                                         *)
LEMMA ScriptNil == SeqOf(Nil, BlockSet) /\ Emits(Nil) = Nil /\ Collects(Nil) = Nil
BY NilSeq, FlatNil DEF Emits, Collects

(* The sides of a script are operations of the controller.                   *)
LEMMA ScriptTypes ==
    ASSUME NEW S, SeqOf(S, BlockSet)
    PROVE  SeqOf(Emits(S), EmitOps) /\ SeqOf(Collects(S), CollectOps)
BY FlatSeq, SideMaps DEF Emits, Collects

(* No task ends the session, or the last one does. *)
Quiet(T) == \A i \in 1..Len(T) : ~EndsSession(T[i])
Closes(T) == /\ Len(T) > 0 /\ EndsSession(T[Len(T)])
             /\ \A i \in 1..(Len(T) - 1) : ~EndsSession(T[i])
EndsAs(T, e) == IF e THEN Closes(T) ELSE Quiet(T)

(* No task ends no session.                                                  *)
LEMMA EndsNil == EndsAs(Nil, FALSE) /\ Len(Nil) = 0
BY DEF EndsAs, Quiet, Nil

(* One task ends the session, or not.                                        *)
LEMMA EndsOne ==
    ASSUME NEW t, NEW e \in BOOLEAN, EndsSession(t) = e
    PROVE  EndsAs(One(t), e) /\ Len(One(t)) = 1
<1>1. Len(One(t)) = 1 /\ One(t)[1] = t
  BY DEF One
<1>2. QED BY <1>1 DEF EndsAs, Quiet, Closes

(* Only the last task of a session ends it.                                  *)
LEMMA EndsJoin ==
    ASSUME NEW s, NEW t, NEW e \in BOOLEAN, SeqOf(s, Tasks), SeqOf(t, Tasks),
           EndsAs(s, FALSE), EndsAs(t, e)
    PROVE  EndsAs(Join(s, t), e) /\ Len(Join(s, t)) = Len(s) + Len(t)
<1>1. s \in Seq(Tasks) /\ t \in Seq(Tasks) /\ Len(s) \in Nat /\ Len(t) \in Nat
  BY SeqFacts DEF SeqOf
<1> DEFINE u == Join(s, t)
<1>2. /\ Len(u) = Len(s) + Len(t)
      /\ \A i \in 1..(Len(s) + Len(t)) : u[i] = IF i <= Len(s) THEN s[i] ELSE t[i - Len(s)]
  BY <1>1, ConcatProperties DEF Join
<1> HIDE DEF u
<1>3. \A i \in 1..Len(s) : ~EndsSession(s[i])
  BY DEF EndsAs, Quiet
<1>4. ASSUME NEW i \in 1..Len(u), i <= Len(s) PROVE ~EndsSession(u[i])
  <2>1. i \in 1..Len(s)
    BY <1>1, <1>4
  <2>2. u[i] = s[i]
    BY <1>1, <1>2, <1>4
  <2>3. QED BY <1>3, <2>1, <2>2
<1>5. ASSUME NEW i \in 1..Len(u), i > Len(s) PROVE u[i] = t[i - Len(s)] /\ i - Len(s) \in 1..Len(t)
  BY <1>1, <1>2, <1>5
<1>6. CASE e
  <2>1. /\ Len(t) > 0 /\ EndsSession(t[Len(t)])
        /\ \A i \in 1..(Len(t) - 1) : ~EndsSession(t[i])
    BY <1>6 DEF EndsAs, Closes
  <2>2. Len(u) > 0 /\ Len(u) \in 1..Len(u) /\ Len(u) > Len(s) /\ Len(u) - Len(s) = Len(t)
    BY <1>1, <1>2, <2>1
  <2>3. EndsSession(u[Len(u)])
    BY <1>5, <2>1, <2>2
  <2>4. ASSUME NEW i \in 1..(Len(u) - 1) PROVE ~EndsSession(u[i])
    <3>0. i \in 1..Len(u)
      BY <1>1, <1>2
    <3>1. CASE i <= Len(s)
      BY <1>4, <3>0, <3>1
    <3>2. CASE i > Len(s)
      <4>1. i - Len(s) \in 1..(Len(t) - 1)
        BY <1>1, <1>2, <3>2
      <4>2. u[i] = t[i - Len(s)]
        BY <1>5, <3>0, <3>2
      <4>3. QED BY <2>1, <4>1, <4>2
    <3>3. i <= Len(s) \/ i > Len(s)
      BY <1>1
    <3>4. QED BY <3>1, <3>2, <3>3
  <2>5. Closes(u)
    BY <2>2, <2>3, <2>4 DEF Closes
  <2>6. QED BY <1>2, <1>6, <2>5 DEF EndsAs, u
<1>7. CASE ~e
  <2>1. \A i \in 1..Len(t) : ~EndsSession(t[i])
    BY <1>7 DEF EndsAs, Quiet
  <2>2. ASSUME NEW i \in 1..Len(u) PROVE ~EndsSession(u[i])
    <3>1. CASE i <= Len(s)
      BY <1>4, <3>1
    <3>2. CASE i > Len(s)
      <4>1. u[i] = t[i - Len(s)] /\ i - Len(s) \in 1..Len(t)
        BY <1>5, <3>2
      <4>2. QED BY <2>1, <4>1
    <3>3. i <= Len(s) \/ i > Len(s)
      BY <1>1
    <3>4. QED BY <3>1, <3>2, <3>3
  <2>3. Quiet(u)
    BY <2>2 DEF Quiet
  <2>4. QED BY <1>2, <1>7, <2>3 DEF EndsAs, u
<1>8. QED BY <1>6, <1>7

(* S serves both cores at most n tasks each, the last of which ends the     *)
(* session when e holds.                                                    *)
Carries(S, e, n) ==
    /\ SeqOf(S, BlockSet)
    /\ \E T : /\ Served(Emits(S), Collects(S), T)
              /\ \A c \in Cores : EndsAs(T[c], e) /\ Len(T[c]) <= n

(* The empty script.                                                         *)
LEMMA CarriesNil == Carries(Nil, FALSE, 0)
<1> DEFINE T == [c \in Cores |-> Nil]
<1>1. \A c \in Cores : T[c] = Nil
  OBVIOUS
<1>2. Served(Emits(Nil), Collects(Nil), T)
  BY <1>1, ScriptNil, ServedNil
<1>3. ASSUME NEW c \in Cores PROVE EndsAs(T[c], FALSE) /\ Len(T[c]) <= 0
  <2>1. T[c] = Nil
    BY <1>1
  <2>2. Len(Nil) <= 0
    BY EndsNil
  <2>3. EndsAs(Nil, FALSE)
    BY EndsNil
  <2> QED BY <2>1, <2>2, <2>3
<1> HIDE DEF T
<1>4. QED BY <1>2, <1>3, ScriptNil DEF Carries

(* A larger bound.                                                           *)
LEMMA CarriesMore ==
    ASSUME NEW S, NEW e, NEW n \in Nat, NEW m \in Nat, Carries(S, e, n), n <= m
    PROVE  Carries(S, e, m)
<1>1. PICK T : /\ Served(Emits(S), Collects(S), T)
               /\ \A c \in Cores : EndsAs(T[c], e) /\ Len(T[c]) <= n
  BY DEF Carries
<1>2. \A c \in Cores : Len(T[c]) \in Nat
  BY <1>1, SeqFacts DEF Served
<1>3. \A c \in Cores : Len(T[c]) <= m
  BY <1>1, <1>2
<1>4. QED BY <1>1, <1>3 DEF Carries

(* A sum of two numbers is within the sum of their bounds.                   *)
LEMMA SumBound ==
    ASSUME NEW a \in Nat, NEW b \in Nat, NEW c, NEW n \in Nat, NEW m \in Nat,
           c = a + b, a <= n, b <= m
    PROVE  c <= n + m
OBVIOUS

(* Two scripts joined: their bounds add up.                                  *)
LEMMA CarriesJoin ==
    ASSUME NEW S, NEW U, NEW e \in BOOLEAN, NEW n \in Nat, NEW m \in Nat,
           Carries(S, FALSE, n), Carries(U, e, m)
    PROVE  Carries(Join(S, U), e, n + m)
<1>1. PICK T : /\ Served(Emits(S), Collects(S), T)
               /\ \A c \in Cores : EndsAs(T[c], FALSE) /\ Len(T[c]) <= n
  BY DEF Carries
<1>2. PICK V : /\ Served(Emits(U), Collects(U), V)
               /\ \A c \in Cores : EndsAs(V[c], e) /\ Len(V[c]) <= m
  BY DEF Carries
<1> DEFINE W == [c \in Cores |-> Join(T[c], V[c])]
<1>3. \A c \in Cores : W[c] = Join(T[c], V[c])
  OBVIOUS
<1> HIDE DEF W
<1>4. SeqOf(S, BlockSet) /\ SeqOf(U, BlockSet)
  BY DEF Carries
<1>5. /\ SeqOf(Join(S, U), BlockSet)
      /\ Emits(Join(S, U)) = Join(Emits(S), Emits(U))
      /\ Collects(Join(S, U)) = Join(Collects(S), Collects(U))
  BY <1>4, ScriptJoin
<1>6. Served(Emits(Join(S, U)), Collects(Join(S, U)), W)
  BY <1>1, <1>2, <1>3, <1>5, ServedJoin
<1>7. ASSUME NEW c \in Cores PROVE EndsAs(W[c], e) /\ Len(W[c]) <= n + m
  <2>1. SeqOf(T[c], Tasks) /\ SeqOf(V[c], Tasks)
    BY <1>1, <1>2 DEF Served
  <2>2. Len(T[c]) \in Nat /\ Len(V[c]) \in Nat
    BY <2>1, SeqFacts
  <2>0. EndsAs(W[c], e) /\ Len(W[c]) = Len(T[c]) + Len(V[c])
    BY <1>1, <1>2, <1>3, <2>1, EndsJoin
  <2>3. Len(W[c]) = Len(T[c]) + Len(V[c])
    BY <2>0
  <2>4. Len(T[c]) <= n /\ Len(V[c]) <= m
    BY <1>1, <1>2
  <2>5. Len(W[c]) <= n + m
    BY <2>2, <2>3, <2>4, SumBound
  <2>6. EndsAs(W[c], e)
    BY <2>0
  <2>7. QED BY <2>5, <2>6
<1>8. QED BY <1>5, <1>6, <1>7 DEF Carries

QuietParts(n, f, m) == \A i \in 1..n : Carries(f[i], FALSE, m)

(* The length bound of i quiet parts, apart from its arithmetic. *)
Bound(i, m) == i * m

(* The bound of i parts of m tasks.                                          *)
LEMMA BoundFacts ==
    ASSUME NEW m \in Nat
    PROVE  /\ Bound(0, m) = 0
           /\ \A i \in Nat : Bound(i, m) \in Nat /\ Bound(i + 1, m) = Bound(i, m) + m
<1>1. 0 * m = 0
  OBVIOUS
<1>2. ASSUME NEW i \in Nat PROVE i * m \in Nat /\ (i + 1) * m = i * m + m
  OBVIOUS
<1>3. QED BY <1>1, <1>2 DEF Bound

QuietTo(f, i, b) == Carries(Cat(i, f), FALSE, b)

(* One more part that does not end the session.                              *)
LEMMA QuietStep ==
    ASSUME NEW i \in Nat, NEW f, NEW a \in Nat, NEW m \in Nat,
           QuietTo(f, i, a), Carries(f[i + 1], FALSE, m)
    PROVE  QuietTo(f, i + 1, a + m)
<1>1. Carries(Join(Cat(i, f), f[i + 1]), FALSE, a + m)
  BY CarriesJoin DEF QuietTo
<1>2. Cat(i + 1, f) = Join(Cat(i, f), f[i + 1])
  BY CatSteps
<1>3. QED BY <1>1, <1>2 DEF QuietTo

(* Parts that do not end the session, of at most m tasks each.               *)
LEMMA CarriesCat ==
    ASSUME NEW n \in Nat, NEW f, NEW m \in Nat, QuietParts(n, f, m)
    PROVE  Carries(Cat(n, f), FALSE, n * m)
<1> DEFINE T == {i \in Nat : i <= n => QuietTo(f, i, Bound(i, m))}
<1>1. 0 \in T
  <2>1. Cat(0, f) = Nil
    BY CatSteps
  <2>2. QuietTo(f, 0, 0)
    BY <2>1, CarriesNil DEF QuietTo
  <2>3. Bound(0, m) = 0
    BY BoundFacts
  <2>4. QED BY <2>2, <2>3
<1>2. ASSUME NEW i \in Nat, i \in T PROVE i + 1 \in T
  <2>1. CASE i + 1 <= n
    <3>1. i <= n /\ i + 1 \in 1..n
      BY <2>1
    <3>2. QuietTo(f, i, Bound(i, m))
      BY <1>2, <3>1
    <3>3. Carries(f[i + 1], FALSE, m)
      BY <3>1 DEF QuietParts
    <3>4. Bound(i, m) \in Nat /\ Bound(i + 1, m) = Bound(i, m) + m
      BY BoundFacts
    <3>5. QuietTo(f, i + 1, Bound(i, m) + m)
      BY <3>2, <3>3, <3>4, QuietStep
    <3>6. QED BY <3>4, <3>5
  <2>2. QED BY <2>1
<1>3. n \in T
  <2> HIDE DEF T
  <2> QED BY <1>1, <1>2, SetInduction
<1>4. QuietTo(f, n, Bound(n, m))
  BY <1>3
<1>5. QED BY <1>4 DEF QuietTo, Bound

(* The last part may end the session. *)
LEMMA CarriesLast ==
    ASSUME NEW n \in Nat \ {0}, NEW f, NEW e \in BOOLEAN, NEW m \in Nat,
           QuietParts(n - 1, f, m), Carries(f[n], e, m)
    PROVE  Carries(Cat(n, f), e, n * m)
<1>1. n - 1 \in Nat /\ (n - 1) + 1 = n /\ (n - 1) * m \in Nat /\ n * m = (n - 1) * m + m
  OBVIOUS
<1>2. Carries(Cat(n - 1, f), FALSE, (n - 1) * m)
  BY <1>1, CarriesCat
<1>3. Cat((n - 1) + 1, f) = Join(Cat(n - 1, f), f[(n - 1) + 1])
  BY <1>1, CatSteps
<1>4. Cat(n, f) = Join(Cat(n - 1, f), f[n])
  BY <1>1, <1>3
<1> DEFINE a == (n - 1) * m
           b == n * m
<1>5. a \in Nat /\ b = a + m /\ Carries(Cat(n - 1, f), FALSE, a)
  BY <1>1, <1>2
<1> HIDE DEF a, b
<1>6. Carries(Join(Cat(n - 1, f), f[n]), e, a + m)
  BY <1>5, CarriesJoin
<1>7. QED BY <1>4, <1>5, <1>6 DEF b

-----------------------------------------------------------------------------
(* The exchanges carry sessions.                                            *)

(* A script that serves tasks which end as they must.                        *)
LEMMA CarriesServed ==
    ASSUME NEW S, NEW e, NEW n, NEW T, SeqOf(S, BlockSet), Served(Emits(S), Collects(S), T),
           \A c \in Cores : EndsAs(T[c], e) /\ Len(T[c]) <= n
    PROVE  Carries(S, e, n)
BY DEF Carries

(* Only the two sides of a script matter.                                    *)
LEMMA CarriesSame ==
    ASSUME NEW S, NEW U, NEW e, NEW n, Carries(S, e, n), SeqOf(U, BlockSet),
           Emits(U) = Emits(S), Collects(U) = Collects(S)
    PROVE  Carries(U, e, n)
BY DEF Carries

(* The shapes of an exchange: tasks, then operands and results side by side; *)
(* or tasks, operands, results.                                              *)
LEMMA TwoBlocks ==
    ASSUME NEW A, NEW B, NEW C, SeqOf(A, EmitOps), SeqOf(B, EmitOps), SeqOf(C, CollectOps)
    PROVE  LET S == Join(One(Block(A, Nil)), One(Block(B, C)))
           IN  SeqOf(S, BlockSet) /\ Emits(S) = Join(A, B) /\ Collects(S) = C
<1>1. SeqOf(Nil, CollectOps) /\ Join(Nil, C) = C
  BY NilSeq, JoinNil
<1>2. /\ SeqOf(One(Block(A, Nil)), BlockSet) /\ SeqOf(One(Block(B, C)), BlockSet)
      /\ Emits(One(Block(A, Nil))) = A /\ Collects(One(Block(A, Nil))) = Nil
      /\ Emits(One(Block(B, C))) = B /\ Collects(One(Block(B, C))) = C
  BY <1>1, ScriptOne
<1>3. QED BY <1>1, <1>2, ScriptJoin

(* The blocks of an exchange: tasks, operands, results.                      *)
LEMMA ThreeBlocks ==
    ASSUME NEW A, NEW B, NEW C, SeqOf(A, EmitOps), SeqOf(B, EmitOps), SeqOf(C, CollectOps)
    PROVE  LET S == Join(One(Block(A, Nil)), Join(One(Block(B, Nil)), One(Block(Nil, C))))
           IN  SeqOf(S, BlockSet) /\ Emits(S) = Join(A, B) /\ Collects(S) = C
<1>1. SeqOf(Nil, CollectOps) /\ SeqOf(Nil, EmitOps) /\ Join(Nil, C) = C /\ Join(B, Nil) = B
  BY NilSeq, JoinNil
<1> DEFINE U == Join(One(Block(B, Nil)), One(Block(Nil, C)))
<1>2. SeqOf(U, BlockSet) /\ Emits(U) = B /\ Collects(U) = C
  BY <1>1, TwoBlocks
<1>3. SeqOf(One(Block(A, Nil)), BlockSet) /\ Emits(One(Block(A, Nil))) = A
      /\ Collects(One(Block(A, Nil))) = Nil
  BY <1>1, ScriptOne
<1> HIDE DEF U
<1>4. /\ SeqOf(Join(One(Block(A, Nil)), U), BlockSet)
      /\ Emits(Join(One(Block(A, Nil)), U)) = Join(A, B)
      /\ Collects(Join(One(Block(A, Nil)), U)) = C
  BY <1>1, <1>2, <1>3, ScriptJoin
<1>5. QED BY <1>4 DEF U

(* Both sides of an exchange are sequences of operations. *)
LEMMA ServedTypes ==
    ASSUME NEW E, NEW C, NEW T, Served(E, C, T)
    PROVE  SeqOf(E, EmitOps) /\ SeqOf(C, CollectOps)
BY DEF Served

(* One is at most one.                                                       *)
LEMMA AtMostOne == ASSUME NEW n, n = 1 PROVE n <= 1
OBVIOUS

(* A task, a STOP or nothing, as the end of the session asks.                *)
LEMMA ChoiceEnds ==
    ASSUME NEW t, NEW a \in BOOLEAN, NEW e \in BOOLEAN, EndsSession(t) = e, NEW T,
           T = IF a THEN One(t) ELSE IF e THEN One(StopTask) ELSE Nil
    PROVE  EndsAs(T, e) /\ Len(T) <= 1
<1>1. CASE a
  <2>1. EndsAs(One(t), e) /\ Len(One(t)) = 1
    BY EndsOne
  <2>2. Len(T) <= 1
    BY <1>1, <2>1, AtMostOne
  <2>3. EndsAs(T, e)
    BY <1>1, <2>1
  <2>4. QED BY <2>2, <2>3
<1>2. CASE ~a /\ e
  <2>1. EndsSession(StopTask) = e
    BY <1>2 DEF EndsSession, StopTask
  <2> HIDE DEF StopTask
  <2>2. EndsAs(One(StopTask), e) /\ Len(One(StopTask)) = 1
    BY <2>1, EndsOne
  <2>3. T = One(StopTask)
    BY <1>2
  <2>4. Len(T) <= 1
    BY <2>2, <2>3, AtMostOne
  <2>5. EndsAs(T, e)
    BY <2>2, <2>3
  <2>6. QED BY <2>4, <2>5
<1>3. CASE ~a /\ ~e
  <2>1. T = Nil /\ e = FALSE
    BY <1>3
  <2>2. Len(Nil) <= 1
    BY EndsNil
  <2>3. EndsAs(Nil, e)
    BY <2>1, EndsNil
  <2>4. QED BY <2>1, <2>2, <2>3
<1>4. QED BY <1>1, <1>2, <1>3

(* The tasks of a vector operation end the session when they are asked to.   *)
LEMMA VectorTaskEnds ==
    ASSUME NEW x, NEW mode \in VectorModes, NEW rows, NEW e \in BOOLEAN, NEW c \in Cores
    PROVE  /\ EndsAs(VectorTaskOf(x, mode, rows, e)[c], e)
           /\ Len(VectorTaskOf(x, mode, rows, e)[c]) <= 1
<1> DEFINE t == VectorTask(x, mode, rows[c], e)
           a == rows[c] # 0
           T == VectorTaskOf(x, mode, rows, e)[c]
<1>1. EndsSession(t) = e
  BY DEF EndsSession, VectorTask, VectorModes, PairModes, RowModes
<1>2. a \in BOOLEAN /\ T = IF a THEN One(t) ELSE IF e THEN One(StopTask) ELSE Nil
  BY DEF VectorTaskOf
<1> HIDE DEF t, a, T
<1>3. EndsAs(T, e) /\ Len(T) <= 1
  BY <1>1, <1>2, ChoiceEnds
<1>4. QED BY <1>3 DEF T

(* So do the tasks of a wave.                                                *)
LEMMA WaveTaskEnds ==
    ASSUME NEW x, NEW v, NEW reps, NEW mask, NEW e \in BOOLEAN, NEW c \in Cores
    PROVE  /\ EndsAs(WaveTaskOf(x, v, reps, mask, e)[c], e)
           /\ Len(WaveTaskOf(x, v, reps, mask, e)[c]) <= 1
<1> DEFINE t == MmTask(x, v, KCount, reps, e)
           a == c \in mask
           T == WaveTaskOf(x, v, reps, mask, e)[c]
<1>1. EndsSession(t) = e
  BY DEF EndsSession, MmTask
<1>2. a \in BOOLEAN /\ T = IF a THEN One(t) ELSE IF e THEN One(StopTask) ELSE Nil
  BY DEF WaveTaskOf
<1> HIDE DEF t, a, T
<1>3. EndsAs(T, e) /\ Len(T) <= 1
  BY <1>1, <1>2, ChoiceEnds
<1>4. QED BY <1>3 DEF T

(* One vector operation. *)
LEMMA VectorCarries ==
    ASSUME NEW x \in Nat, NEW mode \in {"RMSNORM"} \cup PairModes, NEW tokens \in Nat,
           NEW e \in BOOLEAN
    PROVE  Carries(VectorExchange(x, mode, tokens, e), e, 1)
<1> DEFINE rows == CoreRows(tokens)
           A == VectorTasks(x, mode, rows, e)
           B == EmitVectorInputs(x, mode, rows)
           C == CollectVector(x, rows)
           T == VectorTaskOf(x, mode, rows, e)
           S == Join(One(Block(A, Nil)), One(Block(B, C)))
<1>1. rows \in [Cores -> Nat] /\ mode \in VectorModes
  BY RowsOfCores DEF VectorModes, RowModes
<1>2. VectorExchange(x, mode, tokens, e) = S
  BY TwoJoin DEF VectorExchange, Nil
<1> HIDE DEF rows
<1>3. Served(Join(A, B), C, T)
  BY <1>1, VectorServed
<1>4. SeqOf(A, EmitOps) /\ SeqOf(B, EmitOps) /\ SeqOf(C, CollectOps)
  BY <1>1, <1>3, VectorTasksLines, VectorInputs, ServedTypes DEF Lines
<1>5. \A c \in Cores : EndsAs(T[c], e) /\ Len(T[c]) <= 1
  BY <1>1, VectorTaskEnds
<1> HIDE DEF A, B, C, T
<1>6. SeqOf(S, BlockSet) /\ Emits(S) = Join(A, B) /\ Collects(S) = C
  BY <1>4, TwoBlocks
<1> HIDE DEF S
<1>7. Carries(S, e, 1)
  BY <1>3, <1>5, <1>6, CarriesServed
<1>8. QED BY <1>2, <1>7

(* The blocks, words and results of one projection wave. *)
WaveBlocks(x, waves, mask, e) ==
    [w \in 1..waves |->
        Join(IF WaveRepeat THEN Nil
             ELSE One(Block(WaveTasks(x, w, 1, mask, e /\ w = waves), Nil)),
             One(Block(EmitWave(x, w, KCount, mask), CollectWave(x, w, mask))))]
WaveSends(x, waves, mask, e) ==
    [w \in 1..waves |->
        Join(IF WaveRepeat THEN Nil ELSE WaveTasks(x, w, 1, mask, e /\ w = waves),
             EmitWave(x, w, KCount, mask))]
WaveCollects(x, waves, mask) == [w \in 1..waves |-> CollectWave(x, w, mask)]
RepeatSends(x, waves, mask, e) ==
    IF WaveRepeat THEN WaveTasks(x, 1, waves, mask, e) ELSE Nil

(* The sides of a wave are operations of the controller.                     *)
LEMMA WaveOps ==
    ASSUME NEW x \in Nat, NEW v \in Nat, NEW reps \in Nat, NEW mask \in SUBSET Cores, NEW e \in BOOLEAN
    PROVE  /\ SeqOf(WaveTasks(x, v, reps, mask, e), EmitOps)
           /\ SeqOf(EmitWave(x, v, KCount, mask), EmitOps)
           /\ SeqOf(CollectWave(x, v, mask), CollectOps)
<1>1. SeqOf(WaveTasks(x, v, reps, mask, e), EmitOps)
  BY WaveTasksLines DEF Lines
<1>2. SeqOf(EmitWave(x, v, KCount, mask), EmitOps)
  BY CoreConstants, EmitWaveLines DEF Lines
<1>3. SeqOf(CollectWave(x, v, mask), CollectOps)
  BY CollectWaveLines DEF Lines
<1>4. QED BY <1>1, <1>2, <1>3

(* The two sides of the block of a wave.                                     *)
LEMMA WaveBlockSides ==
    ASSUME NEW x \in Nat, NEW waves \in Nat, NEW mask \in SUBSET Cores, NEW e \in BOOLEAN,
           NEW w \in 1..waves
    PROVE  /\ SeqOf(WaveBlocks(x, waves, mask, e)[w], BlockSet)
           /\ Emits(WaveBlocks(x, waves, mask, e)[w]) = WaveSends(x, waves, mask, e)[w]
           /\ Collects(WaveBlocks(x, waves, mask, e)[w]) = WaveCollects(x, waves, mask)[w]
<1> DEFINE l == e /\ w = waves
           A == WaveTasks(x, w, 1, mask, l)
           B == EmitWave(x, w, KCount, mask)
           C == CollectWave(x, w, mask)
<1>1. w \in Nat /\ l \in BOOLEAN
  OBVIOUS
<1>2. /\ WaveBlocks(x, waves, mask, e)[w]
           = Join(IF WaveRepeat THEN Nil ELSE One(Block(A, Nil)), One(Block(B, C)))
      /\ WaveSends(x, waves, mask, e)[w] = Join(IF WaveRepeat THEN Nil ELSE A, B)
      /\ WaveCollects(x, waves, mask)[w] = C
  BY DEF WaveBlocks, WaveSends, WaveCollects
<1> HIDE DEF l
<1>3. SeqOf(A, EmitOps) /\ SeqOf(B, EmitOps) /\ SeqOf(C, CollectOps)
  BY <1>1, WaveOps
<1> HIDE DEF A, B, C
<1>4. CASE WaveRepeat
  <2>1. SeqOf(One(Block(B, C)), BlockSet) /\ Emits(One(Block(B, C))) = B
        /\ Collects(One(Block(B, C))) = C
    BY <1>3, ScriptOne
  <2>2. Join(Nil, One(Block(B, C))) = One(Block(B, C)) /\ Join(Nil, B) = B
    BY <1>3, <2>1, JoinNil
  <2>3. QED BY <1>2, <1>4, <2>1, <2>2
<1>5. CASE ~WaveRepeat
  BY <1>2, <1>3, <1>5, TwoBlocks
<1>6. QED BY <1>4, <1>5

(* Scripts one after the other. *)
ScriptParts(n, f, g, h) ==
    \A i \in 1..n : SeqOf(f[i], BlockSet) /\ g[i] = Emits(f[i]) /\ h[i] = Collects(f[i])

(* The sides of scripts one after the other.                                 *)
LEMMA ScriptCat ==
    ASSUME NEW n \in Nat, NEW f, NEW g, NEW h, ScriptParts(n, f, g, h)
    PROVE  /\ SeqOf(Cat(n, f), BlockSet)
           /\ Emits(Cat(n, f)) = Cat(n, g) /\ Collects(Cat(n, f)) = Cat(n, h)
<1>1. Parts(n, f, BlockSet)
  BY DEF ScriptParts, Parts
<1>2. FlatOf(n, f, EmitSide, g) /\ FlatOf(n, f, CollectSide, h)
  BY DEF ScriptParts, FlatOf, Emits, Collects
<1>3. SeqOf(Cat(n, f), BlockSet)
  BY <1>1, CatSeq
<1>4. FlatMap(Cat(n, f), EmitSide) = Cat(n, g) /\ FlatMap(Cat(n, f), CollectSide) = Cat(n, h)
  BY <1>1, <1>2, SideMaps, FlatCat
<1>5. QED BY <1>3, <1>4 DEF Emits, Collects

(* A barrier after every wave, or none: the same words in the same order. *)
LEMMA WaveScripts ==
    ASSUME NEW x \in Nat, NEW waves \in Nat \ {0}, NEW mask \in SUBSET Cores, NEW e \in BOOLEAN
    PROVE  LET E == Join(RepeatSends(x, waves, mask, e), Cat(waves, WaveSends(x, waves, mask, e)))
               C == Cat(waves, WaveCollects(x, waves, mask))
               S == WaveByWave(x, waves, mask, e)
               U == OverlappedWaves(x, waves, mask, e)
           IN  /\ SeqOf(S, BlockSet) /\ Emits(S) = E /\ Collects(S) = C
               /\ SeqOf(U, BlockSet) /\ Emits(U) = E /\ Collects(U) = C
<1> DEFINE f == WaveBlocks(x, waves, mask, e)
           g == WaveSends(x, waves, mask, e)
           h == WaveCollects(x, waves, mask)
           R == RepeatSends(x, waves, mask, e)
           Q == IF WaveRepeat THEN One(Block(R, Nil)) ELSE Nil
           E == Join(R, Cat(waves, g))
           C == Cat(waves, h)
           S == WaveByWave(x, waves, mask, e)
           U == OverlappedWaves(x, waves, mask, e)
<1>1. S = Join(Q, Cat(waves, f))
  BY DEF WaveByWave, Times, Join, Nil, One, WaveBlocks, RepeatSends
<1>2. U = One(Block(E, C))
  BY DEF OverlappedWaves, Times, Join, Nil, One, WaveSends, WaveCollects, RepeatSends
<1>3. ScriptParts(waves, f, g, h)
  BY WaveBlockSides DEF ScriptParts
<1>4. SeqOf(R, EmitOps) /\ (~WaveRepeat => R = Nil)
  BY WaveOps, NilSeq DEF RepeatSends
<1> HIDE DEF f, g, h, R, S, U
<1>5. /\ SeqOf(Cat(waves, f), BlockSet)
      /\ Emits(Cat(waves, f)) = Cat(waves, g) /\ Collects(Cat(waves, f)) = C
  BY <1>3, ScriptCat
<1>6. SeqOf(Cat(waves, g), EmitOps) /\ SeqOf(C, CollectOps)
  BY <1>5, ScriptTypes
<1> HIDE DEF C
<1>7. SeqOf(Q, BlockSet) /\ Emits(Q) = R /\ Collects(Q) = Nil
  <2>1. CASE WaveRepeat
    BY <1>4, <2>1, NilSeq, ScriptOne
  <2>2. CASE ~WaveRepeat
    BY <1>4, <2>2, ScriptNil
  <2>3. QED BY <2>1, <2>2
<1> HIDE DEF Q
<1>8. SeqOf(S, BlockSet) /\ Emits(S) = E /\ Collects(S) = Join(Nil, C)
  BY <1>1, <1>5, <1>7, ScriptJoin
<1>9. Join(Nil, C) = C
  BY <1>6, JoinNil
<1>10. SeqOf(E, EmitOps)
  BY <1>4, <1>6, JoinSeq
<1> HIDE DEF E
<1>11. SeqOf(U, BlockSet) /\ Emits(U) = E /\ Collects(U) = C
  BY <1>2, <1>6, <1>10, ScriptOne
<1>12. QED BY <1>8, <1>9, <1>11 DEF E, C, f, g, h, R, S, U

(* Without wave repeat, the block of a wave serves its task.                 *)
LEMMA WaveTaskServed ==
    ASSUME NEW x \in Nat, NEW waves \in Nat \ {0}, NEW mask \in SUBSET Cores, NEW e \in BOOLEAN,
           ~WaveRepeat, NEW w \in 1..waves
    PROVE  Carries(WaveBlocks(x, waves, mask, e)[w], e /\ w = waves, 1)
<1> DEFINE l == e /\ w = waves
           S == WaveBlocks(x, waves, mask, e)[w]
           T == WaveTaskOf(x, w, 1, mask, l)
           E == Join(WaveTasks(x, w, 1, mask, l), EmitWave(x, w, KCount, mask))
           C == CollectWave(x, w, mask)
<1>1. w \in Nat /\ l \in BOOLEAN
  OBVIOUS
<1>2. SeqOf(S, BlockSet) /\ Emits(S) = WaveSends(x, waves, mask, e)[w]
      /\ Collects(S) = WaveCollects(x, waves, mask)[w]
  BY WaveBlockSides
<1>3. WaveSends(x, waves, mask, e)[w] = E /\ WaveCollects(x, waves, mask)[w] = C
  BY DEF WaveSends, WaveCollects
<1> HIDE DEF l, S
<1>4. Served(E, C, T)
  BY <1>1, WaveServed
<1>5. \A c \in Cores : EndsAs(T[c], l) /\ Len(T[c]) <= 1
  BY <1>1, WaveTaskEnds
<1> HIDE DEF T, E, C
<1>6. Carries(S, l, 1)
  BY <1>2, <1>3, <1>4, <1>5, CarriesServed
<1>7. QED BY <1>6 DEF l, S

(* A projection carries at most one task per wave and core, with or without  *)
(* wave repeat.                                                              *)
LEMMA WavesCarry ==
    ASSUME NEW x \in Nat, NEW waves \in Nat \ {0}, NEW mask \in SUBSET Cores, NEW e \in BOOLEAN
    PROVE  Carries(WaveByWave(x, waves, mask, e), e, waves)
<1> DEFINE f == WaveBlocks(x, waves, mask, e)
           S == WaveByWave(x, waves, mask, e)
<1>1. CASE WaveRepeat
  <2> DEFINE s == WaveSends(x, waves, mask, e)
             r == WaveCollects(x, waves, mask)
             T == WaveTaskOf(x, 1, waves, mask, e)
             A == WaveTasks(x, 1, waves, mask, e)
  <2>1. ASSUME NEW v \in 1..waves
        PROVE  s[v] = EmitWave(x, v, KCount, mask) /\ r[v] = CollectWave(x, v, mask)
    <3>1. s[v] = Join(Nil, EmitWave(x, v, KCount, mask)) /\ r[v] = CollectWave(x, v, mask)
      BY <1>1 DEF WaveSends, WaveCollects
    <3>2. SeqOf(EmitWave(x, v, KCount, mask), EmitOps)
      <4>1. v \in Nat
        OBVIOUS
      <4>2. QED BY <4>1, CoreConstants, EmitWaveLines DEF Lines
    <3>3. QED BY <3>1, <3>2, JoinNil
  <2>2. RepeatSends(x, waves, mask, e) = A
    BY <1>1 DEF RepeatSends
  <2>3. SeqOf(S, BlockSet) /\ Emits(S) = Join(A, Cat(waves, s)) /\ Collects(S) = Cat(waves, r)
    BY <2>2, WaveScripts
  <2> HIDE DEF s, r, S
  <2>4. Served(Join(A, Cat(waves, s)), Cat(waves, r), T)
    BY <2>1, RepeatServed
  <2>5. \A c \in Cores : EndsAs(T[c], e) /\ Len(T[c]) <= 1
    BY WaveTaskEnds
  <2> HIDE DEF A, T
  <2>6. Carries(S, e, 1)
    BY <2>3, <2>4, <2>5, CarriesServed
  <2>7. 1 \in Nat /\ 1 <= waves /\ waves \in Nat
    OBVIOUS
  <2>8. Carries(S, e, waves)
    BY <2>6, <2>7, CarriesMore
  <2>9. QED BY <2>8 DEF S
<1>2. CASE ~WaveRepeat
  <2>1. S = Join(Nil, Cat(waves, f))
    BY <1>2 DEF WaveByWave, Times, Join, Nil, One, WaveBlocks
  <2>2. Parts(waves, f, BlockSet)
    BY WaveBlockSides DEF Parts
  <2>3. S = Cat(waves, f)
    <3> HIDE DEF f, S
    <3> QED BY <2>1, <2>2, CatSeq, JoinNil
  <2>4. QuietParts(waves - 1, f, 1)
    <3>1. ASSUME NEW w \in 1..(waves - 1) PROVE Carries(f[w], FALSE, 1)
      <4>1. w \in 1..waves /\ (e /\ w = waves) = FALSE
        OBVIOUS
      <4>2. Carries(f[w], e /\ w = waves, 1)
        BY <1>2, <4>1, WaveTaskServed
      <4>3. QED BY <4>1, <4>2
    <3>2. QED BY <3>1 DEF QuietParts
  <2>5. Carries(f[waves], e, 1)
    <3>1. waves \in 1..waves /\ (e /\ waves = waves) = e
      OBVIOUS
    <3>2. Carries(f[waves], e /\ waves = waves, 1)
      BY <1>2, <3>1, WaveTaskServed
    <3>3. QED BY <3>1, <3>2
  <2> HIDE DEF f, S
  <2>6. Carries(Cat(waves, f), e, waves * 1)
    BY <2>4, <2>5, CarriesLast
  <2>7. waves * 1 = waves
    OBVIOUS
  <2>8. Carries(S, e, waves)
    BY <2>3, <2>6, <2>7
  <2>9. QED BY <2>8 DEF S
<1>3. QED BY <1>1, <1>2

(* So does a projection of a resident layer.                                 *)
LEMMA BankedCarry ==
    ASSUME NEW x \in Nat, NEW waves \in Nat \ {0}, NEW e \in BOOLEAN
    PROVE  Carries(BankedWaves(x, waves, e), e, waves)
<1>1. AllCores \in SUBSET Cores
  BY DEF AllCores
<1>2. Carries(WaveByWave(x, waves, AllCores, e), e, waves)
  BY <1>1, WavesCarry
<1>3. Carries(OverlappedWaves(x, waves, AllCores, e), e, waves)
  BY <1>1, <1>2, WaveScripts, CarriesSame
<1>4. QED BY <1>2, <1>3 DEF BankedWaves

(* One task for both cores, its beats and its results, as two blocks or as  *)
(* three.                                                                    *)
LEMMA TaskCarries ==
    ASSUME NEW x \in Nat, NEW w \in Nat, NEW k \in Nat, NEW e \in BOOLEAN, NEW C,
           Lines(CollectOps, {"out"}, MaskWords(x, w, Packets, AllCores), C)
    PROVE  LET B == EmitWave(x, w, k, AllCores)
           IN  /\ Carries(Join(One(AttnTask(x, w, k, e)), One(Block(B, C))), e, 1)
               /\ Carries(Join(One(AttnTask(x, w, k, e)),
                               Join(One(Block(B, Nil)), One(Block(Nil, C)))), e, 1)
<1> DEFINE t == MmTask(x, w, k, 1, e)
           P == [c \in Cores |-> <<Send(c, "task", t)>>]
           A == Join(P[0], P[1])
           B == EmitWave(x, w, k, AllCores)
           T == [c \in Cores |-> One(t)]
<1>1. AttnTask(x, w, k, e) = Block(A, Nil)
  BY BothCores DEF AttnTask, ForCores, Join, Nil
<1>2. t \in Items /\ "task" \in SendKinds /\ AllCores \in SUBSET Cores
  BY TaskKinds DEF Items, SendKinds, AllCores
<1>3. ASSUME NEW c \in Cores PROVE Lines(EmitOps, {"task"}, Only(c, T[c]), P[c])
  <2>1. Lines(EmitOps, {"task"}, Only(c, IF TRUE THEN One(t) ELSE Nil),
              IF TRUE THEN <<Send(c, "task", t)>> ELSE << >>)
    BY <1>2, OneSend
  <2>2. QED BY <2>1
<1>4. \A c \in Cores : T[c] = One(t) /\ c \in AllCores
  BY DEF AllCores
<1>5. EndsSession(t) = e
  BY DEF EndsSession, MmTask
<1>6. SeqOf(B, EmitOps)
  BY <1>2, EmitWaveLines DEF Lines
<1> HIDE DEF P, T
<1>7. Lines(EmitOps, {"task"}, T, A)
  BY <1>3, LinesForCores, KindSets
<1> HIDE DEF A
<1>8. Served(Join(A, B), C, T)
  BY <1>2, <1>4, <1>7, MmServed
<1> HIDE DEF B
<1>9. SeqOf(A, EmitOps) /\ SeqOf(C, CollectOps)
  BY <1>7 DEF Lines
<1> HIDE DEF t
<1>10. \A c \in Cores : EndsAs(T[c], e) /\ Len(T[c]) <= 1
  <2>1. EndsAs(One(t), e) /\ Len(One(t)) = 1
    BY <1>5, EndsOne
  <2>2. Len(One(t)) <= 1
    BY <2>1, AtMostOne
  <2>3. QED BY <1>4, <2>1, <2>2
<1> DEFINE S == Join(One(Block(A, Nil)), One(Block(B, C)))
           U == Join(One(Block(A, Nil)), Join(One(Block(B, Nil)), One(Block(Nil, C))))
<1>11. SeqOf(S, BlockSet) /\ Emits(S) = Join(A, B) /\ Collects(S) = C
  BY <1>6, <1>9, TwoBlocks
<1>12. SeqOf(U, BlockSet) /\ Emits(U) = Join(A, B) /\ Collects(U) = C
  BY <1>6, <1>9, ThreeBlocks
<1>13. Carries(S, e, 1) /\ Carries(U, e, 1)
  <2> HIDE DEF S, U
  <2> QED BY <1>8, <1>10, <1>11, <1>12, CarriesServed
<1>14. QED BY <1>1, <1>13 DEF B

(* One PV wave. *)
LEMMA PvCarries ==
    ASSUME NEW x \in Nat, NEW w \in Nat, NEW k \in Nat, NEW e \in BOOLEAN
    PROVE  Carries(PvWave(x, w, k, e), e, 1)
<1> DEFINE C == Join(CollectWave(x, w, {0}), CollectWave(x, w, {1}))
           P == [c \in Cores |-> CollectWave(x, w, {c})]
           g == MaskWords(x, w, Packets, AllCores)
<1>1. PvWave(x, w, k, e) = Join(One(AttnTask(x, w, k, e)),
        Join(One(Block(EmitWave(x, w, k, AllCores), Nil)), One(Block(Nil, C))))
  BY ThreeJoin DEF PvWave, Join, Nil
<1>2. ASSUME NEW c \in Cores PROVE Lines(CollectOps, {"out"}, Only(c, g[c]), P[c])
  <2>1. {c} \in SUBSET Cores
    OBVIOUS
  <2>2. Lines(CollectOps, {"out"}, MaskWords(x, w, Packets, {c}), CollectWave(x, w, {c}))
    BY <2>1, CollectWaveLines
  <2>3. \A d \in Cores : Only(c, g[c])[d] = MaskWords(x, w, Packets, {c})[d]
    BY DEF Only, MaskWords, AllCores
  <2>4. P[c] = CollectWave(x, w, {c})
    OBVIOUS
  <2> HIDE DEF P, g
  <2>5. QED BY <2>2, <2>3, <2>4, LinesSame
<1>3. C = Join(P[0], P[1])
  BY BothCores
<1> HIDE DEF P
<1>4. Lines(CollectOps, {"out"}, g, C)
  <2> HIDE DEF g, C
  <2> QED BY <1>2, <1>3, LinesForCores, KindSets
<1> HIDE DEF C
<1>5. QED BY <1>1, <1>4, TaskCarries

(* The results of a QK wave.                                                 *)
LEMMA QkLines ==
    ASSUME NEW x \in Nat
    PROVE  Lines(CollectOps, {"out"}, MaskWords(x, 0, Packets, AllCores), CollectWave(x, 0, AllCores))
BY CollectWaveLines DEF AllCores

(* The PV waves of a tile, the last of which may end the session. *)
LEMMA PvWavesCarry ==
    ASSUME NEW x \in Nat, NEW k \in Nat, NEW e \in BOOLEAN, NEW f,
           \A w \in 1..PvWaves : f[w] = PvWave(x, w, k, e /\ w = PvWaves)
    PROVE  Carries(Cat(PvWaves, f), e, PvWaves)
<1>1. PvWaves \in Nat \ {0}
  BY CoreConstants
<1>2. ASSUME NEW w \in 1..PvWaves PROVE Carries(f[w], e /\ w = PvWaves, 1)
  <2>1. w \in Nat /\ (e /\ w = PvWaves) \in BOOLEAN
    BY <1>1
  <2>2. QED BY <2>1, PvCarries
<1>3. QuietParts(PvWaves - 1, f, 1)
  <2>1. ASSUME NEW w \in 1..(PvWaves - 1) PROVE Carries(f[w], FALSE, 1)
    <3>1. w \in 1..PvWaves /\ (e /\ w = PvWaves) = FALSE
      BY <1>1
    <3>2. QED BY <1>2, <3>1
  <2>2. QED BY <2>1 DEF QuietParts
<1>4. Carries(f[PvWaves], e, 1)
  <2>1. PvWaves \in 1..PvWaves /\ (e /\ PvWaves = PvWaves) = e
    BY <1>1
  <2>2. Carries(f[PvWaves], e /\ PvWaves = PvWaves, 1)
    BY <1>2, <2>1
  <2>3. QED BY <2>1, <2>2
<1>5. Carries(Cat(PvWaves, f), e, PvWaves * 1)
  BY <1>1, <1>3, <1>4, CarriesLast
<1>6. PvWaves * 1 = PvWaves
  BY <1>1
<1>7. QED BY <1>5, <1>6

(* A tile of the resident walk, and one of the block prefill. *)
LEMMA TileCarries ==
    ASSUME NEW x \in Nat, NEW k \in Nat, NEW e \in BOOLEAN
    PROVE  /\ Carries(ResidentTile(x, k), FALSE, 1 + PvWaves)
           /\ Carries(PrefillTileHead(x, k, e), e, 1 + PvWaves)
<1> DEFINE f == [w \in 1..PvWaves |-> PvWave(x, w, k, FALSE)]
           g == [w \in 1..PvWaves |-> PvWave(x, w, k, e /\ w = PvWaves)]
           B == EmitWave(x, 0, KCount, AllCores)
           C == CollectWave(x, 0, AllCores)
           S == Join(One(AttnTask(x, 0, KCount, FALSE)), One(Block(B, C)))
           U == Join(One(AttnTask(x, 0, KCount, FALSE)), Join(One(Block(B, Nil)), One(Block(Nil, C))))
<1>1. /\ ResidentTile(x, k) = Join(S, Cat(PvWaves, f))
      /\ PrefillTileHead(x, k, e) = Join(U, Cat(PvWaves, g))
  <2>1. ResidentTile(x, k) = Join(<<AttnTask(x, 0, KCount, FALSE), Block(B, C)>>, Cat(PvWaves, f))
    BY DEF ResidentTile, Times, Join
  <2>2. PrefillTileHead(x, k, e) = Join(<<AttnTask(x, 0, KCount, FALSE), Block(B, Nil), Block(Nil, C)>>,
                                        Cat(PvWaves, g))
    BY DEF PrefillTileHead, Times, Join, Nil
  <2>3. QED BY <2>1, <2>2, TwoJoin, ThreeJoin
<1>2. Carries(S, FALSE, 1) /\ Carries(U, FALSE, 1)
  BY QkLines, CoreConstants, TaskCarries
<1> HIDE DEF S, U
<1>3. Carries(Cat(PvWaves, f), FALSE, PvWaves)
  <2>1. \A w \in 1..PvWaves : f[w] = PvWave(x, w, k, FALSE /\ w = PvWaves)
    OBVIOUS
  <2> HIDE DEF f
  <2>2. QED BY <2>1, PvWavesCarry
<1>4. Carries(Cat(PvWaves, g), e, PvWaves)
  <2>1. \A w \in 1..PvWaves : g[w] = PvWave(x, w, k, e /\ w = PvWaves)
    OBVIOUS
  <2> HIDE DEF g
  <2>2. QED BY <2>1, PvWavesCarry
<1> HIDE DEF f, g
<1>5. PvWaves \in Nat /\ 1 \in Nat
  BY CoreConstants
<1>6. Carries(Join(S, Cat(PvWaves, f)), FALSE, 1 + PvWaves)
  BY <1>2, <1>3, <1>5, CarriesJoin
<1>7. Carries(Join(U, Cat(PvWaves, g)), e, 1 + PvWaves)
  BY <1>2, <1>4, <1>5, CarriesJoin
<1>8. QED BY <1>1, <1>6, <1>7

(* A loop on core c alone. *)
LEMMA LoopOfCore ==
    ASSUME NEW O \in Sides, NEW K, NEW c \in Cores, NEW n \in Nat, NEW w, NEW f,
           \A i \in 1..n : w[i] \in Items,
           \A i \in 1..n : Lines(O, K, Only(c, One(w[i])), f[i])
    PROVE  Lines(O, K, Only(c, Ones(n, w)), Cat(n, f))
<1> DEFINE m == [d \in Cores |-> IF d = c THEN n ELSE 0]
<1>1. \A d \in Cores : m[d] \in Nat /\ m[d] <= n /\ m[d] = IF d = c THEN n ELSE 0
  OBVIOUS
<1> HIDE DEF m
<1>2. ASSUME NEW i \in 1..n
      PROVE  Lines(O, K, [d \in Cores |-> IF i <= m[d] THEN One(w[i]) ELSE Nil], f[i])
  <2> DEFINE g == [d \in Cores |-> IF i <= m[d] THEN One(w[i]) ELSE Nil]
             h == Only(c, One(w[i]))
  <2>1. ASSUME NEW d \in Cores PROVE (i <= m[d]) = (d = c)
    BY <1>1
  <2>2. \A d \in Cores : h[d] = g[d]
    BY <2>1 DEF Only
  <2>3. Lines(O, K, h, f[i])
    OBVIOUS
  <2> HIDE DEF g, h
  <2>4. Lines(O, K, g, f[i])
    BY <2>2, <2>3, LinesSame
  <2>5. QED BY <2>4 DEF g
<1>3. Turns(O, K, n, m, w, f)
  BY <1>2 DEF Turns
<1> DEFINE a == [d \in Cores |-> Ones(m[d], w)]
           b == Only(c, Ones(n, w))
<1>4. Lines(O, K, a, Cat(n, f))
  BY <1>1, <1>3, LinesLoop
<1>5. \A d \in Cores : a[d] = b[d]
  BY <1>1, OnesNone DEF Only
<1> HIDE DEF a, b
<1>6. Lines(O, K, b, Cat(n, f))
  BY <1>4, <1>5, LinesSame
<1>7. QED BY <1>6 DEF b

SoftmaxRows == [c \in Cores |-> GqaGroup]
SoftmaxSends(x, c) == [i \in 1..(GqaGroup * Blocks) |-> <<Send(c, "v0", <<x, 0, i>>)>>]
SoftmaxReceives(x, c) == [i \in 1..(GqaGroup * Blocks) |-> <<Receive(c, <<x, 0, i>>)>>]

(* The four loops of the diagnostic softmax.                                 *)
LEMMA SoftmaxLoops ==
    ASSUME NEW x \in Nat
    PROVE  LET n == GqaGroup * Blocks
               g == RowWords(x, SoftmaxRows)
               P == [c \in Cores |-> Cat(n, SoftmaxSends(x, c))]
               Q == [c \in Cores |-> Cat(n, SoftmaxReceives(x, c))]
           IN  /\ Lines(EmitOps, {"v0"}, g, Join(P[0], P[1]))
               /\ Lines(CollectOps, {"out"}, g, Join(Q[0], Q[1]))
               /\ \A c \in Cores : SeqOf(P[c], EmitOps) /\ SeqOf(Q[c], CollectOps)
<1> DEFINE n == GqaGroup * Blocks
           w == LinkWord(x, 0)
           g == RowWords(x, SoftmaxRows)
           P == [c \in Cores |-> Cat(n, SoftmaxSends(x, c))]
           Q == [c \in Cores |-> Cat(n, SoftmaxReceives(x, c))]
<1>1. n \in Nat
  BY CoreConstants, Sizes
<1>2. \A c \in Cores : g[c] = Ones(n, w)
  BY DEF RowWords, SoftmaxRows
<1>3. \A i \in 1..n : w[i] \in Items /\ w[i] = <<x, 0, i>>
  BY <1>1, LinkItems
<1>4. "v0" \in SendKinds
  BY DEF SendKinds
<1>5. ASSUME NEW c \in Cores
      PROVE  /\ Lines(EmitOps, {"v0"}, Only(c, g[c]), P[c])
             /\ Lines(CollectOps, {"out"}, Only(c, g[c]), Q[c])
  <2> DEFINE f == SoftmaxSends(x, c)
             h == SoftmaxReceives(x, c)
  <2>1. \A i \in 1..n : f[i] = <<Send(c, "v0", w[i])>> /\ h[i] = <<Receive(c, w[i])>>
    BY <1>3 DEF SoftmaxSends, SoftmaxReceives
  <2> HIDE DEF f, h, w
  <2>2. ASSUME NEW i \in 1..n
        PROVE  /\ Lines(EmitOps, {"v0"}, Only(c, One(w[i])), f[i])
               /\ Lines(CollectOps, {"out"}, Only(c, One(w[i])), h[i])
    <3>1. w[i] \in Items
      BY <1>3
    <3>2. Lines(EmitOps, {"v0"}, Only(c, IF TRUE THEN One(w[i]) ELSE Nil),
                IF TRUE THEN <<Send(c, "v0", w[i])>> ELSE << >>)
      BY <1>4, <3>1, OneSend
    <3>3. Lines(CollectOps, {"out"}, Only(c, IF TRUE THEN One(w[i]) ELSE Nil),
                IF TRUE THEN <<Receive(c, w[i])>> ELSE << >>)
      BY <3>1, OneReceive
    <3>4. QED BY <2>1, <3>2, <3>3
  <2>3. Lines(EmitOps, {"v0"}, Only(c, Ones(n, w)), Cat(n, f))
    <3> HIDE DEF n
    <3> QED BY <1>1, <1>3, <2>2, LoopOfCore, KindSets
  <2>4. Lines(CollectOps, {"out"}, Only(c, Ones(n, w)), Cat(n, h))
    <3> HIDE DEF n
    <3> QED BY <1>1, <1>3, <2>2, LoopOfCore, KindSets
  <2>5. P[c] = Cat(n, f) /\ Q[c] = Cat(n, h)
    BY DEF f, h
  <2>6. QED BY <1>2, <2>3, <2>4, <2>5
<1> HIDE DEF g, P, Q
<1>6. Lines(EmitOps, {"v0"}, g, Join(P[0], P[1])) /\ Lines(CollectOps, {"out"}, g, Join(Q[0], Q[1]))
  BY <1>5, LinesForCores, KindSets
<1>7. \A c \in Cores : SeqOf(P[c], EmitOps) /\ SeqOf(Q[c], CollectOps)
  BY <1>5 DEF Lines
<1>8. QED BY <1>6, <1>7 DEF g, P, Q

(* The diagnostic softmax. *)
LEMMA SoftmaxServed ==
    ASSUME NEW x \in Nat, NEW B, NEW C,
           Lines(EmitOps, {"v0"}, RowWords(x, SoftmaxRows), B),
           Lines(CollectOps, {"out"}, RowWords(x, SoftmaxRows), C)
    PROVE  Served(Join(VectorTasks(x, "SOFTMAX", SoftmaxRows, TRUE), B), C,
                  VectorTaskOf(x, "SOFTMAX", SoftmaxRows, TRUE))
<1> DEFINE A == VectorTasks(x, "SOFTMAX", SoftmaxRows, TRUE)
           T == VectorTaskOf(x, "SOFTMAX", SoftmaxRows, TRUE)
           R == RowWords(x, SoftmaxRows)
           t == VectorTask(x, "SOFTMAX", GqaGroup, TRUE)
           row(m) == Ones(m, LinkWord(x, 0))
<1>1. "SOFTMAX" \in VectorModes /\ "SOFTMAX" \notin PairModes /\ SoftmaxRows \in [Cores -> Nat]
      /\ GqaGroup \in Nat /\ GqaGroup # 0
  BY CoreConstants DEF VectorModes, RowModes, PairModes, SoftmaxRows
<1>2. Lines(EmitOps, {"task"}, T, A)
  BY <1>1, VectorTasksLines
<1>3. /\ t \in Tasks /\ Flow("mm")[t] = Nil /\ Flow("v0")[t] = row(GqaGroup * Blocks)
      /\ Flow("v1")[t] = row(0) /\ Flow("out")[t] = row(GqaGroup * Blocks)
  BY <1>1, VectorFlow
<1>4. \A c \in Cores : T[c] = One(t) /\ R[c] = row(GqaGroup * Blocks)
  BY <1>1 DEF VectorTaskOf, RowWords, SoftmaxRows
<1>5. row(0) = Nil
  BY OnesNone
<1> HIDE DEF T, R, t
<1>6. ASSUME NEW c \in Cores
      PROVE  /\ SeqOf(T[c], Tasks)
             /\ FlatMap(B, OnLink(EmitOps, "task", c)) = Nil
             /\ \A k \in OperandKinds :
                  FlatMap(B, OnLink(EmitOps, k, c)) = FlatMap(T[c], Flow(k))
             /\ R[c] = FlatMap(T[c], Flow("out"))
  <2>1. \A k \in Kinds : SeqOf(One(t), Tasks) /\ FlatMap(One(t), Flow(k)) = Flow(k)[t]
    BY <1>3, OneFlow
  <2>2. \A k \in Kinds : FlatMap(B, OnLink(EmitOps, k, c)) = IF k \in {"v0"} THEN R[c] ELSE Nil
    BY DEF Lines, R
  <2>3. ASSUME NEW k \in OperandKinds
        PROVE  FlatMap(B, OnLink(EmitOps, k, c)) = FlatMap(T[c], Flow(k))
    <3>1. k \in Kinds /\ (k = "mm" \/ k = "v0" \/ k = "v1")
      BY KindSets DEF OperandKinds
    <3>2. QED BY <1>3, <1>4, <1>5, <2>1, <2>2, <3>1
  <2>4. R[c] = FlatMap(T[c], Flow("out"))
    BY <1>3, <1>4, <2>1, KindSets
  <2>5. FlatMap(B, OnLink(EmitOps, "task", c)) = Nil
    BY <2>2, KindSets
  <2>6. QED BY <1>4, <2>1, <2>3, <2>4, <2>5, KindSets
<1>7. SeqOf(B, EmitOps) /\ Lines(CollectOps, {"out"}, R, C)
  BY DEF Lines, R
<1>8. Served(Join(A, B), C, T)
  BY <1>2, <1>6, <1>7, ServedExchange
<1>9. QED BY <1>8 DEF T

(* The diagnostic softmax carries one task per core.                         *)
LEMMA SoftmaxCarries == ASSUME NEW x \in Nat PROVE Carries(SoftmaxExchange(x), TRUE, 1)
<1> DEFINE n == GqaGroup * Blocks
           A == VectorTasks(x, "SOFTMAX", SoftmaxRows, TRUE)
           T == VectorTaskOf(x, "SOFTMAX", SoftmaxRows, TRUE)
           P == [c \in Cores |-> Cat(n, SoftmaxSends(x, c))]
           Q == [c \in Cores |-> Cat(n, SoftmaxReceives(x, c))]
           S == Join(Join(One(Block(A, Nil)),
                          Join(One(Block(P[0], Nil)), One(Block(P[1], Nil)))),
                     Join(One(Block(Nil, Q[0])), One(Block(Nil, Q[1]))))
<1>1. SoftmaxExchange(x) = S
  BY BothCores DEF SoftmaxExchange, ForCores, Times, Join, One, Nil, SoftmaxRows, SoftmaxSends,
        SoftmaxReceives
<1>2. /\ Lines(EmitOps, {"v0"}, RowWords(x, SoftmaxRows), Join(P[0], P[1]))
      /\ Lines(CollectOps, {"out"}, RowWords(x, SoftmaxRows), Join(Q[0], Q[1]))
      /\ \A c \in Cores : SeqOf(P[c], EmitOps) /\ SeqOf(Q[c], CollectOps)
  BY SoftmaxLoops
<1> HIDE DEF P, Q
<1>3. Served(Join(A, Join(P[0], P[1])), Join(Q[0], Q[1]), T)
  BY <1>2, SoftmaxServed
<1>4. "SOFTMAX" \in VectorModes /\ SoftmaxRows \in [Cores -> Nat]
  BY CoreConstants DEF VectorModes, RowModes, SoftmaxRows
<1>5. SeqOf(A, EmitOps) /\ \A c \in Cores : EndsAs(T[c], TRUE) /\ Len(T[c]) <= 1
  BY <1>4, VectorTasksLines, VectorTaskEnds DEF Lines
<1> HIDE DEF A, T
<1>6. SeqOf(Nil, CollectOps) /\ SeqOf(Nil, EmitOps) /\ 0 \in Cores /\ 1 \in Cores
  BY NilSeq, BothCores
<1> DEFINE a == One(Block(A, Nil))
           b == Join(One(Block(P[0], Nil)), One(Block(P[1], Nil)))
           c == Join(One(Block(Nil, Q[0])), One(Block(Nil, Q[1])))
<1>7. SeqOf(a, BlockSet) /\ Emits(a) = A /\ Collects(a) = Nil
  BY <1>5, <1>6, ScriptOne
<1>8. SeqOf(b, BlockSet) /\ Emits(b) = Join(P[0], P[1]) /\ Collects(b) = Nil
  BY <1>2, <1>6, TwoBlocks
<1>9. SeqOf(c, BlockSet) /\ Emits(c) = Nil /\ Collects(c) = Join(Q[0], Q[1])
  <2>1. \A d \in Cores : /\ SeqOf(One(Block(Nil, Q[d])), BlockSet)
                         /\ Emits(One(Block(Nil, Q[d]))) = Nil
                         /\ Collects(One(Block(Nil, Q[d]))) = Q[d]
    BY <1>2, <1>6, ScriptOne
  <2>2. QED BY <1>6, <2>1, ScriptJoin, NilNil
<1>10. SeqOf(Join(P[0], P[1]), EmitOps) /\ SeqOf(Join(Q[0], Q[1]), CollectOps)
  BY <1>2, <1>6, JoinSeq
<1>11. S = Join(Join(a, b), c)
  OBVIOUS
<1> HIDE DEF a, b, c, S
<1>12. /\ SeqOf(Join(a, b), BlockSet) /\ Emits(Join(a, b)) = Join(A, Join(P[0], P[1]))
       /\ Collects(Join(a, b)) = Nil
  BY <1>7, <1>8, ScriptJoin, NilNil
<1>13. /\ SeqOf(S, BlockSet) /\ Emits(S) = Join(Join(A, Join(P[0], P[1])), Nil)
       /\ Collects(S) = Join(Nil, Join(Q[0], Q[1]))
  BY <1>9, <1>11, <1>12, ScriptJoin
<1>14. SeqOf(Join(A, Join(P[0], P[1])), EmitOps)
  BY <1>5, <1>10, JoinSeq
<1>15. Emits(S) = Join(A, Join(P[0], P[1])) /\ Collects(S) = Join(Q[0], Q[1])
  BY <1>10, <1>13, <1>14, JoinNil
<1>16. Carries(S, TRUE, 1)
  BY <1>3, <1>5, <1>13, <1>15, CarriesServed
<1>17. QED BY <1>1, <1>16

(* A launch without work stops both cores. *)
LEMMA StopsCarry == Carries(<<Block(Stops, << >>)>>, TRUE, 1)
<1> DEFINE P == [c \in Cores |-> <<Send(c, "task", StopTask)>>]
           T == [c \in Cores |-> One(StopTask)]
           A == Join(P[0], P[1])
<1>1. <<Block(Stops, << >>)>> = One(Block(A, Nil))
  BY BothCores DEF Stops, ForCores, Join, Nil, One
<1>2. StopTask \in Tasks /\ StopTask \in Items /\ "task" \in SendKinds
  BY TaskKinds DEF Items, SendKinds
<1>3. EndsSession(StopTask) = TRUE
  BY DEF EndsSession, StopTask
<1>4. ASSUME NEW c \in Cores PROVE Lines(EmitOps, {"task"}, Only(c, T[c]), P[c])
  <2>1. Lines(EmitOps, {"task"}, Only(c, IF TRUE THEN One(StopTask) ELSE Nil),
              IF TRUE THEN <<Send(c, "task", StopTask)>> ELSE << >>)
    BY <1>2, OneSend
  <2>2. QED BY <2>1
<1>5. \A c \in Cores : T[c] = One(StopTask)
  OBVIOUS
<1> HIDE DEF P, T, StopTask
<1>6. Lines(EmitOps, {"task"}, T, A)
  BY <1>4, LinesForCores, KindSets
<1> HIDE DEF A
<1>7. SeqOf(A, EmitOps) /\ SeqOf(Nil, EmitOps) /\ SeqOf(Nil, CollectOps)
  BY <1>6, NilSeq DEF Lines
<1> DEFINE R == [d \in Cores |-> Nil]
<1>8. \A d \in Cores : R[d] = Nil
  OBVIOUS
<1> HIDE DEF R
<1>9. Lines(CollectOps, {"out"}, R, Nil)
  BY <1>8, LinesNil, KindSets
<1>10. ASSUME NEW c \in Cores
       PROVE  /\ SeqOf(T[c], Tasks)
              /\ FlatMap(Nil, OnLink(EmitOps, "task", c)) = Nil
              /\ \A k \in OperandKinds :
                   FlatMap(Nil, OnLink(EmitOps, k, c)) = FlatMap(T[c], Flow(k))
              /\ R[c] = FlatMap(T[c], Flow("out"))
  <2>1. \A k \in Kinds : SeqOf(One(StopTask), Tasks) /\ FlatMap(One(StopTask), Flow(k)) = Flow(k)[StopTask]
    BY <1>2, OneFlow
  <2>2. \A k \in OperandKinds \cup {"out"} : k \in Kinds /\ Flow(k)[StopTask] = Nil
    BY KindSets, StopFlow
  <2>3. QED BY <1>5, <1>8, <2>1, <2>2, FlatNil, KindSets
<1>11. Served(Join(A, Nil), Nil, T)
  BY <1>6, <1>7, <1>9, <1>10, ServedExchange
<1>12. Join(A, Nil) = A
  BY <1>7, JoinNil
<1>13. \A c \in Cores : EndsAs(T[c], TRUE) /\ Len(T[c]) <= 1
  <2>1. EndsAs(One(StopTask), TRUE) /\ Len(One(StopTask)) = 1
    BY <1>3, EndsOne
  <2>2. QED BY <1>5, <2>1, AtMostOne
<1> DEFINE S == One(Block(A, Nil))
<1>14. SeqOf(S, BlockSet) /\ Emits(S) = A /\ Collects(S) = Nil
  BY <1>7, ScriptOne
<1> HIDE DEF S
<1>15. Carries(S, TRUE, 1)
  BY <1>11, <1>12, <1>13, <1>14, CarriesServed
<1>16. QED BY <1>1, <1>15 DEF S

-----------------------------------------------------------------------------
(* The causal walk, the prefill block and their budgets.                    *)

(* The quotient's bounds.                                                    *)
LEMMA Division ==
    ASSUME NEW a \in Nat, NEW b \in Nat \ {0}
    PROVE  a \div b \in Nat /\ b * (a \div b) <= a /\ a < b * (a \div b) + b
BY SMT

(* Multiplication is monotone.                                               *)
LEMMA Monotone ==
    ASSUME NEW a \in Nat, NEW b \in Nat, NEW c \in Nat, a <= b
    PROVE  a * c <= b * c /\ c * a <= c * b
BY SMT

(* Products of natural numbers.                                              *)
LEMMA Products ==
    ASSUME NEW a \in Nat, NEW b \in Nat
    PROVE  a * b \in Nat /\ (a > 0 /\ b > 0 => a * b > 0)
BY SMT

(* The tiles of a context cover it, the last one not in vain. *)
LEMMA TilesRoundUp ==
    ASSUME NEW a \in Nat
    PROVE  /\ TileCount(a) \in Nat
           /\ a <= AttnTile * TileCount(a) /\ AttnTile * TileCount(a) < a + AttnTile
<1> DEFINE b == AttnTile
           q == (a + b - 1) \div b
<1>0. b \in Nat \ {0}
  BY CoreConstants
<1>1. a + b - 1 \in Nat
  BY <1>0
<1>2. q \in Nat /\ b * q <= a + b - 1 /\ a + b - 1 < b * q + b
  BY <1>0, <1>1, Division
<1>3. TileCount(a) = q
  BY DEF CeilDiv, TileCount
<1>4. b * q \in Nat
  BY <1>0, <1>2, Products
<1>5. a <= b * q /\ b * q < a + b
  <2> HIDE DEF q, b
  <2> QED BY <1>0, <1>2, <1>4
<1>6. QED BY <1>2, <1>3, <1>5

(* A longer context has no fewer tiles. *)
LEMMA TilesGrow ==
    ASSUME NEW a \in Nat, NEW b \in Nat, a <= b
    PROVE  TileCount(a) <= TileCount(b)
<1> DEFINE p == TileCount(a)
           q == TileCount(b)
           t == AttnTile
<1>1. p \in Nat /\ q \in Nat /\ t * p < a + t /\ b <= t * q
  BY TilesRoundUp
<1>2. t \in Nat \ {0}
  BY CoreConstants
<1> HIDE DEF p, q, t
<1>3. CASE q < p
  <2>1. t * (q + 1) <= t * p
    BY <1>1, <1>2, <1>3, Monotone
  <2>2. t * (q + 1) = t * q + t /\ t * q \in Nat /\ t * p \in Nat
    BY <1>1, <1>2
  <2> DEFINE u == t * q
             v == t * p
             s == t * (q + 1)
  <2>3. u \in Nat /\ v \in Nat /\ s = u + t /\ s <= v /\ v < a + t /\ b <= u
    BY <1>1, <2>1, <2>2
  <2> HIDE DEF u, v, s
  <2>4. QED BY <1>2, <2>3
<1>4. QED BY <1>1, <1>3 DEF p, q

(* The length of each tile is a number. *)
LEMMA TileLengths ==
    ASSUME NEW a \in Nat, NEW i \in 1..TileCount(a)
    PROVE  TileLength(a, i) \in Nat
<1> DEFINE t == AttnTile
           q == TileCount(a)
           j == i - 1
<1>1. q \in Nat /\ t * q < a + t /\ t \in Nat \ {0}
  BY TilesRoundUp, CoreConstants
<1>2. i \in Nat /\ i <= q /\ j \in Nat /\ i = j + 1
  BY <1>1
<1>3. j * t \in Nat /\ i * t = j * t + t /\ i * t <= q * t /\ q * t = t * q
  <2> HIDE DEF q, t, j
  <2>1. i * t <= q * t
    BY <1>1, <1>2, Monotone
  <2>2. j * t \in Nat /\ i * t = j * t + t /\ q * t = t * q
    BY <1>1, <1>2
  <2>3. QED BY <2>1, <2>2
<1>4. TileLength(a, i) = IF i * t > a THEN a - j * t ELSE t
  BY DEF TileLength
<1>5. j * t <= a
  <2> DEFINE u == j * t
             v == i * t
             s == q * t
  <2>0. s \in Nat
    BY <1>1, Products
  <2>1. u \in Nat /\ v = u + t /\ v <= s /\ s < a + t
    BY <1>1, <1>3
  <2> HIDE DEF u, v, s, t
  <2>2. u <= a
    BY <1>1, <2>0, <2>1
  <2>3. QED BY <2>2 DEF u, t
<1> DEFINE u == j * t
           v == i * t
<1>6. u \in Nat /\ u <= a /\ TileLength(a, i) = (IF v > a THEN a - u ELSE t) /\ t \in Nat
  BY <1>1, <1>3, <1>4, <1>5
<1> HIDE DEF u, v, t
<1>7. QED BY <1>6

(* What one tile sends a core, and one token's walk at the longest context. *)
PerTile == 1 + PvWaves
PerToken == CeilDiv(MaxSeq, AttnTile) * PerTile

(* The attention budget is ActiveTokens times the tasks of a token.          *)
LEMMA Budgets ==
    /\ PerTile \in Nat /\ PerToken \in Nat
    /\ AttentionBudget \in Nat /\ AttentionBudget = ActiveTokens * PerToken
<1>1. PerTile \in Nat
  BY CoreConstants DEF PerTile
<1>2. CeilDiv(MaxSeq, AttnTile) \in Nat
  BY CoreConstants, TilesRoundUp DEF TileCount
<1>3. PerToken \in Nat
  BY <1>1, <1>2, Products DEF PerToken
<1>4. AttentionBudget = ActiveTokens * PerToken
  BY DEF AttentionBudget, PerToken, PerTile
<1>5. ActiveTokens * PerToken \in Nat
  BY <1>3, CoreConstants, Products
<1>6. QED BY <1>1, <1>3, <1>4, <1>5

(* The walk of one token over the tiles of its context. *)
LEMMA WalkCarries ==
    ASSUME NEW x \in Nat, NEW context \in Nat, context <= MaxSeq
    PROVE  Carries(TokenWalk(x, context), FALSE, PerToken)
<1> DEFINE n == TileCount(context)
           f == [i \in 1..n |-> ResidentTile(x + i, TileLength(context, i))]
<1>1. TokenWalk(x, context) = Cat(n, f)
  BY DEF TokenWalk, Times
<1>2. n \in Nat /\ n <= CeilDiv(MaxSeq, AttnTile) /\ CeilDiv(MaxSeq, AttnTile) \in Nat
  BY CoreConstants, TilesRoundUp, TilesGrow DEF TileCount
<1>3. ASSUME NEW i \in 1..n PROVE Carries(f[i], FALSE, PerTile)
  <2>1. TileLength(context, i) \in Nat /\ x + i \in Nat
    BY <1>2, TileLengths
  <2>2. Carries(ResidentTile(x + i, TileLength(context, i)), FALSE, 1 + PvWaves)
    BY <2>1, TileCarries
  <2>3. QED BY <2>2 DEF PerTile
<1>4. QuietParts(n, f, PerTile)
  BY <1>3 DEF QuietParts
<1> HIDE DEF n, f
<1>5. Carries(Cat(n, f), FALSE, n * PerTile)
  BY <1>2, <1>4, Budgets, CarriesCat
<1>6. n * PerTile \in Nat /\ n * PerTile <= PerToken
  BY <1>2, Budgets, Products, Monotone DEF PerToken
<1>7. Carries(Cat(n, f), FALSE, PerToken)
  BY <1>5, <1>6, Budgets, CarriesMore
<1>8. QED BY <1>1, <1>7

(* The causal walk of a layer stays within its budget.                       *)
LEMMA AttentionCarries ==
    ASSUME NEW r, r.tokens \in Nat, r.position \in Nat, r.tokens <= ActiveTokens,
           r.position + r.tokens <= MaxSeq
    PROVE  Carries(AttentionWalk(r), FALSE, AttentionBudget)
<1> DEFINE n == r.tokens
           f == [t \in 1..n |-> TokenWalk(100 * t, r.position + t)]
<1>1. AttentionWalk(r) = Cat(n, f)
  BY DEF AttentionWalk, Times
<1>2. ASSUME NEW t \in 1..n PROVE Carries(f[t], FALSE, PerToken)
  <2>1. 100 * t \in Nat /\ r.position + t \in Nat /\ r.position + t <= MaxSeq
    BY CoreConstants
  <2>2. Carries(TokenWalk(100 * t, r.position + t), FALSE, PerToken)
    BY <2>1, WalkCarries
  <2>3. QED BY <2>2
<1>3. QuietParts(n, f, PerToken)
  BY <1>2 DEF QuietParts
<1>4. n \in Nat /\ n <= ActiveTokens
  OBVIOUS
<1> HIDE DEF n, f
<1>5. Carries(Cat(n, f), FALSE, n * PerToken)
  BY <1>3, <1>4, Budgets, CarriesCat
<1>6. n * PerToken \in Nat /\ n * PerToken <= AttentionBudget
  BY <1>4, Budgets, CoreConstants, Products, Monotone
<1>7. Carries(Cat(n, f), FALSE, AttentionBudget)
  BY <1>5, <1>6, Budgets, CarriesMore
<1>8. QED BY <1>1, <1>7

(* The query heads of one tile, and all tiles, of the block prefill. *)
LEMMA PrefillTileCarries ==
    ASSUME NEW i \in Nat, NEW context \in Nat, i \in 1..TileCount(context), NEW e \in BOOLEAN
    PROVE  Carries(PrefillTile(i, context, e), e, GqaGroup * PerTile)
<1> DEFINE f == [h \in 1..GqaGroup |->
                   PrefillTileHead(100 * h + i, TileLength(context, i), e /\ h = GqaGroup)]
<1>1. PrefillTile(i, context, e) = Cat(GqaGroup, f)
  BY DEF PrefillTile, Times
<1>2. GqaGroup \in Nat \ {0}
  BY CoreConstants
<1>3. ASSUME NEW h \in 1..GqaGroup PROVE Carries(f[h], e /\ h = GqaGroup, PerTile)
  <2>1. TileLength(context, i) \in Nat /\ 100 * h + i \in Nat /\ (e /\ h = GqaGroup) \in BOOLEAN
    BY <1>2, TileLengths
  <2>2. Carries(PrefillTileHead(100 * h + i, TileLength(context, i), e /\ h = GqaGroup),
                e /\ h = GqaGroup, 1 + PvWaves)
    BY <2>1, TileCarries
  <2>3. QED BY <2>2 DEF PerTile
<1> HIDE DEF f
<1>4. QuietParts(GqaGroup - 1, f, PerTile)
  <2>1. ASSUME NEW h \in 1..(GqaGroup - 1) PROVE Carries(f[h], FALSE, PerTile)
    <3>1. h \in 1..GqaGroup /\ (e /\ h = GqaGroup) = FALSE
      BY <1>2
    <3>2. Carries(f[h], e /\ h = GqaGroup, PerTile)
      BY <1>3, <3>1
    <3>3. QED BY <3>1, <3>2
  <2>2. QED BY <2>1 DEF QuietParts
<1>5. Carries(f[GqaGroup], e, PerTile)
  <2>1. GqaGroup \in 1..GqaGroup /\ (e /\ GqaGroup = GqaGroup) = e
    BY <1>2
  <2>2. Carries(f[GqaGroup], e /\ GqaGroup = GqaGroup, PerTile)
    BY <1>3, <2>1
  <2>3. QED BY <2>1, <2>2
<1>6. Carries(Cat(GqaGroup, f), e, GqaGroup * PerTile)
  BY <1>2, <1>4, <1>5, Budgets, CarriesLast
<1>7. QED BY <1>1, <1>6

(* A prefill block carries the tasks the controller counted when it accepted *)
(* it.                                                                       *)
LEMMA PrefillCarries ==
    ASSUME NEW r, r.tokens \in Nat \ {0}, r.position \in Nat
    PROVE  Carries(PrefillBlock(r), TRUE, PrefillTasksPerCore(r)) /\ PrefillTasksPerCore(r) \in Nat
<1> DEFINE context == r.position + r.tokens
           n == TileCount(context)
           m == GqaGroup * PerTile
           f == [i \in 1..n |-> PrefillTile(i, context, i = n)]
<1>1. context \in Nat /\ context > 0
  OBVIOUS
<1>2. PrefillBlock(r) = Cat(n, f)
  BY DEF PrefillBlock, Times
<1>3. m \in Nat
  BY CoreConstants, Budgets, Products
<1>4. n \in Nat \ {0}
  <2>1. n \in Nat /\ context <= AttnTile * n
    BY <1>1, TilesRoundUp
  <2>2. n # 0
    BY <1>1, <2>1, CoreConstants
  <2>3. QED BY <2>1, <2>2
<1>5. ASSUME NEW i \in 1..n PROVE Carries(f[i], i = n, m)
  <2>1. i \in Nat /\ (i = n) \in BOOLEAN
    BY <1>4
  <2>2. Carries(PrefillTile(i, context, i = n), i = n, m)
    BY <1>1, <2>1, PrefillTileCarries
  <2>3. QED BY <2>2
<1>6. PrefillTasksPerCore(r) = n * m
  <2>1. PrefillTasksPerCore(r) = (n * GqaGroup) * PerTile
    BY DEF PrefillTasksPerCore, PerTile
  <2>2. (n * GqaGroup) * PerTile = n * m
    <3>1. n \in Nat /\ GqaGroup \in Nat /\ PerTile \in Nat
      BY <1>4, CoreConstants, Budgets
    <3> HIDE DEF n
    <3>2. QED BY <3>1
  <2>3. QED BY <2>1, <2>2
<1> HIDE DEF f, n, m, context
<1>7. QuietParts(n - 1, f, m)
  <2>1. ASSUME NEW i \in 1..(n - 1) PROVE Carries(f[i], FALSE, m)
    <3>1. i \in 1..n /\ (i = n) = FALSE
      BY <1>4
    <3>2. Carries(f[i], i = n, m)
      BY <1>5, <3>1
    <3>3. QED BY <3>1, <3>2
  <2>2. QED BY <2>1 DEF QuietParts
<1>8. Carries(f[n], TRUE, m)
  <2>1. n \in 1..n /\ (n = n) = TRUE
    BY <1>4
  <2>2. Carries(f[n], n = n, m)
    BY <1>5, <2>1
  <2>3. QED BY <2>1, <2>2
<1>9. Carries(Cat(n, f), TRUE, n * m) /\ n * m \in Nat
  BY <1>3, <1>4, <1>7, <1>8, CarriesLast, Products
<1>10. QED BY <1>2, <1>6, <1>9

-----------------------------------------------------------------------------
(* Every launch.                                                            *)

(* Every projection has a wave.                                              *)
LEMMA WaveCounts ==
    /\ Waves[0] \in Nat \ {0} /\ Waves[1] \in Nat \ {0} /\ Waves[2] \in Nat \ {0}
    /\ Waves[3] \in Nat \ {0} /\ Waves[4] \in Nat \ {0} /\ Waves[5] \in Nat \ {0}
    /\ Waves[6] \in Nat \ {0}
BY CoreConstants

(* The Q, K and V projections. *)
LEMMA QkvCarries ==
    Carries(Times(3, LAMBDA s : BankedWaves(1 + s, Waves[s - 1], FALSE)), FALSE,
            Waves[0] + Waves[1] + Waves[2])
<1> DEFINE f == [s \in 1..3 |-> BankedWaves(1 + s, Waves[s - 1], FALSE)]
<1>1. Times(3, LAMBDA s : BankedWaves(1 + s, Waves[s - 1], FALSE)) = Cat(3, f)
  BY DEF Times
<1>2. /\ f[0 + 1] = BankedWaves(2, Waves[0], FALSE) /\ f[1 + 1] = BankedWaves(3, Waves[1], FALSE)
      /\ f[2 + 1] = BankedWaves(4, Waves[2], FALSE)
  OBVIOUS
<1> HIDE DEF f
<1>3. /\ Carries(f[0 + 1], FALSE, Waves[0]) /\ Carries(f[1 + 1], FALSE, Waves[1])
      /\ Carries(f[2 + 1], FALSE, Waves[2])
  BY <1>2, WaveCounts, BankedCarry
<1>4. /\ Cat(0, f) = Nil /\ Cat(0 + 1, f) = Join(Cat(0, f), f[0 + 1])
      /\ Cat(1 + 1, f) = Join(Cat(1, f), f[1 + 1]) /\ Cat(2 + 1, f) = Join(Cat(2, f), f[2 + 1])
      /\ 0 + 1 = 1 /\ 1 + 1 = 2 /\ 2 + 1 = 3
  BY CatSteps
<1> DEFINE a == Waves[0]
           b == Waves[1]
           c == Waves[2]
<1>5. a \in Nat /\ b \in Nat /\ c \in Nat /\ 0 + a = a /\ a + b \in Nat
  BY WaveCounts
<1> HIDE DEF a, b, c
<1>6. Carries(Cat(1, f), FALSE, a)
  <2>1. Carries(Join(Nil, f[0 + 1]), FALSE, 0 + a)
    BY <1>3, <1>5, CarriesNil, CarriesJoin DEF a
  <2>2. QED BY <1>4, <1>5, <2>1
<1>7. Carries(Cat(2, f), FALSE, a + b)
  <2>1. Carries(Join(Cat(1, f), f[1 + 1]), FALSE, a + b)
    BY <1>3, <1>5, <1>6, CarriesJoin DEF b
  <2>2. QED BY <1>4, <2>1
<1>8. Carries(Cat(3, f), FALSE, a + b + c)
  <2>1. Carries(Join(Cat(2, f), f[2 + 1]), FALSE, a + b + c)
    BY <1>3, <1>5, <1>7, CarriesJoin DEF c
  <2>2. QED BY <1>4, <2>1
<1>9. QED BY <1>1, <1>8 DEF a, b, c

(* The arguments of an accepted resident launch. *)
Resident(r) ==
    /\ r.tokens \in Nat /\ r.position \in Nat
    /\ r.tokens <= ActiveTokens /\ r.position + r.tokens <= MaxSeq

AttentionCount == Waves[0] + Waves[1] + Waves[2] + AttentionBudget + Waves[3] + 2
FfnCount == Waves[4] + Waves[5] + Waves[6] + 3

(* Both halves of a layer together fit the task loop (BudgetAssumption).     *)
LEMMA HalfCounts ==
    /\ AttentionCount \in Nat /\ FfnCount \in Nat
    /\ AttentionCount <= MaxTasks /\ FfnCount <= MaxTasks
    /\ AttentionCount + FfnCount <= MaxTasks /\ 1 \in Nat /\ 1 <= MaxTasks /\ MaxTasks \in Nat
<1>1. Core0TasksMax <= MaxTasks /\ MaxTasks \in Nat /\ AttentionBudget \in Nat
  BY BudgetAssumption, CoreConstants, Budgets
<1>2. Core0TasksMax = AttentionCount + FfnCount
  <2> DEFINE a == AttentionBudget
  <2>1. a \in Nat
    BY <1>1
  <2>2. Core0TasksMax = a + ProjectionBudget + 5
    BY DEF Core0TasksMax
  <2>3. AttentionCount = Waves[0] + Waves[1] + Waves[2] + a + Waves[3] + 2
    BY DEF AttentionCount
  <2> HIDE DEF a
  <2>4. QED BY <2>1, <2>2, <2>3, WaveCounts DEF ProjectionBudget, FfnCount
<1>3. AttentionCount \in Nat /\ FfnCount \in Nat /\ FfnCount > 0
  BY <1>1, WaveCounts DEF AttentionCount, FfnCount
<1>4. QED BY <1>1, <1>2, <1>3

(* The attention half ends the session only when no FFN half follows.        *)
LEMMA AttentionHalfCarries ==
    ASSUME NEW r, Resident(r)
    PROVE  Carries(AttentionHalf(r), r.op = "ATTENTION_SUBLAYER", AttentionCount)
<1> DEFINE e == r.op = "ATTENTION_SUBLAYER"
           A == VectorExchange(1, "RMSNORM", r.tokens, FALSE)
           B == Times(3, LAMBDA s : BankedWaves(1 + s, Waves[s - 1], FALSE))
           C == AttentionWalk(r)
           D == BankedWaves(5, Waves[3], FALSE)
           F == VectorExchange(6, "RESIDUAL_ADD", r.tokens, e)
           b == Waves[0] + Waves[1] + Waves[2]
           c == AttentionBudget
           d == Waves[3]
<1>1. AttentionHalf(r) = Join(Join(Join(Join(A, B), C), D), F)
  BY DEF AttentionHalf, Join
<1>2. e \in BOOLEAN /\ r.tokens \in Nat /\ "RESIDUAL_ADD" \in {"RMSNORM"} \cup PairModes
  BY DEF Resident, PairModes
<1>3. Carries(A, FALSE, 1) /\ Carries(F, e, 1)
  <2> HIDE DEF e
  <2> QED BY <1>2, VectorCarries
<1>4. Carries(B, FALSE, b)
  BY QkvCarries
<1>5. Carries(C, FALSE, c)
  BY AttentionCarries DEF Resident
<1>6. Carries(D, FALSE, d)
  BY WaveCounts, BankedCarry
<1>7. b \in Nat /\ c \in Nat /\ d \in Nat
  BY WaveCounts, Budgets
<1>8. AttentionCount = 1 + b + c + d + 1
  BY <1>7, WaveCounts DEF AttentionCount
<1> HIDE DEF e, A, B, C, D, F, b, c, d
<1>9. 1 \in Nat /\ 1 + b \in Nat /\ 1 + b + c \in Nat /\ 1 + b + c + d \in Nat
  BY <1>7
<1>10. Carries(Join(A, B), FALSE, 1 + b)
  BY <1>3, <1>4, <1>7, <1>9, CarriesJoin
<1>11. Carries(Join(Join(A, B), C), FALSE, 1 + b + c)
  BY <1>5, <1>7, <1>9, <1>10, CarriesJoin
<1>12. Carries(Join(Join(Join(A, B), C), D), FALSE, 1 + b + c + d)
  BY <1>6, <1>7, <1>9, <1>11, CarriesJoin
<1>13. Carries(Join(Join(Join(Join(A, B), C), D), F), e, 1 + b + c + d + 1)
  BY <1>2, <1>3, <1>9, <1>12, CarriesJoin
<1>14. QED BY <1>1, <1>8, <1>13 DEF e

(* The FFN half ends the session.                                            *)
LEMMA FfnHalfCarries ==
    ASSUME NEW r, Resident(r)
    PROVE  Carries(FfnHalf(r), TRUE, FfnCount)
<1> DEFINE A == VectorExchange(7, "RMSNORM", r.tokens, FALSE)
           B == BankedWaves(8, Waves[4], FALSE)
           C == BankedWaves(9, Waves[5], FALSE)
           D == VectorExchange(10, "SILU_MUL", r.tokens, FALSE)
           F == BankedWaves(11, Waves[6], FALSE)
           G == VectorExchange(12, "RESIDUAL_ADD", r.tokens, TRUE)
           b == Waves[4]
           c == Waves[5]
           f == Waves[6]
<1>1. FfnHalf(r) = Join(Join(Join(Join(Join(A, B), C), D), F), G)
  BY DEF FfnHalf, Join
<1>2. r.tokens \in Nat /\ {"RMSNORM", "RESIDUAL_ADD", "SILU_MUL"} \subseteq {"RMSNORM"} \cup PairModes
  BY DEF Resident, PairModes
<1>3. Carries(A, FALSE, 1) /\ Carries(D, FALSE, 1) /\ Carries(G, TRUE, 1)
  BY <1>2, VectorCarries
<1>4. Carries(B, FALSE, b) /\ Carries(C, FALSE, c) /\ Carries(F, FALSE, f)
  BY WaveCounts, BankedCarry
<1>5. b \in Nat /\ c \in Nat /\ f \in Nat
  BY WaveCounts
<1>6. FfnCount = 1 + b + c + 1 + f + 1
  BY <1>5 DEF FfnCount
<1> HIDE DEF A, B, C, D, F, G, b, c, f
<1>7. 1 \in Nat /\ 1 + b \in Nat /\ 1 + b + c \in Nat /\ 1 + b + c + 1 \in Nat
      /\ 1 + b + c + 1 + f \in Nat
  BY <1>5
<1>8. Carries(Join(A, B), FALSE, 1 + b)
  BY <1>3, <1>4, <1>5, <1>7, CarriesJoin
<1>9. Carries(Join(Join(A, B), C), FALSE, 1 + b + c)
  BY <1>4, <1>5, <1>7, <1>8, CarriesJoin
<1>10. Carries(Join(Join(Join(A, B), C), D), FALSE, 1 + b + c + 1)
  BY <1>3, <1>7, <1>9, CarriesJoin
<1>11. Carries(Join(Join(Join(Join(A, B), C), D), F), FALSE, 1 + b + c + 1 + f)
  BY <1>4, <1>5, <1>7, <1>10, CarriesJoin
<1>12. Carries(Join(Join(Join(Join(Join(A, B), C), D), F), G), TRUE, 1 + b + c + 1 + f + 1)
  BY <1>3, <1>7, <1>11, CarriesJoin
<1>13. QED BY <1>1, <1>6, <1>12

(* What the controller accepts. *)
LEMMA Accepted ==
    ASSUME NEW r, r.tokens \in Nat, r.position \in Nat, StatusCode(r) = "OK"
    PROVE  /\ r.op \in KnownOps
           /\ r.op \in ResidentOps => Resident(r)
           /\ r.op = "ATTN_PREFILL_BLOCK" => r.tokens # 0 /\ PrefillTasksPerCore(r) <= MaxTasks
<1>1. r.tokens <= ActiveTokens
  <2>1. ~(r.tokens > ActiveTokens)
    BY DEF StatusCode
  <2>2. QED BY <2>1, CoreConstants
<1>2. r.op \in KnownOps
  BY DEF StatusCode
<1>3. r.op # "NOP" => r.layerOk
  BY DEF StatusCode
<1>4. CASE r.op \in ResidentOps
  <2>1. r.op # "NOP"
    BY <1>4 DEF ResidentOps
  <2>2. ~BadPosition(r)
    BY <1>2, <1>3, <1>4, <2>1 DEF StatusCode
  <2>3. r.position + r.tokens <= MaxSeq
    BY <2>2, CoreConstants DEF BadPosition
  <2>4. QED BY <1>1, <1>2, <1>4, <2>3 DEF Resident, ResidentOps
<1>5. CASE r.op = "ATTN_PREFILL_BLOCK"
  <2>1. r.tokens # 0
    BY <1>2, <1>3, <1>5 DEF StatusCode
  <2>2. ~(PrefillTasksPerCore(r) > MaxTasks)
    BY <1>2, <1>3, <1>5 DEF StatusCode
  <2>3. PrefillTasksPerCore(r) \in Nat
    BY <2>1, PrefillCarries
  <2>4. PrefillTasksPerCore(r) <= MaxTasks
    <3> DEFINE q == PrefillTasksPerCore(r)
    <3>1. q \in Nat /\ ~(q > MaxTasks)
      BY <2>2, <2>3
    <3> HIDE DEF q
    <3>2. q <= MaxTasks
      BY <3>1, CoreConstants
    <3>3. QED BY <3>2 DEF q
  <2>5. QED BY <1>2, <1>5, <2>1, <2>4 DEF ResidentOps
<1>6. QED BY <1>2, <1>4, <1>5

(* Every launch serves both cores, at most MaxTasks tasks each, and the last *)
(* of them ends the session.                                                 *)
LEMMA ScriptCarries ==
    ASSUME NEW r, r.op \in STRING, r.tokens \in Nat, r.position \in Nat, r.waves \in 0..MaxTasks,
           r.mask \subseteq Cores
    PROVE  Carries(Script(r), TRUE, MaxTasks)
<1>1. 1 \in Nat /\ 1 <= MaxTasks /\ MaxTasks \in Nat /\ r.waves \in Nat /\ r.waves <= MaxTasks
  BY HalfCounts
<1> DEFINE op == r.op
<1>2. CASE StatusCode(r) # "OK" \/ op = "NOP"
  <2>1. Script(r) = <<Block(Stops, << >>)>>
    BY <1>2 DEF Script
  <2>2. QED BY <1>1, <2>1, StopsCarry, CarriesMore
<1>3. CASE StatusCode(r) = "OK" /\ op = "FINAL_NORM"
  <2>1. Script(r) = VectorExchange(1, "RMSNORM", r.tokens, TRUE)
    BY <1>3 DEF Script, ProjectionOps
  <2>2. Carries(VectorExchange(1, "RMSNORM", r.tokens, TRUE), TRUE, 1)
    BY VectorCarries
  <2>3. QED BY <1>1, <2>1, <2>2, CarriesMore
<1>4. CASE StatusCode(r) = "OK" /\ op = "ATTENTION_SUBLAYER"
  <2>1. Script(r) = AttentionHalf(r) /\ Resident(r)
    BY <1>4, Accepted DEF Script, ResidentOps, ProjectionOps
  <2>2. (r.op = "ATTENTION_SUBLAYER") = TRUE
    BY <1>4
  <2>3. Carries(AttentionHalf(r), r.op = "ATTENTION_SUBLAYER", AttentionCount)
    BY <2>1, AttentionHalfCarries
  <2>4. Carries(AttentionHalf(r), TRUE, AttentionCount)
    BY <2>2, <2>3
  <2>5. QED BY <2>1, <2>4, HalfCounts, CarriesMore
<1>5. CASE StatusCode(r) = "OK" /\ op = "FFN_SUBLAYER"
  <2>1. Script(r) = FfnHalf(r) /\ Resident(r)
    BY <1>5, Accepted DEF Script, ResidentOps, ProjectionOps
  <2>2. QED BY <2>1, FfnHalfCarries, HalfCounts, CarriesMore
<1>6. CASE StatusCode(r) = "OK" /\ op = "DECODER_LAYER"
  <2>1. Script(r) = AttentionHalf(r) \o FfnHalf(r) /\ Resident(r)
    BY <1>6, Accepted DEF Script, ResidentOps, ProjectionOps
  <2>2. Script(r) = Join(AttentionHalf(r), FfnHalf(r))
    BY <2>1 DEF Join
  <2>3. (r.op = "ATTENTION_SUBLAYER") = FALSE
    BY <1>6
  <2>4. Carries(AttentionHalf(r), r.op = "ATTENTION_SUBLAYER", AttentionCount)
    BY <2>1, AttentionHalfCarries
  <2>5. Carries(AttentionHalf(r), FALSE, AttentionCount)
    BY <2>3, <2>4
  <2>6. Carries(Script(r), TRUE, AttentionCount + FfnCount)
    BY <2>1, <2>2, <2>5, FfnHalfCarries, HalfCounts, CarriesJoin
  <2>7. AttentionCount + FfnCount \in Nat
    BY HalfCounts
  <2>8. QED BY <2>6, <2>7, HalfCounts, CarriesMore
<1>7. CASE StatusCode(r) = "OK" /\ op = "ATTN_PREFILL_BLOCK"
  <2>1. Script(r) = PrefillBlock(r) /\ r.tokens # 0 /\ PrefillTasksPerCore(r) <= MaxTasks
    BY <1>7, Accepted DEF Script, ProjectionOps
  <2>2. Carries(PrefillBlock(r), TRUE, PrefillTasksPerCore(r)) /\ PrefillTasksPerCore(r) \in Nat
    BY <2>1, PrefillCarries
  <2>3. QED BY <1>1, <2>1, <2>2, CarriesMore
<1>8. CASE StatusCode(r) = "OK" /\ op = "SOFTMAX"
  <2>1. Script(r) = SoftmaxExchange(1)
    BY <1>8 DEF Script, ProjectionOps
  <2>2. QED BY <1>1, <2>1, SoftmaxCarries, CarriesMore
<1>9. CASE StatusCode(r) = "OK" /\ op \in ProjectionOps
  <2>1. Script(r) = ProjectionWaves(r)
    BY <1>9 DEF Script, ProjectionOps
  <2>2. CASE r.waves = 0
    <3>1. Script(r) = <<Block(Stops, << >>)>>
      BY <2>1, <2>2 DEF ProjectionWaves
    <3>2. QED BY <1>1, <3>1, StopsCarry, CarriesMore
  <2>3. CASE r.waves # 0
    <3>1. Script(r) = WaveByWave(1, r.waves, r.mask, TRUE)
      BY <2>1, <2>3 DEF ProjectionWaves
    <3>2. r.waves \in Nat \ {0} /\ r.mask \in SUBSET Cores
      BY <1>1, <2>3
    <3>3. Carries(WaveByWave(1, r.waves, r.mask, TRUE), TRUE, r.waves)
      BY <3>2, WavesCarry
    <3>4. QED BY <1>1, <3>1, <3>3, CarriesMore
  <2>4. QED BY <2>2, <2>3
<1>10. CASE StatusCode(r) = "OK" /\ op \in VectorOps
  <2>1. Script(r) = VectorExchange(1, op, r.tokens, TRUE)
    BY <1>10 DEF Script, VectorOps, ProjectionOps
  <2>2. op \in {"RMSNORM"} \cup PairModes
    BY <1>10 DEF VectorOps, PairModes
  <2>3. Carries(VectorExchange(1, op, r.tokens, TRUE), TRUE, 1)
    BY <2>2, VectorCarries
  <2>4. QED BY <1>1, <2>1, <2>3, CarriesMore
<1>11. StatusCode(r) = "OK" => op \in KnownOps
  BY Accepted
<1>12. QED BY <1>2, <1>3, <1>4, <1>5, <1>6, <1>7, <1>8, <1>9, <1>10, <1>11
        DEF KnownOps, ResidentOps

-----------------------------------------------------------------------------
(* The network: who puts on a FIFO and who takes from it.                   *)

(* The streams a process puts on and takes from, its task's first.           *)
PutKinds(p) == IF p[1] = "in" THEN {"task", "rtask"} \cup OperandKinds ELSE {"out"}
MoveKinds(p) == IF p[1] = "out" THEN {"out"} ELSE OperandKinds
TaskKind(p) == IF p[1] = "out" THEN "rtask" ELSE "task"
TakeKinds(p) == {TaskKind(p)} \cup MoveKinds(p)
OutLink(p, k) == <<k, p[2], IF p[1] = "out" THEN p[3] - 1 ELSE p[3]>>
InLink(p, k) == <<k, p[2], IF p[1] = "in" THEN p[3] - 1 ELSE p[3]>>

(* The two ends of a FIFO.                                                   *)
Ctl == <<"ctl", 0, 0>>
Producer(ch) ==
    IF ch[1] = "out"
    THEN IF ch[3] = Hops THEN <<"cu", ch[2], Hops>> ELSE <<"out", ch[2], ch[3] + 1>>
    ELSE IF ch[3] = 0 THEN Ctl ELSE <<"in", ch[2], ch[3]>>
Consumer(ch) ==
    IF ch[1] = "out" THEN IF ch[3] = 0 THEN Ctl ELSE <<"out", ch[2], ch[3]>>
    ELSE IF ch[1] = "rtask" THEN <<"out", ch[2], ch[3]>>
    ELSE IF ch[3] = Hops THEN <<"cu", ch[2], Hops>> ELSE <<"in", ch[2], ch[3] + 1>>

(* There is a hop.                                                           *)
LEMMA HopCount == Hops \in Nat /\ Hops >= 1
BY HopsAssumption

(* The fields of a process.                                                  *)
LEMMA ProcShape ==
    ASSUME NEW p \in Procs
    PROVE  /\ p = <<p[1], p[2], p[3]>> /\ p[1] \in {"in", "out", "cu"} /\ p[2] \in Cores
           /\ p[3] \in 1..Hops /\ p # Ctl
           /\ p[1] = "cu" => p[3] = Hops
BY HopCount DEF Procs, InProcs, OutProcs, CoreProcs, Ctl

(* The fields of a FIFO.                                                     *)
LEMMA ChannelShape ==
    ASSUME NEW ch \in Channels
    PROVE  /\ ch = <<ch[1], ch[2], ch[3]>> /\ ch[1] \in Kinds /\ ch[2] \in Cores
           /\ ch[3] \in 0..Hops /\ (ch[1] = "rtask" => ch[3] # 0)
<1>1. CASE ch \in {"task", "mm", "v0", "v1", "out"} \X Cores \X (0..Hops)
  BY <1>1 DEF Kinds
<1>2. CASE ch \in {"rtask"} \X Cores \X (1..Hops)
  BY <1>2, HopCount DEF Kinds
<1>3. QED BY <1>1, <1>2 DEF Channels

(* A process reads its tasks from a stream of their own.                     *)
LEMMA KindFacts ==
    ASSUME NEW p \in Procs
    PROVE  /\ PutKinds(p) \subseteq Kinds /\ TakeKinds(p) \subseteq Kinds /\ MoveKinds(p) \subseteq Kinds
           /\ TaskKind(p) \in TakeKinds(p) /\ TaskKind(p) \notin MoveKinds(p)
BY ProcShape DEF PutKinds, TakeKinds, MoveKinds, TaskKind, OperandKinds, Kinds

(* A process is one end of its links, and of no other FIFO.                  *)
LEMMA OutEnds ==
    ASSUME NEW p \in Procs
    PROVE  /\ \A k \in PutKinds(p) : OutLink(p, k) \in Channels /\ Producer(OutLink(p, k)) = p
           /\ \A ch \in Channels : Producer(ch) = p =>
                ch = OutLink(p, ch[1]) /\ ch[1] \in PutKinds(p)
<1>1. /\ p = <<p[1], p[2], p[3]>> /\ p[1] \in {"in", "out", "cu"} /\ p[2] \in Cores
      /\ p[3] \in 1..Hops /\ p # Ctl /\ (p[1] = "cu" => p[3] = Hops)
  BY ProcShape
<1>2. ASSUME NEW k \in PutKinds(p)
      PROVE  OutLink(p, k) \in Channels /\ Producer(OutLink(p, k)) = p
  <2>1. CASE p[1] = "in"
    BY <1>1, <1>2, <2>1, HopCount DEF OutLink, Producer, Channels, PutKinds, OperandKinds
  <2>2. CASE p[1] = "out"
    BY <1>1, <1>2, <2>2, HopCount DEF OutLink, Producer, Channels, PutKinds
  <2>3. CASE p[1] = "cu"
    BY <1>1, <1>2, <2>3, HopCount DEF OutLink, Producer, Channels, PutKinds
  <2>4. QED BY <1>1, <2>1, <2>2, <2>3
<1>3. ASSUME NEW ch \in Channels, Producer(ch) = p
      PROVE  ch = OutLink(p, ch[1]) /\ ch[1] \in PutKinds(p)
  <2>1. /\ ch = <<ch[1], ch[2], ch[3]>> /\ ch[1] \in Kinds /\ ch[2] \in Cores
        /\ ch[3] \in 0..Hops
    BY ChannelShape
  <2>2. CASE ch[1] = "out" /\ ch[3] = Hops
    BY <1>1, <1>3, <2>1, <2>2 DEF OutLink, Producer, PutKinds
  <2>3. CASE ch[1] = "out" /\ ch[3] # Hops
    BY <1>1, <1>3, <2>1, <2>3, HopCount DEF OutLink, Producer, PutKinds
  <2>4. CASE ch[1] # "out"
    BY <1>1, <1>3, <2>1, <2>4 DEF OutLink, Producer, PutKinds, OperandKinds, Kinds, Ctl
  <2>5. QED BY <2>2, <2>3, <2>4
<1>4. QED BY <1>2, <1>3

(* The same at the other end.                                                *)
LEMMA InEnds ==
    ASSUME NEW p \in Procs
    PROVE  /\ \A k \in TakeKinds(p) : InLink(p, k) \in Channels /\ Consumer(InLink(p, k)) = p
           /\ \A ch \in Channels : Consumer(ch) = p =>
                ch = InLink(p, ch[1]) /\ ch[1] \in TakeKinds(p)
<1>1. /\ p = <<p[1], p[2], p[3]>> /\ p[1] \in {"in", "out", "cu"} /\ p[2] \in Cores
      /\ p[3] \in 1..Hops /\ p # Ctl /\ (p[1] = "cu" => p[3] = Hops)
  BY ProcShape
<1>2. ASSUME NEW k \in TakeKinds(p)
      PROVE  InLink(p, k) \in Channels /\ Consumer(InLink(p, k)) = p
  <2>1. CASE p[1] = "in"
    BY <1>1, <1>2, <2>1, HopCount
       DEF InLink, Consumer, Channels, TakeKinds, TaskKind, MoveKinds, OperandKinds
  <2>2. CASE p[1] = "out"
    BY <1>1, <1>2, <2>2, HopCount DEF InLink, Consumer, Channels, TakeKinds, TaskKind, MoveKinds
  <2>3. CASE p[1] = "cu"
    BY <1>1, <1>2, <2>3, HopCount
       DEF InLink, Consumer, Channels, TakeKinds, TaskKind, MoveKinds, OperandKinds
  <2>4. QED BY <1>1, <2>1, <2>2, <2>3
<1>3. ASSUME NEW ch \in Channels, Consumer(ch) = p
      PROVE  ch = InLink(p, ch[1]) /\ ch[1] \in TakeKinds(p)
  <2>1. /\ ch = <<ch[1], ch[2], ch[3]>> /\ ch[1] \in Kinds /\ ch[2] \in Cores
        /\ ch[3] \in 0..Hops
    BY ChannelShape
  <2>2. CASE ch[1] = "out"
    BY <1>1, <1>3, <2>1, <2>2 DEF InLink, Consumer, TakeKinds, TaskKind, MoveKinds, Ctl
  <2>3. CASE ch[1] = "rtask"
    BY <1>1, <1>3, <2>1, <2>3 DEF InLink, Consumer, TakeKinds, TaskKind, MoveKinds
  <2>4. CASE ch[1] \notin {"out", "rtask"}
    BY <1>1, <1>3, <2>1, <2>4, HopCount
       DEF InLink, Consumer, TakeKinds, TaskKind, MoveKinds, OperandKinds, Kinds
  <2>5. QED BY <2>2, <2>3, <2>4
<1>4. QED BY <1>2, <1>3

(* The FIFOs at the controller's end.                                        *)
LEMMA CtlEnds ==
    /\ \A c \in Cores : \A k \in SendKinds : <<k, c, 0>> \in Channels /\ Producer(<<k, c, 0>>) = Ctl
    /\ \A c \in Cores : <<"out", c, 0>> \in Channels /\ Consumer(<<"out", c, 0>>) = Ctl
    /\ \A ch \in Channels : Producer(ch) = Ctl => ch = <<ch[1], ch[2], 0>> /\ ch[1] \in SendKinds
    /\ \A ch \in Channels : Consumer(ch) = Ctl => ch = <<"out", ch[2], 0>>
<1>1. ASSUME NEW c \in Cores, NEW k \in SendKinds
      PROVE  <<k, c, 0>> \in Channels /\ Producer(<<k, c, 0>>) = Ctl
  BY HopCount DEF Channels, Producer, SendKinds
<1>2. ASSUME NEW c \in Cores
      PROVE  <<"out", c, 0>> \in Channels /\ Consumer(<<"out", c, 0>>) = Ctl
  BY HopCount DEF Channels, Consumer
<1>3. ASSUME NEW ch \in Channels, Producer(ch) = Ctl
      PROVE  ch = <<ch[1], ch[2], 0>> /\ ch[1] \in SendKinds
  <2>1. /\ ch = <<ch[1], ch[2], ch[3]>> /\ ch[1] \in Kinds /\ (ch[1] = "rtask" => ch[3] # 0)
    BY ChannelShape
  <2>2. ch[1] # "out" /\ ch[3] = 0
    BY <1>3 DEF Producer, Ctl
  <2>3. QED BY <2>1, <2>2 DEF Kinds, SendKinds
<1>4. ASSUME NEW ch \in Channels, Consumer(ch) = Ctl PROVE ch = <<"out", ch[2], 0>>
  <2>1. ch = <<ch[1], ch[2], ch[3]>>
    BY ChannelShape
  <2>2. ch[1] = "out" /\ ch[3] = 0
    BY <1>4 DEF Consumer, Ctl
  <2>3. QED BY <2>1, <2>2
<1>5. QED BY <1>1, <1>2, <1>3, <1>4

(* Every FIFO joins two ends that are not the same.                          *)
LEMMA TwoEnds ==
    ASSUME NEW ch \in Channels
    PROVE  /\ Producer(ch) \in Procs \cup {Ctl} /\ Consumer(ch) \in Procs \cup {Ctl}
           /\ Producer(ch) # Consumer(ch)
<1>1. /\ ch = <<ch[1], ch[2], ch[3]>> /\ ch[1] \in Kinds /\ ch[2] \in Cores
      /\ ch[3] \in 0..Hops /\ (ch[1] = "rtask" => ch[3] # 0)
  BY ChannelShape
<1>2. Producer(ch) \in Procs \cup {Ctl}
  BY <1>1, HopCount DEF Producer, Procs, InProcs, OutProcs, CoreProcs
<1>3. Consumer(ch) \in Procs \cup {Ctl}
  BY <1>1, HopCount DEF Consumer, Procs, InProcs, OutProcs, CoreProcs
<1>4. Producer(ch) # Consumer(ch)
  BY <1>1, HopCount DEF Producer, Consumer, Ctl
<1>5. QED BY <1>2, <1>3, <1>4

-----------------------------------------------------------------------------
(* What a process still has to put and to take.                             *)

(* The words of a task on the streams its program uses.                      *)
LEMMA ProgramFlow ==
    ASSUME NEW p \in Procs, NEW t \in Tasks, NEW k \in Kinds
    PROVE  /\ SeqOf(Program(p, t), Ops)
           /\ FlatMap(Program(p, t), PutOf(k)) = IF k \in PutKinds(p) THEN Flow(k)[t] ELSE Nil
           /\ FlatMap(Program(p, t), TakeOf(k)) = IF k \in MoveKinds(p) THEN Flow(k)[t] ELSE Nil
<1>1. p[1] \in {"in", "out", "cu"}
  BY ProcShape
<1>2. CASE p[1] = "out"
  <2>1. Program(p, t) = ResultPlan(t)
    BY <1>2 DEF Program
  <2>2. QED BY <1>2, <2>1, ResultFlow DEF PutKinds, MoveKinds
<1>3. CASE p[1] = "cu"
  <2>1. Program(p, t) = ComputePlan(t)
    BY <1>3 DEF Program
  <2>2. QED BY <1>3, <2>1, ComputeFlow DEF PutKinds, MoveKinds, OperandKinds
<1>4. CASE p[1] = "in"
  <2> DEFINE a == <<Put("task", t), Put("rtask", t)>>
             b == InputPlan(t)
             x == One(Put("task", t))
             y == One(Put("rtask", t))
  <2>1. Program(p, t) = Join(a, b) /\ a = Join(x, y)
    BY <1>4, TwoJoin DEF Program, Join
  <2>2. /\ SeqOf(b, Ops)
        /\ FlatMap(b, PutOf(k)) = IF k \in OperandKinds THEN Flow(k)[t] ELSE Nil
        /\ FlatMap(b, TakeOf(k)) = IF k \in OperandKinds THEN Flow(k)[t] ELSE Nil
    BY InputFlow DEF OperandKinds
  <2>3. t \in Items /\ "task" \in Kinds /\ "rtask" \in Kinds
    BY DEF Items, Kinds
  <2>4. /\ x = One([do |-> "put", kind |-> "task", word |-> t])
        /\ y = One([do |-> "put", kind |-> "rtask", word |-> t])
    BY DEF Put
  <2> HIDE DEF x, y, b
  <2>5. /\ SeqOf(x, Ops) /\ FlatMap(x, TakeOf(k)) = Nil
        /\ FlatMap(x, PutOf(k)) = IF k = "task" THEN One(t) ELSE Nil
    BY <2>3, <2>4, OpWord
  <2>6. /\ SeqOf(y, Ops) /\ FlatMap(y, TakeOf(k)) = Nil
        /\ FlatMap(y, PutOf(k)) = IF k = "rtask" THEN One(t) ELSE Nil
    BY <2>3, <2>4, OpWord
  <2>7. SeqOf(One(t), Items)
    BY <2>3, OneSeq
  <2>8. /\ SeqOf(a, Ops) /\ FlatMap(a, TakeOf(k)) = Nil
        /\ FlatMap(a, PutOf(k)) = IF k \in {"task", "rtask"} THEN One(t) ELSE Nil
    <3>1. /\ SeqOf(a, Ops)
          /\ FlatMap(a, PutOf(k)) = Join(FlatMap(x, PutOf(k)), FlatMap(y, PutOf(k)))
          /\ FlatMap(a, TakeOf(k)) = Join(FlatMap(x, TakeOf(k)), FlatMap(y, TakeOf(k)))
      BY <2>1, <2>5, <2>6, JoinWords
    <3>2. Join(One(t), Nil) = One(t) /\ Join(Nil, One(t)) = One(t) /\ Join(Nil, Nil) = Nil
      BY <2>7, JoinNil, NilNil
    <3>3. QED BY <2>5, <2>6, <3>1, <3>2
  <2> HIDE DEF a
  <2>9. /\ SeqOf(Program(p, t), Ops)
        /\ FlatMap(Program(p, t), PutOf(k)) = Join(FlatMap(a, PutOf(k)), FlatMap(b, PutOf(k)))
        /\ FlatMap(Program(p, t), TakeOf(k)) = Join(FlatMap(a, TakeOf(k)), FlatMap(b, TakeOf(k)))
    BY <2>1, <2>2, <2>8, JoinWords
  <2>10. SeqOf(Flow(k)[t], Items)
    BY FlowMaps DEF Maps
  <2>11. /\ Join(One(t), Nil) = One(t) /\ Join(Nil, Nil) = Nil
         /\ Join(Nil, Flow(k)[t]) = Flow(k)[t]
    BY <2>7, <2>10, JoinNil, NilNil
  <2>12. k \in {"task", "rtask"} => Flow(k)[t] = One(t)
    BY DEF Flow
  <2>13. k \in OperandKinds => k \notin {"task", "rtask"}
    BY DEF OperandKinds
  <2>14. FlatMap(Program(p, t), TakeOf(k)) = IF k \in MoveKinds(p) THEN Flow(k)[t] ELSE Nil
    BY <1>4, <2>2, <2>8, <2>9, <2>11 DEF MoveKinds
  <2>15. FlatMap(Program(p, t), PutOf(k)) = IF k \in PutKinds(p) THEN Flow(k)[t] ELSE Nil
    <3>1. CASE k \in {"task", "rtask"}
      BY <1>4, <2>2, <2>8, <2>9, <2>11, <2>12, <2>13, <3>1 DEF PutKinds
    <3>2. CASE k \notin {"task", "rtask"}
      BY <1>4, <2>2, <2>8, <2>9, <2>11, <3>2 DEF PutKinds
    <3>3. QED BY <3>1, <3>2
  <2>16. QED BY <2>9, <2>14, <2>15
<1>5. QED BY <1>1, <1>2, <1>3, <1>4

(* A FIFO q, what is still to be put on it, and what is still to be taken.   *)
Even(q, a, b) == SeqOf(q, Items) /\ SeqOf(a, Items) /\ SeqOf(b, Items) /\ Join(q, a) = b

(* Putting the word that was due.                                            *)
LEMMA PutKeepsEven ==
    ASSUME NEW q, NEW w \in Items, NEW a, NEW a2, NEW b, Even(q, a, b),
           a = Join(One(w), a2), SeqOf(a2, Items)
    PROVE  Even(Append(q, w), a2, b)
<1>1. SeqOf(q, Items) /\ SeqOf(b, Items) /\ SeqOf(One(w), Items) /\ Join(q, a) = b
  BY OneSeq DEF Even
<1>2. Append(q, w) = Join(q, One(w)) /\ SeqOf(Append(q, w), Items)
  BY <1>1, AppendJoin
<1>3. Join(Join(q, One(w)), a2) = Join(q, Join(One(w), a2))
  BY <1>1, JoinAssoc
<1>4. QED BY <1>1, <1>2, <1>3 DEF Even

(* Taking a word: it is the one that was due.                                *)
LEMMA TakeKeepsEven ==
    ASSUME NEW q, NEW w \in Items, NEW a, NEW b, NEW b2, Even(q, a, b), q # Nil,
           b = Join(One(w), b2), SeqOf(b2, Items)
    PROVE  Head(q) = w /\ Even(Tail(q), a, b2)
<1>1. SeqOf(q, Items) /\ SeqOf(a, Items) /\ Join(q, a) = b
  BY DEF Even
<1>2. q = Join(One(Head(q)), Tail(q)) /\ Head(q) \in Items /\ SeqOf(Tail(q), Items)
  BY <1>1, HeadTail
<1> DEFINE h == Head(q)
           u == Tail(q)
<1>3. q = Join(One(h), u) /\ h \in Items /\ SeqOf(u, Items) /\ SeqOf(One(h), Items)
  BY <1>2, OneSeq
<1> HIDE DEF h, u
<1>4. Join(Join(One(h), u), a) = Join(One(h), Join(u, a)) /\ SeqOf(Join(u, a), Items)
  BY <1>1, <1>3, JoinAssoc, JoinSeq
<1>5. Join(One(h), Join(u, a)) = Join(One(w), b2)
  BY <1>1, <1>3, <1>4
<1>6. h = w /\ Join(u, a) = b2
  BY <1>3, <1>4, <1>5, JoinOne
<1>7. QED BY <1>1, <1>3, <1>6 DEF Even, h, u

(* What process p, in state s, still has to put and take; T are its tasks.   *)
PutsLeft(k, s, T) == Join(FlatMap(s.todo, PutOf(k)), FlatMap(Rest(T, s.fetched), Flow(k)))
TakesLeft(k, s, T) == Join(FlatMap(s.todo, TakeOf(k)), FlatMap(Rest(T, s.fetched), Flow(k)))
Sound(p, s, T) ==
    /\ SeqOf(T, Tasks) /\ SeqOf(s.todo, Ops) /\ s.fetched \in 0..Len(T) /\ s.on \in BOOLEAN
    /\ (s.on <=> s.fetched < Len(T))
    /\ \A k \in Kinds : /\ k \notin PutKinds(p) => FlatMap(s.todo, PutOf(k)) = Nil
                        /\ k \notin MoveKinds(p) => FlatMap(s.todo, TakeOf(k)) = Nil

(* What a process has left is items.                                         *)
LEMMA LeftSeq ==
    ASSUME NEW p, NEW s, NEW T, Sound(p, s, T), NEW k \in Kinds
    PROVE  SeqOf(PutsLeft(k, s, T), Items) /\ SeqOf(TakesLeft(k, s, T), Items)
<1>1. SeqOf(s.todo, Ops) /\ SeqOf(Rest(T, s.fetched), Tasks)
  BY RestFacts DEF Sound
<1>2. SeqOf(FlatMap(s.todo, PutOf(k)), Items) /\ SeqOf(FlatMap(s.todo, TakeOf(k)), Items)
  BY <1>1, OpMaps, FlatSeq
<1>3. SeqOf(FlatMap(Rest(T, s.fetched), Flow(k)), Items)
  BY <1>1, FlowMaps, FlatSeq
<1>4. QED BY <1>2, <1>3, JoinSeq DEF PutsLeft, TakesLeft

(* A step of p: the words of its first operation. *)
LEMMA StepLeft ==
    ASSUME NEW p, NEW s, NEW u, NEW T, Sound(p, s, T), s.todo # Nil,
           u.todo = Tail(s.todo), u.on = s.on, u.fetched = s.fetched
    PROVE  /\ Head(s.todo) \in Ops /\ Sound(p, u, T)
           /\ \A k \in Kinds :
                /\ PutsLeft(k, s, T) = Join(PutOf(k)[Head(s.todo)], PutsLeft(k, u, T))
                /\ TakesLeft(k, s, T) = Join(TakeOf(k)[Head(s.todo)], TakesLeft(k, u, T))
                /\ k \notin PutKinds(p) => PutOf(k)[Head(s.todo)] = Nil
                /\ k \notin MoveKinds(p) => TakeOf(k)[Head(s.todo)] = Nil
<1> DEFINE o == Head(s.todo)
           v == Tail(s.todo)
           n == s.fetched
<1>1. SeqOf(s.todo, Ops) /\ SeqOf(T, Tasks) /\ n \in 0..Len(T)
  BY DEF Sound
<1>2. s.todo = Join(One(o), v) /\ o \in Ops /\ SeqOf(v, Ops) /\ SeqOf(One(o), Ops)
  BY <1>1, HeadTail, OneSeq
<1> HIDE DEF o, v, n
<1>3. ASSUME NEW k \in Kinds
      PROVE  /\ FlatMap(s.todo, PutOf(k)) = Join(PutOf(k)[o], FlatMap(v, PutOf(k)))
             /\ FlatMap(s.todo, TakeOf(k)) = Join(TakeOf(k)[o], FlatMap(v, TakeOf(k)))
             /\ SeqOf(PutOf(k)[o], Items) /\ SeqOf(FlatMap(v, PutOf(k)), Items)
             /\ SeqOf(TakeOf(k)[o], Items) /\ SeqOf(FlatMap(v, TakeOf(k)), Items)
             /\ SeqOf(FlatMap(Rest(T, n), Flow(k)), Items)
  <2>1. FlatMap(One(o), PutOf(k)) = PutOf(k)[o] /\ FlatMap(One(o), TakeOf(k)) = TakeOf(k)[o]
    BY <1>2, OpMaps, FlatOne
  <2>2. SeqOf(PutOf(k)[o], Items) /\ SeqOf(TakeOf(k)[o], Items)
    BY <1>2, OpMaps DEF Maps
  <2>3. SeqOf(FlatMap(v, PutOf(k)), Items) /\ SeqOf(FlatMap(v, TakeOf(k)), Items)
    BY <1>2, OpMaps, FlatSeq
  <2>4. SeqOf(FlatMap(Rest(T, n), Flow(k)), Items)
    BY <1>1, RestFacts, FlowMaps, FlatSeq
  <2>5. QED BY <1>2, <2>1, <2>2, <2>3, <2>4, JoinWords
<1>4. ASSUME NEW k \in Kinds
      PROVE  /\ PutsLeft(k, s, T) = Join(PutOf(k)[o], PutsLeft(k, u, T))
             /\ TakesLeft(k, s, T) = Join(TakeOf(k)[o], TakesLeft(k, u, T))
  <2> DEFINE a == PutOf(k)[o]
             b == FlatMap(v, PutOf(k))
             c == TakeOf(k)[o]
             d == FlatMap(v, TakeOf(k))
             r == FlatMap(Rest(T, n), Flow(k))
  <2>1. PutsLeft(k, u, T) = Join(b, r) /\ TakesLeft(k, u, T) = Join(d, r)
    BY DEF PutsLeft, TakesLeft, v, n
  <2>2. PutsLeft(k, s, T) = Join(Join(a, b), r) /\ TakesLeft(k, s, T) = Join(Join(c, d), r)
    BY <1>3 DEF PutsLeft, TakesLeft, n
  <2>3. SeqOf(a, Items) /\ SeqOf(b, Items) /\ SeqOf(c, Items) /\ SeqOf(d, Items) /\ SeqOf(r, Items)
    BY <1>3
  <2> HIDE DEF a, b, c, d, r
  <2>4. Join(Join(a, b), r) = Join(a, Join(b, r)) /\ Join(Join(c, d), r) = Join(c, Join(d, r))
    BY <2>3, JoinAssoc
  <2>5. QED BY <2>1, <2>2, <2>4 DEF a, c
<1>5. ASSUME NEW k \in Kinds
      PROVE  /\ k \notin PutKinds(p) => PutOf(k)[o] = Nil /\ FlatMap(v, PutOf(k)) = Nil
             /\ k \notin MoveKinds(p) => TakeOf(k)[o] = Nil /\ FlatMap(v, TakeOf(k)) = Nil
  <2>1. /\ k \notin PutKinds(p) => FlatMap(s.todo, PutOf(k)) = Nil
        /\ k \notin MoveKinds(p) => FlatMap(s.todo, TakeOf(k)) = Nil
    BY DEF Sound
  <2>2. CASE k \notin PutKinds(p)
    <3>1. PutOf(k)[o] = Nil /\ FlatMap(v, PutOf(k)) = Nil
      BY <1>3, <2>1, <2>2, JoinIsNil
    <3>2. CASE k \notin MoveKinds(p)
      BY <1>3, <2>1, <3>1, <3>2, JoinIsNil
    <3>3. QED BY <3>1, <3>2
  <2>3. CASE k \notin MoveKinds(p)
    <3>1. TakeOf(k)[o] = Nil /\ FlatMap(v, TakeOf(k)) = Nil
      BY <1>3, <2>1, <2>3, JoinIsNil
    <3>2. QED BY <2>2, <3>1
  <2>4. QED BY <2>2, <2>3
<1>6. Sound(p, u, T)
  BY <1>2, <1>5 DEF Sound, v, n
<1>7. QED BY <1>2, <1>4, <1>5, <1>6 DEF o

(* Process p reads the next of its tasks T, going from state s to u.         *)
Reads(p, s, u, T, t) ==
    /\ Sound(p, s, T) /\ s.todo = Nil /\ s.on
    /\ EndsAs(T, TRUE) /\ Len(T) <= MaxTasks /\ t = T[s.fetched + 1]
    /\ u.todo = Program(p, t) /\ u.fetched = s.fetched + 1
    /\ u.on = (~EndsSession(t) /\ s.fetched + 1 < MaxTasks)

(* A process reads its next task: it is the next one it was due, and it      *)
(* stays in its loop unless that was the last.                               *)
LEMMA FetchLeft ==
    ASSUME NEW p \in Procs, NEW s, NEW u, NEW T, NEW t, Reads(p, s, u, T, t)
    PROVE  /\ t \in Tasks /\ Sound(p, u, T)
           /\ \A k \in PutKinds(p) : PutsLeft(k, s, T) = PutsLeft(k, u, T)
           /\ \A k \in MoveKinds(p) : TakesLeft(k, s, T) = TakesLeft(k, u, T)
           /\ TakesLeft(TaskKind(p), s, T) = Join(One(t), TakesLeft(TaskKind(p), u, T))
<1>0. /\ Sound(p, s, T) /\ s.todo = Nil /\ s.on
      /\ EndsAs(T, TRUE) /\ Len(T) <= MaxTasks /\ t = T[s.fetched + 1]
      /\ u.todo = Program(p, t) /\ u.fetched = s.fetched + 1
      /\ u.on = (~EndsSession(t) /\ s.fetched + 1 < MaxTasks)
  BY DEF Reads
<1> USE <1>0
<1> DEFINE n == s.fetched
           b == Program(p, t)
<1>1. SeqOf(T, Tasks) /\ n \in 0..Len(T) /\ (s.on <=> n < Len(T)) /\ Len(T) \in Nat
  BY SeqFacts DEF Sound
<1>2. n < Len(T) /\ n \in Nat /\ n + 1 \in 0..Len(T) /\ n + 1 \in Nat
  <2>1. n < Len(T)
    BY <1>1
  <2>2. QED BY <1>1, <2>1
<1>3. t \in Tasks /\ Rest(T, n) = Join(One(t), Rest(T, n + 1)) /\ SeqOf(Rest(T, n + 1), Tasks)
  BY <1>1, <1>2, RestStep, RestFacts
<1>4. \A k \in Kinds :
        /\ SeqOf(b, Ops)
        /\ FlatMap(b, PutOf(k)) = IF k \in PutKinds(p) THEN Flow(k)[t] ELSE Nil
        /\ FlatMap(b, TakeOf(k)) = IF k \in MoveKinds(p) THEN Flow(k)[t] ELSE Nil
  BY <1>3, ProgramFlow
<1> HIDE DEF n, b
<1>5. ASSUME NEW k \in Kinds
      PROVE  /\ SeqOf(Flow(k)[t], Items) /\ SeqOf(FlatMap(Rest(T, n + 1), Flow(k)), Items)
             /\ FlatMap(Rest(T, n), Flow(k)) = Join(Flow(k)[t], FlatMap(Rest(T, n + 1), Flow(k)))
             /\ PutsLeft(k, s, T) = FlatMap(Rest(T, n), Flow(k))
             /\ TakesLeft(k, s, T) = FlatMap(Rest(T, n), Flow(k))
             /\ PutsLeft(k, u, T) = Join(FlatMap(b, PutOf(k)), FlatMap(Rest(T, n + 1), Flow(k)))
             /\ TakesLeft(k, u, T) = Join(FlatMap(b, TakeOf(k)), FlatMap(Rest(T, n + 1), Flow(k)))
  <2>1. SeqOf(Flow(k)[t], Items) /\ SeqOf(FlatMap(Rest(T, n + 1), Flow(k)), Items)
    BY <1>3, FlowMaps, FlatSeq DEF Maps
  <2>2. SeqOf(One(t), Tasks) /\ FlatMap(One(t), Flow(k)) = Flow(k)[t]
    BY <1>3, OneFlow
  <2>3. FlatMap(Rest(T, n), Flow(k)) = Join(Flow(k)[t], FlatMap(Rest(T, n + 1), Flow(k)))
    BY <1>3, <2>2, FlatJoin, FlowMaps
  <2>4. SeqOf(FlatMap(Rest(T, n), Flow(k)), Items)
    BY <2>1, <2>3, JoinSeq
  <2>5. /\ PutsLeft(k, s, T) = Join(Nil, FlatMap(Rest(T, n), Flow(k)))
        /\ TakesLeft(k, s, T) = Join(Nil, FlatMap(Rest(T, n), Flow(k)))
    BY FlatNil DEF PutsLeft, TakesLeft, n
  <2>6. /\ PutsLeft(k, u, T) = Join(FlatMap(b, PutOf(k)), FlatMap(Rest(T, n + 1), Flow(k)))
        /\ TakesLeft(k, u, T) = Join(FlatMap(b, TakeOf(k)), FlatMap(Rest(T, n + 1), Flow(k)))
    BY DEF PutsLeft, TakesLeft, n, b
  <2>7. QED BY <2>1, <2>3, <2>4, <2>5, <2>6, JoinNil
<1>6. ASSUME NEW k \in PutKinds(p) PROVE PutsLeft(k, s, T) = PutsLeft(k, u, T)
  <2>1. k \in Kinds
    BY KindFacts
  <2>2. QED BY <1>4, <1>5, <2>1
<1>7. ASSUME NEW k \in MoveKinds(p) PROVE TakesLeft(k, s, T) = TakesLeft(k, u, T)
  <2>1. k \in Kinds
    BY KindFacts
  <2>2. QED BY <1>4, <1>5, <2>1
<1>8. TakesLeft(TaskKind(p), s, T) = Join(One(t), TakesLeft(TaskKind(p), u, T))
  <2> DEFINE k == TaskKind(p)
  <2>1. k \in Kinds /\ k \notin MoveKinds(p) /\ k \in {"task", "rtask"}
    BY KindFacts DEF TaskKind
  <2>2. Flow(k)[t] = One(t)
    BY <1>3, <2>1 DEF Flow
  <2> HIDE DEF k
  <2>3. TakesLeft(k, u, T) = Join(Nil, FlatMap(Rest(T, n + 1), Flow(k)))
    BY <1>4, <1>5, <2>1
  <2>4. Join(Nil, FlatMap(Rest(T, n + 1), Flow(k))) = FlatMap(Rest(T, n + 1), Flow(k))
    BY <1>5, <2>1, JoinNil
  <2>5. TakesLeft(k, s, T) = Join(One(t), TakesLeft(k, u, T))
    BY <1>5, <2>1, <2>2, <2>3, <2>4
  <2>6. QED BY <2>5 DEF k
<1>9. EndsSession(t) <=> n + 1 = Len(T)
  <2>1. /\ EndsSession(T[Len(T)])
        /\ \A i \in 1..(Len(T) - 1) : ~EndsSession(T[i])
    BY DEF EndsAs, Closes
  <2>2. t = T[n + 1]
    BY DEF n
  <2>3. CASE n + 1 = Len(T)
    BY <2>1, <2>2, <2>3
  <2>4. CASE n + 1 # Len(T)
    <3>1. n + 1 \in 1..(Len(T) - 1)
      BY <1>1, <1>2, <2>4
    <3>2. QED BY <2>1, <2>2, <2>4, <3>1
  <2>5. QED BY <2>3, <2>4
<1>10. u.on \in BOOLEAN /\ (u.on <=> u.fetched < Len(T))
  <2>1. u.fetched = n + 1 /\ u.on = (~EndsSession(t) /\ n + 1 < MaxTasks)
    BY DEF n
  <2>2. CASE n + 1 = Len(T)
    <3>1. ~(n + 1 < Len(T))
      BY <1>2, <2>2
    <3>2. EndsSession(t)
      BY <1>9, <2>2
    <3>3. QED BY <2>1, <3>1, <3>2
  <2>3. CASE n + 1 # Len(T)
    <3>1. n + 1 < Len(T) /\ n + 1 < MaxTasks
      BY <1>1, <1>2, <2>3, CoreConstants
    <3>2. ~EndsSession(t)
      BY <1>9, <2>3
    <3>3. QED BY <2>1, <3>1, <3>2
  <2>4. QED BY <2>2, <2>3
<1>11. Sound(p, u, T)
  <2>1. u.todo = b /\ u.fetched \in 0..Len(T)
    BY <1>2 DEF b, n
  <2>2. SeqOf(b, Ops)
    BY <1>4, KindSets
  <2>3. QED BY <1>1, <1>4, <1>10, <2>1, <2>2 DEF Sound
<1>12. QED BY <1>3, <1>6, <1>7, <1>8, <1>11

-----------------------------------------------------------------------------
(* What the controller still has to send and to receive.                    *)

(* What the controller, in state s of a launch with the blocks S, still has  *)
(* to send and to receive.                                                   *)
BlocksLeft(s, S) == IF s.next = 0 THEN Nil ELSE Rest(S, s.next - 1)
EmitLeft(s, S) == Join(s.emit, Emits(BlocksLeft(s, S)))
CollectLeft(s, S) == Join(s.collect, Collects(BlocksLeft(s, S)))
CtlPuts(k, c, s, S) == FlatMap(EmitLeft(s, S), OnLink(EmitOps, k, c))
CtlTakes(c, s, S) == FlatMap(CollectLeft(s, S), OnLink(CollectOps, "out", c))
CtlSound(s, S) ==
    /\ SeqOf(S, BlockSet) /\ SeqOf(s.emit, EmitOps) /\ SeqOf(s.collect, CollectOps)
    /\ s.next \in 0..(Len(S) + 1)
    /\ s.next = 0 => s.emit = Nil /\ s.collect = Nil

(* What the controller has left is blocks.                                   *)
LEMMA BlocksLeftSeq ==
    ASSUME NEW s, NEW S, CtlSound(s, S)
    PROVE  SeqOf(BlocksLeft(s, S), BlockSet)
<1>1. SeqOf(S, BlockSet) /\ s.next \in 0..(Len(S) + 1) /\ Len(S) \in Nat
  BY SeqFacts DEF CtlSound
<1>2. CASE s.next = 0
  BY <1>2, NilSeq DEF BlocksLeft
<1>3. CASE s.next # 0
  <2>1. s.next - 1 \in 0..Len(S)
    BY <1>1, <1>3
  <2>2. SeqOf(Rest(S, s.next - 1), BlockSet)
    BY <1>1, <2>1, RestFacts
  <2>3. QED BY <1>3, <2>2 DEF BlocksLeft
<1>4. QED BY <1>2, <1>3

(* What the controller has left to send and receive is items.                *)
LEMMA CtlLeftSeq ==
    ASSUME NEW s, NEW S, CtlSound(s, S)
    PROVE  /\ SeqOf(EmitLeft(s, S), EmitOps) /\ SeqOf(CollectLeft(s, S), CollectOps)
           /\ \A k, c : SeqOf(CtlPuts(k, c, s, S), Items) /\ SeqOf(CtlTakes(c, s, S), Items)
<1>1. SeqOf(s.emit, EmitOps) /\ SeqOf(s.collect, CollectOps)
  BY DEF CtlSound
<1>2. SeqOf(Emits(BlocksLeft(s, S)), EmitOps) /\ SeqOf(Collects(BlocksLeft(s, S)), CollectOps)
  BY BlocksLeftSeq, ScriptTypes
<1>3. SeqOf(EmitLeft(s, S), EmitOps) /\ SeqOf(CollectLeft(s, S), CollectOps)
  BY <1>1, <1>2, JoinSeq DEF EmitLeft, CollectLeft
<1>4. ASSUME NEW k, NEW c
      PROVE  SeqOf(CtlPuts(k, c, s, S), Items) /\ SeqOf(CtlTakes(c, s, S), Items)
  <2>1. Maps(OnLink(EmitOps, k, c), EmitOps, Items) /\ Maps(OnLink(CollectOps, "out", c), CollectOps, Items)
    BY KindSets, LinkMaps
  <2>2. QED BY <1>3, <2>1, FlatSeq DEF CtlPuts, CtlTakes
<1>5. QED BY <1>3, <1>4

(* Entering the next block, and leaving the last.                            *)
LEMMA EnterLeft ==
    ASSUME NEW s, NEW S, NEW u, CtlSound(s, S), s.emit = Nil, s.collect = Nil, s.next # 0,
           s.next <= Len(S), u.next = s.next + 1,
           u.emit = S[s.next].emit, u.collect = S[s.next].collect
    PROVE  CtlSound(u, S) /\ EmitLeft(u, S) = EmitLeft(s, S) /\ CollectLeft(u, S) = CollectLeft(s, S)
<1> DEFINE n == s.next - 1
           b == S[s.next]
           R == Rest(S, n + 1)
<1>1. SeqOf(S, BlockSet) /\ s.next \in 0..(Len(S) + 1) /\ Len(S) \in Nat
  BY SeqFacts DEF CtlSound
<1>2. n \in Nat /\ n < Len(S) /\ n + 1 = s.next /\ n + 1 \in 0..Len(S) /\ u.next # 0 /\ u.next - 1 = n + 1
      /\ u.next \in 0..(Len(S) + 1)
  BY <1>1
<1>3. b \in BlockSet /\ Rest(S, n) = Join(One(b), R) /\ SeqOf(R, BlockSet)
  BY <1>1, <1>2, RestStep, RestFacts
<1>4. BlocksLeft(s, S) = Rest(S, n) /\ BlocksLeft(u, S) = R
  BY <1>2 DEF BlocksLeft
<1>5. u.emit = b.emit /\ u.collect = b.collect
  OBVIOUS
<1> HIDE DEF n, b, R
<1>6. /\ b.emit \in Seq(EmitOps) /\ b.collect \in Seq(CollectOps)
      /\ EmitSide[b] = b.emit /\ CollectSide[b] = b.collect
  BY <1>3 DEF BlockSet, EmitSide, CollectSide
<1>7. SeqOf(b.emit, EmitOps) /\ SeqOf(b.collect, CollectOps)
  BY <1>6 DEF SeqOf
<1>8. SeqOf(One(b), BlockSet) /\ Emits(One(b)) = b.emit /\ Collects(One(b)) = b.collect
  BY <1>3, <1>6, OneSeq, FlatOne, SideMaps DEF Emits, Collects
<1>9. /\ Emits(Rest(S, n)) = Join(b.emit, Emits(R))
      /\ Collects(Rest(S, n)) = Join(b.collect, Collects(R))
  BY <1>3, <1>8, ScriptJoin
<1>10. SeqOf(Emits(R), EmitOps) /\ SeqOf(Collects(R), CollectOps)
  BY <1>3, ScriptTypes
<1>11. /\ SeqOf(Join(b.emit, Emits(R)), EmitOps) /\ SeqOf(Join(b.collect, Collects(R)), CollectOps)
  BY <1>7, <1>10, JoinSeq
<1>12. /\ Join(Nil, Join(b.emit, Emits(R))) = Join(b.emit, Emits(R))
       /\ Join(Nil, Join(b.collect, Collects(R))) = Join(b.collect, Collects(R))
  BY <1>11, JoinNil
<1>13. EmitLeft(u, S) = EmitLeft(s, S) /\ CollectLeft(u, S) = CollectLeft(s, S)
  BY <1>4, <1>5, <1>9, <1>12 DEF EmitLeft, CollectLeft
<1>14. CtlSound(u, S)
  BY <1>1, <1>2, <1>5, <1>7 DEF CtlSound
<1>15. QED BY <1>13, <1>14

(* Leaving the last block changes nothing that is due.                       *)
LEMMA LeaveLeft ==
    ASSUME NEW s, NEW S, NEW u, CtlSound(s, S), s.emit = Nil, s.collect = Nil, s.next # 0,
           s.next > Len(S), u.next = 0, u.emit = Nil, u.collect = Nil
    PROVE  CtlSound(u, S) /\ EmitLeft(u, S) = EmitLeft(s, S) /\ CollectLeft(u, S) = CollectLeft(s, S)
<1>1. SeqOf(S, BlockSet) /\ s.next \in 0..(Len(S) + 1) /\ Len(S) \in Nat
  BY SeqFacts DEF CtlSound
<1>2. s.next - 1 = Len(S) /\ 0 \in 0..(Len(S) + 1)
  BY <1>1
<1>3. BlocksLeft(s, S) = Nil /\ BlocksLeft(u, S) = Nil
  BY <1>1, <1>2, RestFacts DEF BlocksLeft
<1>4. CtlSound(u, S)
  BY <1>1, <1>2, NilSeq DEF CtlSound
<1>5. QED BY <1>3, <1>4 DEF EmitLeft, CollectLeft

(* Sending one word, and receiving one.                                      *)
LEMMA EmitStepLeft ==
    ASSUME NEW s, NEW S, NEW u, CtlSound(s, S), s.emit # Nil, u.emit = Tail(s.emit),
           u.next = s.next, u.collect = s.collect
    PROVE  /\ Head(s.emit) \in EmitOps /\ CtlSound(u, S)
           /\ \A k, c : CtlPuts(k, c, s, S)
                          = Join(OnLink(EmitOps, k, c)[Head(s.emit)], CtlPuts(k, c, u, S))
           /\ \A c : CtlTakes(c, s, S) = CtlTakes(c, u, S)
<1> DEFINE o == Head(s.emit)
           v == Tail(s.emit)
           E == Emits(BlocksLeft(s, S))
<1>1. SeqOf(s.emit, EmitOps)
  BY DEF CtlSound
<1>2. s.emit = Join(One(o), v) /\ o \in EmitOps /\ SeqOf(v, EmitOps) /\ SeqOf(One(o), EmitOps)
  BY <1>1, HeadTail, OneSeq
<1>3. BlocksLeft(u, S) = BlocksLeft(s, S)
  BY DEF BlocksLeft
<1>4. SeqOf(E, EmitOps)
  BY BlocksLeftSeq, ScriptTypes
<1>5. EmitLeft(u, S) = Join(v, E)
  BY <1>3 DEF EmitLeft
<1>6. CtlSound(u, S)
  BY <1>2 DEF CtlSound
<1>7. EmitLeft(s, S) = Join(Join(One(o), v), E)
  BY <1>2 DEF EmitLeft
<1> HIDE DEF o, v, E
<1>8. EmitLeft(s, S) = Join(One(o), EmitLeft(u, S)) /\ SeqOf(EmitLeft(u, S), EmitOps)
  BY <1>2, <1>4, <1>5, <1>7, JoinAssoc, JoinSeq
<1>9. ASSUME NEW k, NEW c
      PROVE  CtlPuts(k, c, s, S) = Join(OnLink(EmitOps, k, c)[o], CtlPuts(k, c, u, S))
  <2>1. Maps(OnLink(EmitOps, k, c), EmitOps, Items)
    BY KindSets, LinkMaps
  <2>2. FlatMap(One(o), OnLink(EmitOps, k, c)) = OnLink(EmitOps, k, c)[o]
    BY <1>2, <2>1, FlatOne
  <2>3. QED BY <1>2, <1>8, <2>1, <2>2, FlatJoin DEF CtlPuts
<1>10. \A c : CtlTakes(c, s, S) = CtlTakes(c, u, S)
  BY <1>3 DEF CtlTakes, CollectLeft
<1>11. QED BY <1>2, <1>6, <1>9, <1>10 DEF o

(* Receiving one word.                                                       *)
LEMMA CollectStepLeft ==
    ASSUME NEW s, NEW S, NEW u, CtlSound(s, S), s.collect # Nil, u.collect = Tail(s.collect),
           u.next = s.next, u.emit = s.emit
    PROVE  /\ Head(s.collect) \in CollectOps /\ CtlSound(u, S)
           /\ \A c : CtlTakes(c, s, S)
                       = Join(OnLink(CollectOps, "out", c)[Head(s.collect)], CtlTakes(c, u, S))
           /\ \A k, c : CtlPuts(k, c, s, S) = CtlPuts(k, c, u, S)
<1> DEFINE o == Head(s.collect)
           v == Tail(s.collect)
           E == Collects(BlocksLeft(s, S))
<1>1. SeqOf(s.collect, CollectOps)
  BY DEF CtlSound
<1>2. s.collect = Join(One(o), v) /\ o \in CollectOps /\ SeqOf(v, CollectOps)
      /\ SeqOf(One(o), CollectOps)
  BY <1>1, HeadTail, OneSeq
<1>3. BlocksLeft(u, S) = BlocksLeft(s, S)
  BY DEF BlocksLeft
<1>4. SeqOf(E, CollectOps)
  BY BlocksLeftSeq, ScriptTypes
<1>5. CollectLeft(u, S) = Join(v, E)
  BY <1>3 DEF CollectLeft
<1>6. CtlSound(u, S)
  BY <1>2 DEF CtlSound
<1>7. CollectLeft(s, S) = Join(Join(One(o), v), E)
  BY <1>2 DEF CollectLeft
<1> HIDE DEF o, v, E
<1>8. CollectLeft(s, S) = Join(One(o), CollectLeft(u, S)) /\ SeqOf(CollectLeft(u, S), CollectOps)
  BY <1>2, <1>4, <1>5, <1>7, JoinAssoc, JoinSeq
<1>9. ASSUME NEW c
      PROVE  CtlTakes(c, s, S) = Join(OnLink(CollectOps, "out", c)[o], CtlTakes(c, u, S))
  <2>1. Maps(OnLink(CollectOps, "out", c), CollectOps, Items)
    BY KindSets, LinkMaps
  <2>2. FlatMap(One(o), OnLink(CollectOps, "out", c)) = OnLink(CollectOps, "out", c)[o]
    BY <1>2, <2>1, FlatOne
  <2>3. QED BY <1>2, <1>8, <2>1, <2>2, FlatJoin DEF CtlTakes
<1>10. \A k, c : CtlPuts(k, c, s, S) = CtlPuts(k, c, u, S)
  BY <1>3 DEF CtlPuts, EmitLeft
<1>11. QED BY <1>2, <1>6, <1>9, <1>10 DEF o

(* The tasks a launch sends each core.                                       *)
TasksOf(r) == [c \in Cores |-> FlatMap(Emits(ScriptOf[r]), OnLink(EmitOps, "task", c))]

(* Every launch serves both cores a session that ends and fits the task      *)
(* loop.                                                                     *)
LEMMA LaunchTasks ==
    ASSUME NEW r \in Requests
    PROVE  /\ SeqOf(ScriptOf[r], BlockSet)
           /\ Served(Emits(ScriptOf[r]), Collects(ScriptOf[r]), TasksOf(r))
           /\ \A c \in Cores : EndsAs(TasksOf(r)[c], TRUE) /\ Len(TasksOf(r)[c]) <= MaxTasks
<1>1. /\ r.op \in STRING /\ r.tokens \in Nat /\ r.position \in Nat
      /\ r.waves \in 0..MaxTasks /\ r.mask \subseteq Cores
  BY RequestAssumption
<1>2. Carries(Script(r), TRUE, MaxTasks)
  BY <1>1, ScriptCarries
<1>3. ScriptOf[r] = Script(r)
  BY DEF ScriptOf
<1>4. Carries(ScriptOf[r], TRUE, MaxTasks)
  BY <1>2, <1>3
<1> DEFINE S == ScriptOf[r]
<1>5. SeqOf(S, BlockSet)
  BY <1>4 DEF Carries
<1>6. PICK T : /\ Served(Emits(S), Collects(S), T)
               /\ \A c \in Cores : EndsAs(T[c], TRUE) /\ Len(T[c]) <= MaxTasks
  BY <1>4 DEF Carries
<1>7. \A c \in Cores : TasksOf(r)[c] = T[c]
  BY <1>6 DEF TasksOf, Served
<1> DEFINE V == TasksOf(r)
<1> HIDE DEF S, V
<1>8. Served(Emits(S), Collects(S), V)
  BY <1>6, <1>7, ServedSame DEF V
<1>9. \A c \in Cores : EndsAs(V[c], TRUE) /\ Len(V[c]) <= MaxTasks
  BY <1>6, <1>7 DEF V
<1>10. QED BY <1>5, <1>8, <1>9 DEF S, V

-----------------------------------------------------------------------------
(* The balance of every FIFO.                                               *)

(* What is still to be put on a FIFO, and still to be taken from it, when    *)
(* the controller is in state c, the processes in P and the launch is r.     *)
Supply(ch, c, P, r) ==
    IF Producer(ch) = Ctl THEN CtlPuts(ch[1], ch[2], c, ScriptOf[r])
    ELSE PutsLeft(ch[1], P[Producer(ch)], TasksOf(r)[ch[2]])
Demand(ch, c, P, r) ==
    IF Consumer(ch) = Ctl THEN CtlTakes(ch[2], c, ScriptOf[r])
    ELSE TakesLeft(ch[1], P[Consumer(ch)], TasksOf(r)[ch[2]])
AllSound(c, P, r) ==
    CtlSound(c, ScriptOf[r]) /\ \A p \in Procs : Sound(p, P[p], TasksOf(r)[p[2]])
AllEven(c, P, Q, r) ==
    \A ch \in Channels : Even(Q[ch], Supply(ch, c, P, r), Demand(ch, c, P, r))
Balanced(c, P, Q, r) == AllSound(c, P, r) /\ AllEven(c, P, Q, r)

(* The words of a launch on the streams of a core.                           *)
Stream(r, k, c) == FlatMap(TasksOf(r)[c], Flow(k))

(* The streams of a core in a launch: what the controller sends is what the  *)
(* tasks use.                                                                *)
LEMMA StreamFacts ==
    ASSUME NEW r \in Requests, NEW c \in Cores, NEW k \in Kinds
    PROVE  /\ SeqOf(TasksOf(r)[c], Tasks) /\ SeqOf(Stream(r, k, c), Items)
           /\ k \in {"task", "rtask"} => Stream(r, k, c) = TasksOf(r)[c]
           /\ k \in SendKinds =>
                FlatMap(Emits(ScriptOf[r]), OnLink(EmitOps, k, c)) = Stream(r, k, c)
           /\ FlatMap(Collects(ScriptOf[r]), OnLink(CollectOps, "out", c)) = Stream(r, "out", c)
<1> DEFINE V == TasksOf(r)
           E == Emits(ScriptOf[r])
           C == Collects(ScriptOf[r])
<1>1. Served(E, C, V)
  BY LaunchTasks
<1> HIDE DEF V, E, C
<1>2. SeqOf(V[c], Tasks)
  BY <1>1 DEF Served
<1>3. SeqOf(FlatMap(V[c], Flow(k)), Items)
  BY <1>2, FlowMaps, FlatSeq
<1>4. k \in {"task", "rtask"} => FlatMap(V[c], Flow(k)) = V[c]
  <2>1. k \in {"task", "rtask"} => Wraps(Flow(k), Tasks)
    BY DEF Wraps, Flow
  <2>2. QED BY <1>2, <2>1, FlatWrap
<1>5. k \in SendKinds => FlatMap(E, OnLink(EmitOps, k, c)) = FlatMap(V[c], Flow(k))
  <2>1. FlatMap(E, OnLink(EmitOps, "task", c)) = V[c]
    BY <1>1 DEF Served
  <2>2. \A j \in OperandKinds : FlatMap(E, OnLink(EmitOps, j, c)) = FlatMap(V[c], Flow(j))
    BY <1>1 DEF Served
  <2>3. k \in SendKinds => k = "task" \/ k \in OperandKinds
    BY DEF SendKinds, OperandKinds
  <2>4. CASE k = "task"
    BY <1>4, <2>1, <2>4
  <2>5. QED BY <2>2, <2>3, <2>4
<1>6. FlatMap(C, OnLink(CollectOps, "out", c)) = FlatMap(V[c], Flow("out"))
  BY <1>1 DEF Served
<1>7. QED BY <1>2, <1>3, <1>4, <1>5, <1>6 DEF V, E, C, Stream

(* At the start of a launch, both ends of every FIFO have its whole stream   *)
(* before them.                                                              *)
LEMMA LaunchBalanced ==
    ASSUME NEW r \in Requests, NEW c, c.next = 1, c.emit = Nil, c.collect = Nil,
           NEW P, \A p \in Procs : P[p].todo = Nil /\ P[p].on = TRUE /\ P[p].fetched = 0,
           NEW Q, \A ch \in Channels : Q[ch] = Nil
    PROVE  Balanced(c, P, Q, r)
<1> DEFINE S == ScriptOf[r]
<1>1. SeqOf(S, BlockSet) /\ Len(S) \in Nat
  BY LaunchTasks, SeqFacts
<1>2. c.next \in 0..(Len(S) + 1) /\ c.next # 0 /\ c.next - 1 = 0
  BY <1>1
<1>3. BlocksLeft(c, S) = S
  <2>1. BlocksLeft(c, S) = Rest(S, 0)
    BY <1>2 DEF BlocksLeft
  <2>2. QED BY <1>1, <2>1, RestFacts
<1>4. CtlSound(c, S)
  BY <1>1, <1>2, NilSeq DEF CtlSound
<1>5. SeqOf(Emits(S), EmitOps) /\ SeqOf(Collects(S), CollectOps)
  BY <1>1, ScriptTypes
<1>6. EmitLeft(c, S) = Emits(S) /\ CollectLeft(c, S) = Collects(S)
  BY <1>3, <1>5, JoinNil DEF EmitLeft, CollectLeft
<1>7. ASSUME NEW p \in Procs PROVE Sound(p, P[p], TasksOf(r)[p[2]])
  <2> DEFINE T == TasksOf(r)[p[2]]
  <2>1. p[2] \in Cores
    BY ProcShape
  <2>2. SeqOf(T, Tasks) /\ EndsAs(T, TRUE) /\ Len(T) \in Nat
    BY <2>1, LaunchTasks, StreamFacts, KindSets, SeqFacts
  <2> HIDE DEF T
  <2>3. Len(T) > 0
    BY <2>2 DEF EndsAs, Closes
  <2>4. 0 \in 0..Len(T) /\ 0 < Len(T)
    BY <2>2, <2>3
  <2>5. SeqOf(Nil, Ops)
    BY NilSeq
  <2>6. \A h : FlatMap(Nil, h) = Nil
    BY FlatNil
  <2>7. QED BY <2>2, <2>4, <2>5, <2>6 DEF Sound, T
<1>8. ASSUME NEW p \in Procs, NEW k \in Kinds
      PROVE  /\ PutsLeft(k, P[p], TasksOf(r)[p[2]]) = Stream(r, k, p[2])
             /\ TakesLeft(k, P[p], TasksOf(r)[p[2]]) = Stream(r, k, p[2])
  <2>1. p[2] \in Cores
    BY ProcShape
  <2>2. SeqOf(TasksOf(r)[p[2]], Tasks) /\ SeqOf(Stream(r, k, p[2]), Items)
    BY <2>1, StreamFacts
  <2>3. Rest(TasksOf(r)[p[2]], 0) = TasksOf(r)[p[2]]
    BY <2>2, RestFacts
  <2>4. \A h : FlatMap(Nil, h) = Nil
    BY FlatNil
  <2>5. Join(Nil, Stream(r, k, p[2])) = Stream(r, k, p[2])
    BY <2>2, JoinNil
  <2>6. QED BY <2>3, <2>4, <2>5 DEF PutsLeft, TakesLeft, Stream
<1>9. ASSUME NEW ch \in Channels
      PROVE  Even(Q[ch], Supply(ch, c, P, r), Demand(ch, c, P, r))
  <2>1. ch[1] \in Kinds /\ ch[2] \in Cores
    BY ChannelShape
  <2>2. /\ Producer(ch) \in Procs \cup {Ctl} /\ Consumer(ch) \in Procs \cup {Ctl}
    BY TwoEnds
  <2>3. SeqOf(Stream(r, ch[1], ch[2]), Items)
    BY <2>1, StreamFacts
  <2>4. Supply(ch, c, P, r) = Stream(r, ch[1], ch[2])
    <3>1. CASE Producer(ch) = Ctl
      <4>1. ch[1] \in SendKinds
        BY <3>1, CtlEnds
      <4>2. QED BY <1>6, <2>1, <3>1, <4>1, StreamFacts DEF Supply, CtlPuts
    <3>2. CASE Producer(ch) # Ctl
      <4>1. Producer(ch) \in Procs
        BY <2>2, <3>2
      <4>2. ch = OutLink(Producer(ch), ch[1])
        BY <4>1, OutEnds
      <4>3. ch[2] = Producer(ch)[2]
        BY <4>2 DEF OutLink
      <4>4. QED BY <1>8, <2>1, <3>2, <4>1, <4>3 DEF Supply
    <3>3. QED BY <3>1, <3>2
  <2>5. Demand(ch, c, P, r) = Stream(r, ch[1], ch[2])
    <3>1. CASE Consumer(ch) = Ctl
      <4>1. ch = <<"out", ch[2], 0>>
        BY <3>1, CtlEnds
      <4>2. ch[1] = "out"
        BY <4>1
      <4>3. QED BY <1>6, <2>1, <3>1, <4>2, StreamFacts DEF Demand, CtlTakes
    <3>2. CASE Consumer(ch) # Ctl
      <4>1. Consumer(ch) \in Procs
        BY <2>2, <3>2
      <4>2. ch = InLink(Consumer(ch), ch[1])
        BY <4>1, InEnds
      <4>3. ch[2] = Consumer(ch)[2]
        BY <4>2 DEF InLink
      <4>4. QED BY <1>8, <2>1, <3>2, <4>1, <4>3 DEF Demand
    <3>3. QED BY <3>1, <3>2
  <2>6. QED BY <2>3, <2>4, <2>5, NilSeq, JoinNil DEF Even
<1>10. QED BY <1>4, <1>7, <1>9 DEF Balanced, AllSound, AllEven

(* The controller enters a block or leaves: nothing is put or taken.         *)
LEMMA CtlQuiet ==
    ASSUME NEW r, NEW c, NEW d, NEW P, NEW Q, Balanced(c, P, Q, r), CtlSound(d, ScriptOf[r]),
           EmitLeft(d, ScriptOf[r]) = EmitLeft(c, ScriptOf[r]),
           CollectLeft(d, ScriptOf[r]) = CollectLeft(c, ScriptOf[r])
    PROVE  Balanced(d, P, Q, r)
BY DEF Balanced, AllSound, AllEven, Supply, Demand, CtlPuts, CtlTakes

(* What is due after sending one word, stream by stream.                     *)
LEMMA EmitOne ==
    ASSUME NEW s, NEW S, NEW u, CtlSound(s, S), s.emit # Nil, u.emit = Tail(s.emit),
           u.next = s.next, u.collect = s.collect, NEW k, NEW h
    PROVE  /\ CtlPuts(k, h, s, S) = Join(OnLink(EmitOps, k, h)[Head(s.emit)], CtlPuts(k, h, u, S))
           /\ CtlTakes(h, s, S) = CtlTakes(h, u, S)
<1> DEFINE o == Head(s.emit)
<1>1. \A j, e : CtlPuts(j, e, s, S) = Join(OnLink(EmitOps, j, e)[o], CtlPuts(j, e, u, S))
  BY EmitStepLeft
<1>2. \A e : CtlTakes(e, s, S) = CtlTakes(e, u, S)
  BY EmitStepLeft
<1>3. QED BY <1>1, <1>2, Zenon

(* The controller puts its next word on FIFO x, or takes one from it.        *)
Emitted(c, d, Q, Q2, x) ==
    /\ c.emit # Nil /\ d.emit = Tail(c.emit) /\ d.next = c.next /\ d.collect = c.collect
    /\ x = <<Head(c.emit).kind, Head(c.emit).core, 0>>
    /\ Q2[x] = Append(Q[x], Head(c.emit).word)
    /\ \A ch \in Channels : ch # x => Q2[ch] = Q[ch]
Collected(c, d, Q, Q2, x) ==
    /\ c.collect # Nil /\ d.collect = Tail(c.collect) /\ d.next = c.next /\ d.emit = c.emit
    /\ x = <<Head(c.collect).kind, Head(c.collect).core, 0>>
    /\ Q[x] # Nil /\ Q2[x] = Tail(Q[x])
    /\ \A ch \in Channels : ch # x => Q2[ch] = Q[ch]

(* Emit preserves the balance.                                               *)
LEMMA EmitBalanced ==
    ASSUME NEW r, NEW c, NEW d, NEW P, NEW Q, NEW Q2, NEW x,
           Balanced(c, P, Q, r), Emitted(c, d, Q, Q2, x)
    PROVE  Balanced(d, P, Q2, r)
<1>0. /\ c.emit # Nil /\ d.emit = Tail(c.emit) /\ d.next = c.next /\ d.collect = c.collect
      /\ x = <<Head(c.emit).kind, Head(c.emit).core, 0>>
      /\ Q2[x] = Append(Q[x], Head(c.emit).word)
      /\ \A ch \in Channels : ch # x => Q2[ch] = Q[ch]
  BY DEF Emitted
<1> DEFINE S == ScriptOf[r]
           o == Head(c.emit)
<1>1. /\ o \in EmitOps /\ CtlSound(d, S)
      /\ \A k, h : CtlPuts(k, h, c, S) = Join(OnLink(EmitOps, k, h)[o], CtlPuts(k, h, d, S))
      /\ \A h : CtlTakes(h, c, S) = CtlTakes(h, d, S)
  <2>1. CtlSound(c, S)
    BY DEF Balanced, AllSound
  <2> HIDE DEF S
  <2>2. o \in EmitOps /\ CtlSound(d, S)
    BY <1>0, <2>1, EmitStepLeft
  <2>3. ASSUME NEW k, NEW h
        PROVE  /\ CtlPuts(k, h, c, S) = Join(OnLink(EmitOps, k, h)[o], CtlPuts(k, h, d, S))
               /\ CtlTakes(h, c, S) = CtlTakes(h, d, S)
    BY <1>0, <2>1, EmitOne
  <2>4. \A h : CtlTakes(h, c, S) = CtlTakes(h, d, S)
    BY <2>3
  <2>5. QED BY <2>2, <2>3, <2>4
<1> HIDE DEF S, o
<1>2. o.kind \in SendKinds /\ o.core \in Cores /\ o.word \in Items
  BY <1>1 DEF EmitOps
<1>3. x = <<o.kind, o.core, 0>> /\ x \in Channels /\ Producer(x) = Ctl
  BY <1>0, <1>2, CtlEnds DEF o
<1>4. x[1] = o.kind /\ x[2] = o.core
  BY <1>3
<1>5. ASSUME NEW ch \in Channels
      PROVE  Even(Q2[ch], Supply(ch, d, P, r), Demand(ch, d, P, r))
  <2>1. Even(Q[ch], Supply(ch, c, P, r), Demand(ch, c, P, r))
    BY DEF Balanced, AllEven
  <2>2. Demand(ch, d, P, r) = Demand(ch, c, P, r)
    BY <1>1 DEF Demand, S
  <2>3. CtlPuts(ch[1], ch[2], c, S)
          = Join(OnLink(EmitOps, ch[1], ch[2])[o], CtlPuts(ch[1], ch[2], d, S))
    BY <1>1
  <2>4. SeqOf(CtlPuts(ch[1], ch[2], d, S), Items)
    BY <1>1, CtlLeftSeq
  <2>5. CASE ch = x
    <3>1. OnLink(EmitOps, ch[1], ch[2])[o] = One(o.word)
      BY <1>1, <1>4, <2>5 DEF OnLink
    <3>2. /\ Supply(ch, c, P, r) = Join(One(o.word), Supply(ch, d, P, r))
          /\ SeqOf(Supply(ch, d, P, r), Items)
      BY <1>3, <2>3, <2>4, <2>5, <3>1 DEF Supply, S
    <3>3. Q2[ch] = Append(Q[ch], o.word)
      BY <1>0, <2>5 DEF o
    <3>4. QED BY <1>2, <2>1, <2>2, <3>2, <3>3, PutKeepsEven
  <2>6. CASE ch # x
    <3>1. Supply(ch, d, P, r) = Supply(ch, c, P, r)
      <4>1. CASE Producer(ch) = Ctl
        <5>1. ch = <<ch[1], ch[2], 0>>
          BY <4>1, CtlEnds
        <5>2. ~(o.kind = ch[1] /\ o.core = ch[2])
          BY <1>3, <2>6, <5>1
        <5>3. OnLink(EmitOps, ch[1], ch[2])[o] = Nil
          BY <1>1, <5>2 DEF OnLink
        <5>4. CtlPuts(ch[1], ch[2], c, S) = CtlPuts(ch[1], ch[2], d, S)
          BY <2>3, <2>4, <5>3, JoinNil
        <5>5. QED BY <4>1, <5>4 DEF Supply, S
      <4>2. QED BY <4>1 DEF Supply
    <3>2. QED BY <1>0, <2>1, <2>2, <2>6, <3>1
  <2>7. QED BY <2>5, <2>6
<1>6. QED BY <1>1, <1>5 DEF Balanced, AllSound, AllEven, S

(* Collect preserves it, and reads the word it expects.                      *)
LEMMA CollectBalanced ==
    ASSUME NEW r, NEW c, NEW d, NEW P, NEW Q, NEW Q2, NEW x,
           Balanced(c, P, Q, r), Collected(c, d, Q, Q2, x)
    PROVE  Balanced(d, P, Q2, r) /\ Head(Q[x]) = Head(c.collect).word
<1>0. /\ c.collect # Nil /\ d.collect = Tail(c.collect) /\ d.next = c.next /\ d.emit = c.emit
      /\ x = <<Head(c.collect).kind, Head(c.collect).core, 0>>
      /\ Q[x] # Nil /\ Q2[x] = Tail(Q[x])
      /\ \A ch \in Channels : ch # x => Q2[ch] = Q[ch]
  BY DEF Collected
<1> DEFINE S == ScriptOf[r]
           o == Head(c.collect)
<1>1. /\ o \in CollectOps /\ CtlSound(d, S)
      /\ \A h : CtlTakes(h, c, S) = Join(OnLink(CollectOps, "out", h)[o], CtlTakes(h, d, S))
      /\ \A k, h : CtlPuts(k, h, c, S) = CtlPuts(k, h, d, S)
  <2>1. CtlSound(c, S)
    BY DEF Balanced, AllSound
  <2>2. QED BY <1>0, <2>1, CollectStepLeft
<1> HIDE DEF S, o
<1>2. o.kind = "out" /\ o.core \in Cores /\ o.word \in Items
  BY <1>1 DEF CollectOps
<1>3. x = <<"out", o.core, 0>> /\ x \in Channels /\ Consumer(x) = Ctl
  BY <1>0, <1>2, CtlEnds DEF o
<1>4. x[1] = "out" /\ x[2] = o.core
  BY <1>3
<1>5. ASSUME NEW ch \in Channels
      PROVE  /\ Even(Q[ch], Supply(ch, c, P, r), Demand(ch, c, P, r))
             /\ Supply(ch, d, P, r) = Supply(ch, c, P, r)
             /\ CtlTakes(ch[2], c, S)
                  = Join(OnLink(CollectOps, "out", ch[2])[o], CtlTakes(ch[2], d, S))
             /\ SeqOf(CtlTakes(ch[2], d, S), Items)
  <2>1. Even(Q[ch], Supply(ch, c, P, r), Demand(ch, c, P, r))
    BY DEF Balanced, AllEven
  <2>2. Supply(ch, d, P, r) = Supply(ch, c, P, r)
    BY <1>1 DEF Supply, S
  <2>3. SeqOf(CtlTakes(ch[2], d, S), Items)
    BY <1>1, CtlLeftSeq
  <2>4. QED BY <1>1, <2>1, <2>2, <2>3
<1>6. Head(Q[x]) = o.word /\ Even(Q2[x], Supply(x, d, P, r), Demand(x, d, P, r))
  <2>1. OnLink(CollectOps, "out", x[2])[o] = One(o.word)
    BY <1>1, <1>2, <1>4 DEF OnLink
  <2>2. /\ Demand(x, c, P, r) = Join(One(o.word), Demand(x, d, P, r))
        /\ SeqOf(Demand(x, d, P, r), Items)
    BY <1>3, <1>5, <2>1 DEF Demand, S
  <2>3. Even(Q[x], Supply(x, d, P, r), Demand(x, c, P, r))
    BY <1>3, <1>5
  <2>4. QED BY <1>0, <1>2, <2>2, <2>3, TakeKeepsEven
<1>7. ASSUME NEW ch \in Channels, ch # x
      PROVE  Even(Q2[ch], Supply(ch, d, P, r), Demand(ch, d, P, r))
  <2>1. Demand(ch, d, P, r) = Demand(ch, c, P, r)
    <3>1. CASE Consumer(ch) = Ctl
      <4>1. ch = <<"out", ch[2], 0>>
        BY <3>1, CtlEnds
      <4>2. o.core # ch[2]
        BY <1>3, <1>7, <4>1
      <4>3. OnLink(CollectOps, "out", ch[2])[o] = Nil
        BY <1>1, <4>2 DEF OnLink
      <4>4. CtlTakes(ch[2], c, S) = CtlTakes(ch[2], d, S)
        BY <1>5, <4>3, JoinNil
      <4>5. QED BY <3>1, <4>4 DEF Demand, S
    <3>2. QED BY <3>1 DEF Demand
  <2>2. QED BY <1>0, <1>5, <1>7, <2>1
<1>8. AllEven(d, P, Q2, r)
  BY <1>6, <1>7 DEF AllEven
<1>9. QED BY <1>1, <1>2, <1>6, <1>8 DEF Balanced, AllSound, S, o

(* A sequence of one is not empty.                                           *)
LEMMA OneNotNil == ASSUME NEW a PROVE One(a) # Nil
BY DEF One, Nil

(* The links a process's operation uses.                                     *)
LEMMA OpLinks ==
    ASSUME NEW p \in Procs, NEW s, NEW T, Sound(p, s, T), s.todo # Nil, NEW o, o = Head(s.todo)
    PROVE  /\ o \in Ops /\ o.word \in Items /\ o.kind \in Kinds /\ o.do \in {"take", "put", "move"}
           /\ \A k \in Kinds : /\ PutOf(k)[o] = IF o.kind = k /\ o.do # "take" THEN One(o.word) ELSE Nil
                               /\ TakeOf(k)[o] = IF o.kind = k /\ o.do # "put" THEN One(o.word) ELSE Nil
           /\ o.do # "take" => o.kind \in PutKinds(p)
           /\ o.do # "put" => o.kind \in MoveKinds(p) /\ o.kind \in TakeKinds(p)
<1> DEFINE u == [s EXCEPT !.todo = Tail(s.todo)]
           w == [todo |-> Tail(s.todo), on |-> s.on, fetched |-> s.fetched]
<1>1. w.todo = Tail(s.todo) /\ w.on = s.on /\ w.fetched = s.fetched
  OBVIOUS
<1> HIDE DEF w
<1>2. /\ o \in Ops
      /\ \A k \in Kinds : /\ k \notin PutKinds(p) => PutOf(k)[o] = Nil
                          /\ k \notin MoveKinds(p) => TakeOf(k)[o] = Nil
  <2>1. Head(s.todo) \in Ops /\ \A k \in Kinds : /\ k \notin PutKinds(p) => PutOf(k)[Head(s.todo)] = Nil
                                                 /\ k \notin MoveKinds(p) => TakeOf(k)[Head(s.todo)] = Nil
    BY <1>1, StepLeft
  <2>2. QED BY <2>1
<1>3. o.word \in Items /\ o.kind \in Kinds /\ o.do \in {"take", "put", "move"}
  BY <1>2 DEF Ops
<1>4. \A k \in Kinds : /\ PutOf(k)[o] = IF o.kind = k /\ o.do # "take" THEN One(o.word) ELSE Nil
                       /\ TakeOf(k)[o] = IF o.kind = k /\ o.do # "put" THEN One(o.word) ELSE Nil
  BY <1>2 DEF PutOf, TakeOf
<1>5. One(o.word) # Nil
  BY OneNotNil
<1>6. o.do # "take" => o.kind \in PutKinds(p)
  BY <1>2, <1>3, <1>4, <1>5
<1>7. o.do # "put" => o.kind \in MoveKinds(p)
  BY <1>2, <1>3, <1>4, <1>5
<1>8. QED BY <1>2, <1>3, <1>4, <1>6, <1>7 DEF TakeKinds

(* What is due after one operation, stream by stream.                        *)
LEMMA StepOne ==
    ASSUME NEW p, NEW s, NEW u, NEW T, Sound(p, s, T), s.todo # Nil,
           u.todo = Tail(s.todo), u.on = s.on, u.fetched = s.fetched,
           NEW o, o = Head(s.todo), NEW k \in Kinds
    PROVE  /\ PutsLeft(k, s, T) = Join(PutOf(k)[o], PutsLeft(k, u, T))
           /\ TakesLeft(k, s, T) = Join(TakeOf(k)[o], TakesLeft(k, u, T))
<1>1. \A j \in Kinds :
        /\ PutsLeft(j, s, T) = Join(PutOf(j)[Head(s.todo)], PutsLeft(j, u, T))
        /\ TakesLeft(j, s, T) = Join(TakeOf(j)[Head(s.todo)], TakesLeft(j, u, T))
  BY StepLeft
<1>2. QED BY <1>1

(* A process runs its next operation o.                                      *)
Stepped(p, o, s, u, Q, Q2, src, dst) ==
    /\ s.todo # Nil /\ o = Head(s.todo)
    /\ u.todo = Tail(s.todo) /\ u.on = s.on /\ u.fetched = s.fetched
    /\ src = InLink(p, o.kind) /\ dst = OutLink(p, o.kind)
    /\ o.do # "put" => Q[src] # Nil
    /\ o.do # "put" /\ (o.do # "take" => src # dst) => Q2[src] = Tail(Q[src])
    /\ o.do # "take" /\ (o.do # "put" => src # dst) =>
         Q2[dst] = Append(Q[dst], IF o.do = "put" THEN o.word ELSE Head(Q[src]))
    /\ \A ch \in Channels : ~(ch = src /\ o.do # "put") /\ ~(ch = dst /\ o.do # "take")
                              => Q2[ch] = Q[ch]
OnlyOne(p, P, P2) == \A q \in Procs : q # p => P2[q] = P[q]

(* Step preserves the balance, and takes the word it expects.                *)
LEMMA StepBalanced ==
    ASSUME NEW r, NEW c, NEW P, NEW P2, NEW Q, NEW Q2, NEW p \in Procs, NEW o, NEW src, NEW dst,
           Balanced(c, P, Q, r), OnlyOne(p, P, P2),
           Stepped(p, o, P[p], P2[p], Q, Q2, src, dst)
    PROVE  /\ Balanced(c, P2, Q2, r)
           /\ o.do # "put" => Head(Q[src]) = o.word
<1>0. /\ P[p].todo # Nil /\ o = Head(P[p].todo)
      /\ P2[p].todo = Tail(P[p].todo) /\ P2[p].on = P[p].on /\ P2[p].fetched = P[p].fetched
      /\ src = InLink(p, o.kind) /\ dst = OutLink(p, o.kind)
      /\ o.do # "put" => Q[src] # Nil
      /\ o.do # "put" /\ (o.do # "take" => src # dst) => Q2[src] = Tail(Q[src])
      /\ o.do # "take" /\ (o.do # "put" => src # dst) =>
           Q2[dst] = Append(Q[dst], IF o.do = "put" THEN o.word ELSE Head(Q[src]))
      /\ \A ch \in Channels : ~(ch = src /\ o.do # "put") /\ ~(ch = dst /\ o.do # "take")
                                => Q2[ch] = Q[ch]
      /\ \A q \in Procs : q # p => P2[q] = P[q]
  BY DEF Stepped, OnlyOne
<1> DEFINE T == TasksOf(r)[p[2]]
           s == P[p]
           u == P2[p]
<1>1. Sound(p, s, T) /\ CtlSound(c, ScriptOf[r])
  BY DEF Balanced, AllSound
<1>2. s.todo # Nil /\ u.todo = Tail(s.todo) /\ u.on = s.on /\ u.fetched = s.fetched /\ o = Head(s.todo)
  BY <1>0
<1> HIDE DEF s, u, T
<1>3. Sound(p, u, T)
  BY <1>1, <1>2, StepLeft
<1>4. \A k \in Kinds : /\ PutsLeft(k, s, T) = Join(PutOf(k)[o], PutsLeft(k, u, T))
                       /\ TakesLeft(k, s, T) = Join(TakeOf(k)[o], TakesLeft(k, u, T))
  BY <1>1, <1>2, StepOne
<1>5. \A k \in Kinds : SeqOf(PutsLeft(k, u, T), Items) /\ SeqOf(TakesLeft(k, u, T), Items)
  BY <1>3, LeftSeq
<1>6. /\ o.word \in Items /\ o.kind \in Kinds /\ o.do \in {"take", "put", "move"}
      /\ \A k \in Kinds : /\ PutOf(k)[o] = IF o.kind = k /\ o.do # "take" THEN One(o.word) ELSE Nil
                          /\ TakeOf(k)[o] = IF o.kind = k /\ o.do # "put" THEN One(o.word) ELSE Nil
      /\ o.do # "take" => o.kind \in PutKinds(p)
      /\ o.do # "put" => o.kind \in TakeKinds(p)
  BY <1>1, <1>2, OpLinks
<1>7. /\ o.do # "take" => dst \in Channels /\ Producer(dst) = p
      /\ o.do # "put" => src \in Channels /\ Consumer(src) = p
  BY <1>0, <1>6, OutEnds, InEnds
<1>8. o.do # "put" /\ o.do # "take" => src # dst
  BY <1>7, TwoEnds
<1>9. src[1] = o.kind /\ dst[1] = o.kind /\ src[2] = p[2] /\ dst[2] = p[2] /\ p # Ctl
  BY <1>0, ProcShape DEF InLink, OutLink
<1>10. \A q \in Procs : Sound(q, P2[q], TasksOf(r)[q[2]])
  <2>1. \A q \in Procs : q # p => Sound(q, P2[q], TasksOf(r)[q[2]])
    BY <1>0 DEF Balanced, AllSound
  <2>2. QED BY <1>3, <2>1 DEF u, T
<1>11. ASSUME NEW ch \in Channels
       PROVE  /\ Even(Q[ch], Supply(ch, c, P, r), Demand(ch, c, P, r))
              /\ ch[1] \in Kinds /\ Producer(ch) # Consumer(ch)
              /\ Producer(ch) \in Procs \cup {Ctl} /\ Consumer(ch) \in Procs \cup {Ctl}
  BY ChannelShape, TwoEnds DEF Balanced, AllEven
<1>12. ASSUME NEW ch \in Channels
       PROVE  IF ch = dst /\ o.do # "take"
              THEN /\ Supply(ch, c, P, r) = Join(One(o.word), Supply(ch, c, P2, r))
                   /\ SeqOf(Supply(ch, c, P2, r), Items)
              ELSE Supply(ch, c, P2, r) = Supply(ch, c, P, r)
  <2>1. CASE Producer(ch) = p
    <3>1. ch = OutLink(p, ch[1]) /\ ch[2] = p[2]
      BY <2>1, OutEnds DEF OutLink
    <3>2. /\ Supply(ch, c, P, r) = PutsLeft(ch[1], s, T)
          /\ Supply(ch, c, P2, r) = PutsLeft(ch[1], u, T)
      BY <1>9, <2>1, <3>1 DEF Supply, s, u, T
    <3>3. CASE ch = dst /\ o.do # "take"
      <4>1. PutOf(ch[1])[o] = One(o.word)
        BY <1>6, <1>9, <1>11, <3>3
      <4>2. QED BY <1>4, <1>5, <1>11, <3>2, <3>3, <4>1
    <3>4. CASE ~(ch = dst /\ o.do # "take")
      <4>1. ~(o.kind = ch[1] /\ o.do # "take")
        BY <1>0, <3>1, <3>4
      <4>2. PutOf(ch[1])[o] = Nil
        BY <1>6, <1>11, <4>1
      <4>3. PutsLeft(ch[1], s, T) = PutsLeft(ch[1], u, T)
        BY <1>4, <1>5, <1>11, <4>2, JoinNil
      <4>4. QED BY <3>2, <3>4, <4>3
    <3>5. QED BY <3>3, <3>4
  <2>2. CASE Producer(ch) # p
    <3>1. ~(ch = dst /\ o.do # "take")
      BY <1>7, <2>2
    <3>2. Supply(ch, c, P2, r) = Supply(ch, c, P, r)
      BY <1>0, <1>11, <2>2 DEF Supply
    <3>3. QED BY <3>1, <3>2
  <2>3. QED BY <2>1, <2>2
<1>13. ASSUME NEW ch \in Channels
       PROVE  IF ch = src /\ o.do # "put"
              THEN /\ Demand(ch, c, P, r) = Join(One(o.word), Demand(ch, c, P2, r))
                   /\ SeqOf(Demand(ch, c, P2, r), Items)
              ELSE Demand(ch, c, P2, r) = Demand(ch, c, P, r)
  <2>1. CASE Consumer(ch) = p
    <3>1. ch = InLink(p, ch[1]) /\ ch[2] = p[2]
      BY <2>1, InEnds DEF InLink
    <3>2. /\ Demand(ch, c, P, r) = TakesLeft(ch[1], s, T)
          /\ Demand(ch, c, P2, r) = TakesLeft(ch[1], u, T)
      BY <1>9, <2>1, <3>1 DEF Demand, s, u, T
    <3>3. CASE ch = src /\ o.do # "put"
      <4>1. TakeOf(ch[1])[o] = One(o.word)
        BY <1>6, <1>9, <1>11, <3>3
      <4>2. QED BY <1>4, <1>5, <1>11, <3>2, <3>3, <4>1
    <3>4. CASE ~(ch = src /\ o.do # "put")
      <4>1. ~(o.kind = ch[1] /\ o.do # "put")
        BY <1>0, <3>1, <3>4
      <4>2. TakeOf(ch[1])[o] = Nil
        BY <1>6, <1>11, <4>1
      <4>3. TakesLeft(ch[1], s, T) = TakesLeft(ch[1], u, T)
        BY <1>4, <1>5, <1>11, <4>2, JoinNil
      <4>4. QED BY <3>2, <3>4, <4>3
    <3>5. QED BY <3>3, <3>4
  <2>2. CASE Consumer(ch) # p
    <3>1. ~(ch = src /\ o.do # "put")
      BY <1>7, <2>2
    <3>2. Demand(ch, c, P2, r) = Demand(ch, c, P, r)
      BY <1>0, <1>11, <2>2 DEF Demand
    <3>3. QED BY <3>1, <3>2
  <2>3. QED BY <2>1, <2>2
<1>14. ASSUME o.do # "put"
       PROVE  /\ Head(Q[src]) = o.word
              /\ Even(Tail(Q[src]), Supply(src, c, P, r), Demand(src, c, P2, r))
  <2>1. src \in Channels /\ Q[src] # Nil
    BY <1>0, <1>7, <1>14
  <2>2. /\ Demand(src, c, P, r) = Join(One(o.word), Demand(src, c, P2, r))
        /\ SeqOf(Demand(src, c, P2, r), Items)
    BY <1>13, <1>14, <2>1
  <2>3. Even(Q[src], Supply(src, c, P, r), Demand(src, c, P, r))
    BY <1>11, <2>1
  <2>4. QED BY <1>6, <2>1, <2>2, <2>3, TakeKeepsEven
<1>15. ASSUME NEW ch \in Channels
       PROVE  Even(Q2[ch], Supply(ch, c, P2, r), Demand(ch, c, P2, r))
  <2>1. CASE ch = src /\ o.do # "put"
    <3>1. ~(ch = dst /\ o.do # "take") /\ (o.do # "take" => src # dst)
      BY <1>8, <2>1
    <3>2. Q2[ch] = Tail(Q[ch]) /\ Supply(ch, c, P2, r) = Supply(ch, c, P, r)
      BY <1>0, <1>12, <2>1, <3>1
    <3>3. QED BY <1>14, <2>1, <3>2
  <2>2. CASE ch = dst /\ o.do # "take"
    <3>1. ~(ch = src /\ o.do # "put") /\ (o.do # "put" => src # dst)
      BY <1>8, <2>2
    <3>2. Q2[ch] = Append(Q[ch], o.word)
      BY <1>0, <1>6, <1>14, <2>2, <3>1
    <3>3. Demand(ch, c, P2, r) = Demand(ch, c, P, r)
      BY <1>13, <3>1
    <3>4. /\ Supply(ch, c, P, r) = Join(One(o.word), Supply(ch, c, P2, r))
          /\ SeqOf(Supply(ch, c, P2, r), Items)
      BY <1>12, <2>2
    <3>5. Even(Q[ch], Supply(ch, c, P, r), Demand(ch, c, P, r))
      BY <1>11
    <3>6. QED BY <1>6, <3>2, <3>3, <3>4, <3>5, PutKeepsEven
  <2>3. CASE ~(ch = src /\ o.do # "put") /\ ~(ch = dst /\ o.do # "take")
    <3>1. Q2[ch] = Q[ch]
      BY <1>0, <2>3
    <3>2. QED BY <1>11, <1>12, <1>13, <2>3, <3>1
  <2>4. QED BY <2>1, <2>2, <2>3
<1>16. QED BY <1>1, <1>10, <1>14, <1>15 DEF Balanced, AllSound, AllEven

(* A process takes the task t from its FIFO x.                               *)
Fetched(p, t, s, u, Q, Q2, x) ==
    /\ s.todo = Nil /\ s.on /\ x = InLink(p, TaskKind(p)) /\ Q[x] # Nil /\ t = Head(Q[x])
    /\ u.todo = Program(p, t) /\ u.fetched = s.fetched + 1
    /\ u.on = (~EndsSession(t) /\ s.fetched + 1 < MaxTasks)
    /\ Q2[x] = Tail(Q[x]) /\ \A ch \in Channels : ch # x => Q2[ch] = Q[ch]

(* Fetch preserves the balance, and reads the next task of the core's        *)
(* session.                                                                  *)
LEMMA FetchBalanced ==
    ASSUME NEW r \in Requests, NEW c, NEW P, NEW P2, NEW Q, NEW Q2, NEW p \in Procs, NEW x, NEW t,
           Balanced(c, P, Q, r), OnlyOne(p, P, P2), Fetched(p, t, P[p], P2[p], Q, Q2, x)
    PROVE  /\ Balanced(c, P2, Q2, r)
           /\ P[p].fetched \in 0..(Len(TasksOf(r)[p[2]]) - 1)
           /\ t = TasksOf(r)[p[2]][P[p].fetched + 1]
<1>0. /\ P[p].todo = Nil /\ P[p].on /\ x = InLink(p, TaskKind(p)) /\ Q[x] # Nil /\ t = Head(Q[x])
      /\ P2[p].todo = Program(p, t) /\ P2[p].fetched = P[p].fetched + 1
      /\ P2[p].on = (~EndsSession(t) /\ P[p].fetched + 1 < MaxTasks)
      /\ \A q \in Procs : q # p => P2[q] = P[q]
      /\ Q2[x] = Tail(Q[x]) /\ \A ch \in Channels : ch # x => Q2[ch] = Q[ch]
  BY DEF Fetched, OnlyOne
<1> USE <1>0
<1> DEFINE T == TasksOf(r)[p[2]]
           s == P[p]
           u == P2[p]
           y == T[s.fetched + 1]
           v == [todo |-> Program(p, y), fetched |-> s.fetched + 1,
                 on |-> ~EndsSession(y) /\ s.fetched + 1 < MaxTasks]
           k0 == TaskKind(p)
<1>1. Sound(p, s, T) /\ CtlSound(c, ScriptOf[r])
  BY DEF Balanced, AllSound
<1>2. p[2] \in Cores /\ p # Ctl
  BY ProcShape
<1>3. EndsAs(T, TRUE) /\ Len(T) <= MaxTasks /\ SeqOf(T, Tasks) /\ Len(T) \in Nat
  BY <1>2, LaunchTasks, StreamFacts, KindSets, SeqFacts
<1>4. /\ s.todo = Nil /\ s.on /\ u.todo = Program(p, t) /\ u.fetched = s.fetched + 1
      /\ u.on = (~EndsSession(t) /\ s.fetched + 1 < MaxTasks)
  OBVIOUS
<1>5. /\ v.todo = Program(p, y) /\ v.fetched = s.fetched + 1
      /\ v.on = (~EndsSession(y) /\ s.fetched + 1 < MaxTasks)
  OBVIOUS
<1>6. y = T[s.fetched + 1]
  OBVIOUS
<1> HIDE DEF s, u, v, T, y
<1>7. /\ y \in Tasks /\ Sound(p, v, T)
      /\ TakesLeft(TaskKind(p), s, T) = Join(One(y), TakesLeft(TaskKind(p), v, T))
  <2>1. Reads(p, s, v, T, y)
    BY <1>1, <1>3, <1>4, <1>5, <1>6 DEF Reads
  <2>2. QED BY <2>1, FetchLeft
<1>8. k0 \in Kinds /\ k0 \in TakeKinds(p) /\ k0 \notin MoveKinds(p)
  BY KindFacts
<1>9. x \in Channels /\ Consumer(x) = p /\ x[1] = k0 /\ x[2] = p[2] /\ x = InLink(p, k0)
  BY <1>8, InEnds DEF InLink
<1> HIDE DEF k0
<1>10. ASSUME NEW ch \in Channels
       PROVE  /\ Even(Q[ch], Supply(ch, c, P, r), Demand(ch, c, P, r))
              /\ ch[1] \in Kinds /\ Producer(ch) # Consumer(ch)
              /\ Producer(ch) \in Procs \cup {Ctl} /\ Consumer(ch) \in Procs \cup {Ctl}
  BY ChannelShape, TwoEnds DEF Balanced, AllEven
<1>11. Demand(x, c, P, r) = TakesLeft(k0, s, T) /\ Demand(x, c, P2, r) = TakesLeft(k0, u, T)
  BY <1>2, <1>9 DEF Demand, s, u, T
<1>12. t = y
  <2>1. Even(Q[x], Supply(x, c, P, r), TakesLeft(k0, s, T)) /\ Q[x] # Nil
    BY <1>9, <1>10, <1>11
  <2>2. TakesLeft(k0, s, T) = Join(One(y), TakesLeft(k0, v, T)) /\ y \in Items
    BY <1>7 DEF k0, Items
  <2>3. SeqOf(TakesLeft(k0, v, T), Items)
    BY <1>7, <1>8, LeftSeq
  <2>4. QED BY <2>1, <2>2, <2>3, TakeKeepsEven
<1>13. t = T[s.fetched + 1]
  BY <1>6, <1>12
<1>14. /\ Sound(p, u, T) /\ t \in Items
       /\ \A k \in PutKinds(p) : PutsLeft(k, s, T) = PutsLeft(k, u, T)
       /\ \A k \in MoveKinds(p) : TakesLeft(k, s, T) = TakesLeft(k, u, T)
       /\ TakesLeft(k0, s, T) = Join(One(t), TakesLeft(k0, u, T))
  <2>1. t \in Items
    BY <1>7, <1>12 DEF Items
  <2>2. Reads(p, s, u, T, t)
    BY <1>1, <1>3, <1>4, <1>13 DEF Reads
  <2>3. /\ Sound(p, u, T)
        /\ \A k \in PutKinds(p) : PutsLeft(k, s, T) = PutsLeft(k, u, T)
        /\ \A k \in MoveKinds(p) : TakesLeft(k, s, T) = TakesLeft(k, u, T)
    BY <2>2, FetchLeft
  <2>4. TakesLeft(k0, s, T) = Join(One(t), TakesLeft(k0, u, T))
    BY <2>2, FetchLeft DEF k0
  <2>5. QED BY <2>1, <2>3, <2>4
<1>15. \A q \in Procs : Sound(q, P2[q], TasksOf(r)[q[2]])
  <2>1. \A q \in Procs : q # p => Sound(q, P2[q], TasksOf(r)[q[2]])
    BY DEF Balanced, AllSound
  <2>2. QED BY <1>14, <2>1 DEF u, T
<1>16. ASSUME NEW ch \in Channels PROVE Supply(ch, c, P2, r) = Supply(ch, c, P, r)
  <2>1. CASE Producer(ch) = p
    <3>1. ch[1] \in PutKinds(p) /\ ch[2] = p[2]
      BY <2>1, OutEnds DEF OutLink
    <3>2. /\ Supply(ch, c, P, r) = PutsLeft(ch[1], s, T)
          /\ Supply(ch, c, P2, r) = PutsLeft(ch[1], u, T)
      BY <1>2, <2>1, <3>1 DEF Supply, s, u, T
    <3>3. QED BY <1>14, <3>1, <3>2
  <2>2. CASE Producer(ch) # p
    BY <1>10, <2>2 DEF Supply
  <2>3. QED BY <2>1, <2>2
<1>17. ASSUME NEW ch \in Channels, ch # x PROVE Demand(ch, c, P2, r) = Demand(ch, c, P, r)
  <2>1. CASE Consumer(ch) = p
    <3>1. ch = InLink(p, ch[1]) /\ ch[1] \in TakeKinds(p) /\ ch[2] = p[2]
      BY <2>1, InEnds DEF InLink
    <3>2. ch[1] \in MoveKinds(p)
      BY <1>9, <1>17, <3>1 DEF TakeKinds, k0
    <3>3. /\ Demand(ch, c, P, r) = TakesLeft(ch[1], s, T)
          /\ Demand(ch, c, P2, r) = TakesLeft(ch[1], u, T)
      BY <1>2, <2>1, <3>1 DEF Demand, s, u, T
    <3>4. QED BY <1>14, <3>2, <3>3
  <2>2. CASE Consumer(ch) # p
    BY <1>10, <2>2 DEF Demand
  <2>3. QED BY <2>1, <2>2
<1>18. ASSUME NEW ch \in Channels
       PROVE  Even(Q2[ch], Supply(ch, c, P2, r), Demand(ch, c, P2, r))
  <2>1. CASE ch = x
    <3>1. Even(Q[x], Supply(x, c, P2, r), TakesLeft(k0, s, T)) /\ Q[x] # Nil
      BY <1>9, <1>10, <1>11, <1>16
    <3>2. SeqOf(TakesLeft(k0, u, T), Items)
      BY <1>8, <1>14, LeftSeq
    <3>3. Even(Tail(Q[x]), Supply(x, c, P2, r), TakesLeft(k0, u, T))
      BY <1>14, <3>1, <3>2, TakeKeepsEven
    <3>4. QED BY <1>11, <2>1, <3>3
  <2>2. CASE ch # x
    BY <1>10, <1>16, <1>17, <2>2
  <2>3. QED BY <2>1, <2>2
<1>19. s.fetched \in 0..(Len(T) - 1)
  BY <1>1, <1>3, <1>4 DEF Sound
<1>20. QED BY <1>1, <1>13, <1>15, <1>18, <1>19 DEF Balanced, AllSound, AllEven, s, T

(* When everyone has finished, every FIFO is empty.                          *)
LEMMA DrainedWhenDone ==
    ASSUME NEW r, NEW c, NEW P, NEW Q, Balanced(c, P, Q, r), c.next = 0,
           \A p \in Procs : ~P[p].on /\ P[p].todo = Nil, NEW ch \in Channels
    PROVE  Q[ch] = Nil
<1> DEFINE S == ScriptOf[r]
<1>1. CtlSound(c, S) /\ Even(Q[ch], Supply(ch, c, P, r), Demand(ch, c, P, r))
  BY DEF Balanced, AllSound, AllEven
<1>2. /\ Producer(ch) \in Procs \cup {Ctl} /\ Consumer(ch) \in Procs \cup {Ctl}
  BY TwoEnds
<1>3. \A h : FlatMap(Nil, h) = Nil
  BY FlatNil
<1>4. c.emit = Nil /\ c.collect = Nil /\ BlocksLeft(c, S) = Nil
  BY <1>1 DEF CtlSound, BlocksLeft
<1>5. EmitLeft(c, S) = Nil /\ CollectLeft(c, S) = Nil
  BY <1>3, <1>4, NilNil DEF EmitLeft, CollectLeft, Emits, Collects
<1>6. ASSUME NEW p \in Procs, NEW k, NEW e, Sound(p, P[p], TasksOf(r)[e])
      PROVE  PutsLeft(k, P[p], TasksOf(r)[e]) = Nil /\ TakesLeft(k, P[p], TasksOf(r)[e]) = Nil
  <2> DEFINE T == TasksOf(r)[e]
  <2>1. SeqOf(T, Tasks) /\ P[p].fetched \in 0..Len(T) /\ ~(P[p].fetched < Len(T))
    BY <1>6 DEF Sound
  <2>2. Len(T) \in Nat
    BY <2>1, SeqFacts
  <2>3. P[p].fetched = Len(T)
    BY <2>1, <2>2
  <2>4. Rest(T, P[p].fetched) = Nil
    BY <2>1, <2>3, RestFacts
  <2>5. QED BY <1>3, <2>4, NilNil DEF PutsLeft, TakesLeft
<1>7. \A p \in Procs : Sound(p, P[p], TasksOf(r)[p[2]])
  BY DEF Balanced, AllSound
<1>8. Supply(ch, c, P, r) = Nil
  <2>1. CASE Producer(ch) = Ctl
    BY <1>3, <1>5, <2>1 DEF Supply, CtlPuts
  <2>2. CASE Producer(ch) # Ctl
    <3>1. Producer(ch) \in Procs
      BY <1>2, <2>2
    <3>2. Producer(ch)[2] = ch[2]
      <4>1. ch = OutLink(Producer(ch), ch[1])
        BY <3>1, OutEnds
      <4>2. QED BY <4>1 DEF OutLink
    <3>3. QED BY <1>6, <1>7, <2>2, <3>1, <3>2 DEF Supply
  <2>3. QED BY <2>1, <2>2
<1>9. Demand(ch, c, P, r) = Nil
  <2>1. CASE Consumer(ch) = Ctl
    BY <1>3, <1>5, <2>1 DEF Demand, CtlTakes
  <2>2. CASE Consumer(ch) # Ctl
    <3>1. Consumer(ch) \in Procs
      BY <1>2, <2>2
    <3>2. Consumer(ch)[2] = ch[2]
      <4>1. ch = InLink(Consumer(ch), ch[1])
        BY <3>1, InEnds
      <4>2. QED BY <4>1 DEF InLink
    <3>3. QED BY <1>6, <1>7, <2>2, <3>1, <3>2 DEF Demand
  <2>3. QED BY <2>1, <2>2
<1>10. SeqOf(Q[ch], Items) /\ Join(Q[ch], Nil) = Nil
  BY <1>1, <1>8, <1>9 DEF Even
<1>11. QED BY <1>10, JoinNil

-----------------------------------------------------------------------------
(* The inductive invariant.                                                 *)

CtlStates == [next : Nat, emit : Seq(EmitOps), collect : Seq(CollectOps)]
ProcStates == [todo : Seq(Ops), on : BOOLEAN, fetched : Nat]

(* The values of the variables.                                              *)
SessionTypes ==
    /\ phase \in {"idle", "kernels", "sink"}
    /\ req \in Requests
    /\ ctl \in CtlStates
    /\ proc \in [Procs -> ProcStates]
    /\ chan \in [Channels -> Seq(Items)]

(* While the kernels run, every FIFO holds what lies between its ends; else  *)
(* every process has stopped and every FIFO is empty.                        *)
Working == phase = "kernels" => Balanced(ctl, proc, chan, req)
Resting ==
    phase # "kernels" =>
        /\ ctl = IdleController
        /\ \A p \in Procs : ~proc[p].on /\ proc[p].todo = Nil
        /\ \A ch \in Channels : chan[ch] = Nil
(* The status FIFO holds one packet from the controller's end to the sink's. *)
StatusHeld ==
    status = IF phase = "sink" \/ (phase = "kernels" /\ ctl.next = 0)
             THEN One(StatusPacket(req)) ELSE Nil
SessionInv == SessionTypes /\ Working /\ Resting /\ StatusHeld

(* The invariant holds at the start.                                         *)
LEMMA InitSession == Init => SessionInv
<1> SUFFICES ASSUME Init PROVE SessionInv
  OBVIOUS
<1>1. IdleController \in CtlStates /\ Stopped \in ProcStates
  BY DEF IdleController, CtlStates, Stopped, ProcStates
<1>2. SessionTypes
  BY <1>1 DEF Init, SessionTypes
<1>3. QED BY <1>2 DEF Init, SessionInv, Working, Resting, StatusHeld, Stopped, Nil

(* What the types say of the records the actions change.                     *)
LEMMA TypeFacts ==
    ASSUME SessionTypes
    PROVE  /\ ctl.next \in Nat /\ SeqOf(ctl.emit, EmitOps) /\ SeqOf(ctl.collect, CollectOps)
           /\ ctl = [next |-> ctl.next, emit |-> ctl.emit, collect |-> ctl.collect]
           /\ \A p \in Procs : /\ SeqOf(proc[p].todo, Ops) /\ proc[p].on \in BOOLEAN
                               /\ proc[p].fetched \in Nat
                               /\ proc[p] = [todo |-> proc[p].todo, on |-> proc[p].on,
                                             fetched |-> proc[p].fetched]
           /\ \A ch \in Channels : SeqOf(chan[ch], Items)
BY DEF SessionTypes, CtlStates, ProcStates, SeqOf

(* Launch preserves the invariant.                                           *)
LEMMA LaunchSession ==
    ASSUME SessionInv, NEW r \in Requests, Launch(r)
    PROVE  SessionInv'
<1>1. /\ phase = "idle" /\ phase' = "kernels" /\ req' = r /\ chan' = chan /\ status' = status
      /\ ctl' = [next |-> 1, emit |-> Nil, collect |-> Nil]
      /\ proc' = [p \in Procs |-> Started]
  BY DEF Launch, IdleController, Nil
<1>2. Started \in ProcStates /\ ctl' \in CtlStates
  BY <1>1 DEF Started, ProcStates, CtlStates, Nil
<1>3. SessionTypes'
  BY <1>1, <1>2 DEF SessionInv, SessionTypes
<1>4. \A p \in Procs : proc'[p].todo = Nil /\ proc'[p].on = TRUE /\ proc'[p].fetched = 0
  BY <1>1 DEF Started, Nil
<1>5. \A ch \in Channels : chan'[ch] = Nil
  BY <1>1 DEF SessionInv, Resting
<1>6. ctl'.next = 1 /\ ctl'.emit = Nil /\ ctl'.collect = Nil
  BY <1>1
<1>7. Balanced(ctl', proc', chan', r)
  BY <1>4, <1>5, <1>6, LaunchBalanced
<1>8. Working' /\ Resting'
  BY <1>1, <1>7 DEF Working, Resting
<1>9. StatusHeld'
  BY <1>1, <1>6 DEF SessionInv, StatusHeld
<1>10. QED BY <1>3, <1>8, <1>9 DEF SessionInv

(* Nobody but the host acts between launches.                                *)
LEMMA OnlyKernels ==
    ASSUME SessionInv
    PROVE  /\ ctl.next # 0 \/ ctl.emit # Nil \/ ctl.collect # Nil => phase = "kernels"
           /\ \A p \in Procs : proc[p].on \/ proc[p].todo # Nil => phase = "kernels"
BY DEF SessionInv, Resting, IdleController, Nil

(* A controller with something left in its block has not left its program.   *)
LEMMA StillRunning ==
    ASSUME SessionInv, ctl.emit # Nil \/ ctl.collect # Nil
    PROVE  phase = "kernels" /\ ctl.next # 0
<1>1. phase = "kernels"
  BY OnlyKernels
<1>2. CtlSound(ctl, ScriptOf[req])
  BY <1>1 DEF SessionInv, Working, Balanced, AllSound
<1>3. QED BY <1>1, <1>2 DEF CtlSound

(* EnterBlock preserves it.                                                  *)
LEMMA EnterSession ==
    ASSUME SessionInv, EnterBlock
    PROVE  SessionInv'
<1> DEFINE S == ScriptOf[req]
           b == S[ctl.next]
<1>1. /\ ctl.next # 0 /\ ctl.emit = Nil /\ ctl.collect = Nil /\ ctl.next <= Len(S)
      /\ ctl' = [next |-> ctl.next + 1, emit |-> b.emit, collect |-> b.collect]
      /\ phase' = phase /\ req' = req /\ proc' = proc /\ chan' = chan /\ status' = status
  BY DEF EnterBlock, ControllerRunning, BlockDone, Nil
<1>2. phase = "kernels" /\ Balanced(ctl, proc, chan, req)
  BY <1>1, OnlyKernels DEF SessionInv, Working
<1>3. /\ ctl'.next = ctl.next + 1 /\ ctl'.emit = b.emit /\ ctl'.collect = b.collect
  BY <1>1
<1>4. CtlSound(ctl, S)
  BY <1>2 DEF Balanced, AllSound
<1> HIDE DEF S, b
<1>5. /\ CtlSound(ctl', S) /\ EmitLeft(ctl', S) = EmitLeft(ctl, S)
      /\ CollectLeft(ctl', S) = CollectLeft(ctl, S)
  BY <1>1, <1>3, <1>4, EnterLeft DEF b
<1>6. Balanced(ctl', proc', chan', req')
  BY <1>1, <1>2, <1>5, CtlQuiet DEF S
<1>7. ctl.next \in Nat /\ ctl'.next # 0 /\ ctl'.next \in Nat
  BY <1>3, TypeFacts DEF SessionInv
<1>8. ctl' \in CtlStates
  BY <1>1, <1>3, <1>5, <1>7 DEF CtlSound, SeqOf, CtlStates
<1>9. SessionTypes'
  BY <1>1, <1>8 DEF SessionInv, SessionTypes
<1>10. Working' /\ Resting'
  BY <1>1, <1>2, <1>6 DEF Working, Resting
<1>11. StatusHeld'
  BY <1>1, <1>2, <1>7 DEF SessionInv, StatusHeld
<1>12. QED BY <1>9, <1>10, <1>11 DEF SessionInv

(* Emit preserves it.                                                        *)
LEMMA EmitSession ==
    ASSUME SessionInv, Emit
    PROVE  SessionInv'
<1> DEFINE o == Head(ctl.emit)
           x == <<o.kind, o.core, 0>>
<1>1. /\ ctl.emit # Nil /\ ctl' = [ctl EXCEPT !.emit = Tail(ctl.emit)]
      /\ chan' = [chan EXCEPT ![x] = Append(chan[x], o.word)]
      /\ phase' = phase /\ req' = req /\ proc' = proc /\ status' = status
  BY DEF Emit, Nil
<1>2. phase = "kernels" /\ ctl.next # 0 /\ Balanced(ctl, proc, chan, req)
  BY <1>1, StillRunning DEF SessionInv, Working
<1>3. ctl'.emit = Tail(ctl.emit) /\ ctl'.next = ctl.next /\ ctl'.collect = ctl.collect
      /\ ctl' = [next |-> ctl'.next, emit |-> ctl'.emit, collect |-> ctl'.collect]
  BY <1>1, TypeFacts DEF SessionInv
<1>4. o \in EmitOps /\ SeqOf(Tail(ctl.emit), EmitOps) /\ SeqOf(ctl.collect, CollectOps)
      /\ ctl.next \in Nat
  BY <1>1, TypeFacts, HeadTail DEF SessionInv
<1> HIDE DEF o
<1>5. o.kind \in SendKinds /\ o.core \in Cores /\ o.word \in Items
  BY <1>4 DEF EmitOps
<1>6. x \in Channels
  BY <1>5, CtlEnds
<1> HIDE DEF x
<1>7. chan \in [Channels -> Seq(Items)] /\ SeqOf(Append(chan[x], o.word), Items)
  BY <1>5, <1>6, TypeFacts, AppendJoin DEF SessionInv, SessionTypes
<1>8. chan'[x] = Append(chan[x], o.word) /\ \A ch \in Channels : ch # x => chan'[ch] = chan[ch]
  BY <1>1, <1>6, <1>7
<1>9. Balanced(ctl', proc', chan', req')
  <2>1. x = <<Head(ctl.emit).kind, Head(ctl.emit).core, 0>>
    BY DEF x, o
  <2>2. chan'[x] = Append(chan[x], Head(ctl.emit).word)
    BY <1>8 DEF o
  <2>3. Emitted(ctl, ctl', chan, chan', x)
    BY <1>1, <1>3, <1>8, <2>1, <2>2 DEF Emitted
  <2>4. Balanced(ctl', proc, chan', req)
    BY <1>2, <2>3, EmitBalanced
  <2>5. QED BY <1>1, <2>4
<1>10. ctl' \in CtlStates
  BY <1>3, <1>4 DEF CtlStates, SeqOf
<1>11. chan' \in [Channels -> Seq(Items)]
  BY <1>1, <1>6, <1>7 DEF SeqOf
<1>12. SessionTypes'
  BY <1>1, <1>10, <1>11 DEF SessionInv, SessionTypes
<1>13. Working' /\ Resting'
  BY <1>1, <1>2, <1>9 DEF Working, Resting
<1>14. StatusHeld'
  BY <1>1, <1>2, <1>3 DEF SessionInv, StatusHeld
<1>15. QED BY <1>12, <1>13, <1>14 DEF SessionInv

(* What the controller reads is the word it expects.                         *)
LEMMA CollectSession ==
    ASSUME SessionInv, Collect
    PROVE  SessionInv'
<1> DEFINE o == Head(ctl.collect)
           x == <<o.kind, o.core, 0>>
<1>1. /\ ctl.collect # Nil /\ ctl' = [ctl EXCEPT !.collect = Tail(ctl.collect)]
      /\ chan[x] # Nil /\ chan' = [chan EXCEPT ![x] = Tail(chan[x])]
      /\ phase' = phase /\ req' = req /\ proc' = proc /\ status' = status
  BY DEF Collect, CanTake, Nil
<1>2. phase = "kernels" /\ ctl.next # 0 /\ Balanced(ctl, proc, chan, req)
  BY <1>1, StillRunning DEF SessionInv, Working
<1>3. ctl'.collect = Tail(ctl.collect) /\ ctl'.next = ctl.next /\ ctl'.emit = ctl.emit
      /\ ctl' = [next |-> ctl'.next, emit |-> ctl'.emit, collect |-> ctl'.collect]
  BY <1>1, TypeFacts DEF SessionInv
<1>4. o \in CollectOps /\ SeqOf(Tail(ctl.collect), CollectOps) /\ SeqOf(ctl.emit, EmitOps)
      /\ ctl.next \in Nat
  BY <1>1, TypeFacts, HeadTail DEF SessionInv
<1> HIDE DEF o
<1>5. o.kind = "out" /\ o.core \in Cores
  BY <1>4 DEF CollectOps
<1>6. x \in Channels
  BY <1>5, CtlEnds
<1> HIDE DEF x
<1>7. chan \in [Channels -> Seq(Items)] /\ SeqOf(Tail(chan[x]), Items)
  BY <1>1, <1>6, TypeFacts, HeadTail DEF SessionInv, SessionTypes
<1>8. chan'[x] = Tail(chan[x]) /\ \A ch \in Channels : ch # x => chan'[ch] = chan[ch]
  BY <1>1, <1>6, <1>7
<1>9. Balanced(ctl', proc', chan', req')
  <2>1. x = <<Head(ctl.collect).kind, Head(ctl.collect).core, 0>>
    BY DEF x, o
  <2>2. chan'[x] = Tail(chan[x])
    BY <1>8 DEF o
  <2>3. Collected(ctl, ctl', chan, chan', x)
    BY <1>1, <1>3, <1>8, <2>1, <2>2 DEF Collected
  <2>4. Balanced(ctl', proc, chan', req)
    BY <1>2, <2>3, CollectBalanced
  <2>5. QED BY <1>1, <2>4
<1>10. ctl' \in CtlStates
  BY <1>3, <1>4 DEF CtlStates, SeqOf
<1>11. chan' \in [Channels -> Seq(Items)]
  BY <1>1, <1>6, <1>7 DEF SeqOf
<1>12. SessionTypes'
  BY <1>1, <1>10, <1>11 DEF SessionInv, SessionTypes
<1>13. Working' /\ Resting'
  BY <1>1, <1>2, <1>9 DEF Working, Resting
<1>14. StatusHeld'
  BY <1>1, <1>2, <1>3 DEF SessionInv, StatusHeld
<1>15. QED BY <1>12, <1>13, <1>14 DEF SessionInv

(* Appending to, and emptying, a FIFO of at most one packet.                 *)
LEMMA AppendNil == ASSUME NEW a PROVE Append(Nil, a) = One(a) /\ Tail(One(a)) = Nil
BY DEF Nil, One

(* SendStatus preserves the invariant.                                       *)
LEMMA SendSession ==
    ASSUME SessionInv, SendStatus
    PROVE  SessionInv'
<1> DEFINE S == ScriptOf[req]
<1>1. /\ ctl.next # 0 /\ ctl.emit = Nil /\ ctl.collect = Nil /\ ctl.next > Len(S)
      /\ ctl' = [next |-> 0, emit |-> Nil, collect |-> Nil]
      /\ status' = Append(status, StatusPacket(req))
      /\ phase' = phase /\ req' = req /\ proc' = proc /\ chan' = chan
  BY DEF SendStatus, ControllerRunning, BlockDone, IdleController, Nil
<1>2. phase = "kernels" /\ Balanced(ctl, proc, chan, req)
  BY <1>1, OnlyKernels DEF SessionInv, Working
<1>3. /\ ctl'.next = 0 /\ ctl'.emit = Nil /\ ctl'.collect = Nil
  BY <1>1
<1>4. CtlSound(ctl, S)
  BY <1>2 DEF Balanced, AllSound
<1> HIDE DEF S
<1>5. /\ CtlSound(ctl', S) /\ EmitLeft(ctl', S) = EmitLeft(ctl, S)
      /\ CollectLeft(ctl', S) = CollectLeft(ctl, S)
  BY <1>1, <1>3, <1>4, LeaveLeft
<1>6. Balanced(ctl', proc', chan', req')
  <2>1. Balanced(ctl', proc, chan, req)
    BY <1>2, <1>5, CtlQuiet DEF S
  <2>2. QED BY <1>1, <2>1
<1>7. ctl' \in CtlStates
  BY <1>1 DEF CtlStates, Nil
<1>8. SessionTypes'
  BY <1>1, <1>7 DEF SessionInv, SessionTypes
<1>9. Working' /\ Resting'
  BY <1>1, <1>2, <1>6 DEF Working, Resting
<1>10. StatusHeld'
  <2>1. status = Nil
    BY <1>1, <1>2 DEF SessionInv, StatusHeld
  <2>2. status' = One(StatusPacket(req))
    BY <1>1, <2>1, AppendNil
  <2>3. QED BY <1>1, <1>2, <1>3, <2>2 DEF StatusHeld
<1>11. QED BY <1>8, <1>9, <1>10 DEF SessionInv

(* One process's state changes.                                              *)
LEMMA OneChanges ==
    ASSUME NEW P \in [Procs -> ProcStates], NEW p \in Procs, NEW u, NEW P2,
           P2 = [P EXCEPT ![p] = u]
    PROVE  P2[p] = u /\ OnlyOne(p, P, P2) /\ (u \in ProcStates => P2 \in [Procs -> ProcStates])
BY DEF OnlyOne

(* A process's state with another program.                                   *)
LEMMA SetTodo ==
    ASSUME NEW s \in ProcStates, NEW v
    PROVE  [s EXCEPT !.todo = v] = [todo |-> v, on |-> s.on, fetched |-> s.fetched]
BY DEF ProcStates

(* A process's task FIFO is one of its links.                                *)
LEMMA TaskSources ==
    ASSUME NEW p \in Procs
    PROVE  TaskSource(p) = InLink(p, TaskKind(p)) /\ TaskSource(p) \in Channels
<1>1. TaskSource(p) = InLink(p, TaskKind(p))
  BY ProcShape DEF TaskSource, InLink, TaskKind
<1>2. QED BY <1>1, KindFacts, InEnds

(* Fetch preserves the invariant.                                            *)
LEMMA FetchSession ==
    ASSUME SessionInv, NEW p \in Procs, Fetch(p)
    PROVE  SessionInv'
<1> DEFINE x == TaskSource(p)
           t == Head(chan[x])
           u == [todo |-> Program(p, t),
                 on |-> ~EndsSession(t) /\ proc[p].fetched + 1 < MaxTasks,
                 fetched |-> proc[p].fetched + 1]
<1>1. /\ proc[p].on /\ proc[p].todo = Nil /\ chan[x] # Nil
      /\ proc' = [proc EXCEPT ![p] = u] /\ chan' = [chan EXCEPT ![x] = Tail(chan[x])]
      /\ phase' = phase /\ req' = req /\ ctl' = ctl /\ status' = status
  BY DEF Fetch, CanTake, Nil
<1>2. x = InLink(p, TaskKind(p)) /\ x \in Channels
  BY TaskSources
<1>3. /\ u.todo = Program(p, t) /\ u.fetched = proc[p].fetched + 1
      /\ u.on = (~EndsSession(t) /\ proc[p].fetched + 1 < MaxTasks)
      /\ u = [todo |-> u.todo, on |-> u.on, fetched |-> u.fetched] /\ u.on \in BOOLEAN
  OBVIOUS
<1>4. t = Head(chan[x])
  OBVIOUS
<1> HIDE DEF u, x, t
<1>5. phase = "kernels" /\ Balanced(ctl, proc, chan, req) /\ req \in Requests
  BY <1>1, OnlyKernels DEF SessionInv, Working, SessionTypes
<1>6. /\ proc \in [Procs -> ProcStates] /\ chan \in [Channels -> Seq(Items)]
      /\ SeqOf(Tail(chan[x]), Items) /\ proc[p].fetched \in Nat
  BY <1>1, <1>2, TypeFacts, HeadTail DEF SessionInv, SessionTypes
<1>7. proc'[p] = u /\ OnlyOne(p, proc, proc')
  BY <1>1, <1>6, OneChanges
<1>8. chan'[x] = Tail(chan[x]) /\ \A ch \in Channels : ch # x => chan'[ch] = chan[ch]
  BY <1>1, <1>2, <1>6
<1>9. Fetched(p, t, proc[p], proc'[p], chan, chan', x)
  BY <1>1, <1>2, <1>3, <1>4, <1>7, <1>8 DEF Fetched
<1>10. Balanced(ctl, proc', chan', req)
  BY <1>5, <1>7, <1>9, FetchBalanced
<1>11. u \in ProcStates
  <2>1. SeqOf(u.todo, Ops)
    BY <1>7, <1>10 DEF Balanced, AllSound, Sound
  <2>2. u.fetched \in Nat
    BY <1>3, <1>6
  <2>3. QED BY <1>3, <2>1, <2>2 DEF ProcStates, SeqOf
<1>12. proc' \in [Procs -> ProcStates]
  BY <1>1, <1>6, <1>11, OneChanges
<1>13. chan' \in [Channels -> Seq(Items)]
  BY <1>1, <1>2, <1>6 DEF SeqOf
<1>14. SessionTypes'
  BY <1>1, <1>12, <1>13 DEF SessionInv, SessionTypes
<1>15. Working' /\ Resting'
  <2>1. Balanced(ctl', proc', chan', req')
    BY <1>1, <1>10
  <2>2. QED BY <1>1, <1>5, <2>1 DEF Working, Resting
<1>16. StatusHeld'
  BY <1>1 DEF SessionInv, StatusHeld
<1>17. QED BY <1>14, <1>15, <1>16 DEF SessionInv

(* Step preserves it.                                                        *)
LEMMA StepSession ==
    ASSUME SessionInv, NEW p \in Procs, Step(p)
    PROVE  SessionInv'
<1> DEFINE o == Head(proc[p].todo)
           src == Source(p, o)
           dst == Target(p, o)
           s == proc[p]
           u == [todo |-> Tail(s.todo), on |-> s.on, fetched |-> s.fetched]
<1>1. /\ s.todo # Nil /\ proc' = [proc EXCEPT ![p] = u]
      /\ Takes(o) => CanTake(src)
      /\ Puts(o) => CanPut(dst)
      /\ chan' = CASE o.do = "take" -> [chan EXCEPT ![src] = Tail(chan[src])]
                   [] o.do = "put" -> [chan EXCEPT ![dst] = Append(chan[dst], o.word)]
                   [] o.do = "move" -> [chan EXCEPT ![src] = Tail(chan[src]),
                                              ![dst] = Append(@, Head(chan[src]))]
      /\ phase' = phase /\ req' = req /\ ctl' = ctl /\ status' = status
  <2>1. [proc EXCEPT ![p].todo = Tail(@)] = [proc EXCEPT ![p] = [s EXCEPT !.todo = Tail(s.todo)]]
    OBVIOUS
  <2>2. [s EXCEPT !.todo = Tail(s.todo)] = u
    BY SetTodo DEF SessionInv, SessionTypes
  <2>3. QED BY <2>1, <2>2 DEF Step, Nil
<1>2. src = InLink(p, o.kind) /\ dst = OutLink(p, o.kind)
  BY DEF Source, Target, InLink, OutLink
<1>3. phase = "kernels" /\ Balanced(ctl, proc, chan, req)
  BY <1>1, OnlyKernels DEF SessionInv, Working
<1>4. /\ o \in Ops /\ o.word \in Items /\ o.kind \in Kinds /\ o.do \in {"take", "put", "move"}
      /\ o.do # "take" => o.kind \in PutKinds(p)
      /\ o.do # "put" => o.kind \in TakeKinds(p)
  <2>1. Sound(p, s, TasksOf(req)[p[2]])
    BY <1>3 DEF Balanced, AllSound
  <2>2. QED BY <1>1, <2>1, OpLinks
<1>5. /\ s = [todo |-> s.todo, on |-> s.on, fetched |-> s.fetched] /\ SeqOf(s.todo, Ops)
      /\ s.on \in BOOLEAN /\ s.fetched \in Nat
  BY TypeFacts DEF SessionInv
<1>6. u.todo = Tail(s.todo) /\ u.on = s.on /\ u.fetched = s.fetched
      /\ u = [todo |-> u.todo, on |-> u.on, fetched |-> u.fetched]
  OBVIOUS
<1>7. o = Head(s.todo)
  OBVIOUS
<1> HIDE DEF o, src, dst, s, u
<1>8. /\ o.do # "take" => dst \in Channels /\ Producer(dst) = p
      /\ o.do # "put" => src \in Channels /\ Consumer(src) = p
  BY <1>2, <1>4, OutEnds, InEnds
<1>9. o.do = "move" => src # dst
  BY <1>8, TwoEnds
<1>10. o.do # "put" => chan[src] # Nil
  BY <1>1, <1>4 DEF Takes, CanTake, Nil
<1>11. chan \in [Channels -> Seq(Items)] /\ proc \in [Procs -> ProcStates]
  BY DEF SessionInv, SessionTypes
<1>12. o.do # "put" => SeqOf(Tail(chan[src]), Items) /\ Head(chan[src]) \in Items
  BY <1>8, <1>10, TypeFacts, HeadTail DEF SessionInv
<1>13. o.do # "take" => \A w \in Items : SeqOf(Append(chan[dst], w), Items)
  BY <1>8, TypeFacts, AppendJoin DEF SessionInv
<1>14. /\ chan' \in [Channels -> Seq(Items)]
       /\ o.do # "put" => chan'[src] = IF o.do = "move" /\ src = dst THEN chan'[src] ELSE Tail(chan[src])
       /\ o.do # "take" => chan'[dst] = Append(chan[dst], IF o.do = "put" THEN o.word ELSE Head(chan[src]))
       /\ \A ch \in Channels : ~(ch = src /\ o.do # "put") /\ ~(ch = dst /\ o.do # "take")
                                 => chan'[ch] = chan[ch]
  <2>1. CASE o.do = "take"
    <3>1. chan' = [chan EXCEPT ![src] = Tail(chan[src])]
      BY <1>1, <2>1
    <3>2. QED BY <1>8, <1>11, <1>12, <2>1, <3>1 DEF SeqOf
  <2>2. CASE o.do = "put"
    <3>1. chan' = [chan EXCEPT ![dst] = Append(chan[dst], o.word)]
      BY <1>1, <2>2
    <3>2. Append(chan[dst], o.word) \in Seq(Items)
      BY <1>4, <1>13, <2>2 DEF SeqOf
    <3>3. QED BY <1>8, <1>11, <2>2, <3>1, <3>2
  <2>3. CASE o.do = "move"
    <3>1. chan' = [chan EXCEPT ![src] = Tail(chan[src]), ![dst] = Append(@, Head(chan[src]))]
      BY <1>1, <2>3
    <3>2. Append(chan[dst], Head(chan[src])) \in Seq(Items) /\ Tail(chan[src]) \in Seq(Items)
      BY <1>12, <1>13, <2>3 DEF SeqOf
    <3> DEFINE q == [chan EXCEPT ![src] = Tail(chan[src])]
    <3>3. q[dst] = chan[dst] /\ chan' = [q EXCEPT ![dst] = Append(q[dst], Head(chan[src]))]
      BY <1>8, <1>9, <1>11, <2>3, <3>1
    <3>4. q \in [Channels -> Seq(Items)] /\ q[src] = Tail(chan[src])
          /\ \A ch \in Channels : ch # src => q[ch] = chan[ch]
      BY <1>8, <1>11, <2>3, <3>2
    <3> HIDE DEF q
    <3>5. QED BY <1>8, <1>9, <2>3, <3>2, <3>3, <3>4
  <2>4. QED BY <1>4, <2>1, <2>2, <2>3
<1>15. proc'[p] = u /\ OnlyOne(p, proc, proc')
  BY <1>1, <1>11, OneChanges
<1>16. Stepped(p, o, proc[p], proc'[p], chan, chan', src, dst)
  <2>1. Stepped(p, o, s, u, chan, chan', src, dst)
    BY <1>1, <1>2, <1>4, <1>6, <1>7, <1>9, <1>10, <1>14 DEF Stepped
  <2>2. QED BY <1>15, <2>1 DEF s
<1>17. Balanced(ctl, proc', chan', req)
  BY <1>3, <1>15, <1>16, StepBalanced
<1>18. u \in ProcStates
  <2>1. SeqOf(Tail(s.todo), Ops)
    BY <1>1, <1>5, HeadTail
  <2>2. QED BY <1>5, <1>6, <2>1 DEF ProcStates, SeqOf
<1>19. proc' \in [Procs -> ProcStates]
  BY <1>1, <1>11, <1>18, OneChanges
<1>20. SessionTypes'
  BY <1>1, <1>14, <1>19 DEF SessionInv, SessionTypes
<1>21. Working' /\ Resting'
  <2>1. Balanced(ctl', proc', chan', req')
    BY <1>1, <1>17
  <2>2. QED BY <1>1, <1>3, <2>1 DEF Working, Resting
<1>22. StatusHeld'
  BY <1>1 DEF SessionInv, StatusHeld
<1>23. QED BY <1>20, <1>21, <1>22 DEF SessionInv

(* StartSink preserves it: when all have finished, all FIFOs are empty.      *)
LEMMA SinkSession ==
    ASSUME SessionInv, StartSink
    PROVE  SessionInv'
<1>1. /\ phase = "kernels" /\ phase' = "sink" /\ ctl.next = 0
      /\ \A p \in Procs : ~proc[p].on /\ proc[p].todo = Nil
      /\ req' = req /\ ctl' = ctl /\ proc' = proc /\ chan' = chan /\ status' = status
  BY DEF StartSink, ControllerRunning, Finished, Nil
<1>2. Balanced(ctl, proc, chan, req)
  BY <1>1 DEF SessionInv, Working
<1>3. \A ch \in Channels : chan[ch] = Nil
  BY <1>1, <1>2, DrainedWhenDone
<1>4. ctl = IdleController
  <2>1. ctl.emit = Nil /\ ctl.collect = Nil
    BY <1>1, <1>2 DEF Balanced, AllSound, CtlSound
  <2>2. ctl = [next |-> ctl.next, emit |-> ctl.emit, collect |-> ctl.collect]
    BY TypeFacts DEF SessionInv
  <2>3. QED BY <1>1, <2>1, <2>2 DEF IdleController, Nil
<1>5. SessionTypes'
  BY <1>1 DEF SessionInv, SessionTypes
<1>6. Working' /\ Resting'
  BY <1>1, <1>3, <1>4 DEF Working, Resting
<1>7. StatusHeld'
  BY <1>1 DEF SessionInv, StatusHeld
<1>8. QED BY <1>5, <1>6, <1>7 DEF SessionInv

(* ReadStatus preserves it.                                                  *)
LEMMA ReadSession ==
    ASSUME SessionInv, ReadStatus
    PROVE  SessionInv'
<1>1. /\ phase = "sink" /\ phase' = "idle" /\ status' = Tail(status)
      /\ req' = req /\ ctl' = ctl /\ proc' = proc /\ chan' = chan
  BY DEF ReadStatus
<1>2. SessionTypes'
  BY <1>1 DEF SessionInv, SessionTypes
<1>3. Working' /\ Resting'
  BY <1>1 DEF SessionInv, Working, Resting
<1>4. StatusHeld'
  BY <1>1, AppendNil DEF SessionInv, StatusHeld
<1>5. QED BY <1>2, <1>3, <1>4 DEF SessionInv

(* A stuttering step preserves it.                                           *)
LEMMA StillSession == ASSUME SessionInv, UNCHANGED vars PROVE SessionInv'
BY DEF SessionInv, SessionTypes, Working, Resting, StatusHeld, vars

(* The invariant holds in every state of every session.                      *)
THEOREM SpecSession == Spec => []SessionInv
<1>1. SessionInv /\ [Next]_vars => SessionInv'
  <2>1. SUFFICES ASSUME SessionInv, [Next]_vars PROVE SessionInv'
    OBVIOUS
  <2>2. CASE \E r \in Requests : Launch(r)
    BY <2>1, <2>2, LaunchSession
  <2>3. CASE EnterBlock
    BY <2>1, <2>3, EnterSession
  <2>4. CASE Emit
    BY <2>1, <2>4, EmitSession
  <2>5. CASE Collect
    BY <2>1, <2>5, CollectSession
  <2>6. CASE SendStatus
    BY <2>1, <2>6, SendSession
  <2>7. CASE \E p \in Procs : Fetch(p)
    BY <2>1, <2>7, FetchSession
  <2>8. CASE \E p \in Procs : Step(p)
    BY <2>1, <2>8, StepSession
  <2>9. CASE StartSink
    BY <2>1, <2>9, SinkSession
  <2>10. CASE ReadStatus
    BY <2>1, <2>10, ReadSession
  <2>11. CASE UNCHANGED vars
    BY <2>1, <2>11, StillSession
  <2>12. QED BY <2>1, <2>2, <2>3, <2>4, <2>5, <2>6, <2>7, <2>8, <2>9, <2>10, <2>11 DEF Next
<1>2. QED BY InitSession, <1>1, PTL DEF Spec

-----------------------------------------------------------------------------
(* The properties.                                                          *)

(* The first word on a FIFO is the one the process at its end is to take.    *)
LEMMA TakenWord ==
    ASSUME NEW r, NEW c, NEW P, NEW Q, Balanced(c, P, Q, r), NEW p \in Procs, P[p].todo # Nil,
           NEW o, o = Head(P[p].todo), o.do # "put", NEW src, src = InLink(p, o.kind), Q[src] # Nil
    PROVE  Head(Q[src]) = o.word
<1> DEFINE T == TasksOf(r)[p[2]]
           s == P[p]
           u == [todo |-> Tail(s.todo), on |-> s.on, fetched |-> s.fetched]
<1>1. Sound(p, s, T)
  BY DEF Balanced, AllSound
<1>2. s.todo # Nil /\ u.todo = Tail(s.todo) /\ u.on = s.on /\ u.fetched = s.fetched /\ o = Head(s.todo)
  OBVIOUS
<1> HIDE DEF s, u, T
<1>3. /\ o.word \in Items /\ o.kind \in Kinds /\ o.kind \in TakeKinds(p)
      /\ TakeOf(o.kind)[o] = One(o.word)
  BY <1>1, <1>2, OpLinks
<1>4. TakesLeft(o.kind, s, T) = Join(One(o.word), TakesLeft(o.kind, u, T))
  BY <1>1, <1>2, <1>3, StepOne
<1>5. SeqOf(TakesLeft(o.kind, u, T), Items)
  <2>1. Sound(p, u, T)
    BY <1>1, <1>2, StepLeft
  <2>2. QED BY <1>3, <2>1, LeftSeq
<1>6. src \in Channels /\ Consumer(src) = p /\ src[1] = o.kind /\ src[2] = p[2] /\ p # Ctl
  BY <1>3, InEnds, ProcShape DEF InLink
<1>7. Even(Q[src], Supply(src, c, P, r), TakesLeft(o.kind, s, T))
  <2>1. Even(Q[src], Supply(src, c, P, r), Demand(src, c, P, r))
    BY <1>6 DEF Balanced, AllEven
  <2>2. QED BY <1>6, <2>1 DEF Demand, s, T
<1>8. QED BY <1>3, <1>4, <1>5, <1>7, TakeKeepsEven

(* A forwarder or core takes only words of the task, wave and index its      *)
(* program is at: the controller's emitting loops, the packers and the cores *)
(* agree on the order of every operand stream, in every interleaving.        *)
THEOREM OperandsStayInOrder == Spec => []OperandsInOrder
<1>1. SessionInv => OperandsInOrder
  <2>1. SUFFICES ASSUME SessionInv PROVE OperandsInOrder
    OBVIOUS
  <2>2. SUFFICES ASSUME NEW p \in Procs, proc[p].todo # Nil, Takes(Head(proc[p].todo)),
                        CanTake(Source(p, Head(proc[p].todo)))
                 PROVE  Head(chan[Source(p, Head(proc[p].todo))]) = Head(proc[p].todo).word
    BY DEF OperandsInOrder, Nil
  <2> DEFINE o == Head(proc[p].todo)
             src == Source(p, o)
  <2>3. phase = "kernels" /\ Balanced(ctl, proc, chan, req)
    BY <2>1, <2>2, OnlyKernels DEF SessionInv, Working
  <2>4. o.do # "put" /\ src = InLink(p, o.kind) /\ chan[src] # Nil
    BY <2>2 DEF Takes, CanTake, Source, InLink, Nil
  <2>5. o = Head(proc[p].todo)
    OBVIOUS
  <2> HIDE DEF o, src
  <2>6. Head(chan[src]) = o.word
    BY <2>2, <2>3, <2>4, <2>5, TakenWord
  <2>7. QED BY <2>6 DEF o, src
<1>2. QED BY SpecSession, <1>1, PTL

(* The controller reads, in each exchange, the results of that exchange and  *)
(* of no other.                                                              *)
THEOREM ResultsReachTheirExchange == Spec => []ResultsToTheirExchange
<1>1. SessionInv => ResultsToTheirExchange
  <2>1. SUFFICES ASSUME SessionInv, ctl.collect # Nil PROVE ResultsToTheirExchange
    BY DEF ResultsToTheirExchange, Nil
  <2> DEFINE o == Head(ctl.collect)
             x == <<"out", o.core, 0>>
             d == [next |-> ctl.next, emit |-> ctl.emit, collect |-> Tail(ctl.collect)]
             Q == [chan EXCEPT ![x] = Tail(chan[x])]
  <2>2. SUFFICES ASSUME chan[x] # Nil PROVE Head(chan[x]) = o.word
    BY DEF ResultsToTheirExchange, Nil
  <2>3. phase = "kernels" /\ Balanced(ctl, proc, chan, req)
    BY <2>1, StillRunning DEF SessionInv, Working
  <2>4. o \in CollectOps
    BY <2>1, TypeFacts, HeadTail DEF SessionInv
  <2>5. o.kind = "out" /\ o.core \in Cores
    BY <2>4 DEF CollectOps
  <2>6. x \in Channels
    BY <2>5, CtlEnds
  <2>7. d.collect = Tail(ctl.collect) /\ d.next = ctl.next /\ d.emit = ctl.emit
    OBVIOUS
  <2>8. x = <<Head(ctl.collect).kind, Head(ctl.collect).core, 0>>
    BY <2>5
  <2> HIDE DEF d, x, o
  <2>9. Q[x] = Tail(chan[x]) /\ \A ch \in Channels : ch # x => Q[ch] = chan[ch]
    BY <2>1, <2>6 DEF SessionInv, SessionTypes
  <2> HIDE DEF Q
  <2>10. Collected(ctl, d, chan, Q, x)
    BY <2>1, <2>2, <2>7, <2>8, <2>9 DEF Collected
  <2>11. QED BY <2>3, <2>10, CollectBalanced DEF o
<1>2. QED BY SpecSession, <1>1, PTL

(* When the kernels of a launch have returned, every FIFO is empty and there *)
(* is exactly one status packet until the sink has read it.                  *)
THEOREM LinksDrainBetweenLaunches == Spec => []DrainedBetweenLaunches
<1>1. SessionInv => DrainedBetweenLaunches
  <2>1. \A a : Len(One(a)) = 1 /\ Len(Nil) = 0
    BY DEF One, Nil
  <2>2. SUFFICES ASSUME SessionInv, phase # "kernels"
                 PROVE  /\ \A ch \in Channels : chan[ch] = << >>
                        /\ Len(status) = IF phase = "sink" THEN 1 ELSE 0
    BY DEF DrainedBetweenLaunches
  <2>3. \A ch \in Channels : chan[ch] = << >>
    BY <2>2 DEF SessionInv, Resting, Nil
  <2>4. status = IF phase = "sink" THEN One(StatusPacket(req)) ELSE Nil
    BY <2>2 DEF SessionInv, StatusHeld
  <2>5. QED BY <2>1, <2>3, <2>4
<1>2. QED BY SpecSession, <1>1, PTL

=============================================================================
