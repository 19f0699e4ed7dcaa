---------------------------- MODULE MerkleProofs ----------------------------
(***************************************************************************)
(* What the loops of services/shared/ledger/merkle.py compute, for leaf    *)
(* lists of every length: the root is that of the tree its leaves make, an *)
(* inclusion proof leads to it, it determines the leaves under it, and a   *)
(* proof binds its leaf.                                                   *)
(*                                                                         *)
(* The provers cannot use an induction theorem that takes an operator, so  *)
(* every induction here is over a SET of numbers (NatSetInduction), which  *)
(* is proved from the well-foundedness of the numbers.  A recursive        *)
(* function is a CHOOSE: that one exists which satisfies its equation is   *)
(* proved once, for all the loops of Merkle together (LoopExists).       *)
(***************************************************************************)
EXTENDS Merkle, WellFoundedInduction, TLAPS

(* Induction over the numbers, for a set that contains 0 and with every    *)
(* number the next one.                                                    *)
LEMMA NatSetInduction ==
  ASSUME NEW S \in SUBSET Nat, 0 \in S, \A n \in S : n + 1 \in S
  PROVE  S = Nat
<1>1. SUFFICES ASSUME Nat \ S # {} PROVE FALSE
  OBVIOUS
<1>2. PICK m \in Nat \ S : \A n \in Nat \ S : ~ (<<n, m>> \in OpToRel(<, Nat))
  <2> DEFINE T == Nat \ S
  <2>1. T \subseteq Nat /\ T # {}
    BY <1>1
  <2> HIDE DEF T
  <2>2. \E x \in T : \A y \in T : ~ (<<y, x>> \in OpToRel(<, Nat))
    BY <2>1, WFMin, NatLessThanWellFounded
  <2> QED
    BY <2>2 DEF T
<1>3. m - 1 \in Nat /\ m - 1 < m
  OBVIOUS
<1>4. m - 1 \in S
  BY <1>2, <1>3 DEF OpToRel
<1> QED
  BY <1>3, <1>4

-----------------------------------------------------------------------------
(* The recursive functions of Merkle satisfy their equations               *)

\* One turn of the loop that builds a layer, halves a position, walks a proof,
\* doubles a span, or puts smaller trees together.
Turn(loop, steps, value, j) ==
  IF loop = "layer" THEN ParentLayer(value)
  ELSE IF loop = "position" THEN value \div 2
  ELSE IF loop = "fold" THEN ApplyStep(value, steps[j])
  ELSE IF loop = "span" THEN 2 * value
  ELSE [i \in 1..Len(steps) |->
          Node(value[i], value[IF i + Span(j - 1) <= Len(steps) THEN i + Span(j - 1) ELSE i])]

\* g holds the values of the first n turns.
Unrolled(loop, steps, first, n, g) ==
  g = [k \in 0..n |-> IF k = 0 THEN first ELSE Turn(loop, steps, g[k - 1], k)]

(* Any number of turns can be unrolled.                                    *)
LEMMA UnrolledExists ==
  ASSUME NEW loop, NEW steps, NEW first
  PROVE  \A n \in Nat : \E g : Unrolled(loop, steps, first, n, g)
<1> DEFINE S == {n \in Nat : \E g : Unrolled(loop, steps, first, n, g)}
<1>1. 0 \in S
  <2>1. Unrolled(loop, steps, first, 0, [k \in 0..0 |-> first])
    BY DEF Unrolled
  <2> QED
    BY <2>1
<1>2. ASSUME NEW n \in S PROVE n + 1 \in S
  <2>1. PICK g : Unrolled(loop, steps, first, n, g)
    OBVIOUS
  <2> DEFINE h == [k \in 0..(n + 1) |->
                     IF k = n + 1 THEN Turn(loop, steps, g[n], n + 1) ELSE g[k]]
  <2>2. \A k \in 0..n :
          g[k] = IF k = 0 THEN first ELSE Turn(loop, steps, g[k - 1], k)
    BY <2>1 DEF Unrolled
  <2>3. \A k \in 0..(n + 1) :
          h[k] = IF k = 0 THEN first ELSE Turn(loop, steps, h[k - 1], k)
    BY <2>2
  <2>4. Unrolled(loop, steps, first, n + 1, h)
    BY <2>3 DEF Unrolled
  <2> QED
    BY <2>4
<1> HIDE DEF S
<1>3. S = Nat
  BY <1>1, <1>2, NatSetInduction DEF S
<1> QED
  BY <1>3 DEF S

(* Two unrollings agree as far as both go.                                 *)
LEMMA UnrolledUnique ==
  ASSUME NEW loop, NEW steps, NEW first, NEW n \in Nat, NEW m \in Nat, NEW g, NEW h,
         n <= m,
         Unrolled(loop, steps, first, n, g), Unrolled(loop, steps, first, m, h)
  PROVE  \A k \in 0..n : g[k] = h[k]
<1> DEFINE S == {k \in Nat : k <= n => g[k] = h[k]}
<1>1. /\ \A k \in 0..n : g[k] = IF k = 0 THEN first ELSE Turn(loop, steps, g[k - 1], k)
      /\ \A k \in 0..m : h[k] = IF k = 0 THEN first ELSE Turn(loop, steps, h[k - 1], k)
  BY DEF Unrolled
<1>2. 0 \in S
  BY <1>1
<1>3. ASSUME NEW k \in S PROVE k + 1 \in S
  <2>1. SUFFICES ASSUME k + 1 <= n PROVE g[k + 1] = h[k + 1]
    OBVIOUS
  <2>2. k + 1 \in 0..n /\ k + 1 \in 0..m /\ k + 1 # 0 /\ (k + 1) - 1 = k
    BY <2>1
  <2>3. g[k] = h[k]
    BY <2>1
  <2> QED
    BY <2>2, <2>3, <1>1
<1> HIDE DEF S
<1>4. S = Nat
  BY <1>2, <1>3, NatSetInduction DEF S
<1> QED
  BY <1>4 DEF S

\* f holds the value after every number of turns.
IsLoop(loop, steps, first, f) ==
  f = [j \in Nat |-> IF j = 0 THEN first ELSE Turn(loop, steps, f[j - 1], j)]

(* So each loop has a function of the number of its turns.                 *)
LEMMA LoopExists == \A loop, steps, first : \E f : IsLoop(loop, steps, first, f)
<1> SUFFICES ASSUME NEW loop, NEW steps, NEW first
             PROVE  \E f : IsLoop(loop, steps, first, f)
  OBVIOUS
<1> DEFINE Run(n) == CHOOSE g : Unrolled(loop, steps, first, n, g)
           f == [n \in Nat |-> Run(n)[n]]
<1>1. \A n \in Nat : Unrolled(loop, steps, first, n, Run(n))
  BY UnrolledExists
<1> HIDE DEF Run
<1>2. f[0] = first
  BY <1>1 DEF Unrolled
<1>3. ASSUME NEW n \in Nat, n # 0 PROVE f[n] = Turn(loop, steps, f[n - 1], n)
  <2>1. n - 1 \in Nat /\ n - 1 <= n /\ n - 1 \in 0..(n - 1) /\ n \in 0..n
    BY <1>3
  <2>2. Run(n - 1)[n - 1] = Run(n)[n - 1]
    BY <2>1, <1>1, UnrolledUnique
  <2>3. Run(n)[n] = Turn(loop, steps, Run(n)[n - 1], n)
    BY <1>1, <1>3, <2>1 DEF Unrolled
  <2> QED
    BY <2>1, <2>2, <2>3
<1>4. IsLoop(loop, steps, first, f)
  BY <1>2, <1>3 DEF IsLoop
<1> QED
  BY <1>4

(* The layers of a tree, one turn after the other.                         *)
LEMMA LayerStep ==
  ASSUME NEW s
  PROVE  /\ LayerAt(s, 0) = s
         /\ \A k \in Nat : LayerAt(s, k + 1) = ParentLayer(LayerAt(s, k))
<1> DEFINE f == CHOOSE f : f = [j \in Nat |-> IF j = 0 THEN s ELSE ParentLayer(f[j - 1])]
<1>1. f = [j \in Nat |-> IF j = 0 THEN s ELSE ParentLayer(f[j - 1])]
  <2>1. PICK g : IsLoop("layer", <<>>, s, g)
    BY LoopExists
  <2>2. \A j \in Nat : Turn("layer", <<>>, g[j - 1], j) = ParentLayer(g[j - 1])
    BY DEF Turn
  <2>3. g = [j \in Nat |-> IF j = 0 THEN s ELSE ParentLayer(g[j - 1])]
    BY <2>1, <2>2 DEF IsLoop
  <2> QED
    BY <2>3
<1>2. \A k : LayerAt(s, k) = f[k]
  BY DEF LayerAt
<1> HIDE DEF f
<1>3. f[0] = s /\ \A k \in Nat : f[k + 1] = ParentLayer(f[(k + 1) - 1])
  BY <1>1
<1> QED
  BY <1>2, <1>3

(* The position of a leaf, one turn after the other.                       *)
LEMMA PositionStep ==
  ASSUME NEW idx
  PROVE  /\ PositionAt(idx, 0) = idx
         /\ \A k \in Nat : PositionAt(idx, k + 1) = PositionAt(idx, k) \div 2
<1> DEFINE f == CHOOSE f : f = [j \in Nat |-> IF j = 0 THEN idx ELSE f[j - 1] \div 2]
<1>1. f = [j \in Nat |-> IF j = 0 THEN idx ELSE f[j - 1] \div 2]
  <2>1. PICK g : IsLoop("position", <<>>, idx, g)
    BY LoopExists
  <2>2. \A j \in Nat : Turn("position", <<>>, g[j - 1], j) = g[j - 1] \div 2
    BY DEF Turn
  <2>3. g = [j \in Nat |-> IF j = 0 THEN idx ELSE g[j - 1] \div 2]
    BY <2>1, <2>2 DEF IsLoop
  <2> QED
    BY <2>3
<1>2. \A k : PositionAt(idx, k) = f[k]
  BY DEF PositionAt
<1> HIDE DEF f
<1>3. f[0] = idx /\ \A k \in Nat : f[k + 1] = f[(k + 1) - 1] \div 2
  BY <1>1
<1> QED
  BY <1>2, <1>3

(* The digests along a proof, one step after the other.                    *)
LEMMA CurrentStep ==
  ASSUME NEW leaf, NEW steps
  PROVE  /\ CurrentAt(leaf, steps, 0) = leaf
         /\ \A k \in Nat : CurrentAt(leaf, steps, k + 1)
                             = ApplyStep(CurrentAt(leaf, steps, k), steps[k + 1])
<1> DEFINE f == CHOOSE f : f = [j \in Nat |-> IF j = 0 THEN leaf
                                              ELSE ApplyStep(f[j - 1], steps[j])]
<1>1. f = [j \in Nat |-> IF j = 0 THEN leaf ELSE ApplyStep(f[j - 1], steps[j])]
  <2>1. PICK g : IsLoop("fold", steps, leaf, g)
    BY LoopExists
  <2>2. \A j \in Nat : Turn("fold", steps, g[j - 1], j) = ApplyStep(g[j - 1], steps[j])
    BY DEF Turn
  <2>3. g = [j \in Nat |-> IF j = 0 THEN leaf ELSE ApplyStep(g[j - 1], steps[j])]
    BY <2>1, <2>2 DEF IsLoop
  <2> QED
    BY <2>3
<1>2. \A k : CurrentAt(leaf, steps, k) = f[k]
  BY DEF CurrentAt
<1> HIDE DEF f
<1>3. f[0] = leaf /\ \A k \in Nat : f[k + 1] = ApplyStep(f[(k + 1) - 1], steps[k + 1])
  BY <1>1
<1> QED
  BY <1>2, <1>3

(* The spans of trees, one height after the other.                         *)
LEMMA SpanStep == Span(0) = 1 /\ \A k \in Nat : Span(k + 1) = 2 * Span(k)
<1> DEFINE f == CHOOSE f : f = [j \in Nat |-> IF j = 0 THEN 1 ELSE 2 * f[j - 1]]
<1>1. f = [j \in Nat |-> IF j = 0 THEN 1 ELSE 2 * f[j - 1]]
  <2>1. PICK g : IsLoop("span", <<>>, 1, g)
    BY LoopExists
  <2>2. \A j \in Nat : Turn("span", <<>>, g[j - 1], j) = 2 * g[j - 1]
    BY DEF Turn
  <2>3. g = [j \in Nat |-> IF j = 0 THEN 1 ELSE 2 * g[j - 1]]
    BY <2>1, <2>2 DEF IsLoop
  <2> QED
    BY <2>3
<1>2. \A k : Span(k) = f[k]
  BY DEF Span
<1> HIDE DEF f
<1>3. f[0] = 1 /\ \A k \in Nat : f[k + 1] = 2 * f[(k + 1) - 1]
  BY <1>1
<1> QED
  BY <1>2, <1>3

\* Two trees of one height, from every leaf on, as one of the next height.
PutTogether(s, smaller, half) ==
  [i \in 1..Len(s) |-> Node(smaller[i], smaller[IF i + half <= Len(s) THEN i + half ELSE i])]

(* The trees of the reference definition, one height after the other.      *)
LEMMA TreesStep ==
  ASSUME NEW s
  PROVE  /\ TreesFrom(s, 0) = s
         /\ \A k \in Nat : TreesFrom(s, k + 1) = PutTogether(s, TreesFrom(s, k), Span(k))
<1> DEFINE f == CHOOSE f : f =
                  [j \in Nat |-> IF j = 0 THEN s
                                 ELSE LET half == Span(j - 1)
                                          smaller == f[j - 1]
                                      IN  [i \in 1..Len(s) |->
                                             Node(smaller[i], smaller[IF i + half <= Len(s)
                                                                      THEN i + half ELSE i])]]
<1>1. f = [j \in Nat |-> IF j = 0 THEN s ELSE PutTogether(s, f[j - 1], Span(j - 1))]
  <2>1. PICK g : IsLoop("trees", s, s, g)
    BY LoopExists
  <2>2. \A j \in Nat : Turn("trees", s, g[j - 1], j) = PutTogether(s, g[j - 1], Span(j - 1))
    BY DEF Turn, PutTogether
  <2>3. g = [j \in Nat |-> IF j = 0 THEN s ELSE PutTogether(s, g[j - 1], Span(j - 1))]
    BY <2>1, <2>2 DEF IsLoop
  <2>4. f = CHOOSE h : h = [j \in Nat |-> IF j = 0 THEN s
                                           ELSE PutTogether(s, h[j - 1], Span(j - 1))]
    BY DEF PutTogether
  <2> HIDE DEF f
  <2> QED
    BY <2>3, <2>4
<1>2. \A k : TreesFrom(s, k) = f[k]
  BY DEF TreesFrom
<1> HIDE DEF f
<1>3. /\ f[0] = s
      /\ \A k \in Nat : f[k + 1] = PutTogether(s, f[(k + 1) - 1], Span((k + 1) - 1))
  BY <1>1
<1>4. \A k \in Nat : (k + 1) - 1 = k
  OBVIOUS
<1> QED
  BY <1>2, <1>3, <1>4
-----------------------------------------------------------------------------
(* One layer and the next                                                  *)

\* A sequence of at least one digest.
IsLayer(L) == (\E T : L \in Seq(T)) /\ Len(L) > 0

\* The place of the right child of place i of the next layer.
RightOf(L, i) == IF 2 * i <= Len(L) THEN 2 * i ELSE 2 * i - 1

(* What the padding leaves in place and what it adds.                      *)
LEMMA PaddedShape ==
  ASSUME NEW L, IsLayer(L)
  PROVE  /\ Len(Padded(L)) \in Nat
         /\ Len(Padded(L)) = 2 * ((Len(L) + 1) \div 2)
         /\ \A i \in 1..Len(L) : Padded(L)[i] = L[i]
         /\ Len(L) % 2 = 1 => Padded(L)[Len(L) + 1] = L[Len(L)]
<1>1. PICK T : L \in Seq(T)
  BY DEF IsLayer
<1>2. Len(L) \in Nat \ {0} /\ L[Len(L)] \in T
  BY <1>1 DEF IsLayer
<1>3. CASE Len(L) % 2 = 1
  <2>1. Padded(L) = Append(L, L[Len(L)])
    BY <1>3 DEF Padded
  <2>2. Len(Append(L, L[Len(L)])) = Len(L) + 1
    BY <1>1, <1>2
  <2>3. Len(L) + 1 = 2 * ((Len(L) + 1) \div 2)
    BY <1>2, <1>3
  <2>4. \A i \in 1..(Len(L) + 1) :
          Append(L, L[Len(L)])[i] = IF i <= Len(L) THEN L[i] ELSE L[Len(L)]
    BY <1>1, <1>2
  <2>5. \A i \in 1..Len(L) : Padded(L)[i] = L[i]
    BY <2>1, <2>4, <1>2
  <2>6. Padded(L)[Len(L) + 1] = L[Len(L)]
    BY <2>1, <2>4, <1>2
  <2> QED
    BY <2>1, <2>2, <2>3, <2>5, <2>6, <1>2
<1>4. CASE Len(L) % 2 # 1
  <2>1. Padded(L) = L
    BY <1>4 DEF Padded
  <2>2. Len(L) = 2 * ((Len(L) + 1) \div 2)
    BY <1>2, <1>4
  <2> QED
    BY <2>1, <2>2, <1>2, <1>4
<1> QED
  BY <1>3, <1>4

(* Every digest of the next layer is the node of a digest and the one on   *)
(* its right, or of the last one twice.                                    *)
LEMMA ParentShape ==
  ASSUME NEW L, IsLayer(L)
  PROVE  /\ IsLayer(ParentLayer(L))
         /\ Len(ParentLayer(L)) = (Len(L) + 1) \div 2
         /\ \A i \in 1..((Len(L) + 1) \div 2) :
              /\ ParentLayer(L)[i] = Node(L[2 * i - 1], L[RightOf(L, i)])
              /\ 2 * i - 1 \in 1..Len(L) /\ RightOf(L, i) \in 1..Len(L)
<1> DEFINE m == (Len(L) + 1) \div 2
           P == [i \in 1..m |-> Node(Padded(L)[2 * i - 1], Padded(L)[2 * i])]
<1>1. Len(L) \in Nat \ {0} /\ m \in Nat \ {0}
  BY DEF IsLayer
<1>2. ParentLayer(L) = P
  <2>1. Len(Padded(L)) \div 2 = m
    BY PaddedShape, <1>1
  <2> QED
    BY <2>1 DEF ParentLayer
<1>3. P \in Seq({P[i] : i \in 1..m}) /\ Len(P) = m
  BY <1>1
<1>4. IsLayer(P)
  <2> HIDE DEF P, m
  <2>1. \E T : P \in Seq(T)
    BY <1>3
  <2> QED
    BY <2>1, <1>1, <1>3 DEF IsLayer
<1>5. ASSUME NEW i \in 1..m
      PROVE  /\ P[i] = Node(L[2 * i - 1], L[RightOf(L, i)])
             /\ 2 * i - 1 \in 1..Len(L) /\ RightOf(L, i) \in 1..Len(L)
  <2>1. 2 * i - 1 \in 1..Len(L)
    BY <1>1
  <2>2. Padded(L)[2 * i - 1] = L[2 * i - 1]
    BY <2>1, PaddedShape
  <2>3. CASE 2 * i <= Len(L)
    <3>1. 2 * i \in 1..Len(L) /\ RightOf(L, i) = 2 * i
      BY <2>3, <1>1 DEF RightOf
    <3>2. Padded(L)[2 * i] = L[2 * i]
      BY <3>1, PaddedShape
    <3> QED
      BY <3>1, <3>2, <2>1, <2>2
  <2>4. CASE ~ (2 * i <= Len(L))
    <3>1. 2 * i = Len(L) + 1 /\ Len(L) % 2 = 1 /\ RightOf(L, i) = Len(L) /\ 2 * i - 1 = Len(L)
      BY <2>4, <1>1 DEF RightOf
    <3>2. Padded(L)[2 * i] = L[Len(L)]
      BY <3>1, PaddedShape
    <3> QED
      BY <3>1, <3>2, <2>1, <2>2
  <2> QED
    BY <2>3, <2>4
<1> HIDE DEF P, m
<1>6. /\ IsLayer(P) /\ Len(P) = m
      /\ \A i \in 1..m :
           /\ P[i] = Node(L[2 * i - 1], L[RightOf(L, i)])
           /\ 2 * i - 1 \in 1..Len(L) /\ RightOf(L, i) \in 1..Len(L)
  BY <1>3, <1>4, <1>5
<1> QED
  BY <1>2, <1>6 DEF m

(* All layers are layers, and each has half the digests of the one before, *)
(* rounded up.                                                             *)
LEMMA LayerShape ==
  ASSUME NEW s, IsLayer(s)
  PROVE  \A k \in Nat : /\ IsLayer(LayerAt(s, k))
                        /\ Len(LayerAt(s, k)) \in Nat \ {0}
                        /\ Len(LayerAt(s, k + 1)) = (Len(LayerAt(s, k)) + 1) \div 2
<1> DEFINE S == {k \in Nat : IsLayer(LayerAt(s, k))}
<1>1. 0 \in S
  BY LayerStep
<1>2. ASSUME NEW k \in S PROVE k + 1 \in S
  <2>1. IsLayer(ParentLayer(LayerAt(s, k)))
    BY ParentShape
  <2>2. LayerAt(s, k + 1) = ParentLayer(LayerAt(s, k))
    BY LayerStep
  <2> QED
    BY <2>1, <2>2
<1>3. S \in SUBSET Nat
  OBVIOUS
<1> HIDE DEF S
<1>4. S = Nat
  BY <1>1, <1>2, <1>3, NatSetInduction
<1>5. ASSUME NEW k \in Nat
      PROVE  /\ IsLayer(LayerAt(s, k))
             /\ Len(LayerAt(s, k)) \in Nat \ {0}
             /\ Len(LayerAt(s, k + 1)) = (Len(LayerAt(s, k)) + 1) \div 2
  <2>1. IsLayer(LayerAt(s, k))
    BY <1>4 DEF S
  <2>2. Len(LayerAt(s, k)) \in Nat \ {0}
    BY <2>1 DEF IsLayer
  <2>3. Len(LayerAt(s, k + 1)) = (Len(LayerAt(s, k)) + 1) \div 2
    BY <2>1, LayerStep, ParentShape
  <2> QED
    BY <2>1, <2>2, <2>3
<1> QED
  BY <1>5

(* A set of numbers has a least one.                                       *)
LEMMA LeastNumber ==
  ASSUME NEW S \in SUBSET Nat, S # {}
  PROVE  \E m \in S : \A n \in S : m <= n
<1>1. PICK m \in S : \A n \in S : ~ (<<n, m>> \in OpToRel(<, Nat))
  BY WFMin, NatLessThanWellFounded
<1>2. \A n \in S : ~ (n < m)
  BY <1>1 DEF OpToRel
<1> QED
  BY <1>2

(* The loop stops, at a layer of one digest.                               *)
LEMMA HeightShape ==
  ASSUME NEW s, IsLayer(s)
  PROVE  /\ Height(s) \in Nat
         /\ Len(LayerAt(s, Height(s))) = 1
         /\ \A j \in 0..(Height(s) - 1) : Len(LayerAt(s, j)) > 1
<1> DEFINE n == Len(s)
           L == [k \in Nat |-> Len(LayerAt(s, k))]
           S == {k \in Nat : (\A j \in 0..k : L[j] > 1) => L[k] <= n - k}
           T == {k \in 0..n : L[k] <= 1}
<1>1. n \in Nat \ {0} /\ L[0] = n
  BY LayerStep DEF IsLayer
<1>2. \A k \in Nat : L[k] = Len(LayerAt(s, k))
  OBVIOUS
<1> HIDE DEF L
<1>3. \A k \in Nat : L[k] \in Nat \ {0}
  BY <1>2, LayerShape
<1>4. ASSUME NEW k \in Nat, L[k] > 1 PROVE L[k + 1] <= L[k] - 1
  <2>1. Len(LayerAt(s, k + 1)) = (Len(LayerAt(s, k)) + 1) \div 2
    BY LayerShape
  <2>2. k + 1 \in Nat /\ L[k + 1] = Len(LayerAt(s, k + 1)) /\ L[k] = Len(LayerAt(s, k))
    BY <1>2
  <2>3. L[k] \in Nat /\ L[k + 1] = (L[k] + 1) \div 2
    BY <2>1, <2>2, <1>3
  <2> QED
    BY <2>3, <1>4
<1>5. S = Nat
  <2>1. 0 \in S
    BY <1>1
  <2>2. ASSUME NEW k \in S PROVE k + 1 \in S
    <3>1. SUFFICES ASSUME \A j \in 0..(k + 1) : L[j] > 1 PROVE L[k + 1] <= n - (k + 1)
      OBVIOUS
    <3>2. L[k] > 1 /\ L[k] <= n - k
      BY <3>1
    <3>3. L[k] \in Nat /\ L[k + 1] \in Nat /\ L[k + 1] <= L[k] - 1
      BY <3>2, <1>3, <1>4
    <3> QED
      BY <3>2, <3>3, <1>1
  <2>3. S \in SUBSET Nat
    OBVIOUS
  <2> HIDE DEF S
  <2> QED
    BY <2>1, <2>2, <2>3, NatSetInduction
<1>6. T # {}
  <2>1. SUFFICES ASSUME \A j \in 0..n : ~ (L[j] <= 1) PROVE FALSE
    OBVIOUS
  <2>2. \A j \in 0..n : L[j] > 1
    <3> TAKE j \in 0..n
    <3>1. L[j] \in Nat
      BY <1>1, <1>3
    <3> QED
      BY <2>1, <3>1
  <2>3. n \in S /\ L[n] \in Nat \ {0}
    BY <1>5, <1>1, <1>3
  <2>4. L[n] <= n - n
    BY <2>2, <2>3
  <2> QED
    BY <2>3, <2>4, <1>1
<1>7. PICK k \in T : \A j \in T : k <= j
  <2>1. T \in SUBSET Nat
    BY <1>1
  <2> HIDE DEF T
  <2> QED
    BY <1>6, <2>1, LeastNumber
<1>8. k \in 0..n /\ L[k] <= 1 /\ \A j \in 0..(k - 1) : L[j] > 1
  <2>1. ASSUME NEW j \in 0..(k - 1) PROVE L[j] > 1
    <3>1. j \in 0..n /\ ~ (k <= j) /\ L[j] \in Nat
      BY <1>1, <1>3, <1>7
    <3> QED
      BY <3>1, <1>7
  <2> QED
    BY <2>1, <1>7
<1>9. Height(s) \in 0..n /\ L[Height(s)] <= 1 /\ \A j \in 0..(Height(s) - 1) : L[j] > 1
  <2> DEFINE P(h) == /\ Len(LayerAt(s, h)) <= 1
                     /\ \A j \in 0..(h - 1) : Len(LayerAt(s, j)) > 1
  <2>1. P(k)
    BY <1>8, <1>2
  <2>2. Height(s) = CHOOSE h \in 0..n : P(h)
    BY DEF Height
  <2> HIDE DEF P
  <2>3. Height(s) \in 0..n /\ P(Height(s))
    BY <2>1, <2>2, <1>8
  <2> QED
    BY <2>3, <1>2, <1>1 DEF P
<1>10. Height(s) \in Nat /\ L[Height(s)] = 1
  <2>1. Height(s) \in Nat
    BY <1>9, <1>1
  <2>2. L[Height(s)] \in Nat \ {0}
    BY <2>1, <1>3
  <2> QED
    BY <2>1, <2>2, <1>9
<1>11. \A j \in 0..(Height(s) - 1) : j \in Nat /\ L[j] > 1
  BY <1>9, <1>10
<1> QED
  BY <1>2, <1>10, <1>11
-----------------------------------------------------------------------------
(* The loop of layers builds the tree                                      *)

\* Layer k has one digest for every Span(k) leaves, and it is the tree over them.
LayerIsTrees(s, k) ==
  LET m == Len(LayerAt(s, k)) IN
  /\ Span(k) \in Nat
  /\ (m - 1) * Span(k) < Len(s) /\ Len(s) <= m * Span(k)
  /\ \A j \in 0..(m - 1) : LayerAt(s, k)[j + 1] = TreesFrom(s, k)[j * Span(k) + 1]

(* A product grows with its factor.                                        *)
LEMMA ProductGrows ==
  ASSUME NEW w \in Nat, NEW a \in Int, NEW b \in Int, a <= b
  PROVE  a * w <= b * w
<1>1. PICK d \in Nat : b = a + d
  <2>1. b - a \in Nat /\ b = a + (b - a)
    OBVIOUS
  <2> QED
    BY <2>1
<1>2. b * w = a * w + d * w /\ d * w >= 0 /\ a * w \in Int /\ d * w \in Int
  BY <1>1
<1> QED
  BY <1>2

(* From one layer to the next, the padding included: where the right half  *)
(* of a tree has no leaf, there is no digest on the right either.          *)
LEMMA NextLayerIsTrees ==
  ASSUME NEW s, IsLayer(s), NEW k \in Nat, LayerIsTrees(s, k)
  PROVE  LayerIsTrees(s, k + 1)
<1> DEFINE L == LayerAt(s, k)
           P == LayerAt(s, k + 1)
           m == Len(L)
           h == (m + 1) \div 2
           w == Span(k)
           T == TreesFrom(s, k)
           n == Len(s)
<1>1. /\ n \in Nat /\ m \in Nat \ {0} /\ w \in Nat /\ h \in Nat
      /\ IsLayer(L) /\ P = ParentLayer(L) /\ Len(P) = h
      /\ Span(k + 1) = 2 * w
      /\ TreesFrom(s, k + 1) = PutTogether(s, T, w)
  <2>1. IsLayer(L) /\ m \in Nat \ {0} /\ P = ParentLayer(L)
    BY LayerShape, LayerStep
  <2>2. Len(P) = h /\ h \in Nat
    BY <2>1, LayerShape
  <2>3. n \in Nat /\ w \in Nat
    BY DEF IsLayer, LayerIsTrees
  <2>4. Span(k + 1) = 2 * w /\ TreesFrom(s, k + 1) = PutTogether(s, T, w)
    BY SpanStep, TreesStep
  <2> QED
    BY <2>1, <2>2, <2>3, <2>4
<1>2. /\ (m - 1) * w < n /\ n <= m * w
      /\ \A j \in 0..(m - 1) : L[j + 1] = T[j * w + 1]
  BY DEF LayerIsTrees
<1>3. \A i \in 1..h : P[i] = Node(L[2 * i - 1], L[RightOf(L, i)])
  BY <1>1, ParentShape
<1> HIDE DEF L, P, m, w, T, n
<1>4. \A a \in Int : a * (2 * w) = (2 * a) * w /\ a * w \in Int
  BY <1>1
<1>5. ASSUME NEW a \in Int PROVE (a <= m - 1 => a * w < n) /\ (a >= m => a * w >= n)
  <2>1. a <= m - 1 => a * w <= (m - 1) * w
    BY <1>1, ProductGrows
  <2>2. a >= m => m * w <= a * w
    BY <1>1, ProductGrows
  <2>3. a * w \in Int /\ m * w \in Int /\ (m - 1) * w \in Int
    BY <1>1
  <2>4. \A x, y \in Int : (x <= y /\ y < n => x < n) /\ (n <= y /\ y <= x => x >= n)
    BY <1>1
  <2>5. (m - 1) * w < n /\ n <= m * w
    BY <1>2
  <2> HIDE DEF n
  <2> QED
    BY <2>1, <2>2, <2>3, <2>4, <2>5
<1>6. (h - 1) * (2 * w) < n /\ n <= h * (2 * w)
  <2>1. 2 * (h - 1) \in Int /\ 2 * h \in Int /\ 2 * (h - 1) <= m - 1 /\ 2 * h >= m
    BY <1>1
  <2>2. (2 * (h - 1)) * w < n /\ (2 * h) * w >= n
    BY <1>5, <2>1
  <2>3. (2 * (h - 1)) * w = (h - 1) * (2 * w) /\ (2 * h) * w = h * (2 * w) /\ h * (2 * w) \in Int
    BY <1>1
  <2> QED
    BY <2>2, <2>3, <1>1
<1>7. ASSUME NEW j \in 0..(h - 1)
      PROVE  P[j + 1] = TreesFrom(s, k + 1)[j * (2 * w) + 1]
  <2> DEFINE i == (2 * j) * w + 1
  <2>1. /\ j \in Nat /\ 2 * j \in Int /\ 2 * j <= m - 1 /\ 2 * j + 1 \in Int
        /\ (2 * j) * w \in Nat /\ (2 * j) * w = j * (2 * w)
        /\ (2 * j + 1) * w = (2 * j) * w + w
    BY <1>1
  <2>2. i \in 1..n
    <3>1. (2 * j) * w < n
      BY <1>5, <2>1
    <3>2. \A x \in Nat : x < n => x + 1 \in 1..n
      BY <1>1
    <3> QED
      BY <2>1, <3>1, <3>2
  <2>3. i + w <= n <=> 2 * j + 1 <= m - 1
    <3>1. 2 * j + 1 <= m - 1 => (2 * j + 1) * w < n
      BY <1>5, <2>1
    <3>2. 2 * j + 1 >= m => (2 * j + 1) * w >= n
      BY <1>5, <2>1
    <3> QED
      BY <3>1, <3>2, <2>1, <1>1
  <2>4. PutTogether(s, T, w)[i] = Node(T[i], T[IF i + w <= n THEN i + w ELSE i])
    BY <2>2 DEF PutTogether, n
  <2>5. P[j + 1] = Node(L[2 * j + 1], L[IF 2 * j + 1 <= m - 1 THEN 2 * j + 2 ELSE 2 * j + 1])
    <3>1. j + 1 \in 1..h /\ 2 * (j + 1) - 1 = 2 * j + 1 /\ 2 * (j + 1) = 2 * j + 2
      BY <1>1
    <3>2. RightOf(L, j + 1) = IF 2 * j + 1 <= m - 1 THEN 2 * j + 2 ELSE 2 * j + 1
      BY <3>1, <1>1 DEF RightOf, m
    <3> QED
      BY <3>1, <3>2, <1>3
  <2>6. L[2 * j + 1] = T[i]
    <3>1. 2 * j \in 0..(m - 1)
      BY <2>1
    <3> QED
      BY <3>1, <1>2
  <2>7. 2 * j + 1 <= m - 1 => L[2 * j + 2] = T[i + w]
    <3>1. SUFFICES ASSUME 2 * j + 1 <= m - 1 PROVE L[2 * j + 2] = T[i + w]
      OBVIOUS
    <3>2. 2 * j + 1 \in 0..(m - 1) /\ (2 * j + 1) + 1 = 2 * j + 2
      BY <3>1, <2>1
    <3>3. (2 * j + 1) * w + 1 = i + w
      BY <2>1, <1>1
    <3> QED
      BY <3>2, <3>3, <1>2
  <2>8. j * (2 * w) + 1 = i
    BY <2>1
  <2> HIDE DEF i
  <2> QED
    BY <2>3, <2>4, <2>5, <2>6, <2>7, <2>8, <1>1
<1>8. 2 * w \in Nat
  BY <1>1
<1>9. Len(LayerAt(s, k + 1)) = h
  BY <1>1 DEF P
<1>10. \A j \in 0..(h - 1) : LayerAt(s, k + 1)[j + 1] = TreesFrom(s, k + 1)[j * Span(k + 1) + 1]
  BY <1>1, <1>7 DEF P
<1>11. Span(k + 1) \in Nat /\ (h - 1) * Span(k + 1) < Len(s) /\ Len(s) <= h * Span(k + 1)
  BY <1>1, <1>6, <1>8 DEF n
<1> HIDE DEF h
<1> QED
  BY <1>9, <1>10, <1>11 DEF LayerIsTrees

(* Every layer of the loop consists of the trees over its leaves, and so   *)
(* the root that _compute_merkle_root returns is that of the tree over all *)
(* of them (merkle.py 28-36): for leaf lists of every length, odd at as    *)
(* many levels as they may be.                                             *)
THEOREM RootIsOfTree ==
  ASSUME NEW s, IsLayer(s)
  PROVE  MerkleRoot(s) = Tree(s)
<1> DEFINE S == {k \in Nat : LayerIsTrees(s, k)}
<1>1. 0 \in S
  <2>1. LayerAt(s, 0) = s /\ Span(0) = 1 /\ TreesFrom(s, 0) = s
    BY LayerStep, SpanStep, TreesStep
  <2>2. Len(s) \in Nat
    BY DEF IsLayer
  <2>3. (Len(s) - 1) * 1 < Len(s) /\ Len(s) <= Len(s) * 1 /\ \A j \in 0..(Len(s) - 1) : j * 1 + 1 = j + 1
    BY <2>2
  <2> QED
    BY <2>1, <2>3 DEF LayerIsTrees
<1>2. ASSUME NEW k \in S PROVE k + 1 \in S
  BY NextLayerIsTrees
<1>3. S \in SUBSET Nat
  OBVIOUS
<1> HIDE DEF S
<1>4. S = Nat
  BY <1>1, <1>2, <1>3, NatSetInduction
<1> DEFINE h == Height(s)
<1>5. h \in Nat /\ Len(LayerAt(s, h)) = 1
  BY HeightShape
<1>6. LayerIsTrees(s, h)
  BY <1>4, <1>5 DEF S
<1>7. Span(h) \in Nat /\ LayerAt(s, h)[0 + 1] = TreesFrom(s, h)[0 * Span(h) + 1]
  <2>1. 0 \in 0..(Len(LayerAt(s, h)) - 1)
    BY <1>5
  <2> QED
    BY <1>6, <2>1 DEF LayerIsTrees
<1>8. LayerAt(s, h)[1] = TreesFrom(s, h)[1]
  <2>1. 0 * Span(h) + 1 = 1
    BY <1>7
  <2> QED
    BY <1>7, <2>1
<1>9. s # <<>>
  BY DEF IsLayer
<1> QED
  BY <1>8, <1>9 DEF MerkleRoot, Tree
-----------------------------------------------------------------------------
(* Nodes and single steps of a proof                                       *)

NotNode(x) == \A l, r : x # Node(l, r)

\* x is one of the digests of L.
On(L, x) == \E i \in 1..Len(L) : L[i] = x

(* SHA-256 is injective here.                                              *)
LEMMA NodeInjective ==
  ASSUME NEW l, NEW r, NEW x, NEW y, Node(l, r) = Node(x, y)
  PROVE  l = x /\ r = y
<1>1. Node(l, r).left = l /\ Node(l, r).right = r
  BY DEF Node
<1>2. Node(x, y).left = x /\ Node(x, y).right = y
  BY DEF Node
<1> QED
  BY <1>1, <1>2

(* A step of a proof leads from a digest to the one above it.              *)
LEMMA StepUp ==
  ASSUME NEW L, IsLayer(L), NEW pos \in 0..(Len(L) - 1)
  PROVE  /\ ApplyStep(L[pos + 1], ProofStep(L, pos)) = ParentLayer(L)[(pos \div 2) + 1]
         /\ pos \div 2 \in 0..(Len(ParentLayer(L)) - 1)
<1> DEFINE i == (pos \div 2) + 1
<1>1. Len(L) \in Nat \ {0}
  BY DEF IsLayer
<1>2. pos \in Nat /\ i \in 1..((Len(L) + 1) \div 2) /\ pos \div 2 \in 0..(((Len(L) + 1) \div 2) - 1)
  BY <1>1
<1>3. /\ ParentLayer(L)[i] = Node(L[2 * i - 1], L[RightOf(L, i)])
      /\ Len(ParentLayer(L)) = (Len(L) + 1) \div 2
  BY <1>2, ParentShape
<1>4. CASE pos % 2 = 1
  <2>1. 2 * i - 1 = pos /\ RightOf(L, i) = pos + 1 /\ pos \in 1..Len(L)
    BY <1>1, <1>2, <1>4 DEF RightOf
  <2>2. Padded(L)[pos] = L[pos]
    BY <2>1, PaddedShape
  <2>3. ProofStep(L, pos) = [sibling |-> L[pos], position |-> "left"]
    BY <1>4, <2>2 DEF ProofStep
  <2>4. ApplyStep(L[pos + 1], ProofStep(L, pos)) = Node(L[pos], L[pos + 1])
    BY <2>3 DEF ApplyStep
  <2> QED
    BY <2>1, <2>4, <1>2, <1>3
<1>5. CASE pos % 2 # 1
  <2>1. 2 * i - 1 = pos + 1 /\ pos + 2 = 2 * i
    BY <1>2, <1>5
  <2>2. Padded(L)[pos + 2] = L[RightOf(L, i)]
    <3>1. CASE pos + 2 <= Len(L)
      <4>1. RightOf(L, i) = pos + 2 /\ pos + 2 \in 1..Len(L)
        BY <3>1, <2>1, <1>1, <1>2 DEF RightOf
      <4> QED
        BY <4>1, PaddedShape
    <3>2. CASE ~ (pos + 2 <= Len(L))
      <4>1. pos + 2 = Len(L) + 1 /\ Len(L) % 2 = 1 /\ RightOf(L, i) = Len(L)
        BY <3>2, <2>1, <1>1, <1>2, <1>5 DEF RightOf
      <4> QED
        BY <4>1, PaddedShape
    <3> QED
      BY <3>1, <3>2
  <2>3. ProofStep(L, pos) = [sibling |-> L[RightOf(L, i)], position |-> "right"]
    BY <1>5, <2>2 DEF ProofStep
  <2>4. ApplyStep(L[pos + 1], ProofStep(L, pos)) = Node(L[pos + 1], L[RightOf(L, i)])
    BY <2>3 DEF ApplyStep
  <2> QED
    BY <2>1, <2>4, <1>2, <1>3
<1> QED
  BY <1>4, <1>5

(* Every digest of a layer goes into a node of the next one,               *)
LEMMA GoesUp ==
  ASSUME NEW L, IsLayer(L), NEW x, On(L, x)
  PROVE  \E y : On(ParentLayer(L), Node(x, y)) \/ On(ParentLayer(L), Node(y, x))
<1>1. PICK j \in 1..Len(L) : L[j] = x
  BY DEF On
<1>2. Len(L) \in Nat \ {0}
  BY DEF IsLayer
<1> DEFINE i == (j + 1) \div 2
<1>3. i \in 1..((Len(L) + 1) \div 2)
  BY <1>2
<1>4. ParentLayer(L)[i] = Node(L[2 * i - 1], L[RightOf(L, i)]) /\ i \in 1..Len(ParentLayer(L))
  BY <1>3, ParentShape
<1>5. 2 * i - 1 = j \/ RightOf(L, i) = j
  BY <1>2 DEF RightOf
<1>6. On(ParentLayer(L), Node(L[2 * i - 1], L[RightOf(L, i)]))
  BY <1>4 DEF On
<1> HIDE DEF i
<1> QED
  BY <1>1, <1>5, <1>6

(* and the next one consists of nodes of digests of the layer.             *)
LEMMA ComesFromBelow ==
  ASSUME NEW L, IsLayer(L), NEW x, On(ParentLayer(L), x)
  PROVE  \E l, r : x = Node(l, r) /\ On(L, l) /\ On(L, r)
<1>1. PICK i \in 1..Len(ParentLayer(L)) : ParentLayer(L)[i] = x
  BY DEF On
<1>2. i \in 1..((Len(L) + 1) \div 2)
  BY ParentShape
<1>3. /\ x = Node(L[2 * i - 1], L[RightOf(L, i)])
      /\ 2 * i - 1 \in 1..Len(L) /\ RightOf(L, i) \in 1..Len(L)
  BY <1>1, <1>2, ParentShape
<1> QED
  BY <1>3 DEF On

(* So the digests of a layer are known from those of the next one.         *)
LEMMA SameBelow ==
  ASSUME NEW L, NEW M, IsLayer(L), IsLayer(M),
         \A x : On(ParentLayer(L), x) => On(ParentLayer(M), x)
  PROVE  \A x : On(L, x) => On(M, x)
<1> SUFFICES ASSUME NEW x, On(L, x) PROVE On(M, x)
  OBVIOUS
<1>1. PICK y : On(ParentLayer(M), Node(x, y)) \/ On(ParentLayer(M), Node(y, x))
  BY GoesUp
<1>2. CASE On(ParentLayer(M), Node(x, y))
  <2>1. PICK l, r : Node(x, y) = Node(l, r) /\ On(M, l) /\ On(M, r)
    BY <1>2, ComesFromBelow
  <2> QED
    BY <2>1, NodeInjective
<1>3. CASE On(ParentLayer(M), Node(y, x))
  <2>1. PICK l, r : Node(y, x) = Node(l, r) /\ On(M, l) /\ On(M, r)
    BY <1>3, ComesFromBelow
  <2> QED
    BY <2>1, NodeInjective
<1> QED
  BY <1>1, <1>2, <1>3

(* Above the leaves there are only nodes.                                  *)
LEMMA AboveAreNodes ==
  ASSUME NEW t, IsLayer(t), NEW k \in Nat \ {0}, NEW x, On(LayerAt(t, k), x)
  PROVE  ~ NotNode(x)
<1>1. k - 1 \in Nat /\ k = (k - 1) + 1
  OBVIOUS
<1>2. IsLayer(LayerAt(t, k - 1)) /\ LayerAt(t, (k - 1) + 1) = ParentLayer(LayerAt(t, k - 1))
  BY <1>1, LayerShape, LayerStep
<1>3. On(ParentLayer(LayerAt(t, k - 1)), x)
  BY <1>1, <1>2
<1> QED
  BY <1>2, <1>3, ComesFromBelow DEF NotNode

(* The last layer is the root alone.                                       *)
LEMMA TopIsRoot ==
  ASSUME NEW s, IsLayer(s)
  PROVE  /\ LayerAt(s, Height(s))[1] = MerkleRoot(s)
         /\ \A x : On(LayerAt(s, Height(s)), x) <=> x = MerkleRoot(s)
<1>1. s # <<>>
  BY DEF IsLayer
<1>2. LayerAt(s, Height(s))[1] = MerkleRoot(s)
  BY <1>1 DEF MerkleRoot
<1>3. Len(LayerAt(s, Height(s))) = 1 /\ 1..1 = {1}
  BY HeightShape
<1> QED
  BY <1>2, <1>3 DEF On
-----------------------------------------------------------------------------
(* Proofs lead to roots, roots and proofs bind leaves                      *)

(* The position stays on its layer.                                        *)
LEMMA PositionOnLayer ==
  ASSUME NEW s, IsLayer(s), NEW idx \in 0..(Len(s) - 1)
  PROVE  \A k \in Nat : PositionAt(idx, k) \in 0..(Len(LayerAt(s, k)) - 1)
<1> DEFINE S == {k \in Nat : PositionAt(idx, k) \in 0..(Len(LayerAt(s, k)) - 1)}
<1>1. 0 \in S
  BY PositionStep, LayerStep
<1>2. ASSUME NEW k \in S PROVE k + 1 \in S
  <2>1. IsLayer(LayerAt(s, k))
    BY LayerShape
  <2>2. PositionAt(idx, k) \div 2 \in 0..(Len(ParentLayer(LayerAt(s, k))) - 1)
    BY <2>1, StepUp
  <2>3. /\ PositionAt(idx, k + 1) = PositionAt(idx, k) \div 2
        /\ LayerAt(s, k + 1) = ParentLayer(LayerAt(s, k))
    BY PositionStep, LayerStep
  <2> QED
    BY <2>2, <2>3
<1>3. S \in SUBSET Nat
  OBVIOUS
<1> HIDE DEF S
<1>4. S = Nat
  BY <1>1, <1>2, <1>3, NatSetInduction
<1> QED
  BY <1>4 DEF S

(* The proof of a leaf has one step for every turn of the loop.            *)
LEMMA ProofShape ==
  ASSUME NEW s, IsLayer(s), NEW idx
  PROVE  /\ Len(MerkleProof(s, idx)) = Height(s)
         /\ \A k \in 0..(Height(s) - 1) :
              MerkleProof(s, idx)[k + 1] = ProofStep(LayerAt(s, k), PositionAt(idx, k))
<1>1. Height(s) \in Nat
  BY HeightShape
<1>2. Len(MerkleProof(s, idx)) = Height(s)
  BY <1>1 DEF MerkleProof
<1>3. ASSUME NEW k \in 0..(Height(s) - 1)
      PROVE  MerkleProof(s, idx)[k + 1] = ProofStep(LayerAt(s, k), PositionAt(idx, k))
  <2>1. k + 1 \in 1..Height(s) /\ (k + 1) - 1 = k
    BY <1>1
  <2>2. MerkleProof(s, idx)[k + 1]
          = ProofStep(LayerAt(s, (k + 1) - 1), PositionAt(idx, (k + 1) - 1))
    BY <2>1 DEF MerkleProof
  <2> QED
    BY <2>1, <2>2
<1> QED
  BY <1>2, <1>3

(* Walking the proof that _generate_proof makes for a leaf gives the root  *)
(* that _compute_merkle_root makes of the same list (merkle.py 28-61 and   *)
(* 139-146), for every list and every position.                            *)
THEOREM ProofLeadsToRoot ==
  ASSUME NEW s, IsLayer(s), NEW idx \in 0..(Len(s) - 1)
  PROVE  FoldProof(s[idx + 1], MerkleProof(s, idx)) = MerkleRoot(s)
<1> DEFINE steps == MerkleProof(s, idx)
           cur(k) == CurrentAt(s[idx + 1], steps, k)
           S == {k \in Nat : k <= Height(s) => cur(k) = LayerAt(s, k)[PositionAt(idx, k) + 1]}
<1>1. Height(s) \in Nat /\ Len(steps) = Height(s)
  BY HeightShape, ProofShape
<1>2. 0 \in S
  BY CurrentStep, LayerStep, PositionStep
<1>3. ASSUME NEW k \in S PROVE k + 1 \in S
  <2> SUFFICES ASSUME k + 1 <= Height(s)
               PROVE  cur(k + 1) = LayerAt(s, k + 1)[PositionAt(idx, k + 1) + 1]
    OBVIOUS
  <2>1. k \in 0..(Height(s) - 1)
    BY <1>1
  <2>2. cur(k) = LayerAt(s, k)[PositionAt(idx, k) + 1]
    BY <1>1
  <2>3. steps[k + 1] = ProofStep(LayerAt(s, k), PositionAt(idx, k))
    BY <2>1, ProofShape
  <2>4. cur(k + 1) = ApplyStep(cur(k), steps[k + 1])
    BY CurrentStep, ZenonT(60)
  <2>5. IsLayer(LayerAt(s, k)) /\ PositionAt(idx, k) \in 0..(Len(LayerAt(s, k)) - 1)
    BY LayerShape, PositionOnLayer
  <2> HIDE DEF cur, steps
  <2>6. cur(k + 1) = ParentLayer(LayerAt(s, k))[(PositionAt(idx, k) \div 2) + 1]
    BY <2>2, <2>3, <2>4, <2>5, StepUp
  <2> QED
    BY <2>6, LayerStep, PositionStep
<1>4. S \in SUBSET Nat
  OBVIOUS
<1> HIDE DEF S
<1>5. S = Nat
  BY <1>2, <1>3, <1>4, NatSetInduction
<1>6. cur(Height(s)) = LayerAt(s, Height(s))[PositionAt(idx, Height(s)) + 1]
  BY <1>1, <1>5 DEF S
<1>7. PositionAt(idx, Height(s)) = 0
  <2>1. PositionAt(idx, Height(s)) \in 0..(Len(LayerAt(s, Height(s))) - 1)
    BY <1>1, PositionOnLayer
  <2>2. Len(LayerAt(s, Height(s))) = 1
    BY HeightShape
  <2> QED
    BY <2>1, <2>2
<1> QED
  BY <1>1, <1>6, <1>7, TopIsRoot DEF FoldProof

(* Under equal roots the trees agree from the top down, as far as the      *)
(* lower one goes.                                                         *)
LEMMA SameFromTheTop ==
  ASSUME NEW s, NEW t, IsLayer(s), IsLayer(t), Height(s) <= Height(t),
         MerkleRoot(s) = MerkleRoot(t)
  PROVE  \A j \in 0..Height(s) : \A x :
           On(LayerAt(s, Height(s) - j), x) <=> On(LayerAt(t, Height(t) - j), x)
<1> DEFINE H == Height(s)
           K == Height(t)
           S == {j \in Nat : j <= H =>
                   \A x : On(LayerAt(s, H - j), x) <=> On(LayerAt(t, K - j), x)}
<1>1. H \in Nat /\ K \in Nat
  BY HeightShape
<1> HIDE DEF H, K
<1>2. 0 \in S
  <2>1. H - 0 = H /\ K - 0 = K
    BY <1>1
  <2>2. \A x : On(LayerAt(s, H), x) <=> On(LayerAt(t, K), x)
    BY TopIsRoot DEF H, K
  <2> QED
    BY <2>1, <2>2
<1>3. ASSUME NEW j \in S PROVE j + 1 \in S
  <2> SUFFICES ASSUME j + 1 <= H
               PROVE  \A x : On(LayerAt(s, H - (j + 1)), x) <=> On(LayerAt(t, K - (j + 1)), x)
    OBVIOUS
  <2> DEFINE a == H - (j + 1)
             b == K - (j + 1)
  <2>1. a \in Nat /\ b \in Nat /\ H - j = a + 1 /\ K - j = b + 1
    BY <1>1 DEF H, K
  <2>2. \A x : On(LayerAt(s, a + 1), x) <=> On(LayerAt(t, b + 1), x)
    BY <1>1, <2>1
  <2> HIDE DEF a, b
  <2>3. /\ LayerAt(s, a + 1) = ParentLayer(LayerAt(s, a)) /\ IsLayer(LayerAt(s, a))
        /\ LayerAt(t, b + 1) = ParentLayer(LayerAt(t, b)) /\ IsLayer(LayerAt(t, b))
    BY <2>1, LayerStep, LayerShape
  <2>4. \A x : On(ParentLayer(LayerAt(s, a)), x) <=> On(ParentLayer(LayerAt(t, b)), x)
    BY <2>2, <2>3
  <2>5. \A x : On(LayerAt(s, a), x) => On(LayerAt(t, b), x)
    BY <2>3, <2>4, SameBelow
  <2>6. \A x : On(LayerAt(t, b), x) => On(LayerAt(s, a), x)
    BY <2>3, <2>4, SameBelow
  <2> QED
    BY <2>5, <2>6 DEF a, b
<1>4. S \in SUBSET Nat
  OBVIOUS
<1> HIDE DEF S
<1>5. S = Nat
  BY <1>2, <1>3, <1>4, NatSetInduction
<1>6. ASSUME NEW j \in 0..H
      PROVE  \A x : On(LayerAt(s, H - j), x) <=> On(LayerAt(t, K - j), x)
  <2>1. j \in Nat /\ j <= H
    BY <1>1
  <2>2. j \in S
    BY <2>1, <1>5
  <2> QED
    BY <2>1, <2>2 DEF S
<1> QED
  BY <1>6 DEF H, K

(* The same with the heights compared: the lower tree is as high as the    *)
(* other, for its leaves are no nodes.                                     *)
LEMMA SameLeavesIfLower ==
  ASSUME NEW s, NEW t, IsLayer(s), IsLayer(t), Height(s) <= Height(t),
         MerkleRoot(s) = MerkleRoot(t), \A x : On(s, x) => NotNode(x)
  PROVE  Height(s) = Height(t) /\ \A x : On(s, x) <=> On(t, x)
<1> DEFINE H == Height(s)
           K == Height(t)
<1>1. H \in Nat /\ K \in Nat /\ Len(s) \in Nat \ {0}
  BY HeightShape DEF IsLayer
<1> HIDE DEF H, K
<1>2. \A x : On(LayerAt(s, H - H), x) <=> On(LayerAt(t, K - H), x)
  BY <1>1, SameFromTheTop DEF H, K
<1>3. H - H = 0 /\ LayerAt(s, 0) = s /\ LayerAt(t, 0) = t
  BY <1>1, LayerStep
<1>4. \A x : On(s, x) <=> On(LayerAt(t, K - H), x)
  BY <1>2, <1>3
<1>5. H = K
  <2>1. SUFFICES ASSUME H # K PROVE FALSE
    OBVIOUS
  <2>2. K - H \in Nat \ {0}
    BY <1>1, <2>1 DEF H, K
  <2>3. On(s, s[1])
    BY <1>1 DEF On
  <2>4. On(LayerAt(t, K - H), s[1])
    BY <1>4, <2>3
  <2> QED
    BY <2>2, <2>3, <2>4, AboveAreNodes
<1>6. K - H = 0
  BY <1>1, <1>5
<1> QED
  BY <1>3, <1>4, <1>5, <1>6 DEF H, K

(* A root determines the leaves under it: two lists of leaf digests with   *)
(* one root hold the same digests.  This is what makes the root of a       *)
(* ledger a commitment to its entries (merkle.py 28-36).                   *)
THEOREM RootCoversLeaves ==
  ASSUME NEW s, NEW t, IsLayer(s), IsLayer(t), MerkleRoot(s) = MerkleRoot(t),
         \A x : On(s, x) \/ On(t, x) => NotNode(x)
  PROVE  Height(s) = Height(t) /\ \A x : On(s, x) <=> On(t, x)
<1>1. Height(s) \in Nat /\ Height(t) \in Nat
  BY HeightShape
<1>2. CASE Height(s) <= Height(t)
  BY <1>2, SameLeavesIfLower
<1>3. CASE Height(t) <= Height(s)
  BY <1>3, SameLeavesIfLower
<1> QED
  BY <1>1, <1>2, <1>3

(* More leaves make layers at least as long,                               *)
LEMMA LongerLayers ==
  ASSUME NEW s, NEW t, IsLayer(s), IsLayer(t), Len(s) <= Len(t)
  PROVE  \A k \in Nat : Len(LayerAt(s, k)) <= Len(LayerAt(t, k))
<1> DEFINE S == {k \in Nat : Len(LayerAt(s, k)) <= Len(LayerAt(t, k))}
<1>1. 0 \in S
  BY LayerStep
<1>2. ASSUME NEW k \in S PROVE k + 1 \in S
  <2> DEFINE a == Len(LayerAt(s, k))
             b == Len(LayerAt(t, k))
  <2>1. /\ a \in Nat /\ b \in Nat
        /\ Len(LayerAt(s, k + 1)) = (a + 1) \div 2
        /\ Len(LayerAt(t, k + 1)) = (b + 1) \div 2
    BY LayerShape
  <2>2. a <= b
    OBVIOUS
  <2> HIDE DEF a, b
  <2>3. (a + 1) \div 2 <= (b + 1) \div 2
    BY <2>1, <2>2
  <2> QED
    BY <2>1, <2>3
<1>3. S \in SUBSET Nat
  OBVIOUS
<1> HIDE DEF S
<1>4. S = Nat
  BY <1>1, <1>2, <1>3, NatSetInduction
<1> QED
  BY <1>4 DEF S

(* and trees at least as high.                                             *)
LEMMA HigherTree ==
  ASSUME NEW s, NEW t, IsLayer(s), IsLayer(t), Len(s) <= Len(t)
  PROVE  Height(s) <= Height(t)
<1>1. Height(s) \in Nat /\ Height(t) \in Nat
  BY HeightShape
<1>2. SUFFICES ASSUME Height(t) \in 0..(Height(s) - 1) PROVE FALSE
  BY <1>1
<1>3. Len(LayerAt(s, Height(t))) > 1
  BY <1>2, HeightShape
<1>4. Len(LayerAt(t, Height(t))) = 1
  BY HeightShape
<1>5. Len(LayerAt(s, Height(t))) <= Len(LayerAt(t, Height(t)))
  BY <1>1, LongerLayers
<1>6. Len(LayerAt(s, Height(t))) \in Nat
  BY <1>1, LayerShape
<1> QED
  BY <1>3, <1>4, <1>5, <1>6
-----------------------------------------------------------------------------
(* A proof binds its leaf                                                  *)

(* A step of a proof that ends on a layer starts on the one below.         *)
LEMMA StepDown ==
  ASSUME NEW M, IsLayer(M), NEW x, NEW step, On(ParentLayer(M), ApplyStep(x, step))
  PROVE  On(M, x)
<1>1. PICK l, r : ApplyStep(x, step) = Node(l, r) /\ On(M, l) /\ On(M, r)
  BY ComesFromBelow
<1>2. ApplyStep(x, step) = Node(x, step.sibling) \/ ApplyStep(x, step) = Node(step.sibling, x)
  BY DEF ApplyStep
<1>3. l = x \/ r = x
  BY <1>1, <1>2, NodeInjective
<1> QED
  BY <1>1, <1>3

(* If it ends at the place above a position, it starts at that position.   *)
LEMMA StepDownTo ==
  ASSUME NEW L, IsLayer(L), NEW M, IsLayer(M), Len(L) <= Len(M),
         NEW pos \in 0..(Len(L) - 1), NEW x,
         ApplyStep(x, ProofStep(L, pos)) = ParentLayer(M)[(pos \div 2) + 1]
  PROVE  x = M[pos + 1]
<1> DEFINE i == (pos \div 2) + 1
<1>1. Len(L) \in Nat \ {0} /\ Len(M) \in Nat \ {0}
  BY DEF IsLayer
<1>2. pos \in Nat /\ i \in 1..((Len(M) + 1) \div 2) /\ pos + 1 <= Len(M)
  BY <1>1
<1>3. ParentLayer(M)[i] = Node(M[2 * i - 1], M[RightOf(M, i)])
  BY <1>2, ParentShape
<1>4. CASE pos % 2 = 1
  <2>1. RightOf(M, i) = pos + 1
    BY <1>1, <1>2, <1>4 DEF RightOf
  <2>2. ApplyStep(x, ProofStep(L, pos)) = Node(Padded(L)[pos], x)
    BY <1>4 DEF ProofStep, ApplyStep
  <2> QED
    BY <1>3, <2>1, <2>2, NodeInjective
<1>5. CASE pos % 2 # 1
  <2>1. 2 * i - 1 = pos + 1
    BY <1>2, <1>5
  <2>2. ApplyStep(x, ProofStep(L, pos)) = Node(x, Padded(L)[pos + 2])
    BY <1>5 DEF ProofStep, ApplyStep
  <2> QED
    BY <1>3, <2>1, <2>2, NodeInjective
<1> QED
  BY <1>4, <1>5

(* From the root down, what a proof passes through is on the tree.         *)
LEMMA WalkIsOnTree ==
  ASSUME NEW s, IsLayer(s), NEW t, IsLayer(t), NEW idx, NEW x, Height(s) <= Height(t),
         FoldProof(x, MerkleProof(s, idx)) = MerkleRoot(t)
  PROVE  On(LayerAt(t, Height(t) - Height(s)), x)
<1> DEFINE H == Height(s)
           K == Height(t)
           steps == MerkleProof(s, idx)
           cur(k) == CurrentAt(x, steps, k)
           S == {j \in Nat : j <= H => On(LayerAt(t, K - j), cur(H - j))}
<1>1. H \in Nat /\ K \in Nat /\ Len(steps) = H
  BY HeightShape, ProofShape
<1>2. cur(H) = MerkleRoot(t)
  BY <1>1 DEF FoldProof
<1>3. cur(0) = x /\ \A k \in Nat : cur(k + 1) = ApplyStep(cur(k), steps[k + 1])
  BY CurrentStep, ZenonT(60)
<1> HIDE DEF H, K, cur, steps
<1>4. 0 \in S
  <2>1. H - 0 = H /\ K - 0 = K
    BY <1>1
  <2>2. On(LayerAt(t, K), cur(H))
    BY <1>2, TopIsRoot DEF K
  <2> QED
    BY <2>1, <2>2
<1>5. ASSUME NEW j \in S PROVE j + 1 \in S
  <2> SUFFICES ASSUME j + 1 <= H PROVE On(LayerAt(t, K - (j + 1)), cur(H - (j + 1)))
    OBVIOUS
  <2> DEFINE a == H - (j + 1)
             b == K - (j + 1)
  <2>1. a \in Nat /\ b \in Nat /\ H - j = a + 1 /\ K - j = b + 1
    BY <1>1 DEF H, K
  <2>2. On(LayerAt(t, b + 1), cur(a + 1))
    BY <1>1, <2>1
  <2> HIDE DEF a, b
  <2>3. On(ParentLayer(LayerAt(t, b)), ApplyStep(cur(a), steps[a + 1]))
    BY <1>3, <2>1, <2>2, LayerStep
  <2>4. On(LayerAt(t, b), cur(a))
    BY <2>1, <2>3, LayerShape, StepDown
  <2> QED
    BY <2>4 DEF a, b
<1>6. S \in SUBSET Nat
  OBVIOUS
<1> HIDE DEF S
<1>7. S = Nat
  BY <1>4, <1>5, <1>6, NatSetInduction
<1>8. On(LayerAt(t, K - H), cur(H - H))
  <2>1. H \in S /\ H <= H
    BY <1>1, <1>7
  <2> QED
    BY <2>1 DEF S
<1>9. H - H = 0
  BY <1>1
<1> QED
  BY <1>3, <1>8, <1>9 DEF H, K

(* Under equal heights, what it passes through is at the position.         *)
LEMMA WalkIsAtPosition ==
  ASSUME NEW s, IsLayer(s), NEW t, IsLayer(t), NEW idx \in 0..(Len(s) - 1), NEW x,
         Height(s) = Height(t), Len(s) <= Len(t),
         FoldProof(x, MerkleProof(s, idx)) = MerkleRoot(t)
  PROVE  x = t[idx + 1]
<1> DEFINE H == Height(s)
           steps == MerkleProof(s, idx)
           cur(k) == CurrentAt(x, steps, k)
           S == {j \in Nat : j <= H =>
                   cur(H - j) = LayerAt(t, H - j)[PositionAt(idx, H - j) + 1]}
<1>1. H \in Nat /\ Len(steps) = H
  BY HeightShape, ProofShape
<1>2. cur(H) = MerkleRoot(t)
  BY <1>1 DEF FoldProof
<1>3. cur(0) = x /\ \A k \in Nat : cur(k + 1) = ApplyStep(cur(k), steps[k + 1])
  BY CurrentStep, ZenonT(60)
<1>4. \A k \in 0..(H - 1) : steps[k + 1] = ProofStep(LayerAt(s, k), PositionAt(idx, k))
  BY ProofShape
<1> HIDE DEF H, cur, steps
<1>5. 0 \in S
  <2>1. H - 0 = H
    BY <1>1
  <2>2. PositionAt(idx, H) \in 0..(Len(LayerAt(s, H)) - 1) /\ Len(LayerAt(s, H)) = 1
    BY <1>1, PositionOnLayer, HeightShape DEF H
  <2>3. PositionAt(idx, H) + 1 = 1
    BY <2>2
  <2>4. cur(H) = LayerAt(t, H)[1]
    BY <1>2, TopIsRoot DEF H
  <2> QED
    BY <2>1, <2>3, <2>4
<1>6. ASSUME NEW j \in S PROVE j + 1 \in S
  <2> SUFFICES ASSUME j + 1 <= H
               PROVE  cur(H - (j + 1))
                        = LayerAt(t, H - (j + 1))[PositionAt(idx, H - (j + 1)) + 1]
    OBVIOUS
  <2> DEFINE a == H - (j + 1)
             p == PositionAt(idx, a)
  <2>1. a \in Nat /\ a \in 0..(H - 1) /\ H - j = a + 1
    BY <1>1
  <2>2. cur(a + 1) = LayerAt(t, a + 1)[PositionAt(idx, a + 1) + 1]
    BY <1>1, <2>1
  <2> HIDE DEF a
  <2>3. /\ LayerAt(t, a + 1) = ParentLayer(LayerAt(t, a))
        /\ PositionAt(idx, a + 1) = p \div 2
        /\ cur(a + 1) = ApplyStep(cur(a), ProofStep(LayerAt(s, a), p))
    BY <1>3, <1>4, <2>1, LayerStep, PositionStep
  <2>4. /\ p \in 0..(Len(LayerAt(s, a)) - 1)
        /\ IsLayer(LayerAt(s, a)) /\ IsLayer(LayerAt(t, a))
        /\ Len(LayerAt(s, a)) <= Len(LayerAt(t, a))
    BY <2>1, PositionOnLayer, LayerShape, LongerLayers
  <2> HIDE DEF p
  <2>5. cur(a) = LayerAt(t, a)[p + 1]
    BY <2>2, <2>3, <2>4, StepDownTo
  <2> QED
    BY <2>5 DEF a, p
<1>7. S \in SUBSET Nat
  OBVIOUS
<1> HIDE DEF S
<1>8. S = Nat
  BY <1>5, <1>6, <1>7, NatSetInduction
<1>9. cur(H - H) = LayerAt(t, H - H)[PositionAt(idx, H - H) + 1]
  <2>1. H \in S /\ H <= H
    BY <1>1, <1>8
  <2> QED
    BY <2>1 DEF S
<1>10. H - H = 0
  BY <1>1
<1> QED
  BY <1>3, <1>9, <1>10, LayerStep, PositionStep

(* A proof made for a leaf binds it for good: if its steps lead from a     *)
(* leaf x to the root of the same list, or of a longer one, then x is the  *)
(* leaf at that position (merkle.py 132-146: a proof with another leaf in  *)
(* its place is refused).                                                  *)
THEOREM ProofBinds ==
  ASSUME NEW s, IsLayer(s), NEW t, IsLayer(t), Len(s) <= Len(t),
         NEW idx \in 0..(Len(s) - 1), NEW x, NotNode(x),
         FoldProof(x, MerkleProof(s, idx)) = MerkleRoot(t)
  PROVE  x = t[idx + 1]
<1>1. Height(s) \in Nat /\ Height(t) \in Nat /\ Height(s) <= Height(t)
  BY HeightShape, HigherTree
<1>2. On(LayerAt(t, Height(t) - Height(s)), x)
  BY <1>1, WalkIsOnTree
<1>3. Height(s) = Height(t)
  <2>1. SUFFICES ASSUME Height(s) # Height(t) PROVE FALSE
    OBVIOUS
  <2>2. Height(t) - Height(s) \in Nat \ {0}
    BY <1>1, <2>1
  <2> QED
    BY <1>2, <2>2, AboveAreNodes
<1> QED
  BY <1>3, WalkIsAtPosition
-----------------------------------------------------------------------------
(* Lists that grow at the end                                              *)

\* Distinct digests of leaves.
LeafList(t) ==
  /\ IsLayer(t)
  /\ \A i \in 1..Len(t) : NotNode(t[i])
  /\ \A i, j \in 1..Len(t) : t[i] = t[j] => i = j

(* A prefix of a layer is a layer.                                         *)
LEMMA PrefixShape ==
  ASSUME NEW t, IsLayer(t), NEW n \in 1..Len(t)
  PROVE  /\ IsLayer(SubSeq(t, 1, n)) /\ Len(SubSeq(t, 1, n)) = n
         /\ \A i \in 1..n : SubSeq(t, 1, n)[i] = t[i]
         /\ SubSeq(t, 1, Len(t)) = t
<1>1. PICK T : t \in Seq(T)
  BY DEF IsLayer
<1>2. Len(t) \in Nat \ {0}
  BY DEF IsLayer
<1>3. SubSeq(t, 1, n) \in Seq(T) /\ Len(SubSeq(t, 1, n)) = n
  BY <1>1, <1>2
<1>4. \A i \in 1..n : SubSeq(t, 1, n)[i] = t[i]
  BY <1>1, <1>2
<1>5. SubSeq(t, 1, Len(t)) = t
  BY <1>1, <1>2
<1> QED
  BY <1>2, <1>3, <1>4, <1>5 DEF IsLayer

(* The proof made of a prefix of a list leads to the root of that prefix.  *)
LEMMA ProofOfPrefix ==
  ASSUME NEW t, IsLayer(t), NEW n \in 1..Len(t), NEW idx \in 0..(n - 1)
  PROVE  FoldProof(t[idx + 1], MerkleProof(SubSeq(t, 1, n), idx)) = MerkleRoot(SubSeq(t, 1, n))
<1> DEFINE s == SubSeq(t, 1, n)
<1>1. IsLayer(s) /\ Len(s) = n /\ \A i \in 1..n : s[i] = t[i]
  BY PrefixShape
<1>2. Len(t) \in Nat /\ n \in Nat
  BY DEF IsLayer
<1>3. idx \in 0..(Len(s) - 1) /\ idx + 1 \in 1..n
  BY <1>1, <1>2
<1> HIDE DEF s
<1>4. FoldProof(s[idx + 1], MerkleProof(s, idx)) = MerkleRoot(s)
  BY <1>1, <1>3, ProofLeadsToRoot
<1> QED
  BY <1>1, <1>3, <1>4 DEF s

(* Every entry changes the root: no two prefixes of a ledger share one,    *)
(* however odd the layers are and whatever the padding repeats (merkle.py  *)
(* 33-34).                                                                 *)
THEOREM PrefixRoot ==
  ASSUME NEW t, LeafList(t), NEW n \in 1..Len(t)
  PROVE  MerkleRoot(SubSeq(t, 1, n)) = MerkleRoot(t) <=> n = Len(t)
<1> DEFINE s == SubSeq(t, 1, n)
<1>1. IsLayer(t) /\ Len(t) \in Nat \ {0}
  BY DEF LeafList, IsLayer
<1>2. /\ IsLayer(s) /\ Len(s) = n /\ \A i \in 1..n : s[i] = t[i]
      /\ SubSeq(t, 1, Len(t)) = t
  BY <1>1, PrefixShape
<1> HIDE DEF s
<1>3. \A x : On(s, x) \/ On(t, x) => NotNode(x)
  BY <1>1, <1>2 DEF On, LeafList
<1>4. ASSUME MerkleRoot(s) = MerkleRoot(t) PROVE n = Len(t)
  <2>1. \A x : On(s, x) <=> On(t, x)
    BY <1>1, <1>2, <1>3, <1>4, RootCoversLeaves
  <2>2. On(t, t[Len(t)])
    BY <1>1 DEF On
  <2>3. PICK i \in 1..n : s[i] = t[Len(t)]
    BY <1>2, <2>1, <2>2 DEF On
  <2>4. i \in 1..Len(t) /\ t[i] = t[Len(t)]
    BY <1>1, <1>2, <2>3
  <2>5. i = Len(t)
    BY <1>1, <2>4 DEF LeafList
  <2> QED
    BY <1>1, <2>3, <2>5
<1>5. ASSUME n = Len(t) PROVE MerkleRoot(s) = MerkleRoot(t)
  BY <1>2, <1>5 DEF s
<1> QED
  BY <1>4, <1>5 DEF s
=============================================================================
