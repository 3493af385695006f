--------------------------- MODULE AifdHookProofs ---------------------------
(***************************************************************************)
(* The channel contract of the layer selection, for every number of layers,*)
(* every batch and every candidate list whose entries leave at least one   *)
(* layer after them, as long as the hooks of one forward pass either all   *)
(* work or all fail.  Both hypotheses are needed: a candidate on the last  *)
(* layer loses the last call, and one failed hook of several raises.       *)
(***************************************************************************)
EXTENDS AifdHook, FiniteSetsExt, Functions, FiniteSetTheorems, WellFoundedInduction,
        TLAPS

-----------------------------------------------------------------------------
(* What SumFunctionOnSet of the community modules computes, for every      *)
(* function and every finite set of indices.  The library folds in an      *)
(* order it CHOOSEs, so that the order does not matter is the point of     *)
(* SumSplit.                                                               *)

\* The element the fold takes first.
First(s) == CHOOSE x \in s : TRUE

\* One step of the fold, and the recursive function it is.
StepOf(f, g, s) == IF s = {} THEN 0 ELSE f[First(s)] + g[s \ {First(s)}]
IsIter(f, D, g) == g = [s \in SUBSET D |-> StepOf(f, g, s)]
IsIterUpTo(f, D, n, g) ==
  g = [s \in {t \in SUBSET D : Cardinality(t) <= n} |-> StepOf(f, g, s)]
Iter(f, D)      == CHOOSE g : IsIter(f, D, g)

-----------------------------------------------------------------------------
(* Induction over sets, as the existence of a smallest counterexample.     *)

\* A non-empty set of numbers has a least one.
LEMMA LeastNat ==
  ASSUME NEW N, N \subseteq Nat, N # {}
  PROVE  \E m \in N : \A n \in N : m <= n
<1> DEFINE Less == {ss \in Nat \X Nat : ss[1] < ss[2]}
<1>1. IsWellFoundedOn(Less, Nat)
  BY NatLessThanWellFounded, Zenon DEF OpToRel
<1>2. \A m, n \in Nat : n < m => <<n, m>> \in Less
  OBVIOUS
<1> HIDE DEF Less
<1>3. PICK m \in N : \A n \in N : ~(<<n, m>> \in Less)
  BY <1>1, WFMin
<1>4. ASSUME NEW n \in N PROVE m <= n
  <2>1. ~(n < m)
    BY <1>2, <1>3
  <2> QED BY <2>1
<1> QED BY <1>4

\* A non-empty set of finite sets has a smallest one.
LEMMA SmallestSet ==
  ASSUME NEW B, B # {}, \A s \in B : IsFiniteSet(s)
  PROVE  \E s \in B : \A t \in B : Cardinality(s) <= Cardinality(t)
<1> DEFINE N == {Cardinality(s) : s \in B}
<1>1. N \subseteq Nat /\ N # {}
  BY FS_CardinalityType
<1>2. PICK m \in N : \A n \in N : m <= n
  BY <1>1, LeastNat, Zenon
<1> QED BY <1>2

\* A finite set loses one element.
LEMMA Smaller ==
  ASSUME NEW s, IsFiniteSet(s), NEW x \in s
  PROVE  /\ IsFiniteSet(s \ {x})
         /\ Cardinality(s) \in Nat /\ Cardinality(s \ {x}) \in Nat
         /\ Cardinality(s \ {x}) < Cardinality(s)
<1>1. IsFiniteSet(s \ {x}) /\ Cardinality(s \ {x}) = Cardinality(s) - 1
  BY FS_RemoveElement
<1> QED BY <1>1, FS_CardinalityType

\* The element taken first is one of the set.
LEMMA FirstIsIn ==
  ASSUME NEW s, s # {}
  PROVE  First(s) \in s
BY DEF First

-----------------------------------------------------------------------------
(* The fold is the recursive function it is written as.                    *)

\* The library's sum, unfolded.
LEMMA SumIsIter ==
  ASSUME NEW f, NEW D
  PROVE  SumFunctionOnSet(f, D) = Iter(f, D)[D]
BY DEF SumFunctionOnSet, FoldFunctionOnSet, MapThenFoldSet, Iter, IsIter, StepOf, First

\* Some function satisfies the recursion on the subsets of at most n elements.
LEMMA IterUpTo ==
  ASSUME NEW f, NEW D, IsFiniteSet(D), NEW n \in Nat
  PROVE  \E g : IsIterUpTo(f, D, n, g)
<1> DEFINE Upto(k) == {t \in SUBSET D : Cardinality(t) <= k}
           Good(k, g) == g = [s \in Upto(k) |-> StepOf(f, g, s)]
           Bad == {k \in Nat : ~ \E g : Good(k, g)}
<1>1. \A s \in SUBSET D : IsFiniteSet(s) /\ Cardinality(s) \in Nat
  BY FS_Subset, FS_CardinalityType
<1>2. SUFFICES ASSUME Bad # {} PROVE FALSE
  BY DEF IsIterUpTo
<1>3. Bad \subseteq Nat
  OBVIOUS
<1> HIDE DEF Bad
<1>4. PICK m \in Bad : \A k \in Bad : m <= k
  BY <1>2, <1>3, LeastNat
<1>5. m \in Nat /\ ~ \E g : Good(m, g)
  BY <1>4 DEF Bad
<1>6. CASE m = 0
  <2> DEFINE g == [s \in Upto(0) |-> 0]
  <2>1. \A s \in Upto(0) : s = {}
    <3>1. TAKE s \in Upto(0)
    <3>2. IsFiniteSet(s) /\ Cardinality(s) \in Nat /\ Cardinality(s) <= 0
      BY <1>1, <3>1
    <3>3. Cardinality(s) = 0
      BY <3>2
    <3> QED BY <3>2, <3>3, FS_EmptySet
  <2>2. \A s \in Upto(0) : StepOf(f, g, s) = 0
    BY <2>1 DEF StepOf
  <2>3. Good(0, g)
    BY <2>2
  <2> QED BY <2>3, <1>5, <1>6
<1>7. CASE m # 0
  <2>1. m - 1 \in Nat /\ m - 1 \notin Bad
    BY <1>4, <1>5, <1>7
  <2>2. PICK g : Good(m - 1, g)
    BY <2>1 DEF Bad
  <2> DEFINE h == [s \in Upto(m) |-> StepOf(f, g, s)]
  <2>3. \A s \in Upto(m - 1) : s \in Upto(m) /\ h[s] = g[s]
    <3>1. TAKE s \in Upto(m - 1)
    <3>2. s \in Upto(m)
      BY <1>1, <1>5
    <3>3. g[s] = StepOf(f, g, s)
      BY <2>2
    <3> QED BY <3>2, <3>3
  <2>4. \A s \in Upto(m) : StepOf(f, h, s) = StepOf(f, g, s)
    <3>1. TAKE s \in Upto(m)
    <3>2. CASE s = {}
      BY <3>2 DEF StepOf
    <3>3. CASE s # {}
      <4>1. First(s) \in s /\ IsFiniteSet(s)
        BY <3>3, <1>1, FirstIsIn
      <4>2. s \ {First(s)} \in SUBSET D
        OBVIOUS
      <4>3. Cardinality(s \ {First(s)}) <= m - 1
        <5>1. /\ Cardinality(s) \in Nat /\ Cardinality(s \ {First(s)}) \in Nat
              /\ Cardinality(s \ {First(s)}) < Cardinality(s)
          BY <4>1, Smaller
        <5>2. Cardinality(s) <= m
          OBVIOUS
        <5> QED BY <5>1, <5>2, <1>5
      <4>4. h[s \ {First(s)}] = g[s \ {First(s)}]
        BY <4>2, <4>3, <2>3
      <4> QED BY <4>4, <3>3 DEF StepOf
    <3> QED BY <3>2, <3>3
  <2>5. h = [s \in Upto(m) |-> StepOf(f, h, s)]
    BY <2>4
  <2>6. Good(m, h)
    BY <2>5
  <2> QED BY <2>6, <1>5
<1>8. FALSE
  BY <1>6, <1>7
<1> QED BY <1>8

\* The recursion has a solution, so the CHOOSE of the fold satisfies it.
LEMMA IterIsIter ==
  ASSUME NEW f, NEW D, IsFiniteSet(D)
  PROVE  IsIter(f, D, Iter(f, D))
<1>1. Cardinality(D) \in Nat
  BY FS_CardinalityType
<1>2. {t \in SUBSET D : Cardinality(t) <= Cardinality(D)} = SUBSET D
  BY FS_Subset
<1>3. PICK g : IsIterUpTo(f, D, Cardinality(D), g)
  BY <1>1, IterUpTo
<1>4. IsIter(f, D, g)
  BY <1>2, <1>3 DEF IsIter, IsIterUpTo
<1> QED BY <1>4 DEF Iter

\* On a subset of D, the recursions over D and over the subset agree.
LEMMA IterOnSubset ==
  ASSUME NEW f, NEW D, IsFiniteSet(D), NEW S \in SUBSET D
  PROVE  Iter(f, D)[S] = SumFunctionOnSet(f, S)
<1> DEFINE g == Iter(f, D)
           h == Iter(f, S)
           Bad == {s \in SUBSET S : g[s] # h[s]}
<1>1. IsFiniteSet(S) /\ \A s \in SUBSET S : IsFiniteSet(s) /\ s \in SUBSET D
  BY FS_Subset
<1>2. \A s \in SUBSET S : g[s] = StepOf(f, g, s) /\ h[s] = StepOf(f, h, s)
  <2>1. IsIter(f, D, g) /\ IsIter(f, S, h)
    BY <1>1, IterIsIter
  <2> HIDE DEF g, h
  <2> QED BY <2>1, <1>1 DEF IsIter
<1> HIDE DEF g, h
<1>3. Bad = {}
  <2> SUFFICES ASSUME Bad # {} PROVE FALSE
    OBVIOUS
  <2>1. \A s \in Bad : IsFiniteSet(s)
    BY <1>1
  <2>2. PICK s \in Bad : \A t \in Bad : Cardinality(s) <= Cardinality(t)
    <3> HIDE DEF Bad
    <3> QED BY <2>1, SmallestSet
  <2>3. s # {}
    <3> SUFFICES ASSUME s = {} PROVE FALSE
      OBVIOUS
    <3>1. g[s] = 0 /\ h[s] = 0
      BY <1>2 DEF StepOf
    <3> QED BY <3>1
  <2>4. First(s) \in s
    BY <2>3, FirstIsIn
  <2>5. ~(Cardinality(s) <= Cardinality(s \ {First(s)}))
    BY <2>1, <2>4, Smaller
  <2>6. s \ {First(s)} \notin Bad /\ s \ {First(s)} \in SUBSET S
    BY <2>2, <2>5
  <2>7. g[s \ {First(s)}] = h[s \ {First(s)}]
    BY <2>6
  <2>8. g[s] = h[s]
    BY <1>2, <2>3, <2>7 DEF StepOf
  <2> QED BY <2>8
<1>4. g[S] = h[S]
  BY <1>3
<1> QED BY <1>4, SumIsIter DEF g, h

-----------------------------------------------------------------------------
(* The sums themselves.                                                    *)

\* Nothing sums to zero.
LEMMA SumEmpty ==
  ASSUME NEW f
  PROVE  SumFunctionOnSet(f, {}) = 0
<1>1. IsFiniteSet({})
  BY FS_EmptySet
<1>2. IsIter(f, {}, Iter(f, {}))
  BY <1>1, IterIsIter
<1>3. Iter(f, {})[{}] = StepOf(f, Iter(f, {}), {})
  BY <1>2 DEF IsIter
<1> QED BY <1>3, SumIsIter DEF StepOf

\* A sum is its first element and the sum of the others.
LEMMA SumFirst ==
  ASSUME NEW f, NEW S, IsFiniteSet(S), S # {}
  PROVE  SumFunctionOnSet(f, S) = f[First(S)] + SumFunctionOnSet(f, S \ {First(S)})
<1>1. IsIter(f, S, Iter(f, S))
  BY IterIsIter
<1>2. Iter(f, S)[S] = f[First(S)] + Iter(f, S)[S \ {First(S)}]
  BY <1>1 DEF IsIter, StepOf
<1>3. Iter(f, S)[S \ {First(S)}] = SumFunctionOnSet(f, S \ {First(S)})
  BY IterOnSubset
<1> QED BY <1>2, <1>3, SumIsIter

\* A sum of naturals is a natural.
LEMMA SumNat ==
  ASSUME NEW f, NEW S, IsFiniteSet(S), \A x \in S : f[x] \in Nat
  PROVE  SumFunctionOnSet(f, S) \in Nat
<1> DEFINE Bad == {s \in SUBSET S : SumFunctionOnSet(f, s) \notin Nat}
<1> SUFFICES ASSUME Bad # {} PROVE FALSE
  OBVIOUS
<1>1. \A s \in Bad : IsFiniteSet(s)
  BY FS_Subset
<1>2. PICK s \in Bad : \A t \in Bad : Cardinality(s) <= Cardinality(t)
  <2> HIDE DEF Bad
  <2> QED BY <1>1, SmallestSet
<1>3. s # {}
  <2> SUFFICES ASSUME s = {} PROVE FALSE
    OBVIOUS
  <2>1. SumFunctionOnSet(f, s) = 0
    BY SumEmpty
  <2> QED BY <2>1
<1>4. First(s) \in s /\ f[First(s)] \in Nat
  BY <1>3, FirstIsIn
<1>5. ~(Cardinality(s) <= Cardinality(s \ {First(s)}))
  <2>1. IsFiniteSet(s) /\ First(s) \in s
    BY <1>1, <1>4
  <2> QED BY <2>1, Smaller
<1>6. SumFunctionOnSet(f, s \ {First(s)}) \in Nat
  BY <1>2, <1>5
<1>7. SumFunctionOnSet(f, s) = f[First(s)] + SumFunctionOnSet(f, s \ {First(s)})
  BY <1>1, <1>3, SumFirst
<1>8. SumFunctionOnSet(f, s) \in Nat
  BY <1>4, <1>6, <1>7
<1> QED BY <1>8

\* The order does not matter: any element can be taken out of a sum.
LEMMA SumSplit ==
  ASSUME NEW f, NEW S, IsFiniteSet(S), \A x \in S : f[x] \in Nat, NEW y \in S
  PROVE  SumFunctionOnSet(f, S) = f[y] + SumFunctionOnSet(f, S \ {y})
<1> DEFINE Sum(s) == SumFunctionOnSet(f, s)
           Bad == {s \in SUBSET S : \E z \in s : Sum(s) # f[z] + Sum(s \ {z})}
<1>0. \A s \in SUBSET S : IsFiniteSet(s) /\ Sum(s) \in Nat
  BY FS_Subset, SumNat
<1>1. \A s \in SUBSET S : s # {} => Sum(s) = f[First(s)] + Sum(s \ {First(s)})
  BY <1>0, SumFirst
<1> HIDE DEF Sum
<1>2. Bad = {}
  <2> SUFFICES ASSUME Bad # {} PROVE FALSE
    OBVIOUS
  <2>1. \A s \in Bad : IsFiniteSet(s)
    BY <1>0
  <2>2. PICK s \in Bad : \A t \in Bad : Cardinality(s) <= Cardinality(t)
    <3> HIDE DEF Bad
    <3> QED BY <2>1, SmallestSet
  <2>3. PICK z \in s : Sum(s) # f[z] + Sum(s \ {z})
    OBVIOUS
  <2>4. \A x \in s : s \ {x} \in SUBSET S /\ s \ {x} \notin Bad
    <3>1. TAKE x \in s
    <3>2. ~(Cardinality(s) <= Cardinality(s \ {x}))
      BY <2>1, Smaller
    <3> QED BY <2>2, <3>2
  <2>5. PICK x \in s : Sum(s) = f[x] + Sum(s \ {x})
    BY <2>3, <1>1, FirstIsIn
  <2>6. x # z
    BY <2>3, <2>5
  <2>7. Sum(s \ {x}) = f[z] + Sum((s \ {x}) \ {z})
    BY <2>4, <2>6
  <2>8. Sum(s \ {z}) = f[x] + Sum((s \ {z}) \ {x})
    BY <2>4, <2>6
  <2>9. (s \ {z}) \ {x} = (s \ {x}) \ {z} /\ (s \ {x}) \ {z} \in SUBSET S
    OBVIOUS
  <2>10. f[x] \in Nat /\ f[z] \in Nat /\ Sum((s \ {x}) \ {z}) \in Nat
    BY <2>9, <1>0
  <2>11. Sum(s) = f[z] + Sum(s \ {z})
    <3> DEFINE rest == Sum((s \ {x}) \ {z})
    <3>1. Sum(s) = f[x] + (f[z] + rest) /\ Sum(s \ {z}) = f[x] + rest
      BY <2>5, <2>7, <2>8, <2>9
    <3>2. rest \in Nat
      BY <2>10
    <3> HIDE DEF rest
    <3> QED BY <3>1, <3>2, <2>10
  <2> QED BY <2>3, <2>11
<1>3. S \notin Bad
  BY <1>2
<1>4. Sum(S) = f[y] + Sum(S \ {y})
  BY <1>3
<1> QED BY <1>4 DEF Sum

\* A sum of naturals over fewer indices is not larger.
LEMMA SumSubset ==
  ASSUME NEW f, NEW S, IsFiniteSet(S), \A x \in S : f[x] \in Nat, NEW T \in SUBSET S
  PROVE  SumFunctionOnSet(f, T) <= SumFunctionOnSet(f, S)
<1> DEFINE Sum(s) == SumFunctionOnSet(f, s)
           Bad == {s \in SUBSET S : \E t \in SUBSET s : ~(Sum(t) <= Sum(s))}
<1>0. \A s \in SUBSET S : IsFiniteSet(s) /\ Sum(s) \in Nat
  BY FS_Subset, SumNat
<1>1. ASSUME NEW s \in SUBSET S, NEW y \in s PROVE Sum(s) = f[y] + Sum(s \ {y})
  <2>1. IsFiniteSet(s) /\ \A x \in s : f[x] \in Nat
    BY <1>0
  <2> QED BY <2>1, SumSplit
<1> HIDE DEF Sum
<1>2. Bad = {}
  <2> SUFFICES ASSUME Bad # {} PROVE FALSE
    OBVIOUS
  <2>1. \A s \in Bad : IsFiniteSet(s)
    BY <1>0
  <2>2. PICK s \in Bad : \A t \in Bad : Cardinality(s) <= Cardinality(t)
    <3> HIDE DEF Bad
    <3> QED BY <2>1, SmallestSet
  <2>3. PICK t \in SUBSET s : ~(Sum(t) <= Sum(s))
    OBVIOUS
  <2>4. t # s
    BY <2>3, <1>0
  <2>5. PICK y \in s : y \notin t
    BY <2>4
  <2>6. ~(Cardinality(s) <= Cardinality(s \ {y}))
    <3>1. IsFiniteSet(s) /\ y \in s
      BY <2>1
    <3> QED BY <3>1, Smaller
  <2>7. Sum(t) <= Sum(s \ {y})
    BY <2>2, <2>5, <2>6
  <2>8. f[y] \in Nat /\ Sum(t) \in Nat /\ Sum(s \ {y}) \in Nat
    BY <1>0
  <2>9. Sum(s) = f[y] + Sum(s \ {y})
    BY <1>1
  <2>10. Sum(t) <= Sum(s)
    BY <2>7, <2>8, <2>9
  <2> QED BY <2>3, <2>10
<1>3. S \notin Bad
  BY <1>2
<1>4. Sum(T) <= Sum(S)
  BY <1>3
<1> QED BY <1>4 DEF Sum

\* The sum of the first n elements is the n-th and the sum of those before it.
LEMMA SumUpTo ==
  ASSUME NEW f, NEW n \in Nat \ {0}, \A i \in 1..n : f[i] \in Nat
  PROVE  /\ SumFunctionOnSet(f, 1..n) = f[n] + SumFunctionOnSet(f, 1..(n - 1))
         /\ SumFunctionOnSet(f, 1..n) \in Nat
         /\ SumFunctionOnSet(f, 1..(n - 1)) \in Nat
<1>1. IsFiniteSet(1..n) /\ IsFiniteSet(1..(n - 1))
  BY FS_Interval
<1>2. (1..n) \ {n} = 1..(n - 1) /\ n \in 1..n
  OBVIOUS
<1>3. SumFunctionOnSet(f, 1..n) = f[n] + SumFunctionOnSet(f, 1..(n - 1))
  <2> DEFINE S == 1..n
  <2>1. IsFiniteSet(S) /\ n \in S /\ S \ {n} = 1..(n - 1) /\ \A x \in S : f[x] \in Nat
    BY <1>1, <1>2
  <2> HIDE DEF S
  <2>2. SumFunctionOnSet(f, S) = f[n] + SumFunctionOnSet(f, S \ {n})
    BY <2>1, SumSplit
  <2> QED BY <2>1, <2>2 DEF S
<1>4. \A i \in 1..(n - 1) : f[i] \in Nat
  OBVIOUS
<1> QED BY <1>1, <1>3, <1>4, SumNat

-----------------------------------------------------------------------------
(* The hypotheses.                                                         *)

\* Every candidate has a layer, and that layer is not the last one.
CandidatesInside == \A c \in Configs : \A l \in c.cands : l < NumLayers

\* The hooks of a forward fail together or not at all.
FaultsUniform == "some" \notin Faults

-----------------------------------------------------------------------------
(* The candidates recorded at a point of the layer loop.                   *)

CandsBelow(n) == {l \in cfg.cands : l < n}
CandsUpTo(n)  == {l \in cfg.cands : l <= n}
AuxBelow(n)   == {l \in cfg.aux : l < n}

\* The hooks of this pass run to their end.
Recording == enabled /\ ~SingleToken /\ ~NoMetadata /\ ~HoldsDecodes
             /\ fault = "none"

Loaded ==
  pc # "load" => /\ hooked = cfg.cands
                 /\ enabled <=> cfg.cands # {}

LayerPos ==
  /\ pc = "attn" => layer < NumLayers
  /\ pc = "stack" => layer = NumLayers

Noted ==
  /\ pc = "note" /\ enabled => DOMAIN hidden = CandsBelow(layer)
  /\ pc = "attn" /\ enabled => DOMAIN hidden = CandsUpTo(layer)
  /\ pc \in {"note", "attn"} =>
       /\ \A l \in DOMAIN hidden : hidden[l] = Output(l)
       /\ \A l \in DOMAIN entropy : DOMAIN entropy[l] = Tokens
       /\ DOMAIN entropy = IF Recording THEN CandsUpTo(layer) ELSE {}
  /\ pc \in {"load", "idle", "stack"} \/ ~enabled => hidden = NoRecord /\ entropy = NoRecord

\* The first n channels are the auxiliary layers below n, in order.
Collected(n, len) ==
  /\ len = Cardinality(AuxBelow(n))
  /\ \A l \in AuxBelow(n) : AuxRank(l) \in 1..len /\ auxList[AuxRank(l)] = Output(l)

IsList == \E S : auxList \in Seq(S)

Channels ==
  pc \in {"note", "attn", "stack"} =>
    /\ IsList
    /\ \A i \in DOMAIN auxList : DOMAIN auxList[i] = Tokens
    /\ pc = "note" => Collected(layer, Len(auxList))
    /\ pc = "attn" => Collected(layer + 1, Len(auxList))
    /\ pc = "stack" => Collected(NumLayers + 1, Len(auxList) - ExtraChannels)

\* What survives of the hypotheses and of the contract.
Sound == pc # "crashed" /\ fault # "some"

IInv == TypeOK /\ Loaded /\ LayerPos /\ Noted /\ Channels /\ Sound

-----------------------------------------------------------------------------
(* Lemmas on the helpers.                                                  *)

\* A non-empty bounded set of numbers has its maximum in it.
LEMMA MaxInSet ==
  ASSUME NEW S, S \subseteq Nat, S # {}, NEW n \in Nat, \A x \in S : x <= n
  PROVE  Max(S) \in S /\ \A x \in S : x <= Max(S)
<1> DEFINE Bounds == {b \in Nat : \A x \in S : x <= b}
<1> DEFINE Less == {ss \in Nat \X Nat : ss[1] < ss[2]}
<1>1. IsWellFoundedOn(Less, Nat)
  BY NatLessThanWellFounded, Zenon DEF OpToRel
<1>2. PICK m \in Bounds : \A b \in Bounds : m <= b
  <2>1. n \in Bounds /\ Bounds \subseteq Nat
    OBVIOUS
  <2> HIDE DEF Less
  <2>2. \E m \in Bounds : \A b \in Bounds : ~(<<b, m>> \in Less)
    BY <1>1, <2>1, WFMin
  <2>3. \A m, b \in Nat : b < m => <<b, m>> \in Less
    BY DEF Less
  <2>4. PICK m \in Bounds : \A b \in Bounds : ~(<<b, m>> \in Less)
    BY <2>2
  <2>5. ASSUME NEW b \in Bounds PROVE m <= b
    <3>1. m \in Nat /\ b \in Nat
      BY <2>1
    <3>2. ~(b < m)
      BY <2>3, <2>4, <3>1
    <3> QED BY <3>1, <3>2
  <2> QED BY <2>5
<1>3. m \in S
  <2> SUFFICES ASSUME m \notin S PROVE FALSE
    OBVIOUS
  <2>1. PICK x \in S : TRUE
    OBVIOUS
  <2>2. m - 1 \in Bounds
    BY <2>1
  <2> QED BY <2>2, <1>2
<1> QED BY <1>2, <1>3 DEF Max

\* The smaller of two numbers is one of them.
LEMMA MinOfTwo ==
  ASSUME NEW a \in Nat, NEW b \in Nat
  PROVE  /\ Min({a, b}) \in {a, b}
         /\ Min({a, b}) <= a /\ Min({a, b}) <= b
BY DEF Min

\* One more layer adds one auxiliary channel if the layer is auxiliary.
LEMMA AuxStep ==
  ASSUME NEW n \in Nat, cfg.aux \subseteq 0..NumLayers
  PROVE  /\ Cardinality(AuxBelow(n)) \in Nat
         /\ n \in cfg.aux => /\ Cardinality(AuxBelow(n + 1)) = Cardinality(AuxBelow(n)) + 1
                             /\ AuxRank(n) = Cardinality(AuxBelow(n)) + 1
                             /\ AuxBelow(n + 1) = AuxBelow(n) \cup {n}
         /\ n \notin cfg.aux => AuxBelow(n + 1) = AuxBelow(n)
<1> USE SizesAreNat DEF AuxBelow
<1>1. IsFiniteSet(AuxBelow(n))
  <2>1. AuxBelow(n) \in SUBSET Nat /\ \A l \in AuxBelow(n) : l <= n
    OBVIOUS
  <2> QED BY <2>1, FS_BoundedSetOfNaturals
<1>2. Cardinality(AuxBelow(n)) \in Nat
  BY <1>1, FS_CardinalityType
<1>3. ASSUME n \in cfg.aux
      PROVE  /\ AuxBelow(n + 1) = AuxBelow(n) \cup {n}
             /\ {k \in cfg.aux : k <= n} = AuxBelow(n) \cup {n}
  BY <1>3
<1>4. n \notin AuxBelow(n)
  OBVIOUS
<1>5. Cardinality(AuxBelow(n) \cup {n}) = Cardinality(AuxBelow(n)) + 1
  BY <1>1, <1>4, FS_AddElement
<1>6. ASSUME n \notin cfg.aux PROVE AuxBelow(n + 1) = AuxBelow(n)
  BY <1>6
<1> QED BY <1>2, <1>3, <1>5, <1>6 DEF AuxRank

\* What the collector's call at layer n appends for the auxiliary layers.
LEMMA WithAuxCollects ==
  ASSUME cfg.aux \subseteq 0..NumLayers, layer \in Nat, IsList,
         \A i \in DOMAIN auxList : DOMAIN auxList[i] = Tokens,
         Collected(layer, Len(auxList))
  PROVE  /\ \E S : WithAux \in Seq(S)
         /\ \A i \in DOMAIN WithAux : DOMAIN WithAux[i] = Tokens
         /\ Len(WithAux) = Cardinality(AuxBelow(layer + 1))
         /\ Len(WithAux) \in Nat
         /\ \A l \in AuxBelow(layer + 1) :
              AuxRank(l) \in 1..Len(WithAux) /\ WithAux[AuxRank(l)] = Output(l)
<1>0. PICK S : auxList \in Seq(S)
  BY DEF IsList
<1>1. Len(auxList) = Cardinality(AuxBelow(layer)) /\ Len(auxList) \in Nat
  BY <1>0 DEF Collected
<1>2. CASE layer \in cfg.aux
  <2>1. WithAux = Append(auxList, Output(layer))
    BY <1>2 DEF WithAux
  <2>2. WithAux \in Seq(S \cup {Output(layer)}) /\ Len(WithAux) = Len(auxList) + 1
    BY <2>1, <1>0
  <2>3. /\ \A i \in 1..Len(auxList) : WithAux[i] = auxList[i]
        /\ WithAux[Len(auxList) + 1] = Output(layer)
    BY <2>1, <1>0
  <2>4. DOMAIN Output(layer) = Tokens
    BY DEF Output
  <2>5. AuxRank(layer) = Len(auxList) + 1 /\ AuxBelow(layer + 1) = AuxBelow(layer) \cup {layer}
    BY <1>1, <1>2, AuxStep
  <2>6. Len(WithAux) = Cardinality(AuxBelow(layer + 1))
    BY <1>1, <1>2, <2>2, AuxStep
  <2>7. \A i \in DOMAIN WithAux : DOMAIN WithAux[i] = Tokens
    <3> TAKE i \in DOMAIN WithAux
    <3>1. i \in 1..(Len(auxList) + 1)
      BY <2>2
    <3>2. i \in DOMAIN auxList \/ i = Len(auxList) + 1
      BY <3>1, <1>0, <1>1
    <3> QED BY <3>2, <2>3, <2>4, <1>0
  <2>8. \A l \in AuxBelow(layer + 1) :
          AuxRank(l) \in 1..Len(WithAux) /\ WithAux[AuxRank(l)] = Output(l)
    <3> TAKE l \in AuxBelow(layer + 1)
    <3>1. CASE l = layer
      BY <3>1, <2>2, <2>3, <2>5, <1>1
    <3>2. CASE l \in AuxBelow(layer)
      <4>1. AuxRank(l) \in 1..Len(auxList) /\ auxList[AuxRank(l)] = Output(l)
        BY <3>2 DEF Collected
      <4> QED BY <4>1, <2>2, <2>3, <1>1
    <3> QED BY <3>1, <3>2, <2>5
  <2> QED BY <2>2, <2>6, <2>7, <2>8, <1>1
<1>3. CASE layer \notin cfg.aux
  BY <1>0, <1>1, <1>3, AuxStep DEF WithAux, Collected
<1> QED BY <1>2, <1>3
-----------------------------------------------------------------------------
(* The inductive invariant.                                                *)

\* What the assumptions say of the configuration in force.
LEMMA ConfigFacts ==
  ASSUME CandidatesInside, cfg \in Configs
  PROVE  /\ cfg.aux \subseteq 0..NumLayers
         /\ cfg.cands \subseteq Nat \ {0}
         /\ IsFiniteSet(cfg.cands) /\ Cardinality(cfg.cands) \in Nat
         /\ \A l \in cfg.cands : l < NumLayers
         /\ NumLayers \in Nat \ {0}
BY ConfigsAreLayerSets, SizesAreNat, FS_CardinalityType DEF CandidatesInside

\* The initial states satisfy it.
LEMMA InitInvariant ==
  ASSUME CandidatesInside, Init
  PROVE  IInv
<1> USE DEF Init
<1>1. TypeOK
  <2>1. batch \in Batches
    BY BatchesAreLengths
  <2>2. skipMeta \in 0..Cardinality(cfg.cands) /\ layer \in 0..NumLayers
        /\ fwd \in 0..MaxForwards
    <3>1. cfg \in Configs /\ skipMeta = 0 /\ layer = 0 /\ fwd = 0
      OBVIOUS
    <3> QED BY <3>1, ConfigFacts, SizesAreNat
  <2>3. DOMAIN hidden = {} /\ DOMAIN entropy = {}
    BY DEF NoRecord
  <2> QED BY <2>1, <2>2, <2>3 DEF TypeOK
<1>2. Loaded /\ LayerPos /\ Noted /\ Channels /\ Sound
  BY DEF Loaded, LayerPos, Noted, Channels, Sound
<1> QED BY <1>1, <1>2 DEF IInv

\* Loading hooks every candidate, as each has a layer.
LEMMA EnableKeeps ==
  ASSUME CandidatesInside, IInv, EnableAifd
  PROVE  IInv'
<1> USE DEF IInv, EnableAifd
<1>1. cfg \in Configs
  BY DEF TypeOK
<1>2. {l \in cfg.cands : l > NumLayers} = {}
  BY <1>1, ConfigFacts
<1>3. hooked' = cfg.cands /\ enabled' = (cfg.cands # {})
  BY <1>2
<1>4. TypeOK'
  BY <1>3 DEF TypeOK, pass
<1>5. Loaded'
  BY <1>3 DEF Loaded
<1>6. LayerPos' /\ Noted' /\ Channels' /\ Sound'
  BY DEF LayerPos, Noted, Channels, Sound, NoRecord, pass
<1> QED BY <1>4, <1>5, <1>6

\* A forward starts with nothing recorded and no channel.
LEMMA StartKeeps ==
  ASSUME CandidatesInside, FaultsUniform, IInv, StartForward
  PROVE  IInv'
<1> USE DEF IInv, StartForward
<1>0. cfg \in Configs
  BY DEF TypeOK
<1>1. TypeOK'
  BY SizesAreNat DEF TypeOK, state
<1>2. Loaded' /\ LayerPos' /\ Sound'
  BY DEF Loaded, LayerPos, Sound, state, FaultsUniform
<1>3. Noted'
  <2>1. hidden' = NoRecord /\ entropy' = NoRecord
    BY DEF Noted, state
  <2>2. CandsBelow(layer)' = {} /\ CandsUpTo(layer)' = {}
    BY <1>0, ConfigFacts DEF CandsBelow, CandsUpTo
  <2>3. DOMAIN hidden' = {} /\ DOMAIN entropy' = {}
    BY <2>1 DEF NoRecord
  <2> QED BY <2>1, <2>2, <2>3 DEF Noted, NoRecord
<1>4. Channels'
  <2>1. IsList'
    <3>1. <<>> \in Seq({})
      OBVIOUS
    <3> QED BY <3>1 DEF IsList
  <2>2. AuxBelow(0)' = {}
    BY <1>0, ConfigFacts DEF AuxBelow
  <2>3. Collected(layer, Len(auxList))'
    BY <2>2, FS_EmptySet DEF Collected, AuxBelow
  <2> QED BY <2>1, <2>3 DEF Channels
<1> QED BY <1>1, <1>2, <1>3, <1>4

\* What a step of the loop that touches neither the channels nor the pass
\* leaves alone.
LEMMA SamePass ==
  ASSUME UNCHANGED <<cfg, enabled, pass>>
  PROVE  /\ Tokens' = Tokens
         /\ Recording' = Recording
         /\ \A l \in Nat : Output(l)' = Output(l)
         /\ \A n \in Nat : /\ CandsUpTo(n)' = CandsUpTo(n)
                          /\ CandsBelow(n)' = CandsBelow(n)
                          /\ AuxBelow(n)' = AuxBelow(n)
         /\ \A l \in Nat : AuxRank(l)' = AuxRank(l)
<1> USE DEF pass, Tokens, NumTokens
<1>1. Tokens' = Tokens
  OBVIOUS
<1>2. Recording' = Recording
  BY DEF Recording, SingleToken, NoMetadata, HoldsDecodes
<1> QED BY <1>1, <1>2 DEF Output, CandsUpTo, CandsBelow, AuxBelow, AuxRank

\* A hook records an entropy for every candidate of a pass whose hooks run,
\* and for none of the others.
LEMMA AttnKeeps ==
  ASSUME CandidatesInside, IInv, AttnHook
  PROVE  IInv'
<1> USE DEF IInv
<1>0. cfg \in Configs /\ layer \in Nat /\ layer < NumLayers /\ pc = "attn"
  BY SizesAreNat DEF TypeOK, LayerPos, AttnHook, AttnUnhooked, AttnSkip, AttnFail,
     AttnRecord, LayerDone
<1>1. LayerDone
  BY DEF AttnHook, AttnUnhooked, AttnSkip, AttnFail, AttnRecord
<1>2. UNCHANGED <<cfg, enabled, hooked, hidden, pass, auxList, outcome>>
      /\ pc' = "note" /\ layer' = layer + 1 /\ layer + 1 \in Nat
  BY <1>0, <1>1 DEF LayerDone
<1>3. /\ Tokens' = Tokens /\ Recording' = Recording
      /\ \A l \in Nat : Output(l)' = Output(l) /\ AuxRank(l)' = AuxRank(l)
  BY <1>2, SamePass
<1>4. /\ DOMAIN entropy \subseteq cfg.cands
      /\ \A l \in DOMAIN entropy : DOMAIN entropy[l] = Tokens
      /\ DOMAIN entropy = IF Recording THEN CandsUpTo(layer) ELSE {}
      /\ ~enabled => entropy = NoRecord
      /\ hooked = cfg.cands /\ fault # "some"
  BY <1>0 DEF TypeOK, Noted, Loaded, Sound
<1>5. /\ DOMAIN entropy' \subseteq cfg.cands
      /\ \A l \in DOMAIN entropy' : DOMAIN entropy'[l] = Tokens
      /\ DOMAIN entropy' = IF Recording THEN CandsUpTo(layer + 1) ELSE {}
      /\ ~enabled => entropy' = NoRecord
      /\ skipMeta' \in 0..Cardinality(cfg.cands)
  <2>0. /\ Recording /\ layer + 1 \notin cfg.cands => CandsUpTo(layer + 1) = CandsUpTo(layer)
        /\ layer + 1 \in cfg.cands =>
              CandsUpTo(layer + 1) = CandsUpTo(layer) \cup {layer + 1}
    BY <1>0, ConfigFacts DEF CandsUpTo
  <2>1. skipMeta \in 0..Cardinality(cfg.cands)
    BY DEF TypeOK
  <2>2. CASE AttnUnhooked
    <3>1. entropy' = entropy /\ skipMeta' = skipMeta /\ ~(enabled /\ layer + 1 \in cfg.cands)
      BY <2>2, <1>4 DEF AttnUnhooked, Hooked
    <3>2. Recording => enabled
      BY DEF Recording
    <3> QED BY <3>1, <3>2, <2>0, <2>1, <1>4
  <2>3. CASE AttnSkip
    <3>1. entropy' = entropy /\ ~Recording
      BY <2>3 DEF AttnSkip, Recording
    <3>2. skipMeta' \in 0..Cardinality(cfg.cands)
      <4>1. skipMeta + 1 \in Nat /\ Cardinality(cfg.cands) \in Nat
        BY <1>0, <2>1, ConfigFacts
      <4>2. Min({skipMeta + 1, Cardinality(cfg.cands)}) \in 0..Cardinality(cfg.cands)
        BY <4>1, MinOfTwo
      <4> QED BY <2>1, <2>3, <4>2 DEF AttnSkip
    <3> QED BY <3>1, <3>2, <1>4
  <2>4. CASE AttnFail
    <3>1. entropy' = entropy /\ skipMeta' = skipMeta /\ ~Recording
      BY <2>4, <1>4 DEF AttnFail, Recording
    <3> QED BY <3>1, <2>1, <1>4
  <2>5. CASE AttnRecord
    <3>1. PICK e \in [Tokens -> Entropies] : entropy' = With(entropy, layer + 1, e)
      BY <2>5 DEF AttnRecord
    <3>2. Recording /\ layer + 1 \in cfg.cands /\ skipMeta' = skipMeta
      BY <2>5, <1>4 DEF AttnRecord, HookRuns, Hooked, Recording
    <3>3. DOMAIN entropy' = DOMAIN entropy \cup {layer + 1}
      BY <3>1 DEF With
    <3>4. \A l \in DOMAIN entropy' :
            entropy'[l] = IF l = layer + 1 THEN e ELSE entropy[l]
      BY <3>1 DEF With
    <3>5. \A l \in DOMAIN entropy' : DOMAIN entropy'[l] = Tokens
      BY <3>3, <3>4, <1>4
    <3>6. enabled
      BY <3>2 DEF Recording
    <3> QED BY <3>2, <3>3, <3>5, <3>6, <2>0, <2>1, <1>4
  <2> QED BY <2>2, <2>3, <2>4, <2>5 DEF AttnHook
<1>6. TypeOK'
  <2>1. layer' \in 0..NumLayers
    BY <1>0, <1>2, SizesAreNat
  <2>2. fwd' = fwd /\ batch' = batch /\ fault' = fault
    BY <1>2 DEF pass
  <2> QED BY <1>0, <1>2, <1>5, <2>1, <2>2 DEF TypeOK
<1>7. Loaded' /\ LayerPos' /\ Sound'
  BY <1>0, <1>2 DEF Loaded, LayerPos, Sound, pass
<1>8. Noted'
  <2>1. CandsBelow(layer + 1) = CandsUpTo(layer)
    BY <1>0, ConfigFacts DEF CandsBelow, CandsUpTo
  <2>2. /\ CandsBelow(layer)' = CandsBelow(layer + 1)
        /\ CandsUpTo(layer)' = CandsUpTo(layer + 1)
    BY <1>2 DEF CandsBelow, CandsUpTo
  <2>3. \A l \in DOMAIN hidden' : hidden'[l] = Output(l)'
    <3>1. DOMAIN hidden \subseteq Nat /\ \A l \in DOMAIN hidden : hidden[l] = Output(l)
      BY <1>0, ConfigFacts DEF Noted, TypeOK
    <3> QED BY <3>1, <1>2, <1>3
  <2> QED BY <1>0, <1>2, <1>3, <1>5, <2>1, <2>2, <2>3 DEF Noted, NoRecord
<1>9. Channels'
  <2>1. IsList /\ (\A i \in DOMAIN auxList : DOMAIN auxList[i] = Tokens)
        /\ Collected(layer + 1, Len(auxList))
    BY <1>0 DEF Channels
  <2>2. AuxBelow(layer)' = AuxBelow(layer + 1) /\ AuxBelow(layer + 1) \subseteq Nat
    BY <1>0, <1>2, ConfigFacts DEF AuxBelow
  <2>3. Collected(layer, Len(auxList))'
    BY <1>2, <1>3, <2>1, <2>2 DEF Collected
  <2>4. IsList'
    BY <1>2, <2>1 DEF IsList
  <2> QED BY <1>2, <1>3, <2>1, <2>3, <2>4 DEF Channels
<1> QED BY <1>6, <1>7, <1>8, <1>9

\* What holds whenever the collector is called, and what its call leaves alone.
LEMMA NoteContext ==
  ASSUME CandidatesInside, IInv, Noting
  PROVE  /\ pc = "note" /\ cfg \in Configs /\ layer \in 0..NumLayers
         /\ UNCHANGED <<cfg, enabled, hooked, skipMeta, fwd, batch, fault, layer>>
         /\ Tokens' = Tokens /\ Recording' = Recording
         /\ \A l \in Nat : Output(l)' = Output(l) /\ AuxRank(l)' = AuxRank(l)
         /\ AuxBelow(NumLayers + 1) = cfg.aux
         /\ \E S : WithAux \in Seq(S)
         /\ \A i \in DOMAIN WithAux : DOMAIN WithAux[i] = Tokens
         /\ Len(WithAux) = Cardinality(AuxBelow(layer + 1))
         /\ Len(WithAux) \in Nat
         /\ \A l \in AuxBelow(layer + 1) :
              AuxRank(l) \in 1..Len(WithAux) /\ WithAux[AuxRank(l)] = Output(l)
<1>1. /\ pc = "note" /\ cfg \in Configs /\ layer \in 0..NumLayers
      /\ UNCHANGED <<cfg, enabled, hooked, skipMeta, pass, layer>>
  BY DEF IInv, TypeOK, Noting
<1>2. /\ Tokens' = Tokens /\ Recording' = Recording
      /\ \A l \in Nat : Output(l)' = Output(l) /\ AuxRank(l)' = AuxRank(l)
  BY <1>1, SamePass
<1>3. cfg.aux \subseteq 0..NumLayers /\ layer \in Nat
  BY <1>1, ConfigFacts
<1>4. AuxBelow(NumLayers + 1) = cfg.aux
  BY <1>3, SizesAreNat DEF AuxBelow
<1>5. /\ IsList /\ (\A i \in DOMAIN auxList : DOMAIN auxList[i] = Tokens)
      /\ Collected(layer, Len(auxList))
  BY <1>1 DEF IInv, Channels
<1>6. UNCHANGED <<fwd, batch, fault>>
  BY <1>1 DEF pass
<1> QED BY <1>1, <1>2, <1>3, <1>4, <1>5, <1>6, WithAuxCollects

\* The parts of the invariant a call of the collector cannot disturb.
LEMMA NoteFrame ==
  ASSUME CandidatesInside, IInv, Noting, pc' = AfterNote
  PROVE  Loaded' /\ LayerPos' /\ Sound'
<1>1. /\ pc = "note" /\ layer \in 0..NumLayers
      /\ UNCHANGED <<cfg, enabled, hooked, fault, layer>>
      /\ pc' = IF layer = NumLayers THEN "stack" ELSE "attn"
  BY NoteContext DEF AfterNote
<1>2. Loaded /\ Sound
  BY DEF IInv
<1>3. Loaded'
  BY <1>1, <1>2 DEF Loaded
<1>4. LayerPos'
  BY <1>1, SizesAreNat DEF LayerPos
<1>5. Sound'
  BY <1>1, <1>2 DEF Sound
<1> QED BY <1>3, <1>4, <1>5

\* A call that appends at most the auxiliary channel keeps the channels in
\* step with the layers; it is not the last one of a server that selects.
LEMMA NoteChannels ==
  ASSUME CandidatesInside, IInv, Noting, ~LastCall, auxList' = WithAux,
         pc' = AfterNote
  PROVE  Channels'
<1>1. /\ pc = "note" /\ cfg \in Configs /\ layer \in 0..NumLayers
      /\ UNCHANGED <<cfg, enabled, fwd, batch, layer>>
      /\ pc' = IF layer = NumLayers THEN "stack" ELSE "attn"
  BY NoteContext DEF AfterNote
<1>2. IsList' /\ \A i \in DOMAIN auxList' : DOMAIN auxList'[i] = Tokens'
  BY NoteContext DEF IsList
<1>3. /\ Len(auxList') = Cardinality(AuxBelow(layer + 1)) /\ Len(auxList') \in Nat
      /\ \A l \in AuxBelow(layer + 1) :
            AuxRank(l) \in 1..Len(auxList') /\ auxList'[AuxRank(l)] = Output(l)
  BY NoteContext
<1>4. AuxBelow(layer + 1) \subseteq Nat
  BY <1>1, ConfigFacts DEF AuxBelow
<1>5. \A l \in AuxBelow(layer + 1) :
        AuxRank(l)' \in 1..Len(auxList') /\ auxList'[AuxRank(l)'] = Output(l)'
  BY <1>3, <1>4, NoteContext
<1>6. CASE layer # NumLayers
  <2>1. pc' = "attn" /\ AuxBelow(layer + 1)' = AuxBelow(layer + 1)
    BY <1>1, <1>6 DEF AuxBelow
  <2>2. Collected(layer + 1, Len(auxList))'
    BY <2>1, <1>3, <1>5 DEF Collected
  <2> QED BY <2>1, <2>2, <1>2 DEF Channels
<1>7. CASE layer = NumLayers
  <2>1. pc' = "stack" /\ AuxBelow(NumLayers + 1)' = AuxBelow(layer + 1)
    BY <1>1, <1>7 DEF AuxBelow
  <2>2. cfg.cands = {}
    <3>1. layer \notin cfg.cands /\ layer >= NumLayers
      BY <1>1, <1>7, ConfigFacts
    <3>2. ~enabled
      BY <3>1 DEF LastCall
    <3> QED BY <3>2, <1>1 DEF IInv, Loaded
  <2>3. ExtraChannels' = 0 /\ Len(auxList') - 0 = Len(auxList')
    BY <2>2, <1>1, <1>3 DEF ExtraChannels
  <2>4. Collected(NumLayers + 1, Len(auxList) - ExtraChannels)'
    BY <2>1, <2>3, <1>3, <1>5 DEF Collected
  <2> QED BY <2>1, <2>4, <1>2 DEF Channels
<1> QED BY <1>6, <1>7

\* A candidate's output joins the record of the pass.
LEMMA CandidateKeeps ==
  ASSUME CandidatesInside, IInv, NoteCandidate
  PROVE  IInv'
<1> USE DEF NoteCandidate
<1>1. /\ pc = "note" /\ cfg \in Configs /\ layer \in Nat /\ enabled
      /\ UNCHANGED <<cfg, enabled, hooked, skipMeta, fwd, batch, fault, layer,
                     entropy, outcome>>
      /\ layer \in cfg.cands /\ layer < NumLayers /\ pc' = "attn"
  <2>1. cfg \in Configs /\ layer \in cfg.cands
    BY NoteContext DEF IsCandidate
  <2> QED BY <2>1, NoteContext, ConfigFacts DEF IsCandidate, AfterNote
<1>2. Loaded' /\ LayerPos' /\ Sound'
  BY NoteFrame
<1>3. /\ DOMAIN hidden' = CandsUpTo(layer)
      /\ \A l \in DOMAIN hidden' : hidden'[l] = Output(l)
  <2>1. /\ DOMAIN hidden = CandsBelow(layer)
        /\ \A l \in DOMAIN hidden : hidden[l] = Output(l)
    BY <1>1 DEF IInv, Noted
  <2>2. CandsUpTo(layer) = CandsBelow(layer) \cup {layer}
    BY <1>1, ConfigFacts DEF CandsUpTo, CandsBelow
  <2> QED BY <2>1, <2>2 DEF With
<1>4. TypeOK'
  <2>1. DOMAIN hidden' \subseteq cfg.cands
    BY <1>3 DEF CandsUpTo
  <2> QED BY <1>1, <2>1 DEF IInv, TypeOK
<1>5. Noted'
  <2>1. /\ \A l \in DOMAIN entropy : DOMAIN entropy[l] = Tokens
        /\ DOMAIN entropy = IF Recording THEN CandsUpTo(layer) ELSE {}
    BY <1>1 DEF IInv, Noted
  <2>2. CandsUpTo(layer)' = CandsUpTo(layer) /\ CandsUpTo(layer) \subseteq Nat
    BY <1>1, ConfigFacts DEF CandsUpTo
  <2>3. Tokens' = Tokens /\ Recording' = Recording
        /\ \A l \in Nat : Output(l)' = Output(l)
    BY NoteContext
  <2> QED BY <1>1, <1>3, <2>1, <2>2, <2>3 DEF Noted
<1>6. ~LastCall
  BY <1>1 DEF LastCall
<1>7. Channels'
  BY <1>6, NoteChannels
<1> QED BY <1>2, <1>4, <1>5, <1>7 DEF IInv

\* Any other call leaves the record alone.
LEMMA OtherKeeps ==
  ASSUME CandidatesInside, IInv, NoteOther
  PROVE  IInv'
<1> USE DEF NoteOther
<1>1. /\ pc = "note" /\ cfg \in Configs /\ layer \in 0..NumLayers
      /\ UNCHANGED <<cfg, enabled, hooked, skipMeta, fwd, batch, fault, layer,
                     hidden, entropy, outcome>>
      /\ pc' = IF layer = NumLayers THEN "stack" ELSE "attn"
  BY NoteContext DEF AfterNote
<1>2. Loaded' /\ LayerPos' /\ Sound'
  BY NoteFrame
<1>3. TypeOK'
  BY <1>1 DEF IInv, TypeOK
<1>4. Noted'
  <2>1. Noted /\ TypeOK
    BY DEF IInv
  <2>2. /\ CandsUpTo(layer)' = CandsUpTo(layer) /\ CandsUpTo(layer) \subseteq Nat
        /\ CandsBelow(layer) \subseteq Nat
    BY <1>1, ConfigFacts DEF CandsUpTo, CandsBelow
  <2>3. Tokens' = Tokens /\ Recording' = Recording
        /\ \A l \in Nat : Output(l)' = Output(l)
    BY NoteContext
  <2>4. DOMAIN hidden \subseteq Nat
    BY <1>1, <2>1, ConfigFacts DEF TypeOK
  <2>5. enabled => layer \notin cfg.cands
    BY <1>1 DEF IsCandidate
  <2>6. enabled => CandsUpTo(layer) = CandsBelow(layer) /\ layer # NumLayers
    <3>1. SUFFICES ASSUME enabled PROVE CandsUpTo(layer) = CandsBelow(layer)
                                         /\ layer # NumLayers
      OBVIOUS
    <3>2. layer # NumLayers
      BY <1>1, <2>5, <3>1, SizesAreNat DEF LastCall
    <3> QED BY <1>1, <2>5, <3>1, <3>2, ConfigFacts DEF CandsUpTo, CandsBelow
  <2> QED BY <1>1, <2>1, <2>2, <2>3, <2>4, <2>6 DEF Noted, NoRecord
<1>5. Channels'
  BY NoteChannels
<1> QED BY <1>2, <1>3, <1>4, <1>5 DEF IInv

\* The last call appends one channel with a row per token and resets.
LEMMA EmitKeeps ==
  ASSUME CandidatesInside, IInv, Noting, LastCall,
         NEW channel, NEW how \in {"single", "warmup", "warned", "selected"},
         Emit(channel, how), DOMAIN channel = Tokens
  PROVE  IInv'
<1>1. /\ pc = "note" /\ cfg \in Configs /\ enabled /\ layer = NumLayers
      /\ UNCHANGED <<cfg, enabled, hooked, skipMeta, fwd, batch, fault, layer>>
      /\ pc' = "stack" /\ outcome' = how
      /\ hidden' = NoRecord /\ entropy' = NoRecord
      /\ auxList' = Append(WithAux, channel)
  BY NoteContext, SizesAreNat DEF LastCall, Emit, ResetState, AfterNote
<1>2. Loaded' /\ LayerPos' /\ Sound'
  BY NoteFrame DEF Emit
<1>3. TypeOK'
  <2>1. DOMAIN hidden' = {} /\ DOMAIN entropy' = {}
    BY <1>1 DEF NoRecord
  <2> QED BY <1>1, <2>1 DEF IInv, TypeOK
<1>4. Noted'
  BY <1>1 DEF Noted, NoRecord
<1>5. Channels'
  <2>1. PICK S : WithAux \in Seq(S)
    BY NoteContext
  <2>2. /\ auxList' \in Seq(S \cup {channel}) /\ Len(auxList') = Len(WithAux) + 1
        /\ \A i \in 1..Len(WithAux) : auxList'[i] = WithAux[i]
        /\ auxList'[Len(WithAux) + 1] = channel
    BY <2>1, <1>1
  <2>3. \A i \in DOMAIN auxList' : DOMAIN auxList'[i] = Tokens'
    <3>1. TAKE i \in DOMAIN auxList'
    <3>2. i \in 1..Len(WithAux) \/ i = Len(WithAux) + 1
      BY <2>1, <2>2, <3>1
    <3>3. DOMAIN WithAux = 1..Len(WithAux)
      BY <2>1
    <3> QED BY <2>2, <3>2, <3>3, NoteContext
  <2>4. ExtraChannels' = 1
    BY <1>1 DEF IInv, Loaded, ExtraChannels
  <2>5. /\ AuxBelow(NumLayers + 1)' = AuxBelow(layer + 1)
        /\ AuxBelow(layer + 1) \subseteq Nat
    BY <1>1, ConfigFacts DEF AuxBelow
  <2>6. /\ Len(auxList') - 1 = Cardinality(AuxBelow(layer + 1))
        /\ Len(auxList') - 1 = Len(WithAux) /\ Len(WithAux) \in Nat
    BY <2>1, <2>2, NoteContext
  <2>7. \A l \in AuxBelow(layer + 1) :
          AuxRank(l)' \in 1..Len(WithAux) /\ auxList'[AuxRank(l)'] = Output(l)'
    BY <2>2, <2>5, NoteContext
  <2>8. Collected(NumLayers + 1, Len(auxList) - ExtraChannels)'
    BY <2>4, <2>5, <2>6, <2>7 DEF Collected
  <2>9. IsList'
    BY <2>2 DEF IsList
  <2> QED BY <1>1, <2>3, <2>8, <2>9 DEF Channels
<1> QED BY <1>2, <1>3, <1>4, <1>5 DEF IInv

\* Every fallback has one row per token.
LEMMA FallbackRows ==
  ASSUME CandidatesInside, IInv, Noting, LastCall
  PROVE  DOMAIN Fallback = Tokens
<1>1. /\ pc = "note" /\ cfg \in Configs /\ enabled
      /\ DOMAIN hidden \subseteq cfg.cands
      /\ \A l \in DOMAIN hidden : hidden[l] = Output(l)
  BY NoteContext DEF LastCall, IInv, TypeOK, Noted
<1>2. \A l : DOMAIN Output(l) = Tokens
  BY DEF Output
<1>3. CASE DOMAIN hidden = {}
  BY <1>2, <1>3 DEF Fallback
<1>4. CASE DOMAIN hidden # {}
  <2>1. /\ DOMAIN hidden \subseteq Nat /\ NumLayers \in Nat
        /\ \A l \in DOMAIN hidden : l <= NumLayers
    BY <1>1, ConfigFacts
  <2>2. Max(DOMAIN hidden) \in DOMAIN hidden
    BY <1>4, <2>1, MaxInSet
  <2> QED BY <1>1, <1>2, <1>4, <2>2 DEF Fallback
<1> QED BY <1>3, <1>4

\* With hooks that fail together, the entropies of a pass cover the recorded
\* candidates or none of them, so the lookup of the scores cannot raise.
LEMMA NeverRaises ==
  ASSUME CandidatesInside, IInv, EmitRaises
  PROVE  FALSE
<1>1. /\ pc = "note" /\ cfg \in Configs /\ enabled /\ layer \in 0..NumLayers
      /\ DOMAIN entropy # {} /\ DOMAIN hidden = cfg.cands /\ DOMAIN entropy # cfg.cands
      /\ layer >= NumLayers
  BY NoteContext DEF EmitRaises, LastCall, Selectable, Incomplete
<1>2. DOMAIN entropy = CandsUpTo(layer)
  BY <1>1 DEF IInv, Noted
<1>3. CandsUpTo(layer) = cfg.cands
  BY <1>1, ConfigFacts DEF CandsUpTo
<1> QED BY <1>1, <1>2, <1>3

\* The gathered channel has one row per token of the batch.
LEMMA SelectedRows ==
  ASSUME CandidatesInside, IInv, EmitSelected
  PROVE  DOMAIN Gather(SelectLayers) = Tokens
<1>1. /\ pc = "note" /\ cfg \in Configs /\ DOMAIN entropy = cfg.cands
      /\ DOMAIN entropy # {} /\ SegmentsMatch
  BY NoteContext DEF EmitSelected, Selectable, Incomplete
<1>2. PICK l \in cfg.cands : DOMAIN entropy[l] = 1..Total(seqLengths)
  BY <1>1 DEF SegmentsMatch
<1>3. DOMAIN entropy[l] = Tokens
  BY <1>1, <1>2 DEF IInv, Noted
<1> QED BY <1>2, <1>3 DEF Gather, SelectLayers

\* The collector's calls keep the invariant.
LEMMA NoteKeeps ==
  ASSUME CandidatesInside, IInv, NoteLayer
  PROVE  IInv'
<1>1. CASE NoteCandidate
  BY <1>1, CandidateKeeps
<1>2. CASE NoteOther
  BY <1>2, OtherKeeps
<1>3. CASE EmitSingle
  BY <1>3, EmitKeeps, FallbackRows DEF EmitSingle
<1>4. CASE EmitWarmup
  BY <1>4, EmitKeeps, FallbackRows DEF EmitWarmup
<1>5. CASE EmitWarned
  BY <1>5, EmitKeeps, FallbackRows DEF EmitWarned
<1>6. CASE EmitRaises
  BY <1>6, NeverRaises
<1>7. CASE EmitSelected
  BY <1>7, EmitKeeps, SelectedRows DEF EmitSelected
<1> QED BY <1>1, <1>2, <1>3, <1>4, <1>5, <1>6, <1>7 DEF NoteLayer

\* The invariant contains the contract.
LEMMA InvariantImplies ==
  ASSUME CandidatesInside, IInv
  PROVE  ChannelContract /\ AifdChannelLast /\ EngineSurvives
<1> USE DEF EngineSurvives, IInv, Sound
<1>1. CASE pc # "stack"
  BY <1>1 DEF ChannelContract, AifdChannelLast
<1>2. CASE pc = "stack"
  <2>1. cfg \in Configs
    BY DEF IInv, TypeOK
  <2>2. AuxBelow(NumLayers + 1) = cfg.aux
    BY <2>1, ConfigFacts DEF AuxBelow
  <2>3. /\ \A i \in DOMAIN auxList : DOMAIN auxList[i] = Tokens
        /\ Len(auxList) - ExtraChannels = Cardinality(cfg.aux)
        /\ \A l \in cfg.aux : auxList[AuxRank(l)] = Output(l)
    BY <1>2, <2>2 DEF IInv, Channels, Collected
  <2>4. Len(auxList) \in Nat
    BY <1>2 DEF IInv, Channels, IsList
  <2>5. ExtraChannels \in Nat
    BY DEF ExtraChannels
  <2>6. Cardinality(cfg.aux) \in Nat
    <3>1. cfg.aux \in SUBSET Nat /\ NumLayers \in Nat
          /\ \A l \in cfg.aux : l <= NumLayers
      BY <2>1, ConfigFacts
    <3>2. IsFiniteSet(cfg.aux)
      BY <3>1, FS_BoundedSetOfNaturals
    <3> QED BY <3>2, FS_CardinalityType
  <2>7. Len(auxList) = ExpectedChannels
    BY <2>3, <2>4, <2>5, <2>6 DEF ExpectedChannels
  <2> QED BY <1>2, <2>3, <2>7 DEF ChannelContract, AifdChannelLast
<1> QED BY <1>1, <1>2

\* Stacking succeeds, as the channels have the expected number.
LEMMA StackKeeps ==
  ASSUME CandidatesInside, IInv, Stack
  PROVE  IInv'
<1>1. pc = "stack" /\ UNCHANGED <<cfg, state, pass, layer, auxList, outcome, truth>>
  BY DEF Stack
<1>2. StackFits
  BY <1>1, InvariantImplies DEF ChannelContract, StackFits
<1>3. pc' = "idle"
  BY <1>2 DEF Stack
<1>4. hidden = NoRecord /\ entropy = NoRecord
  BY <1>1 DEF IInv, Noted
<1>5. TypeOK'
  BY <1>1, <1>3 DEF IInv, TypeOK, state, pass
<1>6. Loaded' /\ LayerPos' /\ Channels' /\ Sound'
  BY <1>1, <1>3 DEF IInv, Loaded, LayerPos, Channels, Sound, state, pass
<1>7. Noted'
  BY <1>1, <1>3, <1>4 DEF Noted, NoRecord, state
<1> QED BY <1>5, <1>6, <1>7 DEF IInv

\* A step that changes nothing changes nothing of the invariant.
LEMMA StutterKeeps ==
  ASSUME IInv, UNCHANGED vars
  PROVE  IInv'
<1> USE DEF vars, state, pass, IInv
<1>1. TypeOK' /\ Loaded' /\ LayerPos' /\ Sound'
  BY DEF TypeOK, Loaded, LayerPos, Sound
<1>2. Noted'
  BY DEF Noted, CandsBelow, CandsUpTo, Output, Tokens, NumTokens, Recording,
     SingleToken, NoMetadata, HoldsDecodes, NoRecord
<1>3. Channels'
  <2>1. UNCHANGED <<cfg, pc, layer, auxList, fwd, batch>>
    OBVIOUS
  <2>2. Tokens' = Tokens /\ IsList' = IsList /\ ExtraChannels' = ExtraChannels
    BY <2>1 DEF Tokens, NumTokens, IsList, ExtraChannels
  <2>3. Collected(layer, Len(auxList))' = Collected(layer, Len(auxList))
    BY <2>1, <2>2 DEF Collected, AuxBelow, AuxRank, Output
  <2>4. Collected(layer + 1, Len(auxList))' = Collected(layer + 1, Len(auxList))
    BY <2>1, <2>2 DEF Collected, AuxBelow, AuxRank, Output
  <2>5. Collected(NumLayers + 1, Len(auxList) - ExtraChannels)'
          = Collected(NumLayers + 1, Len(auxList) - ExtraChannels)
    BY <2>1, <2>2 DEF Collected, AuxBelow, AuxRank, Output
  <2>6. Channels
    OBVIOUS
  <2> HIDE DEF vars, state, pass, IInv
  <2> QED BY <2>1, <2>2, <2>3, <2>4, <2>5, <2>6 DEF Channels
<1> QED BY <1>1, <1>2, <1>3

\* The invariant holds of every behaviour of a server whose candidates have a
\* layer after them and whose hooks fail together.
THEOREM Invariance ==
  ASSUME CandidatesInside, FaultsUniform
  PROVE  Spec => []IInv
<1>1. Init => IInv
  BY InitInvariant
<1>2. IInv /\ [Next]_vars => IInv'
  <2> SUFFICES ASSUME IInv, [Next]_vars PROVE IInv'
    OBVIOUS
  <2>1. CASE EnableAifd
    BY <2>1, EnableKeeps
  <2>2. CASE StartForward
    BY <2>2, StartKeeps
  <2>3. CASE AttnHook
    BY <2>3, AttnKeeps
  <2>4. CASE NoteLayer
    BY <2>4, NoteKeeps
  <2>5. CASE Stack
    BY <2>5, StackKeeps
  <2>6. CASE UNCHANGED vars
    BY <2>6, StutterKeeps
  <2> QED BY <2>1, <2>2, <2>3, <2>4, <2>5, <2>6 DEF Next, Stopped
<1> QED BY <1>1, <1>2, PTL DEF Spec

\* The state the hooks share stays within its types, on every server.
THEOREM TypeCorrect ==
  ASSUME CandidatesInside, FaultsUniform
  PROVE  Spec => []TypeOK
<1>1. IInv => TypeOK
  BY DEF IInv
<1> QED BY <1>1, Invariance, PTL

\* Every forward delivers exactly the channels the proposer's buffer has, each
\* with one row per token, and no forward pass takes the engine down.
THEOREM ChannelContractHolds ==
  ASSUME CandidatesInside, FaultsUniform
  PROVE  Spec => [](ChannelContract /\ EngineSurvives)
<1>1. IInv => ChannelContract /\ EngineSurvives
  BY InvariantImplies
<1> QED BY <1>1, Invariance, PTL

\* The channels the trainer splits by position are the auxiliary layers of
\* this forward pass in ascending order; the selected one comes after them.
THEOREM AifdChannelLastHolds ==
  ASSUME CandidatesInside, FaultsUniform
  PROVE  Spec => []AifdChannelLast
<1>1. IInv => AifdChannelLast
  BY InvariantImplies
<1> QED BY <1>1, Invariance, PTL

-----------------------------------------------------------------------------
(* The selection.                                                          *)

\* What a batch is.
LEMMA BatchFacts ==
  ASSUME NEW lens, lens \in Seq(Nat \ {0}), lens # <<>>
  PROVE  /\ Len(lens) \in Nat \ {0} /\ DOMAIN lens = 1..Len(lens)
         /\ \A r \in DOMAIN lens : lens[r] \in Nat /\ lens[r] > 0
         /\ Total(lens) \in Nat /\ NumDecodeTokens(lens) \in Nat
<1>1. Len(lens) \in Nat \ {0} /\ DOMAIN lens = 1..Len(lens)
  OBVIOUS
<1>2. \A r \in DOMAIN lens : lens[r] \in Nat /\ lens[r] > 0
  BY <1>1
<1>3. IsFiniteSet(DOMAIN lens)
  BY <1>1, FS_Interval
<1>4. Total(lens) \in Nat
  BY <1>2, <1>3, SumNat DEF Total
<1>5. NumDecodeTokens(lens) \in Nat
  <2> DEFINE short == {r \in DOMAIN lens : lens[r] <= DecodeThreshold}
  <2>1. short \subseteq DOMAIN lens /\ \A r \in short : lens[r] \in Nat
    BY <1>2
  <2>2. IsFiniteSet(short)
    BY <2>1, <1>3, FS_Subset
  <2> HIDE DEF short
  <2>3. SumFunctionOnSet(lens, short) \in Nat
    BY <2>1, <2>2, SumNat
  <2> QED BY <2>3 DEF NumDecodeTokens, short
<1> QED BY <1>1, <1>2, <1>4, <1>5

\* Where the requests of a batch begin and end: each starts where the one
\* before it ends, and the last ends with the batch.
LEMMA Offsets ==
  ASSUME NEW lens, lens \in Seq(Nat \ {0}), lens # <<>>, NEW r \in DOMAIN lens
  PROVE  /\ Offset(lens, r) \in Nat
         /\ SumFunctionOnSet(lens, 1..r) = Offset(lens, r) + lens[r]
         /\ Offset(lens, r) + lens[r] <= Total(lens)
         /\ \A q \in DOMAIN lens : r < q => Offset(lens, r) + lens[r] <= Offset(lens, q)
<1> DEFINE n == Len(lens)
<1>1. n \in Nat \ {0} /\ DOMAIN lens = 1..n /\ \A i \in 1..n : lens[i] \in Nat
  BY BatchFacts
<1>2. r \in 1..n /\ \A i \in 1..r : lens[i] \in Nat
  BY <1>1
<1>3. /\ SumFunctionOnSet(lens, 1..r) = lens[r] + SumFunctionOnSet(lens, 1..(r - 1))
      /\ SumFunctionOnSet(lens, 1..(r - 1)) \in Nat
  <2>1. r \in Nat \ {0}
    BY <1>2
  <2> QED BY <1>2, <2>1, SumUpTo
<1>4. Offset(lens, r) \in Nat /\ SumFunctionOnSet(lens, 1..r) = Offset(lens, r) + lens[r]
  BY <1>1, <1>2, <1>3 DEF Offset
<1>5. ASSUME NEW m \in r..n PROVE SumFunctionOnSet(lens, 1..r) <= SumFunctionOnSet(lens, 1..m)
  <2>1. m \in Nat /\ r \in Nat /\ r <= m /\ m <= n
    BY <1>1, <1>2
  <2>2. IsFiniteSet(1..m)
    BY <2>1, FS_Interval
  <2>3. 1..r \in SUBSET (1..m) /\ 1..m \subseteq 1..n
    BY <1>1, <2>1
  <2>4. \A i \in 1..m : lens[i] \in Nat
    BY <1>1, <2>3
  <2> QED BY <2>2, <2>3, <2>4, SumSubset
<1>6. SumFunctionOnSet(lens, 1..r) <= Total(lens)
  <2>1. n \in r..n
    BY <1>1, <1>2
  <2> QED BY <1>1, <1>5, <2>1 DEF Total
<1>7. ASSUME NEW q \in DOMAIN lens, r < q
      PROVE  SumFunctionOnSet(lens, 1..r) <= Offset(lens, q)
  <2>1. q - 1 \in r..n
    BY <1>1, <1>2, <1>7
  <2> QED BY <1>5, <2>1 DEF Offset
<1> QED BY <1>4, <1>6, <1>7

\* The hook recovers the lengths from the cumulative ones.
LEMMA LengthsRecovered ==
  ASSUME NEW lens, lens \in Seq(Nat \ {0}), lens # <<>>
  PROVE  CumulativeToLengths(ActualSeqLengthsQ(lens)) = lens
<1> DEFINE cu == ActualSeqLengthsQ(lens)
<1>1. DOMAIN lens = 1..Len(lens) /\ Len(lens) \in Nat
      /\ \A r \in DOMAIN lens : lens[r] \in Nat
  BY BatchFacts
<1>2. DOMAIN cu = DOMAIN lens /\ \A r \in DOMAIN lens : cu[r] = Offset(lens, r) + lens[r]
  BY Offsets DEF ActualSeqLengthsQ
<1>3. \A r \in DOMAIN lens : r # 1 => r - 1 \in DOMAIN lens /\ cu[r - 1] = Offset(lens, r)
  BY <1>1 DEF ActualSeqLengthsQ, Offset
<1>4. 1 \in DOMAIN lens => Offset(lens, 1) = 0
  <2>1. 1..(1 - 1) = {}
    OBVIOUS
  <2> QED BY <2>1, SumEmpty DEF Offset
<1> HIDE DEF cu
<1>5. ASSUME NEW r \in DOMAIN lens
      PROVE  (IF r = 1 THEN cu[1] ELSE cu[r] - cu[r - 1]) = lens[r]
  <2>1. Offset(lens, r) \in Nat /\ lens[r] \in Nat
    BY <1>1, Offsets
  <2>2. CASE r = 1
    BY <2>1, <2>2, <1>2, <1>4
  <2>3. CASE r # 1
    BY <2>1, <2>3, <1>2, <1>3
  <2> QED BY <2>2, <2>3
<1>6. [r \in DOMAIN cu |-> IF r = 1 THEN cu[1] ELSE cu[r] - cu[r - 1]]
        = [r \in DOMAIN lens |-> lens[r]]
  BY <1>2, <1>5
<1>7. lens = [r \in DOMAIN lens |-> lens[r]]
  OBVIOUS
<1> QED BY <1>6, <1>7 DEF CumulativeToLengths, cu

\* A token is in one request only, and that request is found for it.
LEMMA SegmentFound ==
  ASSUME NEW lens, lens \in Seq(Nat \ {0}), lens # <<>>,
         NEW r \in DOMAIN lens, NEW t \in Segment(lens, r)
  PROVE  SegmentOf(lens, t) = Segment(lens, r) /\ Segment(lens, r) \subseteq 1..Total(lens)
<1>1. \A q \in DOMAIN lens :
        /\ q \in Nat /\ Offset(lens, q) \in Nat /\ lens[q] \in Nat
        /\ Offset(lens, q) + lens[q] <= Total(lens)
  BY BatchFacts, Offsets
<1>2. Total(lens) \in Nat
  BY BatchFacts
<1>3. Segment(lens, r) \subseteq 1..Total(lens)
  BY <1>1, <1>2 DEF Segment
<1>4. ASSUME NEW q \in DOMAIN lens, t \in Segment(lens, q) PROVE q = r
  <2>1. /\ Offset(lens, r) < t /\ t <= Offset(lens, r) + lens[r]
        /\ Offset(lens, q) < t /\ t <= Offset(lens, q) + lens[q] /\ t \in Int
    BY <1>1, <1>4 DEF Segment
  <2>2. q < r => Offset(lens, q) + lens[q] <= Offset(lens, r)
    BY Offsets
  <2>3. r < q => Offset(lens, r) + lens[r] <= Offset(lens, q)
    BY Offsets
  <2> QED BY <1>1, <2>1, <2>2, <2>3
<1>5. (CHOOSE q \in DOMAIN lens : t \in Segment(lens, q)) = r
  BY <1>4
<1> QED BY <1>3, <1>5 DEF SegmentOf

\* A finite set of candidates with a score each has a best one, the lowest
\* layer of those with the smallest score.
LEMMA BestExists ==
  ASSUME NEW C, C \subseteq Nat, C # {}, NEW v, \A l \in C : v[l] \in Nat
  PROVE  \E l \in C : \A k \in C : v[l] < v[k] \/ (v[l] = v[k] /\ l <= k)
<1> DEFINE V == {v[l] : l \in C}
<1>1. V \subseteq Nat /\ V # {}
  OBVIOUS
<1>2. PICK m \in V : \A n \in V : m <= n
  <2> HIDE DEF V
  <2> QED BY <1>1, LeastNat
<1> DEFINE D == {l \in C : v[l] = m}
<1>3. D \subseteq Nat /\ D # {}
  BY <1>2
<1>4. PICK l \in D : \A k \in D : l <= k
  <2> HIDE DEF D
  <2> QED BY <1>3, LeastNat
<1>5. ASSUME NEW k \in C PROVE v[l] < v[k] \/ (v[l] = v[k] /\ l <= k)
  <2>1. v[k] \in V /\ v[l] = m /\ m \in Nat /\ v[k] \in Nat
    BY <1>1, <1>2, <1>4
  <2>2. m <= v[k]
    BY <1>2, <2>1
  <2>3. v[k] = m => l <= k
    BY <1>4
  <2> QED BY <2>1, <2>2, <2>3
<1> QED BY <1>4, <1>5

\* The first candidate, and the one before a scored candidate.
LEMMA Candidates ==
  ASSUME cfg.cands \subseteq Nat, cfg.cands # {}
  PROVE  /\ FirstCand \in cfg.cands /\ \A l \in cfg.cands : FirstCand <= l
         /\ ScoredCands \subseteq cfg.cands /\ ScoredCands # {}
         /\ \A l \in ScoredCands : l # FirstCand => PrevCand(l) \in cfg.cands
<1>1. \E m \in cfg.cands : \A n \in cfg.cands : m <= n
  BY LeastNat
<1>2. FirstCand \in cfg.cands /\ \A l \in cfg.cands : FirstCand <= l
  BY <1>1 DEF FirstCand, Min
<1>3. ScoredCands \subseteq cfg.cands /\ ScoredCands # {}
  BY <1>2 DEF ScoredCands
<1>4. ASSUME NEW l \in ScoredCands, l # FirstCand PROVE PrevCand(l) \in cfg.cands
  <2> DEFINE S == {k \in cfg.cands : k < l}
  <2>1. l \in Nat /\ FirstCand \in S /\ S \subseteq Nat /\ \A x \in S : x <= l
    BY <1>2, <1>3, <1>4
  <2> HIDE DEF S
  <2>2. Max(S) \in S
    BY <2>1, MaxInSet
  <2> QED BY <2>2 DEF PrevCand, S
<1> QED BY <1>2, <1>3, <1>4

\* The entropies of a pass: one for each candidate and each token.
Measured(rows) ==
  /\ DOMAIN rows = cfg.cands
  /\ \A l \in cfg.cands : rows[l] \in [Tokens -> Nat]

\* The scores over a slice of the batch are naturals, and those of the true
\* entropies when the recorded ones are.
LEMMA ScoresAreNat ==
  ASSUME cfg.cands \subseteq Nat, cfg.cands # {}, Measured(entropy), entropy = truth,
         NEW slice, IsFiniteSet(slice), slice \subseteq Tokens, NEW l \in ScoredCands
  PROVE  SliceScore(l, slice) \in Nat /\ TrueScore(l, slice) = SliceScore(l, slice)
<1>1. CASE l = FirstCand
  BY <1>1 DEF SliceScore, TrueScore
<1>2. CASE l # FirstCand
  <2> DEFINE p == PrevCand(l)
             f == [t \in slice |-> Score(l, t)]
             g == [t \in slice |-> truth[l][t] + Abs(truth[l][t] - truth[p][t])]
  <2>1. l \in cfg.cands /\ p \in cfg.cands
    BY <1>2, Candidates
  <2>2. \A t \in slice : Score(l, t) = entropy[l][t] + Abs(entropy[l][t] - entropy[p][t])
    BY DEF Score
  <2>3. \A t \in slice : entropy[l][t] \in Nat /\ entropy[p][t] \in Nat
    BY <2>1 DEF Measured
  <2> HIDE DEF p
  <2>4. \A t \in slice : f[t] \in Nat
    BY <2>2, <2>3 DEF Abs
  <2>5. f = g
    BY <2>2
  <2> HIDE DEF f
  <2>6. SumFunctionOnSet(f, slice) \in Nat
    BY <2>4, SumNat
  <2>7. SliceScore(l, slice) = SumFunctionOnSet(f, slice)
    BY <1>2 DEF SliceScore, f
  <2>8. TrueScore(l, slice) = SumFunctionOnSet(g, slice)
    BY <1>2 DEF TrueScore, p
  <2> QED BY <2>5, <2>6, <2>7, <2>8
<1> QED BY <1>1, <1>2

\* The layer taken for a slice is the best one by the true entropies.
LEMMA ArgMinIsBest ==
  ASSUME cfg.cands \subseteq Nat, cfg.cands # {}, Measured(entropy), entropy = truth,
         NEW slice, IsFiniteSet(slice), slice \subseteq Tokens
  PROVE  ArgMin(slice) \in ScoredCands /\ Best(ArgMin(slice), slice)
<1> DEFINE v == [l \in ScoredCands |-> SliceScore(l, slice)]
<1>1. /\ ScoredCands \subseteq Nat /\ ScoredCands # {}
      /\ \A l \in ScoredCands : v[l] \in Nat /\ TrueScore(l, slice) = v[l]
  BY Candidates, ScoresAreNat
<1>2. \E l \in ScoredCands : \A k \in ScoredCands :
         v[l] < v[k] \/ (v[l] = v[k] /\ l <= k)
  <2> HIDE DEF v
  <2> QED BY <1>1, BestExists
<1>3. /\ ArgMin(slice) \in ScoredCands
      /\ \A k \in ScoredCands : \/ v[ArgMin(slice)] < v[k]
                                \/ v[ArgMin(slice)] = v[k] /\ ArgMin(slice) <= k
  BY <1>2 DEF ArgMin
<1> DEFINE a == ArgMin(slice)
<1> HIDE DEF v, a
<1>4. a \in ScoredCands /\ \A k \in ScoredCands : v[a] < v[k] \/ (v[a] = v[k] /\ a <= k)
  BY <1>3 DEF a
<1>5. ASSUME NEW k \in ScoredCands \ {a}
      PROVE  IF k < a THEN TrueScore(a, slice) < TrueScore(k, slice)
             ELSE TrueScore(a, slice) <= TrueScore(k, slice)
  <2>1. /\ v[a] \in Nat /\ v[k] \in Nat /\ a \in Nat /\ k \in Nat
        /\ TrueScore(a, slice) = v[a] /\ TrueScore(k, slice) = v[k]
    BY <1>1, <1>4
  <2> QED BY <1>4, <2>1
<1> QED BY <1>4, <1>5 DEF Best, a

-----------------------------------------------------------------------------
(* The invariant of the selection, on top of the one of the channels.      *)

\* While the layers run, the record is what the hooks measured in this very
\* pass, with the lengths of its batch; after the last call nothing is kept.
Recorded ==
  /\ pc \in {"note", "attn"} =>
       /\ truth = entropy /\ outcome = "none"
       /\ \A l \in DOMAIN entropy : entropy[l] \in [Tokens -> Nat]
       /\ seqLengths = IF DOMAIN entropy = {} THEN <<>> ELSE batch.lens
  /\ pc \in {"load", "idle", "stack"} => seqLengths = <<>>

SelectionInv == Recorded /\ SelectionIsRight

\* Away from the proposer, the selection's contract says nothing.
LEMMA NotStacking ==
  ASSUME pc # "stack"
  PROVE  SelectionIsRight
BY DEF SelectionIsRight, SelectsExactlyPrefill, SelectionIsMinimal

\* The numbers of tokens of the batch in force.
LEMMA BatchInForce ==
  ASSUME IInv
  PROVE  /\ batch.lens \in Seq(Nat \ {0}) /\ batch.lens # <<>> /\ batch.dummy \in BOOLEAN
         /\ NumTokens \in Nat /\ NumDecodeTokens(batch.lens) \in Nat
         /\ PurePrefill <=> ~SingleToken /\ ~NoMetadata /\ ~HoldsDecodes
<1>1. batch.lens \in Seq(Nat \ {0}) /\ batch.lens # <<>> /\ batch.dummy \in BOOLEAN
  BY BatchesAreLengths DEF IInv, TypeOK
<1>2. NumTokens \in Nat /\ NumDecodeTokens(batch.lens) \in Nat
  BY <1>1, BatchFacts DEF NumTokens
<1>3. SingleToken <=> ~(NumTokens > 1)
  BY <1>2 DEF SingleToken
<1>4. HoldsDecodes <=> NumDecodeTokens(batch.lens) # 0
  BY <1>2 DEF HoldsDecodes
<1> QED BY <1>1, <1>2, <1>3, <1>4 DEF PurePrefill, NoMetadata

\* The steps before and after a pass.
LEMMA SelectionQuiet ==
  ASSUME IInv, SelectionInv, EnableAifd \/ StartForward \/ Stack
  PROVE  SelectionInv'
<1>1. SelectionIsRight'
  <2>1. pc' # "stack"
    BY DEF EnableAifd, StartForward, Stack
  <2> QED BY <2>1 DEF SelectionIsRight, SelectsExactlyPrefill, SelectionIsMinimal
<1>2. Recorded'
  <2>1. CASE EnableAifd
    BY <2>1 DEF EnableAifd, SelectionInv, Recorded
  <2>2. CASE StartForward
    <3>1. entropy' = NoRecord /\ seqLengths' = <<>> /\ truth' = NoRecord
          /\ outcome' = "none" /\ pc' = "note"
      BY <2>2 DEF StartForward, IInv, Noted, SelectionInv, Recorded, state
    <3>2. DOMAIN entropy' = {}
      BY <3>1 DEF NoRecord
    <3> QED BY <3>1, <3>2 DEF Recorded
  <2>3. CASE Stack
    <3>1. pc = "stack" /\ pc' \in {"idle", "crashed"} /\ seqLengths' = seqLengths
      BY <2>3 DEF Stack, state
    <3> QED BY <3>1 DEF SelectionInv, Recorded
  <2> QED BY <2>1, <2>2, <2>3
<1> QED BY <1>1, <1>2 DEF SelectionInv

\* A hook that records takes the lengths of the batch along.
LEMMA SelectionAttn ==
  ASSUME IInv, SelectionInv, AttnHook
  PROVE  SelectionInv'
<1>1. /\ pc = "attn" /\ pc' = "note" /\ Tokens' = Tokens /\ batch' = batch
      /\ outcome' = outcome
  <2>1. LayerDone
    BY DEF AttnHook, AttnUnhooked, AttnSkip, AttnFail, AttnRecord
  <2> QED BY <2>1 DEF LayerDone, pass, Tokens, NumTokens
<1>2. /\ truth = entropy /\ outcome = "none"
      /\ \A l \in DOMAIN entropy : entropy[l] \in [Tokens -> Nat]
      /\ seqLengths = IF DOMAIN entropy = {} THEN <<>> ELSE batch.lens
  BY <1>1 DEF SelectionInv, Recorded
<1>3. SelectionIsRight'
  BY <1>1 DEF SelectionIsRight, SelectsExactlyPrefill, SelectionIsMinimal
<1>4. CASE AttnUnhooked \/ AttnSkip \/ AttnFail
  <2>1. UNCHANGED <<entropy, seqLengths, truth>>
    BY <1>4 DEF AttnUnhooked, AttnSkip, AttnFail
  <2> QED BY <1>1, <1>2, <1>3, <2>1 DEF SelectionInv, Recorded
<1>5. CASE AttnRecord
  <2>1. PICK e \in [Tokens -> Entropies] :
          entropy' = With(entropy, layer + 1, e) /\ truth' = With(truth, layer + 1, e)
    BY <1>5 DEF AttnRecord
  <2>2. e \in [Tokens -> Nat]
    BY SizesAreNat
  <2>3. /\ DOMAIN entropy' = DOMAIN entropy \cup {layer + 1}
        /\ \A l \in DOMAIN entropy' :
              entropy'[l] = IF l = layer + 1 THEN e ELSE entropy[l]
    BY <2>1 DEF With
  <2>4. \A l \in DOMAIN entropy' : entropy'[l] \in [Tokens -> Nat]
    BY <1>2, <2>2, <2>3
  <2>5. seqLengths' = batch.lens
    <3>1. CumulativeToLengths(ActualSeqLengthsQ(batch.lens)) = batch.lens
          /\ batch.lens # <<>>
      BY BatchInForce, LengthsRecovered
    <3> QED BY <1>2, <1>5, <3>1 DEF AttnRecord
  <2>6. truth' = entropy' /\ DOMAIN entropy' # {}
    BY <1>2, <2>1, <2>3
  <2>7. Recorded'
    BY <1>1, <1>2, <2>4, <2>5, <2>6 DEF Recorded
  <2> QED BY <1>3, <2>7 DEF SelectionInv
<1> QED BY <1>4, <1>5 DEF AttnHook

\* A call that is not the last one of a server that selects.
LEMMA SelectionNoted ==
  ASSUME CandidatesInside, IInv, SelectionInv, NoteCandidate \/ NoteOther
  PROVE  SelectionInv'
<1>1. /\ pc = "note" /\ UNCHANGED <<entropy, seqLengths, truth, batch, outcome, enabled, layer>>
      /\ pc' = AfterNote /\ Tokens' = Tokens
  <2>1. Noting
    BY DEF NoteCandidate, NoteOther
  <2> QED BY <2>1, NoteContext DEF NoteCandidate, NoteOther, Noting
<1>2. /\ truth = entropy /\ outcome = "none"
      /\ \A l \in DOMAIN entropy : entropy[l] \in [Tokens -> Nat]
      /\ seqLengths = IF DOMAIN entropy = {} THEN <<>> ELSE batch.lens
  BY <1>1 DEF SelectionInv, Recorded
<1>3. pc' = "stack" => ~enabled
  <2> SUFFICES ASSUME pc' = "stack", enabled PROVE FALSE
    OBVIOUS
  <2>1. layer = NumLayers /\ cfg \in Configs /\ NumLayers \in Nat
    BY <1>1, SizesAreNat DEF AfterNote, IInv, TypeOK
  <2>2. layer \notin cfg.cands
    BY <2>1, ConfigFacts
  <2>3. LastCall /\ ~IsCandidate
    BY <2>1, <2>2 DEF LastCall, IsCandidate
  <2> QED BY <2>3 DEF NoteCandidate, NoteOther
<1>4. ~enabled => DOMAIN entropy = {}
  BY <1>1 DEF IInv, Noted, NoRecord
<1>5. Recorded'
  BY <1>1, <1>2, <1>3, <1>4 DEF Recorded, AfterNote
<1>6. SelectionIsRight'
  BY <1>1, <1>2, <1>3 DEF SelectionIsRight, SelectsExactlyPrefill, SelectionIsMinimal
<1> QED BY <1>5, <1>6 DEF SelectionInv

\* What is recorded when the collector is called for the last time: the whole
\* pass if its hooks ran, nothing if they did not.
LEMMA LastCallRecord ==
  ASSUME CandidatesInside, IInv, SelectionInv, Noting, LastCall
  PROVE  /\ pc = "note" /\ layer = NumLayers /\ enabled
         /\ cfg.cands \subseteq Nat /\ cfg.cands # {}
         /\ DOMAIN hidden = cfg.cands /\ \A l \in cfg.cands : hidden[l] = Output(l)
         /\ Recording <=> PurePrefill /\ fault = "none"
         /\ truth = entropy
         /\ Recording => Measured(entropy) /\ seqLengths = batch.lens
         /\ ~Recording => DOMAIN entropy = {}
<1>1. pc = "note" /\ cfg \in Configs /\ layer \in 0..NumLayers
  BY NoteContext
<1>2. layer = NumLayers /\ enabled
  BY <1>1, SizesAreNat DEF LastCall
<1>3. cfg.cands \subseteq Nat /\ cfg.cands # {}
  BY <1>1, <1>2, ConfigFacts DEF IInv, Loaded
<1>4. CandsBelow(layer) = cfg.cands /\ CandsUpTo(layer) = cfg.cands
  BY <1>1, <1>2, ConfigFacts DEF CandsBelow, CandsUpTo
<1>5. /\ DOMAIN hidden = cfg.cands /\ \A l \in cfg.cands : hidden[l] = Output(l)
      /\ DOMAIN entropy = IF Recording THEN cfg.cands ELSE {}
  BY <1>1, <1>2, <1>4 DEF IInv, Noted
<1>6. Recording <=> PurePrefill /\ fault = "none"
  BY <1>2, BatchInForce DEF Recording
<1>7. /\ truth = entropy
      /\ \A l \in DOMAIN entropy : entropy[l] \in [Tokens -> Nat]
      /\ seqLengths = IF DOMAIN entropy = {} THEN <<>> ELSE batch.lens
  BY <1>1 DEF SelectionInv, Recorded
<1>8. Recording => Measured(entropy) /\ seqLengths = batch.lens
  BY <1>3, <1>5, <1>7 DEF Measured
<1> QED BY <1>1, <1>2, <1>3, <1>5, <1>6, <1>7, <1>8

\* What the last call leaves, whatever it appended.
LEMMA EmitEffect ==
  ASSUME CandidatesInside, IInv, SelectionInv, Noting, LastCall,
         NEW channel, NEW how, Emit(channel, how)
  PROVE  /\ pc' = "stack" /\ outcome' = how /\ seqLengths' = <<>>
         /\ UNCHANGED <<cfg, enabled, fwd, batch, fault, truth>>
         /\ Recorded' /\ PurePrefill' = PurePrefill
         /\ auxList'[Len(auxList')] = channel
<1>1. layer = NumLayers
  BY LastCallRecord
<1>2. /\ pc' = "stack" /\ outcome' = how /\ seqLengths' = <<>>
      /\ auxList' = Append(WithAux, channel)
  BY <1>1 DEF Emit, AfterNote, ResetState
<1>3. UNCHANGED <<cfg, enabled, fwd, batch, fault, truth>>
  BY NoteContext DEF Noting
<1>4. PurePrefill' = PurePrefill
  BY <1>3 DEF PurePrefill, NumTokens
<1>5. auxList'[Len(auxList')] = channel
  <2>1. PICK S : WithAux \in Seq(S)
    BY NoteContext
  <2>2. Len(auxList') = Len(WithAux) + 1 /\ auxList'[Len(WithAux) + 1] = channel
    BY <1>2, <2>1
  <2> QED BY <2>2
<1>6. Recorded'
  BY <1>2 DEF Recorded
<1> QED BY <1>2, <1>3, <1>4, <1>5, <1>6

\* A pass whose hooks all ran never falls back.
LEMMA FallbackRightly ==
  ASSUME CandidatesInside, IInv, SelectionInv,
         EmitSingle \/ EmitWarmup \/ EmitWarned
  PROVE  SelectionInv'
<1>1. PICK how \in {"single", "warmup", "warned"} : Noting /\ LastCall /\ Emit(Fallback, how)
  BY DEF EmitSingle, EmitWarmup, EmitWarned
<1>2. /\ Recording <=> PurePrefill /\ fault = "none"
      /\ cfg.cands # {} /\ DOMAIN hidden = cfg.cands
      /\ Recording => Measured(entropy) /\ seqLengths = batch.lens
  BY <1>1, LastCallRecord
<1>3. ~Recording
  <2> SUFFICES ASSUME Recording PROVE FALSE
    OBVIOUS
  <2>1. DOMAIN entropy = cfg.cands /\ ~Incomplete
    BY <1>2 DEF Measured, Incomplete
  <2>2. SegmentsMatch
    <3>1. \A l \in cfg.cands : DOMAIN entropy[l] = Tokens
      BY <1>2 DEF Measured
    <3> QED BY <1>2, <3>1 DEF SegmentsMatch, Tokens, NumTokens
  <2>3. seqLengths # <<>>
    BY <1>2, BatchInForce
  <2>4. ~SelectsNone /\ ~SingleToken
    BY <2>2, <2>3 DEF SelectsNone, Recording
  <2> QED BY <2>1, <2>4 DEF EmitSingle, EmitWarmup, EmitWarned
<1>4. /\ outcome' = how /\ Recorded' /\ PurePrefill' = PurePrefill /\ fault' = fault
  BY <1>1, EmitEffect
<1>5. outcome' # "selected"
  BY <1>1, <1>4
<1>6. SelectionIsRight'
  BY <1>2, <1>3, <1>4, <1>5 DEF SelectionIsRight, SelectsExactlyPrefill, SelectionIsMinimal
<1> QED BY <1>4, <1>6 DEF SelectionInv

\* The gathered row of a token is the one this pass computed at the best layer
\* of the token's slice.
LEMMA GatheredRow ==
  ASSUME CandidatesInside, IInv, SelectionInv, Noting, LastCall, Recording,
         NEW r \in DOMAIN batch.lens, NEW t \in Segment(batch.lens, r),
         NEW slice, slice = IF cfg.gran = "token" THEN {t} ELSE Segment(batch.lens, r)
  PROVE  /\ ArgMin(slice) \in ScoredCands /\ Best(ArgMin(slice), slice)
         /\ Gather(SelectLayers)[t] = <<fwd, ArgMin(slice)>>
<1>1. /\ batch.lens \in Seq(Nat \ {0}) /\ batch.lens # <<>>
      /\ seqLengths = batch.lens /\ Measured(entropy) /\ truth = entropy
      /\ cfg.cands \subseteq Nat /\ cfg.cands # {}
      /\ \A l \in cfg.cands : hidden[l] = Output(l)
  BY LastCallRecord, BatchInForce
<1>2. /\ SegmentOf(batch.lens, t) = Segment(batch.lens, r)
      /\ Segment(batch.lens, r) \subseteq Tokens /\ Tokens = 1..Total(seqLengths)
  BY <1>1, SegmentFound DEF Tokens, NumTokens
<1>3. slice \subseteq Tokens /\ t \in Tokens
  BY <1>2
<1>4. IsFiniteSet(slice)
  <2>1. IsFiniteSet(Tokens)
    BY BatchInForce, FS_Interval DEF Tokens
  <2> QED BY <1>3, <2>1, FS_Subset
<1>5. ArgMin(slice) \in ScoredCands /\ Best(ArgMin(slice), slice)
  BY <1>1, <1>3, <1>4, ArgMinIsBest
<1>6. t \in DOMAIN SelectLayers /\ SelectLayers[t] = ArgMin(slice)
  BY <1>1, <1>2, <1>3 DEF SelectLayers
<1>7. ArgMin(slice) \in cfg.cands
  BY <1>1, <1>5, Candidates
<1>8. Gather(SelectLayers)[t] = hidden[ArgMin(slice)][t]
  BY <1>6 DEF Gather
<1>9. hidden[ArgMin(slice)][t] = <<fwd, ArgMin(slice)>>
  BY <1>1, <1>3, <1>7 DEF Output
<1> QED BY <1>5, <1>8, <1>9

\* What is selected from is a pure prefill step, and rightly.
LEMMA SelectedRightly ==
  ASSUME CandidatesInside, IInv, SelectionInv, EmitSelected
  PROVE  SelectionInv'
<1>1. Noting /\ LastCall /\ Emit(Gather(SelectLayers), "selected") /\ DOMAIN entropy # {}
  BY DEF EmitSelected, Selectable, Incomplete
<1>2. Recording /\ PurePrefill
  BY <1>1, LastCallRecord
<1>3. /\ pc' = "stack" /\ outcome' = "selected" /\ Recorded' /\ PurePrefill'
      /\ UNCHANGED <<cfg, fwd, batch, truth>>
      /\ auxList'[Len(auxList')] = Gather(SelectLayers)
  BY <1>1, <1>2, EmitEffect
<1>4. \A l, slice : TrueScore(l, slice)' = TrueScore(l, slice)
  BY <1>3 DEF TrueScore, FirstCand, PrevCand
<1>5. ScoredCands' = ScoredCands
  BY <1>3 DEF ScoredCands, FirstCand
<1>6. \A l, slice : Best(l, slice) => Best(l, slice)'
  BY <1>4, <1>5 DEF Best
<1>7. SelectionIsMinimal'
  <2>1. ASSUME NEW r \in DOMAIN batch.lens, NEW t \in Segment(batch.lens, r),
               NEW slice,
               slice = IF cfg.gran = "token" THEN {t} ELSE Segment(batch.lens, r)
        PROVE  \E a \in ScoredCands :
                 /\ auxList'[Len(auxList')][t] = <<fwd, a>> /\ Best(a, slice)'
    <3>1. /\ ArgMin(slice) \in ScoredCands /\ Best(ArgMin(slice), slice)
          /\ Gather(SelectLayers)[t] = <<fwd, ArgMin(slice)>>
      BY <1>1, <1>2, <2>1, GatheredRow
    <3>2. PICK a \in ScoredCands :
            Best(a, slice) /\ Gather(SelectLayers)[t] = <<fwd, a>>
      BY <3>1
    <3> QED BY <1>3, <1>6, <3>2
  <2>2. batch'.lens = batch.lens /\ \A r : Segment(batch.lens, r)' = Segment(batch.lens, r)
    BY <1>3 DEF Segment, Offset
  <2>3. ASSUME NEW r \in DOMAIN batch'.lens, NEW t \in Segment(batch.lens, r)',
               NEW slice,
               slice = IF cfg'.gran = "token" THEN {t} ELSE Segment(batch.lens, r)'
        PROVE  /\ auxList'[Len(auxList')][t][1] = fwd'
               /\ auxList'[Len(auxList')][t][2] \in ScoredCands'
               /\ Best(auxList[Len(auxList)][t][2], slice)'
    <3>1. /\ r \in DOMAIN batch.lens /\ t \in Segment(batch.lens, r)
          /\ slice = IF cfg.gran = "token" THEN {t} ELSE Segment(batch.lens, r)
      BY <1>3, <2>2, <2>3
    <3>2. PICK a \in ScoredCands :
            auxList'[Len(auxList')][t] = <<fwd, a>> /\ Best(a, slice)'
      BY <2>1, <3>1
    <3>3. auxList'[Len(auxList')][t][2] = a /\ auxList'[Len(auxList')][t][1] = fwd
      BY <3>2
    <3> QED BY <1>3, <1>5, <3>2, <3>3
  <2> QED BY <2>3 DEF SelectionIsMinimal
<1>8. SelectsExactlyPrefill'
  BY <1>3 DEF SelectsExactlyPrefill
<1> QED BY <1>3, <1>7, <1>8 DEF SelectionInv, SelectionIsRight

\* Every step keeps the selection right.
LEMMA SelectionStep ==
  ASSUME CandidatesInside, IInv, SelectionInv, [Next]_vars
  PROVE  SelectionInv'
<1>1. CASE EnableAifd \/ StartForward \/ Stack
  BY <1>1, SelectionQuiet
<1>2. CASE AttnHook
  BY <1>2, SelectionAttn
<1>3. CASE NoteCandidate \/ NoteOther
  BY <1>3, SelectionNoted
<1>4. CASE EmitSingle \/ EmitWarmup \/ EmitWarned
  BY <1>4, FallbackRightly
<1>5. CASE EmitRaises
  BY <1>5, NeverRaises
<1>6. CASE EmitSelected
  BY <1>6, SelectedRightly
<1>7. CASE UNCHANGED vars
  <2>1. UNCHANGED <<cfg, pc, enabled, fwd, batch, fault, entropy, seqLengths,
                    auxList, outcome, truth>>
    BY <1>7 DEF vars, state, pass
  <2>2. Recorded'
    BY <2>1 DEF SelectionInv, Recorded, Tokens, NumTokens
  <2>3. SelectsExactlyPrefill'
    BY <2>1 DEF SelectionInv, SelectionIsRight, SelectsExactlyPrefill, PurePrefill,
       NumTokens
  <2>4. /\ ScoredCands' = ScoredCands
        /\ \A l, slice : TrueScore(l, slice)' = TrueScore(l, slice)
    BY <2>1 DEF ScoredCands, FirstCand, TrueScore, PrevCand
  <2>5. \A l, slice : Best(l, slice) => Best(l, slice)'
    BY <2>4 DEF Best
  <2>6. SelectionIsMinimal'
    <3>1. SelectionIsMinimal
      BY DEF SelectionInv, SelectionIsRight
    <3>2. \A r : Segment(batch.lens, r)' = Segment(batch.lens, r)
      BY <2>1 DEF Segment, Offset
    <3>3. \A t, slice :
            Best(auxList[Len(auxList)][t][2], slice)
              => Best(auxList[Len(auxList)][t][2], slice)'
      BY <2>1, <2>4 DEF Best
    <3> QED BY <2>1, <2>4, <3>1, <3>2, <3>3 DEF SelectionIsMinimal
  <2> QED BY <2>2, <2>3, <2>6 DEF SelectionInv, SelectionIsRight
<1> QED BY <1>1, <1>2, <1>3, <1>4, <1>5, <1>6, <1>7 DEF Next, NoteLayer, Stopped

\* A forward is selected from exactly when it is a pure prefill step, unless a
\* hook failed, and then every token gets the row of this pass at a candidate
\* with the smallest score, by the entropies its hooks measured.
THEOREM SelectsRightly ==
  ASSUME CandidatesInside, FaultsUniform
  PROVE  Spec => []SelectionIsRight
<1>1. Init => SelectionInv
  <2> SUFFICES ASSUME Init PROVE SelectionInv
    OBVIOUS
  <2>1. pc = "load" /\ seqLengths = <<>>
    BY DEF Init
  <2> QED BY <2>1, NotStacking DEF SelectionInv, Recorded
<1>2. IInv /\ SelectionInv /\ [Next]_vars => SelectionInv'
  BY SelectionStep
<1>3. SelectionInv => SelectionIsRight
  BY DEF SelectionInv
<1> QED BY <1>1, <1>2, <1>3, Invariance, PTL DEF Spec
=============================================================================
