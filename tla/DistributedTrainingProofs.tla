--------------------- MODULE DistributedTrainingProofs ---------------------
(***************************************************************************)
(* The theorems of DistributedTraining: an epoch's checkpoint is whole     *)
(* whichever ranks were interrupted, and the shares of the ranks fit       *)
(* together.                                                               *)
(*                                                                         *)
(* What a rank still has to do and what it has called so far determine     *)
(* each other as long as it was not interrupted (Position), and an         *)
(* interrupted rank has made the first calls of the same run and then one  *)
(* gather (Recorded).  A gather is matched with a gather only, so a rank   *)
(* that takes part in the gather of the epoch has done all its steps.      *)
(***************************************************************************)
EXTENDS DistributedTraining, FiniteSetsExt, Functions, FiniteSetTheorems,
        SequenceTheorems, WellFoundedInduction, TLAPS

-----------------------------------------------------------------------------
(* What SumFunctionOnSet of the community modules computes, for every      *)
(* function and every finite set of indices.  The library folds in an      *)
(* order it CHOOSEs, so that the order does not matter is the point of     *)
(* SumSplit.                                                               *)

\* The element the fold takes first.
First(s) == CHOOSE x \in s : TRUE

\* One step of the fold, and the recursive function it is.
StepOf(f, g, s) == IF s = {} THEN 0 ELSE f[First(s)] + g[s \ {First(s)}]
IsIter(f, D, g) == g = [s \in SUBSET D |-> StepOf(f, g, s)]
IsIterUpTo(f, D, n, g) ==
  g = [s \in {t \in SUBSET D : Cardinality(t) <= n} |-> StepOf(f, g, s)]
Iter(f, D)      == CHOOSE g : IsIter(f, D, g)

-----------------------------------------------------------------------------
(* Induction over sets, as the existence of a smallest counterexample.     *)

\* A non-empty set of numbers has a least one.
LEMMA LeastNat ==
  ASSUME NEW N, N \subseteq Nat, N # {}
  PROVE  \E m \in N : \A n \in N : m <= n
<1> DEFINE Less == {ss \in Nat \X Nat : ss[1] < ss[2]}
<1>1. IsWellFoundedOn(Less, Nat)
  BY NatLessThanWellFounded, Zenon DEF OpToRel
<1>2. \A m, n \in Nat : n < m => <<n, m>> \in Less
  OBVIOUS
<1> HIDE DEF Less
<1>3. PICK m \in N : \A n \in N : ~(<<n, m>> \in Less)
  BY <1>1, WFMin
<1>4. ASSUME NEW n \in N PROVE m <= n
  <2>1. ~(n < m)
    BY <1>2, <1>3
  <2> QED BY <2>1
<1> QED BY <1>4

\* A non-empty set of finite sets has a smallest one.
LEMMA SmallestSet ==
  ASSUME NEW B, B # {}, \A s \in B : IsFiniteSet(s)
  PROVE  \E s \in B : \A t \in B : Cardinality(s) <= Cardinality(t)
<1> DEFINE N == {Cardinality(s) : s \in B}
<1>1. N \subseteq Nat /\ N # {}
  BY FS_CardinalityType
<1>2. PICK m \in N : \A n \in N : m <= n
  BY <1>1, LeastNat, Zenon
<1> QED BY <1>2

\* A finite set loses one element.
LEMMA Smaller ==
  ASSUME NEW s, IsFiniteSet(s), NEW x \in s
  PROVE  /\ IsFiniteSet(s \ {x})
         /\ Cardinality(s) \in Nat /\ Cardinality(s \ {x}) \in Nat
         /\ Cardinality(s \ {x}) < Cardinality(s)
<1>1. IsFiniteSet(s \ {x}) /\ Cardinality(s \ {x}) = Cardinality(s) - 1
  BY FS_RemoveElement
<1> QED BY <1>1, FS_CardinalityType

\* The element taken first is one of the set.
LEMMA FirstIsIn ==
  ASSUME NEW s, s # {}
  PROVE  First(s) \in s
BY DEF First

-----------------------------------------------------------------------------
(* The fold is the recursive function it is written as.                    *)

\* The library's sum, unfolded.
LEMMA SumIsIter ==
  ASSUME NEW f, NEW D
  PROVE  SumFunctionOnSet(f, D) = Iter(f, D)[D]
BY DEF SumFunctionOnSet, FoldFunctionOnSet, MapThenFoldSet, Iter, IsIter, StepOf, First

\* Some function satisfies the recursion on the subsets of at most n elements.
LEMMA IterUpTo ==
  ASSUME NEW f, NEW D, IsFiniteSet(D), NEW n \in Nat
  PROVE  \E g : IsIterUpTo(f, D, n, g)
<1> DEFINE Upto(k) == {t \in SUBSET D : Cardinality(t) <= k}
           Good(k, g) == g = [s \in Upto(k) |-> StepOf(f, g, s)]
           Bad == {k \in Nat : ~ \E g : Good(k, g)}
<1>1. \A s \in SUBSET D : IsFiniteSet(s) /\ Cardinality(s) \in Nat
  BY FS_Subset, FS_CardinalityType
<1>2. SUFFICES ASSUME Bad # {} PROVE FALSE
  BY DEF IsIterUpTo
<1>3. Bad \subseteq Nat
  OBVIOUS
<1> HIDE DEF Bad
<1>4. PICK m \in Bad : \A k \in Bad : m <= k
  BY <1>2, <1>3, LeastNat
<1>5. m \in Nat /\ ~ \E g : Good(m, g)
  BY <1>4 DEF Bad
<1>6. CASE m = 0
  <2> DEFINE g == [s \in Upto(0) |-> 0]
  <2>1. \A s \in Upto(0) : s = {}
    <3>1. TAKE s \in Upto(0)
    <3>2. IsFiniteSet(s) /\ Cardinality(s) \in Nat /\ Cardinality(s) <= 0
      BY <1>1, <3>1
    <3>3. Cardinality(s) = 0
      BY <3>2
    <3> QED BY <3>2, <3>3, FS_EmptySet
  <2>2. \A s \in Upto(0) : StepOf(f, g, s) = 0
    BY <2>1 DEF StepOf
  <2>3. Good(0, g)
    BY <2>2
  <2> QED BY <2>3, <1>5, <1>6
<1>7. CASE m # 0
  <2>1. m - 1 \in Nat /\ m - 1 \notin Bad
    BY <1>4, <1>5, <1>7
  <2>2. PICK g : Good(m - 1, g)
    BY <2>1 DEF Bad
  <2> DEFINE h == [s \in Upto(m) |-> StepOf(f, g, s)]
  <2>3. \A s \in Upto(m - 1) : s \in Upto(m) /\ h[s] = g[s]
    <3>1. TAKE s \in Upto(m - 1)
    <3>2. s \in Upto(m)
      BY <1>1, <1>5
    <3>3. g[s] = StepOf(f, g, s)
      BY <2>2
    <3> QED BY <3>2, <3>3
  <2>4. \A s \in Upto(m) : StepOf(f, h, s) = StepOf(f, g, s)
    <3>1. TAKE s \in Upto(m)
    <3>2. CASE s = {}
      BY <3>2 DEF StepOf
    <3>3. CASE s # {}
      <4>1. First(s) \in s /\ IsFiniteSet(s)
        BY <3>3, <1>1, FirstIsIn
      <4>2. s \ {First(s)} \in SUBSET D
        OBVIOUS
      <4>3. Cardinality(s \ {First(s)}) <= m - 1
        <5>1. /\ Cardinality(s) \in Nat /\ Cardinality(s \ {First(s)}) \in Nat
              /\ Cardinality(s \ {First(s)}) < Cardinality(s)
          BY <4>1, Smaller
        <5>2. Cardinality(s) <= m
          OBVIOUS
        <5> QED BY <5>1, <5>2, <1>5
      <4>4. h[s \ {First(s)}] = g[s \ {First(s)}]
        BY <4>2, <4>3, <2>3
      <4> QED BY <4>4, <3>3 DEF StepOf
    <3> QED BY <3>2, <3>3
  <2>5. h = [s \in Upto(m) |-> StepOf(f, h, s)]
    BY <2>4
  <2>6. Good(m, h)
    BY <2>5
  <2> QED BY <2>6, <1>5
<1>8. FALSE
  BY <1>6, <1>7
<1> QED BY <1>8

\* The recursion has a solution, so the CHOOSE of the fold satisfies it.
LEMMA IterIsIter ==
  ASSUME NEW f, NEW D, IsFiniteSet(D)
  PROVE  IsIter(f, D, Iter(f, D))
<1>1. Cardinality(D) \in Nat
  BY FS_CardinalityType
<1>2. {t \in SUBSET D : Cardinality(t) <= Cardinality(D)} = SUBSET D
  BY FS_Subset
<1>3. PICK g : IsIterUpTo(f, D, Cardinality(D), g)
  BY <1>1, IterUpTo
<1>4. IsIter(f, D, g)
  BY <1>2, <1>3 DEF IsIter, IsIterUpTo
<1> QED BY <1>4 DEF Iter

\* On a subset of D, the recursions over D and over the subset agree.
LEMMA IterOnSubset ==
  ASSUME NEW f, NEW D, IsFiniteSet(D), NEW S \in SUBSET D
  PROVE  Iter(f, D)[S] = SumFunctionOnSet(f, S)
<1> DEFINE g == Iter(f, D)
           h == Iter(f, S)
           Bad == {s \in SUBSET S : g[s] # h[s]}
<1>1. IsFiniteSet(S) /\ \A s \in SUBSET S : IsFiniteSet(s) /\ s \in SUBSET D
  BY FS_Subset
<1>2. \A s \in SUBSET S : g[s] = StepOf(f, g, s) /\ h[s] = StepOf(f, h, s)
  <2>1. IsIter(f, D, g) /\ IsIter(f, S, h)
    BY <1>1, IterIsIter
  <2> HIDE DEF g, h
  <2> QED BY <2>1, <1>1 DEF IsIter
<1> HIDE DEF g, h
<1>3. Bad = {}
  <2> SUFFICES ASSUME Bad # {} PROVE FALSE
    OBVIOUS
  <2>1. \A s \in Bad : IsFiniteSet(s)
    BY <1>1
  <2>2. PICK s \in Bad : \A t \in Bad : Cardinality(s) <= Cardinality(t)
    <3> HIDE DEF Bad
    <3> QED BY <2>1, SmallestSet
  <2>3. s # {}
    <3> SUFFICES ASSUME s = {} PROVE FALSE
      OBVIOUS
    <3>1. g[s] = 0 /\ h[s] = 0
      BY <1>2 DEF StepOf
    <3> QED BY <3>1
  <2>4. First(s) \in s
    BY <2>3, FirstIsIn
  <2>5. ~(Cardinality(s) <= Cardinality(s \ {First(s)}))
    BY <2>1, <2>4, Smaller
  <2>6. s \ {First(s)} \notin Bad /\ s \ {First(s)} \in SUBSET S
    BY <2>2, <2>5
  <2>7. g[s \ {First(s)}] = h[s \ {First(s)}]
    BY <2>6
  <2>8. g[s] = h[s]
    BY <1>2, <2>3, <2>7 DEF StepOf
  <2> QED BY <2>8
<1>4. g[S] = h[S]
  BY <1>3
<1> QED BY <1>4, SumIsIter DEF g, h

-----------------------------------------------------------------------------
(* The sums themselves.                                                    *)

\* Nothing sums to zero.
LEMMA SumEmpty ==
  ASSUME NEW f
  PROVE  SumFunctionOnSet(f, {}) = 0
<1>1. IsFiniteSet({})
  BY FS_EmptySet
<1>2. IsIter(f, {}, Iter(f, {}))
  BY <1>1, IterIsIter
<1>3. Iter(f, {})[{}] = StepOf(f, Iter(f, {}), {})
  BY <1>2 DEF IsIter
<1> QED BY <1>3, SumIsIter DEF StepOf

\* A sum is its first element and the sum of the others.
LEMMA SumFirst ==
  ASSUME NEW f, NEW S, IsFiniteSet(S), S # {}
  PROVE  SumFunctionOnSet(f, S) = f[First(S)] + SumFunctionOnSet(f, S \ {First(S)})
<1>1. IsIter(f, S, Iter(f, S))
  BY IterIsIter
<1>2. Iter(f, S)[S] = f[First(S)] + Iter(f, S)[S \ {First(S)}]
  BY <1>1 DEF IsIter, StepOf
<1>3. Iter(f, S)[S \ {First(S)}] = SumFunctionOnSet(f, S \ {First(S)})
  BY IterOnSubset
<1> QED BY <1>2, <1>3, SumIsIter

\* A sum of naturals is a natural.
LEMMA SumNat ==
  ASSUME NEW f, NEW S, IsFiniteSet(S), \A x \in S : f[x] \in Nat
  PROVE  SumFunctionOnSet(f, S) \in Nat
<1> DEFINE Bad == {s \in SUBSET S : SumFunctionOnSet(f, s) \notin Nat}
<1> SUFFICES ASSUME Bad # {} PROVE FALSE
  OBVIOUS
<1>1. \A s \in Bad : IsFiniteSet(s)
  BY FS_Subset
<1>2. PICK s \in Bad : \A t \in Bad : Cardinality(s) <= Cardinality(t)
  <2> HIDE DEF Bad
  <2> QED BY <1>1, SmallestSet
<1>3. s # {}
  <2> SUFFICES ASSUME s = {} PROVE FALSE
    OBVIOUS
  <2>1. SumFunctionOnSet(f, s) = 0
    BY SumEmpty
  <2> QED BY <2>1
<1>4. First(s) \in s /\ f[First(s)] \in Nat
  BY <1>3, FirstIsIn
<1>5. ~(Cardinality(s) <= Cardinality(s \ {First(s)}))
  <2>1. IsFiniteSet(s) /\ First(s) \in s
    BY <1>1, <1>4
  <2> QED BY <2>1, Smaller
<1>6. SumFunctionOnSet(f, s \ {First(s)}) \in Nat
  BY <1>2, <1>5
<1>7. SumFunctionOnSet(f, s) = f[First(s)] + SumFunctionOnSet(f, s \ {First(s)})
  BY <1>1, <1>3, SumFirst
<1>8. SumFunctionOnSet(f, s) \in Nat
  BY <1>4, <1>6, <1>7
<1> QED BY <1>8

\* The order does not matter: any element can be taken out of a sum.
LEMMA SumSplit ==
  ASSUME NEW f, NEW S, IsFiniteSet(S), \A x \in S : f[x] \in Nat, NEW y \in S
  PROVE  SumFunctionOnSet(f, S) = f[y] + SumFunctionOnSet(f, S \ {y})
<1> DEFINE SumOn(s) == SumFunctionOnSet(f, s)
           Bad == {s \in SUBSET S : \E z \in s : SumOn(s) # f[z] + SumOn(s \ {z})}
<1>0. \A s \in SUBSET S : IsFiniteSet(s) /\ SumOn(s) \in Nat
  BY FS_Subset, SumNat
<1>1. \A s \in SUBSET S : s # {} => SumOn(s) = f[First(s)] + SumOn(s \ {First(s)})
  BY <1>0, SumFirst
<1> HIDE DEF SumOn
<1>2. Bad = {}
  <2> SUFFICES ASSUME Bad # {} PROVE FALSE
    OBVIOUS
  <2>1. \A s \in Bad : IsFiniteSet(s)
    BY <1>0
  <2>2. PICK s \in Bad : \A t \in Bad : Cardinality(s) <= Cardinality(t)
    <3> HIDE DEF Bad
    <3> QED BY <2>1, SmallestSet
  <2>3. PICK z \in s : SumOn(s) # f[z] + SumOn(s \ {z})
    OBVIOUS
  <2>4. \A x \in s : s \ {x} \in SUBSET S /\ s \ {x} \notin Bad
    <3>1. TAKE x \in s
    <3>2. ~(Cardinality(s) <= Cardinality(s \ {x}))
      BY <2>1, Smaller
    <3> QED BY <2>2, <3>2
  <2>5. PICK x \in s : SumOn(s) = f[x] + SumOn(s \ {x})
    BY <2>3, <1>1, FirstIsIn
  <2>6. x # z
    BY <2>3, <2>5
  <2>7. SumOn(s \ {x}) = f[z] + SumOn((s \ {x}) \ {z})
    BY <2>4, <2>6
  <2>8. SumOn(s \ {z}) = f[x] + SumOn((s \ {z}) \ {x})
    BY <2>4, <2>6
  <2>9. (s \ {z}) \ {x} = (s \ {x}) \ {z} /\ (s \ {x}) \ {z} \in SUBSET S
    OBVIOUS
  <2>10. f[x] \in Nat /\ f[z] \in Nat /\ SumOn((s \ {x}) \ {z}) \in Nat
    BY <2>9, <1>0
  <2>11. SumOn(s) = f[z] + SumOn(s \ {z})
    <3> DEFINE rest == SumOn((s \ {x}) \ {z})
    <3>1. SumOn(s) = f[x] + (f[z] + rest) /\ SumOn(s \ {z}) = f[x] + rest
      BY <2>5, <2>7, <2>8, <2>9
    <3>2. rest \in Nat
      BY <2>10
    <3> HIDE DEF rest
    <3> QED BY <3>1, <3>2, <2>10
  <2> QED BY <2>3, <2>11
<1>3. S \notin Bad
  BY <1>2
<1>4. SumOn(S) = f[y] + SumOn(S \ {y})
  BY <1>3
<1> QED BY <1>4 DEF SumOn

\* The sum of the first n elements is the n-th and the sum of those before it.
LEMMA SumUpTo ==
  ASSUME NEW f, NEW n \in Nat \ {0}, \A i \in 1..n : f[i] \in Nat
  PROVE  /\ SumFunctionOnSet(f, 1..n) = f[n] + SumFunctionOnSet(f, 1..(n - 1))
         /\ SumFunctionOnSet(f, 1..n) \in Nat
         /\ SumFunctionOnSet(f, 1..(n - 1)) \in Nat
<1>1. IsFiniteSet(1..n) /\ IsFiniteSet(1..(n - 1))
  BY FS_Interval
<1>2. (1..n) \ {n} = 1..(n - 1) /\ n \in 1..n
  OBVIOUS
<1>3. SumFunctionOnSet(f, 1..n) = f[n] + SumFunctionOnSet(f, 1..(n - 1))
  <2> DEFINE S == 1..n
  <2>1. IsFiniteSet(S) /\ n \in S /\ S \ {n} = 1..(n - 1) /\ \A x \in S : f[x] \in Nat
    BY <1>1, <1>2
  <2> HIDE DEF S
  <2>2. SumFunctionOnSet(f, S) = f[n] + SumFunctionOnSet(f, S \ {n})
    BY <2>1, SumSplit
  <2> QED BY <2>1, <2>2 DEF S
<1>4. \A i \in 1..(n - 1) : f[i] \in Nat
  OBVIOUS
<1> QED BY <1>1, <1>3, <1>4, SumNat

\* A sum is determined by the values that are summed.
LEMMA SumAgree ==
  ASSUME NEW f, NEW g, NEW S, IsFiniteSet(S), \A x \in S : f[x] = g[x]
  PROVE  SumFunctionOnSet(f, S) = SumFunctionOnSet(g, S)
<1> DEFINE F(s) == SumFunctionOnSet(f, s)
           G(s) == SumFunctionOnSet(g, s)
           Bad == {s \in SUBSET S : F(s) # G(s)}
<1>1. SUFFICES ASSUME Bad # {} PROVE FALSE
  OBVIOUS
<1>2. \A s \in Bad : IsFiniteSet(s)
  BY FS_Subset
<1>3. PICK s \in Bad : \A t \in Bad : Cardinality(s) <= Cardinality(t)
  <2> HIDE DEF Bad
  <2> QED BY <1>1, <1>2, SmallestSet
<1>4. s \in SUBSET S /\ F(s) # G(s) /\ IsFiniteSet(s)
  BY <1>2
<1>5. s # {}
  BY <1>4, SumEmpty
<1>6. First(s) \in s
  BY <1>5, FirstIsIn
<1>7. s \ {First(s)} \in SUBSET S /\ s \ {First(s)} \notin Bad
  BY <1>3, <1>4, <1>6, Smaller
<1>8. F(s \ {First(s)}) = G(s \ {First(s)})
  BY <1>7
<1>9. F(s) = f[First(s)] + F(s \ {First(s)}) /\ G(s) = g[First(s)] + G(s \ {First(s)})
  BY <1>4, <1>5, SumFirst
<1>10. f[First(s)] = g[First(s)]
  BY <1>4, <1>6
<1> QED BY <1>4, <1>8, <1>9, <1>10

\* The sum of sums.
LEMMA SumOfSums ==
  ASSUME NEW f, NEW g, NEW h, NEW S, IsFiniteSet(S),
         \A x \in S : f[x] \in Nat /\ g[x] \in Nat /\ h[x] = f[x] + g[x]
  PROVE  SumFunctionOnSet(h, S) = SumFunctionOnSet(f, S) + SumFunctionOnSet(g, S)
<1> DEFINE F(s) == SumFunctionOnSet(f, s)
           G(s) == SumFunctionOnSet(g, s)
           H(s) == SumFunctionOnSet(h, s)
           Bad == {s \in SUBSET S : H(s) # F(s) + G(s)}
<1>1. SUFFICES ASSUME Bad # {} PROVE FALSE
  OBVIOUS
<1>2. \A s \in Bad : IsFiniteSet(s)
  BY FS_Subset
<1>3. PICK s \in Bad : \A t \in Bad : Cardinality(s) <= Cardinality(t)
  <2> HIDE DEF Bad
  <2> QED BY <1>1, <1>2, SmallestSet
<1>4. s \in SUBSET S /\ H(s) # F(s) + G(s) /\ IsFiniteSet(s)
  BY <1>2
<1>5. s # {}
  <2>1. F({}) = 0 /\ G({}) = 0 /\ H({}) = 0
    BY SumEmpty
  <2>2. SUFFICES ASSUME s = {} PROVE FALSE
    OBVIOUS
  <2>3. F(s) = 0 /\ G(s) = 0 /\ H(s) = 0
    BY <2>1, <2>2
  <2> HIDE DEF F, G, H
  <2> QED BY <1>4, <2>3
<1>6. First(s) \in s
  BY <1>5, FirstIsIn
<1> DEFINE r == s \ {First(s)}
<1>7. r \in SUBSET S /\ r \notin Bad /\ IsFiniteSet(r)
  <2>0. /\ IsFiniteSet(r) /\ Cardinality(s) \in Nat /\ Cardinality(r) \in Nat
        /\ Cardinality(r) < Cardinality(s)
    BY <1>4, <1>6, Smaller
  <2>1. IsFiniteSet(r) /\ ~(Cardinality(s) <= Cardinality(r))
    BY <2>0
  <2>2. r \in SUBSET S
    BY <1>4
  <2> HIDE DEF Bad, r
  <2> QED BY <2>1, <2>2, <1>3
<1>8. H(r) = F(r) + G(r)
  BY <1>7
<1>9. /\ F(s) = f[First(s)] + F(r) /\ G(s) = g[First(s)] + G(r)
      /\ H(s) = h[First(s)] + H(r)
  BY <1>4, <1>5, SumFirst
<1>10. /\ f[First(s)] \in Nat /\ g[First(s)] \in Nat
       /\ h[First(s)] = f[First(s)] + g[First(s)]
  BY <1>4, <1>6
<1>11. F(r) \in Nat /\ G(r) \in Nat
  <2>1. \A x \in r : f[x] \in Nat /\ g[x] \in Nat
    BY <1>7
  <2> HIDE DEF r
  <2> QED BY <1>7, <2>1, SumNat
<1> HIDE DEF F, G, H, r
<1>12. H(s) = F(s) + G(s)
  BY <1>8, <1>9, <1>10, <1>11
<1> QED BY <1>4, <1>12

\* Nothing but zeros sums to zero.
LEMMA SumOfZeros ==
  ASSUME NEW f, NEW S, IsFiniteSet(S), \A x \in S : f[x] = 0
  PROVE  SumFunctionOnSet(f, S) = 0
<1> DEFINE Bad == {s \in SUBSET S : SumFunctionOnSet(f, s) # 0}
<1>1. SUFFICES ASSUME Bad # {} PROVE FALSE
  OBVIOUS
<1>2. \A s \in Bad : IsFiniteSet(s)
  BY FS_Subset
<1>3. PICK s \in Bad : \A t \in Bad : Cardinality(s) <= Cardinality(t)
  <2> HIDE DEF Bad
  <2> QED BY <1>1, <1>2, SmallestSet
<1>4. s \in SUBSET S /\ SumFunctionOnSet(f, s) # 0 /\ IsFiniteSet(s)
  BY <1>2
<1>5. s # {}
  BY <1>4, SumEmpty
<1>6. First(s) \in s
  BY <1>5, FirstIsIn
<1>7. s \ {First(s)} \in SUBSET S /\ s \ {First(s)} \notin Bad
  BY <1>3, <1>4, <1>6, Smaller
<1>8. SumFunctionOnSet(f, s \ {First(s)}) = 0
  BY <1>7
<1>9. SumFunctionOnSet(f, s) = f[First(s)] + SumFunctionOnSet(f, s \ {First(s)})
  BY <1>4, <1>5, SumFirst
<1> QED BY <1>4, <1>6, <1>8, <1>9

-----------------------------------------------------------------------------
(* Recursions that call themselves once.                                   *)

\* One that comes to an end, because mu decreases, is satisfied by some function.
RecursionStep(stop, base, next, combine, f, x) ==
  IF stop[x] THEN base[x] ELSE combine[x][f[next[x]]]

SolvesUpTo(D, V, mu, stop, base, next, combine, n, f) ==
  /\ f \in [{x \in D : mu[x] <= n} -> V]
  /\ \A x \in D : mu[x] <= n => f[x] = RecursionStep(stop, base, next, combine, f, x)

LEMMA RecursionUpTo ==
  ASSUME NEW D, NEW V, NEW mu \in [D -> Nat], NEW stop \in [D -> BOOLEAN],
         NEW base \in [D -> V], NEW next \in [D -> D], NEW combine \in [D -> [V -> V]],
         \A x \in D : ~stop[x] => mu[next[x]] < mu[x]
  PROVE  \A n \in Nat : \E f : SolvesUpTo(D, V, mu, stop, base, next, combine, n, f)
<1> DEFINE Bad == {n \in Nat : ~ \E f : SolvesUpTo(D, V, mu, stop, base, next, combine, n, f)}
<1>1. SUFFICES ASSUME Bad # {} PROVE FALSE
  OBVIOUS
<1>2. Bad \subseteq Nat
  OBVIOUS
<1> HIDE DEF Bad
<1>3. PICK m \in Bad : \A k \in Bad : m <= k
  BY <1>1, <1>2, LeastNat
<1>4. m \in Nat /\ ~ \E f : SolvesUpTo(D, V, mu, stop, base, next, combine, m, f)
  BY <1>3 DEF Bad
<1>5. PICK g : m > 0 => SolvesUpTo(D, V, mu, stop, base, next, combine, m - 1, g)
  <2>1. CASE m = 0
    BY <2>1
  <2>2. CASE m > 0
    <3>1. m - 1 \in Nat /\ m - 1 \notin Bad
      BY <1>3, <1>4, <2>2
    <3> QED BY <3>1 DEF Bad
  <2> QED BY <2>1, <2>2, <1>4
<1> DEFINE h == [x \in {y \in D : mu[y] <= m} |-> RecursionStep(stop, base, next, combine, g, x)]
<1>6. ASSUME NEW x \in D, mu[x] <= m, ~stop[x]
      PROVE  /\ next[x] \in D /\ mu[next[x]] <= m /\ m > 0 /\ mu[next[x]] <= m - 1
  <2>1. mu[x] \in Nat /\ mu[next[x]] \in Nat /\ mu[next[x]] < mu[x] /\ next[x] \in D
    BY <1>6
  <2> QED BY <2>1, <1>4, <1>6
<1>7. \A x \in D : mu[x] <= m => h[x] \in V
  <2>1. SUFFICES ASSUME NEW x \in D, mu[x] <= m PROVE h[x] \in V
    OBVIOUS
  <2>2. CASE stop[x]
    BY <2>1, <2>2 DEF RecursionStep
  <2>3. CASE ~stop[x]
    <3>1. next[x] \in D /\ m > 0 /\ mu[next[x]] <= m - 1
      BY <1>6, <2>1, <2>3
    <3>2. g[next[x]] \in V
      BY <1>5, <3>1 DEF SolvesUpTo
    <3>3. combine[x][g[next[x]]] \in V
      BY <3>2
    <3> QED BY <2>1, <2>3, <3>3 DEF RecursionStep
  <2> QED BY <2>2, <2>3
<1>8. \A x \in D : mu[x] <= m => h[x] = RecursionStep(stop, base, next, combine, h, x)
  <2>1. SUFFICES ASSUME NEW x \in D, mu[x] <= m
                 PROVE  h[x] = RecursionStep(stop, base, next, combine, h, x)
    OBVIOUS
  <2>2. CASE stop[x]
    BY <2>1, <2>2 DEF RecursionStep
  <2>3. CASE ~stop[x]
    <3>1. next[x] \in D /\ m > 0 /\ mu[next[x]] <= m - 1 /\ mu[next[x]] <= m
      BY <1>6, <2>1, <2>3
    <3>2. g[next[x]] = RecursionStep(stop, base, next, combine, g, next[x])
      BY <1>5, <3>1 DEF SolvesUpTo
    <3>3. h[next[x]] = g[next[x]]
      BY <3>1, <3>2
    <3> QED BY <2>1, <2>3, <3>3 DEF RecursionStep
  <2> QED BY <2>2, <2>3
<1>9. h \in [{x \in D : mu[x] <= m} -> V]
  BY <1>7
<1>10. SolvesUpTo(D, V, mu, stop, base, next, combine, m, h)
  <2> HIDE DEF h
  <2> QED BY <1>8, <1>9 DEF SolvesUpTo
<1> QED BY <1>10, <1>4

\* Two solutions agree where both are defined.
LEMMA RecursionAgrees ==
  ASSUME NEW D, NEW V, NEW mu \in [D -> Nat], NEW stop \in [D -> BOOLEAN],
         NEW base \in [D -> V], NEW next \in [D -> D], NEW combine \in [D -> [V -> V]],
         \A x \in D : ~stop[x] => mu[next[x]] < mu[x],
         NEW m \in Nat, NEW n \in Nat, NEW f, NEW g,
         SolvesUpTo(D, V, mu, stop, base, next, combine, m, f),
         SolvesUpTo(D, V, mu, stop, base, next, combine, n, g)
  PROVE  \A x \in D : mu[x] <= m /\ mu[x] <= n => f[x] = g[x]
<1> DEFINE Wrong(x) == mu[x] <= m /\ mu[x] <= n /\ f[x] # g[x]
           Bad == {k \in Nat : \E x \in D : mu[x] = k /\ Wrong(x)}
<1>1. SUFFICES ASSUME Bad # {} PROVE FALSE
  OBVIOUS
<1>2. Bad \subseteq Nat
  OBVIOUS
<1> HIDE DEF Bad
<1>3. PICK k \in Bad : \A i \in Bad : k <= i
  BY <1>1, <1>2, LeastNat
<1>4. PICK x \in D : mu[x] = k /\ Wrong(x)
  BY <1>3 DEF Bad
<1>5. f[x] = RecursionStep(stop, base, next, combine, f, x)
  BY <1>4 DEF SolvesUpTo
<1>6. g[x] = RecursionStep(stop, base, next, combine, g, x)
  BY <1>4 DEF SolvesUpTo
<1>7. ~stop[x]
  BY <1>4, <1>5, <1>6 DEF RecursionStep
<1>8. next[x] \in D /\ mu[next[x]] < mu[x] /\ mu[next[x]] \in Nat /\ mu[x] \in Nat
  BY <1>7
<1>9. mu[next[x]] \notin Bad
  BY <1>3, <1>4, <1>8
<1>10. mu[next[x]] <= m /\ mu[next[x]] <= n
  BY <1>4, <1>8
<1>11. f[next[x]] = g[next[x]]
  BY <1>8, <1>9, <1>10 DEF Bad
<1> QED BY <1>4, <1>5, <1>6, <1>7, <1>11 DEF RecursionStep

WellFounded(D, V, mu, stop, base, next, combine) ==
  /\ mu \in [D -> Nat] /\ stop \in [D -> BOOLEAN] /\ base \in [D -> V]
  /\ next \in [D -> D] /\ combine \in [D -> [V -> V]]
  /\ \A x \in D : ~stop[x] => mu[next[x]] < mu[x]

Solution(D, V, stop, base, next, combine, f) ==
  /\ f \in [D -> V]
  /\ \A x \in D : f[x] = RecursionStep(stop, base, next, combine, f, x)

LEMMA Recursion ==
  ASSUME NEW D, NEW V, NEW mu, NEW stop, NEW base, NEW next, NEW combine,
         WellFounded(D, V, mu, stop, base, next, combine)
  PROVE  \E f : Solution(D, V, stop, base, next, combine, f)
<1>0. /\ mu \in [D -> Nat] /\ stop \in [D -> BOOLEAN] /\ base \in [D -> V]
      /\ next \in [D -> D] /\ combine \in [D -> [V -> V]]
      /\ \A x \in D : ~stop[x] => mu[next[x]] < mu[x]
  BY DEF WellFounded
<1> DEFINE Solves(n, g) == SolvesUpTo(D, V, mu, stop, base, next, combine, n, g)
           At(n) == CHOOSE g : Solves(n, g)
           f == [x \in D |-> At(mu[x])[x]]
<1>1. \A n \in Nat : \E g : Solves(n, g)
  BY <1>0, RecursionUpTo
<1>2. \A n \in Nat : Solves(n, At(n))
  BY <1>1
<1>3. \A m, n \in Nat : \A x \in D : mu[x] <= m /\ mu[x] <= n => At(m)[x] = At(n)[x]
  <2>1. SUFFICES ASSUME NEW m \in Nat, NEW n \in Nat
                 PROVE  \A x \in D : mu[x] <= m /\ mu[x] <= n => At(m)[x] = At(n)[x]
    OBVIOUS
  <2>2. Solves(m, At(m)) /\ Solves(n, At(n))
    BY <1>2
  <2> HIDE DEF At
  <2> QED BY <1>0, <2>2, RecursionAgrees
<1> HIDE DEF At
<1>4. \A x \in D : f[x] = RecursionStep(stop, base, next, combine, f, x) /\ f[x] \in V
  <2>1. SUFFICES ASSUME NEW x \in D
                 PROVE  f[x] = RecursionStep(stop, base, next, combine, f, x) /\ f[x] \in V
    OBVIOUS
  <2>2. mu[x] \in Nat /\ mu[x] <= mu[x]
    BY <1>0
  <2>3. Solves(mu[x], At(mu[x]))
    BY <1>2, <2>2
  <2>4. /\ At(mu[x])[x] = RecursionStep(stop, base, next, combine, At(mu[x]), x)
        /\ At(mu[x])[x] \in V
    BY <2>2, <2>3 DEF SolvesUpTo
  <2>5. CASE stop[x]
    BY <2>4, <2>5 DEF RecursionStep
  <2>6. CASE ~stop[x]
    <3>1. next[x] \in D /\ mu[next[x]] \in Nat /\ mu[next[x]] <= mu[x]
          /\ mu[next[x]] <= mu[next[x]]
      <4>1. next[x] \in D /\ mu[next[x]] \in Nat /\ mu[next[x]] < mu[x]
        BY <1>0, <2>6
      <4> QED BY <4>1, <2>2
    <3>2. At(mu[next[x]])[next[x]] = At(mu[x])[next[x]]
      BY <1>3, <2>2, <3>1
    <3>3. f[next[x]] = At(mu[x])[next[x]]
      BY <3>1, <3>2
    <3> QED BY <2>4, <2>6, <3>3 DEF RecursionStep
  <2> QED BY <2>5, <2>6
<1>5. f \in [D -> V]
  BY <1>4
<1> HIDE DEF f
<1>6. Solution(D, V, stop, base, next, combine, f)
  BY <1>4, <1>5 DEF Solution
<1> QED BY <1>6

-----------------------------------------------------------------------------
(* Sequences of sequences.                                                 *)

\* The library's FlattenSeq, unfolded.
IsFlatten(seqs, g) ==
  g = [i \in 1..Len(seqs) |-> IF i = 1 THEN seqs[i] ELSE g[i - 1] \o seqs[i]]

LEMMA FlattenUnfolded ==
  ASSUME NEW seqs
  PROVE  FlattenSeq(seqs) = IF Len(seqs) = 0 THEN seqs
                            ELSE (CHOOSE g : IsFlatten(seqs, g))[Len(seqs)]
BY DEF FlattenSeq, IsFlatten

\* The beginnings of a sequence of sequences, flattened one after the other.
LEMMA FlattenHistory ==
  ASSUME NEW V, NEW S, S = Seq(V), NEW seqs \in Seq(S), Len(seqs) > 0
  PROVE  \E g \in [1..Len(seqs) -> S] :
           /\ g[1] = seqs[1]
           /\ \A i \in 2..Len(seqs) : g[i] = g[i - 1] \o seqs[i]
           /\ FlattenSeq(seqs) = g[Len(seqs)]
<1> DEFINE D    == 1..Len(seqs)
           mu   == [i \in D |-> i]
           stop == [i \in D |-> i = 1]
           base == [i \in D |-> seqs[i]]
           next == [i \in D |-> IF i = 1 THEN i ELSE i - 1]
           combine == [i \in D |-> [v \in S |-> v \o seqs[i]]]
<1>0. Len(seqs) \in Nat /\ 1 \in D /\ Len(seqs) \in D
  OBVIOUS
<1>1. \A i \in D : seqs[i] \in S
  OBVIOUS
<1>2. \A v, w \in S : v \o w \in S
  OBVIOUS
<1>3. mu \in [D -> Nat] /\ stop \in [D -> BOOLEAN] /\ base \in [D -> S]
  BY <1>1
<1>4. next \in [D -> D]
  OBVIOUS
<1>5. combine \in [D -> [S -> S]]
  BY <1>1, <1>2
<1>6. \A i \in D : ~stop[i] => mu[next[i]] < mu[i]
  <2>1. SUFFICES ASSUME NEW i \in D, i # 1 PROVE mu[next[i]] < mu[i]
    OBVIOUS
  <2>2. next[i] = i - 1 /\ i - 1 \in D
    BY <2>1
  <2>3. mu[next[i]] = i - 1 /\ mu[i] = i
    BY <2>2
  <2> QED BY <2>3
<1>7. PICK f \in [D -> S] : \A i \in D : f[i] = RecursionStep(stop, base, next, combine, f, i)
  <2> HIDE DEF D, mu, stop, base, next, combine
  <2>1. WellFounded(D, S, mu, stop, base, next, combine)
    BY <1>3, <1>4, <1>5, <1>6 DEF WellFounded
  <2>2. PICK f : Solution(D, S, stop, base, next, combine, f)
    BY <2>1, Recursion
  <2> QED BY <2>2 DEF Solution
<1>8. \A i \in D : f[i] = IF i = 1 THEN seqs[i] ELSE f[i - 1] \o seqs[i]
  <2>1. SUFFICES ASSUME NEW i \in D
                 PROVE  f[i] = IF i = 1 THEN seqs[i] ELSE f[i - 1] \o seqs[i]
    OBVIOUS
  <2>2. f[i] = RecursionStep(stop, base, next, combine, f, i)
    BY <1>7
  <2>3. CASE i = 1
    BY <2>2, <2>3 DEF RecursionStep
  <2>4. CASE i # 1
    <3>1. next[i] = i - 1 /\ i - 1 \in D
      BY <2>4
    <3>2. f[i - 1] \in S
      BY <3>1
    <3> QED BY <2>2, <2>4, <3>1, <3>2 DEF RecursionStep
  <2> QED BY <2>3, <2>4
<1>9. IsFlatten(seqs, f)
  BY <1>8 DEF IsFlatten
<1> DEFINE g == CHOOSE g : IsFlatten(seqs, g)
<1>10. IsFlatten(seqs, g)
  BY <1>9
<1>11. FlattenSeq(seqs) = g[Len(seqs)]
  BY FlattenUnfolded, <1>0
<1> HIDE DEF g
<1>12. \A i \in D : g[i] = IF i = 1 THEN seqs[i] ELSE g[i - 1] \o seqs[i]
  BY <1>10 DEF IsFlatten
<1> DEFINE Bad == {i \in D : g[i] # f[i]}
<1>13. Bad = {}
  <2>1. SUFFICES ASSUME Bad # {} PROVE FALSE
    OBVIOUS
  <2>2. Bad \subseteq Nat
    OBVIOUS
  <2> HIDE DEF Bad
  <2>3. PICK k \in Bad : \A i \in Bad : k <= i
    BY <2>1, <2>2, LeastNat
  <2>4. k \in D /\ g[k] # f[k]
    BY <2>3 DEF Bad
  <2>5. k # 1
    BY <2>4, <1>8, <1>12
  <2>6. k - 1 \in D /\ k - 1 \notin Bad
    BY <2>3, <2>4, <2>5
  <2>7. g[k - 1] = f[k - 1]
    BY <2>6 DEF Bad
  <2> QED BY <2>4, <2>5, <2>7, <1>8, <1>12
<1>14. FlattenSeq(seqs) = f[Len(seqs)]
  BY <1>0, <1>11, <1>13
<1>15. f[1] = seqs[1] /\ \A i \in 2..Len(seqs) : f[i] = f[i - 1] \o seqs[i]
  <2>1. ASSUME NEW i \in 2..Len(seqs) PROVE f[i] = f[i - 1] \o seqs[i]
    <3>1. i \in D /\ i # 1
      BY <1>0
    <3> QED BY <1>8, <3>1
  <2> QED BY <2>1, <1>8, <1>0
<1> QED BY <1>14, <1>15

\* Concatenation is associative.
Joined(s, t) == s \o t

LEMMA JoinedThrice ==
  ASSUME NEW V, NEW S, S = Seq(V)
  PROVE  \A b, v, w \in S : Joined(Joined(b, v), w) = Joined(b, Joined(v, w))
<1> SUFFICES ASSUME NEW b \in Seq(V), NEW v \in Seq(V), NEW w \in Seq(V)
             PROVE  (b \o v) \o w = b \o (v \o w)
  BY DEF Joined
<1> QED BY ConcatAssociative

\* Flattening keeps the type, and a sequence in front comes in front.
LEMMA FlattenType ==
  ASSUME NEW V, NEW S, S = Seq(V), NEW seqs \in Seq(S)
  PROVE  FlattenSeq(seqs) \in S
<1>1. CASE Len(seqs) = 0
  <2>1. FlattenSeq(seqs) = seqs
    BY <1>1, FlattenUnfolded
  <2>2. seqs = <<>>
    BY <1>1
  <2> QED BY <2>1, <2>2
<1>2. CASE Len(seqs) > 0
  <2>1. PICK g \in [1..Len(seqs) -> S] : FlattenSeq(seqs) = g[Len(seqs)]
    BY <1>2, FlattenHistory
  <2>2. Len(seqs) \in 1..Len(seqs)
    BY <1>2
  <2> QED BY <2>1, <2>2
<1> QED BY <1>1, <1>2

InFront(b, seqs) == <<b>> \o seqs

LEMMA FlattenEmpty == FlattenSeq(<<>>) = <<>>
BY FlattenUnfolded

LEMMA FlattenCons ==
  ASSUME NEW V, NEW S, S = Seq(V), NEW b \in S, NEW seqs \in Seq(S)
  PROVE  FlattenSeq(InFront(b, seqs)) = Joined(b, FlattenSeq(seqs))
<1> SUFFICES FlattenSeq(<<b>> \o seqs) = b \o FlattenSeq(seqs)
  BY DEF InFront, Joined
<1> DEFINE t == <<b>> \o seqs
<1>1. t \in Seq(S) /\ Len(t) = Len(seqs) + 1 /\ t[1] = b
  OBVIOUS
<1>2. \A i \in 1..Len(seqs) : t[i + 1] = seqs[i]
  OBVIOUS
<1>3. Len(seqs) \in Nat
  OBVIOUS
<1>4. PICK n \in Nat : n = Len(seqs)
  BY <1>3
<1> HIDE DEF t
<1>5. PICK h \in [1..(n + 1) -> S] :
           /\ h[1] = t[1]
           /\ \A i \in 2..(n + 1) : h[i] = h[i - 1] \o t[i]
           /\ FlattenSeq(t) = h[n + 1]
  <2>1. Len(t) > 0 /\ Len(t) = n + 1
    BY <1>1, <1>4
  <2>2. PICK h \in [1..Len(t) -> S] :
           /\ h[1] = t[1]
           /\ \A i \in 2..Len(t) : h[i] = h[i - 1] \o t[i]
           /\ FlattenSeq(t) = h[Len(t)]
    BY <2>1, <1>1, FlattenHistory
  <2> QED BY <2>1, <2>2
<1>6. CASE n = 0
  <2>1. FlattenSeq(t) = b
    BY <1>5, <1>6, <1>1
  <2>2. seqs = <<>>
    BY <1>4, <1>6, EmptySeq
  <2>3. b \o FlattenSeq(seqs) = b
    BY <2>2, FlattenEmpty
  <2> QED BY <2>1, <2>3 DEF t
<1>7. CASE n > 0
  <2>1. PICK g \in [1..n -> S] :
           /\ g[1] = seqs[1]
           /\ \A i \in 2..n : g[i] = g[i - 1] \o seqs[i]
           /\ FlattenSeq(seqs) = g[n]
    BY <1>4, <1>7, FlattenHistory
  <2> DEFINE Bad == {i \in 1..n : h[i + 1] # b \o g[i]}
  <2>2. Bad = {}
    <3>1. SUFFICES ASSUME Bad # {} PROVE FALSE
      OBVIOUS
    <3>2. Bad \subseteq Nat
      OBVIOUS
    <3> HIDE DEF Bad
    <3>3. PICK k \in Bad : \A i \in Bad : k <= i
      BY <3>1, <3>2, LeastNat
    <3>4. k \in 1..n /\ h[k + 1] # b \o g[k]
      BY <3>3 DEF Bad
    <3>5. k + 1 \in 2..(n + 1) /\ t[k + 1] = seqs[k]
      BY <3>4, <1>2, <1>4
    <3>6. h[k + 1] = h[k] \o seqs[k]
      <4>1. h[k + 1] = h[(k + 1) - 1] \o t[k + 1]
        BY <1>5, <3>5
      <4>2. (k + 1) - 1 = k
        BY <3>4
      <4> QED BY <4>1, <4>2, <3>5
    <3>7. CASE k = 1
      BY <3>4, <3>6, <3>7, <2>1, <1>5, <1>1
    <3>8. CASE k > 1
      <4>1. k - 1 \in 1..n /\ k - 1 \notin Bad /\ (k - 1) + 1 = k /\ k \in 2..n
        BY <3>3, <3>4, <3>8
      <4>2. h[k] = b \o g[k - 1]
        BY <4>1 DEF Bad
      <4>3. g[k] = g[k - 1] \o seqs[k]
        BY <4>1, <2>1
      <4>4. g[k - 1] \in S /\ seqs[k] \in S
        <5>1. seqs[k] \in S
          BY <3>4, <1>4
        <5> QED BY <4>1, <5>1
      <4>5. Joined(Joined(b, g[k - 1]), seqs[k]) = Joined(b, Joined(g[k - 1], seqs[k]))
        BY <4>4, JoinedThrice
      <4>6. h[k + 1] = Joined(Joined(b, g[k - 1]), seqs[k])
        BY <3>6, <4>2 DEF Joined
      <4>7. Joined(b, Joined(g[k - 1], seqs[k])) = b \o g[k]
        BY <4>3 DEF Joined
      <4> QED BY <3>4, <4>5, <4>6, <4>7
    <3> QED BY <3>4, <3>7, <3>8
  <2>3. n \in 1..n
    BY <1>7
  <2>4. h[n + 1] = b \o g[n]
    BY <2>2, <2>3
  <2>5. FlattenSeq(t) = b \o FlattenSeq(seqs)
    BY <2>4, <2>1, <1>5
  <2> QED BY <2>5 DEF t
<1>8. n = 0 \/ n > 0
  OBVIOUS
<1> QED BY <1>6, <1>7, <1>8, Zenon

-----------------------------------------------------------------------------
(* Folds over a sequence from the left.                                    *)

\* A non-empty set of places in a sequence has a largest one.
LEMMA MaxOfPlaces ==
  ASSUME NEW n \in Nat, NEW s \in SUBSET (1..n), s # {}
  PROVE  Max(s) \in s /\ \A x \in s : x <= Max(s)
<1> DEFINE N == {n - x : x \in s}
<1>1. N \subseteq Nat /\ N # {}
  OBVIOUS
<1>2. PICK m \in N : \A k \in N : m <= k
  BY <1>1, LeastNat, Zenon
<1>3. PICK y \in s : m = n - y
  BY <1>2
<1>4. \A x \in s : x <= y
  <2>1. SUFFICES ASSUME NEW x \in s PROVE x <= y
    OBVIOUS
  <2>2. n - y <= n - x /\ x \in Nat /\ y \in Nat
    BY <1>2, <1>3
  <2> QED BY <2>2
<1>5. \E z \in s : \A x \in s : x <= z
  BY <1>4
<1>6. \A z \in s : (\A x \in s : x <= z) <=> (\A x \in s : z >= x)
  OBVIOUS
<1> QED BY <1>5, <1>6 DEF Max

LEMMA MaxOfInterval ==
  ASSUME NEW i \in Nat \ {0}
  PROVE  Max(1..i) = i /\ (1..i) \ {i} = 1..(i - 1)
<1> DEFINE s == 1..i
<1>1. s \in SUBSET (1..i) /\ s # {} /\ i \in s
  OBVIOUS
<1>2. \A x \in s : x \in Nat /\ x <= i
  OBVIOUS
<1>3. (1..i) \ {i} = 1..(i - 1)
  OBVIOUS
<1> HIDE DEF s
<1>4. Max(s) \in s /\ \A x \in s : x <= Max(s)
  BY <1>1, MaxOfPlaces
<1>5. Max(s) = i
  <2>1. Max(s) \in Nat /\ Max(s) <= i /\ i <= Max(s)
    BY <1>1, <1>2, <1>4
  <2> QED BY <2>1
<1> QED BY <1>3, <1>5 DEF s

\* The recursion behind FoldLeft, over the sets of places of a sequence of n.
FoldStep(base, step, g, s) == IF s = {} THEN base ELSE step[Max(s)][g[s \ {Max(s)}]]

FoldTyped(n, V, base, step) == base \in V /\ step \in [1..n -> [V -> V]]

FoldSolution(n, V, base, step, g) ==
  /\ g \in [SUBSET (1..n) -> V]
  /\ \A s \in SUBSET (1..n) : g[s] = FoldStep(base, step, g, s)

LEMMA FoldHasSolution ==
  ASSUME NEW n \in Nat, NEW V, NEW base, NEW step, FoldTyped(n, V, base, step)
  PROVE  \E g : FoldSolution(n, V, base, step, g)
<1>0. base \in V /\ step \in [1..n -> [V -> V]]
  BY DEF FoldTyped
<1> DEFINE D    == SUBSET (1..n)
           mu   == [s \in D |-> Cardinality(s)]
           stop == [s \in D |-> s = {}]
           init == [s \in D |-> base]
           next == [s \in D |-> IF s = {} THEN s ELSE s \ {Max(s)}]
           combine == [s \in D |-> [v \in V |-> IF s = {} THEN v ELSE step[Max(s)][v]]]
<1>1. \A s \in D : IsFiniteSet(s) /\ Cardinality(s) \in Nat
  <2>1. IsFiniteSet(1..n)
    BY FS_Interval
  <2>2. \A s \in D : IsFiniteSet(s)
    BY <2>1, FS_Subset
  <2> QED BY <2>2, FS_CardinalityType
<1>2. \A s \in D : s # {} => Max(s) \in s /\ Max(s) \in 1..n
  BY MaxOfPlaces
<1>3. mu \in [D -> Nat] /\ stop \in [D -> BOOLEAN] /\ init \in [D -> V] /\ next \in [D -> D]
  BY <1>0, <1>1
<1>4. combine \in [D -> [V -> V]]
  <2>1. ASSUME NEW s \in D, NEW v \in V
        PROVE  (IF s = {} THEN v ELSE step[Max(s)][v]) \in V
    <3>1. s # {} => Max(s) \in 1..n
      BY <1>2
    <3> QED BY <1>0, <3>1
  <2> QED BY <2>1
<1>5. \A s \in D : ~stop[s] => mu[next[s]] < mu[s]
  <2>1. SUFFICES ASSUME NEW s \in D, s # {} PROVE mu[next[s]] < mu[s]
    OBVIOUS
  <2>2. next[s] = s \ {Max(s)} /\ s \ {Max(s)} \in D
    BY <2>1
  <2>3. IsFiniteSet(s) /\ Max(s) \in s
    BY <1>1, <1>2, <2>1
  <2>4. Cardinality(s \ {Max(s)}) < Cardinality(s)
    BY <2>3, Smaller
  <2> QED BY <2>2, <2>4
<1>6. PICK g : Solution(D, V, stop, init, next, combine, g)
  <2> HIDE DEF D, mu, stop, init, next, combine
  <2>1. WellFounded(D, V, mu, stop, init, next, combine)
    BY <1>3, <1>4, <1>5 DEF WellFounded
  <2> QED BY <2>1, Recursion
<1>7. g \in [D -> V] /\ \A s \in D : g[s] = RecursionStep(stop, init, next, combine, g, s)
  BY <1>6 DEF Solution
<1>8. \A s \in D : g[s] = FoldStep(base, step, g, s)
  <2>1. SUFFICES ASSUME NEW s \in D PROVE g[s] = FoldStep(base, step, g, s)
    OBVIOUS
  <2>2. g[s] = RecursionStep(stop, init, next, combine, g, s)
    BY <1>7
  <2>3. CASE s = {}
    BY <2>2, <2>3 DEF RecursionStep, FoldStep
  <2>4. CASE s # {}
    <3>1. next[s] = s \ {Max(s)} /\ s \ {Max(s)} \in D
      BY <2>4
    <3>2. g[s \ {Max(s)}] \in V
      BY <1>7, <3>1
    <3>3. combine[s][g[s \ {Max(s)}]] = step[Max(s)][g[s \ {Max(s)}]]
      BY <2>4, <3>2
    <3> QED BY <2>2, <2>4, <3>1, <3>3 DEF RecursionStep, FoldStep
  <2> QED BY <2>3, <2>4
<1> QED BY <1>7, <1>8 DEF FoldSolution

\* Whatever satisfies the recursion where it has a value of the right type
\* goes through the sequence from its first element to its last.
FoldWhereTyped(n, V, base, step, h) ==
  /\ h[{}] = base
  /\ \A s \in SUBSET (1..n) :
       s # {} /\ h[s \ {Max(s)}] \in V => h[s] = step[Max(s)][h[s \ {Max(s)}]]

FoldStates(n, V, base, step, h) ==
  /\ h[1..0] = base
  /\ \A i \in 0..n : h[1..i] \in V
  /\ \A i \in 1..n : h[1..i] = step[i][h[1..(i - 1)]]

LEMMA FoldHistory ==
  ASSUME NEW n \in Nat, NEW V, NEW base, NEW step, NEW h,
         FoldTyped(n, V, base, step), FoldWhereTyped(n, V, base, step, h)
  PROVE  FoldStates(n, V, base, step, h)
<1>0. /\ base \in V /\ step \in [1..n -> [V -> V]] /\ h[{}] = base
      /\ \A s \in SUBSET (1..n) :
           s # {} /\ h[s \ {Max(s)}] \in V => h[s] = step[Max(s)][h[s \ {Max(s)}]]
  BY DEF FoldTyped, FoldWhereTyped
<1>1. h[1..0] = base
  <2>1. 1..0 = {}
    OBVIOUS
  <2> QED BY <1>0, <2>1
<1>2. ASSUME NEW i \in 1..n, h[1..(i - 1)] \in V
      PROVE  h[1..i] = step[i][h[1..(i - 1)]] /\ h[1..i] \in V
  <2>1. 1..i \in SUBSET (1..n) /\ 1..i # {} /\ i \in Nat \ {0}
    OBVIOUS
  <2>2. Max(1..i) = i /\ (1..i) \ {i} = 1..(i - 1)
    BY <2>1, MaxOfInterval
  <2>3. h[1..i] = step[i][h[1..(i - 1)]]
    BY <1>0, <1>2, <2>1, <2>2
  <2>4. step[i] \in [V -> V]
    BY <1>0
  <2> QED BY <1>2, <2>3, <2>4
<1> DEFINE Bad == {i \in 0..n : h[1..i] \notin V}
<1>3. Bad = {}
  <2>1. SUFFICES ASSUME Bad # {} PROVE FALSE
    OBVIOUS
  <2>2. Bad \subseteq Nat
    OBVIOUS
  <2> HIDE DEF Bad
  <2>3. PICK k \in Bad : \A i \in Bad : k <= i
    BY <2>1, <2>2, LeastNat
  <2>4. k \in 0..n /\ h[1..k] \notin V
    BY <2>3 DEF Bad
  <2>5. k # 0
    BY <1>0, <1>1, <2>4
  <2>6. k - 1 \in 0..n /\ k - 1 \notin Bad /\ k \in 1..n
    BY <2>3, <2>4, <2>5
  <2>7. h[1..(k - 1)] \in V
    BY <2>6 DEF Bad
  <2> QED BY <1>2, <2>4, <2>6, <2>7
<1>4. \A i \in 0..n : h[1..i] \in V
  BY <1>3
<1>5. \A i \in 1..n : h[1..i] = step[i][h[1..(i - 1)]]
  <2>1. SUFFICES ASSUME NEW i \in 1..n PROVE h[1..i] = step[i][h[1..(i - 1)]]
    OBVIOUS
  <2>2. i - 1 \in 0..n
    OBVIOUS
  <2> QED BY <1>2, <1>4, <2>2
<1> QED BY <1>1, <1>4, <1>5 DEF FoldStates

-----------------------------------------------------------------------------
(* The parts of the packing.                                               *)

\* The least full batch is one of them, and no other is less full.
LEMMA LeastFullIsLeast ==
  ASSUME NEW fill \in [Ranks -> Nat]
  PROVE  LeastFull(fill) \in Ranks /\ \A s \in Ranks : fill[LeastFull(fill)] <= fill[s]
<1>1. 0 \in Ranks /\ Ranks \subseteq Nat
  BY SamplerSizes DEF Ranks
<1> DEFINE F == {fill[r] : r \in Ranks}
<1>2. F \subseteq Nat /\ F # {}
  BY <1>1
<1>3. PICK m \in F : \A k \in F : m <= k
  BY <1>2, LeastNat, Zenon
<1> DEFINE R == {r \in Ranks : fill[r] = m}
<1>4. R \subseteq Nat /\ R # {}
  BY <1>1, <1>3
<1>5. PICK r \in R : \A s \in R : r <= s
  BY <1>4, LeastNat, Zenon
<1>6. r \in Ranks /\ fill[r] = m
  BY <1>5
<1>7. ASSUME NEW s \in Ranks PROVE fill[r] < fill[s] \/ (fill[r] = fill[s] /\ r <= s)
  <2>1. fill[s] \in F /\ fill[s] \in Nat /\ fill[r] \in Nat
    BY <1>6
  <2>2. fill[r] <= fill[s]
    BY <1>3, <1>6, <2>1
  <2>3. fill[s] = fill[r] => r <= s
    BY <1>5, <1>6
  <2> QED BY <2>1, <2>2, <2>3
<1>8. /\ LeastFull(fill) \in Ranks
      /\ \A s \in Ranks : \/ fill[LeastFull(fill)] < fill[s]
                          \/ fill[LeastFull(fill)] = fill[s] /\ LeastFull(fill) <= s
  BY <1>6, <1>7 DEF LeastFull
<1>9. ASSUME NEW s \in Ranks PROVE fill[LeastFull(fill)] <= fill[s]
  <2>1. fill[s] \in Nat /\ fill[LeastFull(fill)] \in Nat
    BY <1>8
  <2> QED BY <1>8, <2>1
<1> QED BY <1>8, <1>9

\* Truncated lengths are between one and a batch.
LEMMA TruncatedType ==
  ASSUME NEW l \in Seq(Nat \ {0})
  PROVE  Truncated(l) \in Seq(1..MaxLen) /\ Len(Truncated(l)) = Len(l)
<1>1. ASSUME NEW i \in DOMAIN l PROVE Min({l[i], MaxLen}) \in 1..MaxLen
  <2>1. l[i] \in Nat \ {0} /\ MaxLen \in Nat \ {0}
    BY SamplerSizes
  <2>2. PICK a \in Nat \ {0} : a = l[i]
    BY <2>1
  <2>3. \E x \in {a, MaxLen} : \A y \in {a, MaxLen} : x <= y
    BY <2>1, <2>2
  <2>4. Min({a, MaxLen}) \in {a, MaxLen} /\ \A y \in {a, MaxLen} : Min({a, MaxLen}) <= y
    BY <2>3 DEF Min
  <2> QED BY <2>1, <2>2, <2>4
<1>2. DOMAIN l = 1..Len(l) /\ Len(l) \in Nat
  OBVIOUS
<1>3. Truncated(l) \in [1..Len(l) -> 1..MaxLen]
  BY <1>1, <1>2 DEF Truncated
<1>4. PICK n \in Nat : n = Len(l)
  BY <1>2
<1> DEFINE S == 1..MaxLen
<1> HIDE DEF S
<1>5. \A T \in [1..n -> S] : T \in Seq(S) /\ Len(T) = n
  OBVIOUS
<1>6. Truncated(l) \in [1..n -> S]
  BY <1>3, <1>4 DEF S
<1>7. Truncated(l) \in Seq(S) /\ Len(Truncated(l)) = n
  BY <1>5, <1>6, Zenon
<1> QED BY <1>4, <1>7 DEF S

\* Sorting by descending length is a permutation of the places.
LEMMA DescendingPermutes ==
  ASSUME NEW l \in Seq(Nat)
  PROVE  /\ Descending(l) \in [1..Len(l) -> 1..Len(l)]
         /\ DOMAIN Descending(l) = 1..Len(l)
         /\ \A j \in 1..Len(l) : \E k \in 1..Len(l) : Descending(l)[k] = j
         /\ \A j, k \in 1..Len(l) : Descending(l)[j] = Descending(l)[k] => j = k
<1> DEFINE n == Len(l)
           D == 1..n
           Ahead(i) == {j \in D : Before(l, j, i)}
           place == [i \in D |-> Cardinality(Ahead(i)) + 1]
<1>1. n \in Nat /\ DOMAIN l = D /\ IsFiniteSet(D) /\ Cardinality(D) = n
  <2>1. n \in Nat /\ DOMAIN l = D
    OBVIOUS
  <2>2. IsFiniteSet(D) /\ Cardinality(D) = IF 1 > n THEN 0 ELSE n - 1 + 1
    BY <2>1, FS_Interval
  <2> QED BY <2>1, <2>2
<1>2. ASSUME NEW i \in D
      PROVE  /\ IsFiniteSet(Ahead(i)) /\ Cardinality(Ahead(i)) \in Nat
             /\ place[i] \in D
  <2>1. i \notin Ahead(i)
    <3>1. l[i] \in Nat
      OBVIOUS
    <3> QED BY <3>1 DEF Before
  <2>2. Ahead(i) \subseteq D \ {i}
    BY <2>1
  <2>3. IsFiniteSet(D \ {i}) /\ Cardinality(D \ {i}) = n - 1
    BY <1>1, FS_RemoveElement
  <2>4. /\ IsFiniteSet(Ahead(i)) /\ Cardinality(Ahead(i)) <= Cardinality(D \ {i})
        /\ Cardinality(Ahead(i)) \in Nat
    BY <2>2, <2>3, FS_Subset, FS_CardinalityType
  <2> QED BY <1>1, <2>3, <2>4
<1>3. \A i, j \in D : i # j => Before(l, i, j) \/ Before(l, j, i)
  <2>1. \A i \in D : l[i] \in Nat
    OBVIOUS
  <2> QED BY <2>1 DEF Before
<1>4. \A i, j, k \in D : Before(l, i, j) /\ Before(l, j, k) => Before(l, i, k)
  <2>1. \A i \in D : l[i] \in Nat
    OBVIOUS
  <2> QED BY <2>1 DEF Before
<1>5. ASSUME NEW i \in D, NEW j \in D, Before(l, i, j)
      PROVE  place[i] # place[j]
  <2>1. i \in Ahead(j) /\ i \notin Ahead(i)
    <3>1. l[i] \in Nat
      OBVIOUS
    <3> QED BY <1>5, <3>1 DEF Before
  <2>2. Ahead(i) \subseteq Ahead(j) \ {i}
    BY <1>4, <1>5, <2>1
  <2>3. IsFiniteSet(Ahead(j)) /\ Cardinality(Ahead(j)) \in Nat /\ Cardinality(Ahead(i)) \in Nat
    BY <1>2
  <2>4. /\ IsFiniteSet(Ahead(j) \ {i}) /\ Cardinality(Ahead(j) \ {i}) < Cardinality(Ahead(j))
        /\ Cardinality(Ahead(j) \ {i}) \in Nat
    BY <2>1, <2>3, Smaller
  <2>5. Cardinality(Ahead(i)) <= Cardinality(Ahead(j) \ {i})
    BY <2>2, <2>4, FS_Subset
  <2> QED BY <2>3, <2>4, <2>5
<1> HIDE DEF Ahead
<1>6. place \in [D -> D]
  BY <1>2
<1>7. \A i, j \in D : place[i] = place[j] => i = j
  BY <1>3, <1>5
<1>8. \A k \in D : \E i \in D : place[i] = k
  <2> HIDE DEF D, place
  <2>1. place \in Injection(D, D)
    BY <1>6, <1>7 DEF Injection, IsInjective
  <2>2. place \in Surjection(D, D)
    BY <1>1, <2>1, FS_Injection
  <2> QED BY <2>2 DEF Surjection
<1>9. ASSUME NEW k \in D
      PROVE  Descending(l)[k] \in D /\ place[Descending(l)[k]] = k
  <2>1. PICK i \in D : place[i] = k
    BY <1>8
  <2>2. Cardinality(Ahead(i)) = k - 1
    <3>1. place[i] = Cardinality(Ahead(i)) + 1 /\ Cardinality(Ahead(i)) \in Nat
      BY <1>2
    <3> HIDE DEF place
    <3> QED BY <2>1, <3>1
  <2>3. Descending(l)[k] = CHOOSE j \in D : Cardinality(Ahead(j)) = k - 1
    BY <1>1 DEF Descending, Ahead
  <2>4. /\ Descending(l)[k] \in D
        /\ Cardinality(Ahead(Descending(l)[k])) = k - 1
    BY <2>2, <2>3
  <2> QED BY <2>4
<1>10. Descending(l) \in [D -> D] /\ DOMAIN Descending(l) = D
  <2> DEFINE c(k) == CHOOSE j \in D : Cardinality(Ahead(j)) = k - 1
  <2>1. Descending(l) = [k \in D |-> c(k)]
    BY <1>1 DEF Descending, Ahead
  <2> HIDE DEF c, D
  <2> QED BY <1>9, <2>1
<1>11. \A j \in D : Descending(l)[place[j]] = j
  <2>1. SUFFICES ASSUME NEW j \in D PROVE Descending(l)[place[j]] = j
    OBVIOUS
  <2>2. place[j] \in D
    BY <1>6
  <2> HIDE DEF place
  <2>3. place[Descending(l)[place[j]]] = place[j] /\ Descending(l)[place[j]] \in D
    BY <1>9, <2>2
  <2> QED BY <1>7, <2>3
<1> HIDE DEF place
<1>12. \A j \in D : \E k \in D : Descending(l)[k] = j
  BY <1>6, <1>11
<1>13. \A j, k \in D : Descending(l)[j] = Descending(l)[k] => j = k
  BY <1>9
<1> QED BY <1>10, <1>12, <1>13

-----------------------------------------------------------------------------
(* The packing of one stretch of lengths, sample by sample.                *)

Places    == Nat \ {0}
PackState == [fill : [Ranks -> Nat], fits : BOOLEAN, batch : Seq(Places)]
NoSamples == [fill |-> [r \in Ranks |-> 0], fits |-> TRUE, batch |-> <<>>]

PutSample(l, start, rank, s, i) ==
  LET r == LeastFull(s.fill)
  IN  [s EXCEPT !.fill[r] = @ + l[i],
                !.fits    = @ /\ s.fill[r] + l[i] <= MaxLen,
                !.batch   = IF r = rank THEN Append(@, start + i) ELSE @]

\* The fold of _lpt_packed_batch, unfolded.
IsPacking(l, start, rank, g) ==
  g = [s \in SUBSET DOMAIN Descending(l) |->
         IF s = {} THEN NoSamples
         ELSE PutSample(l, start, rank, g[s \ {Max(s)}], Descending(l)[Max(s)])]

LEMMA PackedBatchUnfolded ==
  ASSUME NEW l, NEW start, NEW rank
  PROVE  PackedBatch(l, start, rank) =
           LET packed == (CHOOSE g : IsPacking(l, start, rank, g))[DOMAIN Descending(l)]
           IN  IF packed.fits THEN packed.batch ELSE NoBatch
BY DEF PackedBatch, FoldLeft, MapThenFoldSet, IsPacking, PutSample, NoSamples

\* What one sample changes.
LEMMA PutSampleIs ==
  ASSUME NEW l \in Seq(Places), NEW start \in Nat, NEW rank \in Ranks,
         NEW s \in PackState, NEW i \in 1..Len(l)
  PROVE  LET r == LeastFull(s.fill)
             t == PutSample(l, start, rank, s, i)
         IN  /\ t \in PackState /\ r \in Ranks /\ l[i] \in Places
             /\ t.fill = [s.fill EXCEPT ![r] = s.fill[r] + l[i]]
             /\ t.fits = (s.fits /\ s.fill[r] + l[i] <= MaxLen)
             /\ t.batch = IF r = rank THEN Append(s.batch, start + i) ELSE s.batch
<1> DEFINE r == LeastFull(s.fill)
           t == PutSample(l, start, rank, s, i)
<1>1. s.fill \in [Ranks -> Nat] /\ s.fits \in BOOLEAN /\ s.batch \in Seq(Places)
  BY DEF PackState
<1>2. r \in Ranks /\ l[i] \in Places /\ start + i \in Places
  <2>1. r \in Ranks
    BY <1>1, LeastFullIsLeast
  <2>2. l[i] \in Places
    OBVIOUS
  <2> QED BY <2>1, <2>2 DEF Places
<1>3. s = [fill |-> s.fill, fits |-> s.fits, batch |-> s.batch]
  BY DEF PackState
<1>4. /\ t.fill = [s.fill EXCEPT ![r] = s.fill[r] + l[i]]
      /\ t.fits = (s.fits /\ s.fill[r] + l[i] <= MaxLen)
      /\ t.batch = IF r = rank THEN Append(s.batch, start + i) ELSE s.batch
      /\ t = [fill |-> t.fill, fits |-> t.fits, batch |-> t.batch]
  <2> DEFINE fill  == [s.fill EXCEPT ![r] = s.fill[r] + l[i]]
             fits  == s.fits /\ s.fill[r] + l[i] <= MaxLen
             batch == IF r = rank THEN Append(s.batch, start + i) ELSE s.batch
  <2>1. t = [s EXCEPT !.fill = fill, !.fits = fits, !.batch = batch]
    BY DEF PutSample
  <2> HIDE DEF fill, fits, batch, t
  <2>2. t = [fill |-> fill, fits |-> fits, batch |-> batch]
    BY <1>3, <2>1
  <2> QED BY <2>2 DEF fill, fits, batch
<1> HIDE DEF r, t
<1>5. t.fill \in [Ranks -> Nat]
  BY <1>1, <1>2, <1>4 DEF Places
<1>6. t.batch \in Seq(Places)
  BY <1>1, <1>2, <1>4
<1>7. t \in PackState
  BY <1>4, <1>5, <1>6 DEF PackState
<1> QED BY <1>2, <1>4, <1>7 DEF r, t

LEMMA NoSamplesType == NoSamples \in PackState
<1>1. <<>> \in Seq(Places)
  OBVIOUS
<1> QED BY <1>1 DEF NoSamples, PackState

\* The states a packing goes through.
Packing(l, start, rank, F) ==
  /\ F \in [0..Len(l) -> PackState]
  /\ F[0] = NoSamples
  /\ \A i \in 1..Len(l) : F[i] = PutSample(l, start, rank, F[i - 1], Descending(l)[i])
  /\ PackedBatch(l, start, rank) = IF F[Len(l)].fits THEN F[Len(l)].batch ELSE NoBatch

LEMMA PackingExists ==
  ASSUME NEW l \in Seq(Places), NEW start \in Nat, NEW rank \in Ranks
  PROVE  \E F : Packing(l, start, rank, F)
<1>1. PICK n \in Nat : n = Len(l)
  OBVIOUS
<1>2. PICK d \in [1..n -> 1..n] : d = Descending(l) /\ DOMAIN Descending(l) = 1..n
  <2>1. l \in Seq(Nat)
    BY DEF Places
  <2> QED BY <1>1, <2>1, DescendingPermutes
<1> DEFINE step == [i \in 1..n |-> [v \in PackState |-> PutSample(l, start, rank, v, d[i])]]
<1>3. step \in [1..n -> [PackState -> PackState]]
  <2>1. ASSUME NEW i \in 1..n, NEW v \in PackState
        PROVE  PutSample(l, start, rank, v, d[i]) \in PackState
    <3>1. d[i] \in 1..Len(l)
      BY <1>1
    <3> QED BY <3>1, PutSampleIs
  <2> QED BY <2>1
<1>4. \A i \in 1..n : \A v \in PackState : step[i][v] = PutSample(l, start, rank, v, d[i])
  OBVIOUS
<1> HIDE DEF step
<1>5. PICK g : FoldSolution(n, PackState, NoSamples, step, g)
  <2>1. FoldTyped(n, PackState, NoSamples, step)
    BY <1>3, NoSamplesType DEF FoldTyped
  <2> QED BY <2>1, FoldHasSolution
<1>6. \A s \in SUBSET (1..n) : s # {} => Max(s) \in 1..n /\ s \ {Max(s)} \in SUBSET (1..n)
  BY MaxOfPlaces
<1>7. \A s \in SUBSET (1..n) :
           g[s] = IF s = {} THEN NoSamples
                  ELSE PutSample(l, start, rank, g[s \ {Max(s)}], d[Max(s)])
  <2>1. SUFFICES ASSUME NEW s \in SUBSET (1..n)
                 PROVE  g[s] = IF s = {} THEN NoSamples
                               ELSE PutSample(l, start, rank, g[s \ {Max(s)}], d[Max(s)])
    OBVIOUS
  <2>2. g[s] = FoldStep(NoSamples, step, g, s)
    BY <1>5 DEF FoldSolution
  <2>3. CASE s = {}
    BY <2>2, <2>3 DEF FoldStep
  <2>4. CASE s # {}
    <3>1. Max(s) \in 1..n /\ g[s \ {Max(s)}] \in PackState
      BY <1>5, <1>6, <2>4 DEF FoldSolution
    <3>2. step[Max(s)][g[s \ {Max(s)}]] = PutSample(l, start, rank, g[s \ {Max(s)}], d[Max(s)])
      BY <1>4, <3>1
    <3> QED BY <2>2, <2>4, <3>2 DEF FoldStep
  <2> QED BY <2>3, <2>4
<1>8. IsPacking(l, start, rank, g)
  <2>1. g \in [SUBSET (1..n) -> PackState]
    BY <1>5 DEF FoldSolution
  <2> QED BY <1>2, <1>7, <2>1 DEF IsPacking
<1>9. PICK h : /\ IsPacking(l, start, rank, h)
               /\ PackedBatch(l, start, rank) =
                    IF h[1..n].fits THEN h[1..n].batch ELSE NoBatch
  <2> DEFINE h == CHOOSE h : IsPacking(l, start, rank, h)
  <2>1. IsPacking(l, start, rank, h)
    BY <1>8
  <2>2. PackedBatch(l, start, rank) = IF h[1..n].fits THEN h[1..n].batch ELSE NoBatch
    <3>1. DOMAIN Descending(l) = 1..n
      BY <1>2
    <3>2. PackedBatch(l, start, rank) =
            IF h[DOMAIN Descending(l)].fits THEN h[DOMAIN Descending(l)].batch ELSE NoBatch
      BY PackedBatchUnfolded
    <3> HIDE DEF h
    <3> QED BY <3>1, <3>2
  <2> HIDE DEF h
  <2> QED BY <2>1, <2>2
<1>10. \A s \in SUBSET (1..n) :
           h[s] = IF s = {} THEN NoSamples
                  ELSE PutSample(l, start, rank, h[s \ {Max(s)}], d[Max(s)])
  BY <1>2, <1>9 DEF IsPacking
<1>11. h[{}] = NoSamples
  BY <1>10
<1>12. \A s \in SUBSET (1..n) :
           s # {} /\ h[s \ {Max(s)}] \in PackState => h[s] = step[Max(s)][h[s \ {Max(s)}]]
  BY <1>4, <1>6, <1>10
<1>13. /\ h[1..0] = NoSamples
       /\ \A i \in 0..n : h[1..i] \in PackState
       /\ \A i \in 1..n : h[1..i] = step[i][h[1..(i - 1)]]
  <2>1. FoldTyped(n, PackState, NoSamples, step)
    BY <1>3, NoSamplesType DEF FoldTyped
  <2>2. FoldWhereTyped(n, PackState, NoSamples, step, h)
    BY <1>11, <1>12 DEF FoldWhereTyped
  <2>3. FoldStates(n, PackState, NoSamples, step, h)
    BY <2>1, <2>2, FoldHistory
  <2> QED BY <2>3 DEF FoldStates
<1> DEFINE F == [i \in 0..n |-> h[1..i]]
<1>14. F \in [0..n -> PackState] /\ F[0] = NoSamples
  BY <1>13
<1>15. \A i \in 1..n : F[i] = PutSample(l, start, rank, F[i - 1], d[i])
  <2>1. SUFFICES ASSUME NEW i \in 1..n
                 PROVE  F[i] = PutSample(l, start, rank, F[i - 1], d[i])
    OBVIOUS
  <2>2. i \in 0..n /\ i - 1 \in 0..n
    OBVIOUS
  <2>3. F[i] = h[1..i] /\ F[i - 1] = h[1..(i - 1)] /\ h[1..(i - 1)] \in PackState
    BY <1>13, <2>2
  <2> QED BY <1>4, <1>13, <2>3
<1>16. F[n] = h[1..n]
  OBVIOUS
<1> HIDE DEF F
<1>17. Packing(l, start, rank, F)
  BY <1>1, <1>2, <1>9, <1>14, <1>15, <1>16 DEF Packing
<1> QED BY <1>17

\* One step of a packing.
LEMMA PackingStep ==
  ASSUME NEW l \in Seq(Places), NEW start \in Nat, NEW rank \in Ranks,
         NEW F, Packing(l, start, rank, F), NEW i \in 1..Len(l)
  PROVE  LET s == F[i - 1]
             t == F[i]
             j == Descending(l)[i]
             r == LeastFull(s.fill)
         IN  /\ s \in PackState /\ t \in PackState
             /\ j \in 1..Len(l) /\ r \in Ranks /\ l[j] \in Places
             /\ t.fill = [s.fill EXCEPT ![r] = s.fill[r] + l[j]]
             /\ t.fits = (s.fits /\ s.fill[r] + l[j] <= MaxLen)
             /\ t.batch = IF r = rank THEN Append(s.batch, start + j) ELSE s.batch
<1>1. Len(l) \in Nat /\ i \in 0..Len(l) /\ i - 1 \in 0..Len(l)
  OBVIOUS
<1>2. F[i - 1] \in PackState /\ F[i] \in PackState
  BY <1>1 DEF Packing
<1>3. Descending(l)[i] \in 1..Len(l)
  <2>1. l \in Seq(Nat)
    BY DEF Places
  <2> QED BY <2>1, DescendingPermutes
<1>4. F[i] = PutSample(l, start, rank, F[i - 1], Descending(l)[i])
  BY DEF Packing
<1>5. PICK s \in PackState : s = F[i - 1]
  BY <1>2
<1>6. PICK j \in 1..Len(l) : j = Descending(l)[i]
  BY <1>3
<1>7. LET r == LeastFull(s.fill)
          t == PutSample(l, start, rank, s, j)
      IN  /\ t \in PackState /\ r \in Ranks /\ l[j] \in Places
          /\ t.fill = [s.fill EXCEPT ![r] = s.fill[r] + l[j]]
          /\ t.fits = (s.fits /\ s.fill[r] + l[j] <= MaxLen)
          /\ t.batch = IF r = rank THEN Append(s.batch, start + j) ELSE s.batch
  BY PutSampleIs
<1>8. F[i] = PutSample(l, start, rank, s, j)
  BY <1>4, <1>5, <1>6
<1> QED BY <1>2, <1>5, <1>6, <1>7, <1>8

\* All ranks fill the batches in the same way.
LEMMA PackingsAgree ==
  ASSUME NEW l \in Seq(Places), NEW start \in Nat, NEW begin \in Nat,
         NEW r \in Ranks, NEW s \in Ranks, NEW F, NEW G,
         Packing(l, start, r, F), Packing(l, begin, s, G)
  PROVE  \A i \in 0..Len(l) : F[i].fill = G[i].fill /\ F[i].fits = G[i].fits
<1>1. PICK n \in Nat : n = Len(l)
  OBVIOUS
<1> DEFINE Bad == {i \in 0..n : ~(F[i].fill = G[i].fill /\ F[i].fits = G[i].fits)}
<1>2. SUFFICES ASSUME Bad # {} PROVE FALSE
  BY <1>1
<1>3. Bad \subseteq Nat
  OBVIOUS
<1> HIDE DEF Bad
<1>4. PICK k \in Bad : \A i \in Bad : k <= i
  BY <1>2, <1>3, LeastNat
<1>5. k \in 0..n /\ ~(F[k].fill = G[k].fill /\ F[k].fits = G[k].fits)
  BY <1>4 DEF Bad
<1>6. k # 0
  <2>1. F[0] = NoSamples /\ G[0] = NoSamples
    BY DEF Packing
  <2> QED BY <1>5, <2>1
<1>7. k \in 1..n /\ k - 1 \in 0..n /\ k - 1 \notin Bad
  BY <1>4, <1>5, <1>6
<1>8. F[k - 1].fill = G[k - 1].fill /\ F[k - 1].fits = G[k - 1].fits
  BY <1>7 DEF Bad
<1>9. k \in 1..Len(l)
  BY <1>1, <1>7
<1> DEFINE j == Descending(l)[k]
<1>10. /\ F[k].fill = [F[k - 1].fill EXCEPT ![LeastFull(F[k - 1].fill)] =
                         F[k - 1].fill[LeastFull(F[k - 1].fill)] + l[j]]
       /\ F[k].fits = (F[k - 1].fits /\ F[k - 1].fill[LeastFull(F[k - 1].fill)] + l[j] <= MaxLen)
  BY <1>9, PackingStep
<1>11. /\ G[k].fill = [G[k - 1].fill EXCEPT ![LeastFull(G[k - 1].fill)] =
                         G[k - 1].fill[LeastFull(G[k - 1].fill)] + l[j]]
       /\ G[k].fits = (G[k - 1].fits /\ G[k - 1].fill[LeastFull(G[k - 1].fill)] + l[j] <= MaxLen)
  BY <1>9, PackingStep
<1> QED BY <1>5, <1>8, <1>10, <1>11

\* Samples are places in the data set, so that a batch is never mistaken for none.
LEMMA PackedOrNone ==
  ASSUME NEW l \in Seq(Places), NEW start \in Nat, NEW rank \in Ranks,
         NEW F, Packing(l, start, rank, F)
  PROVE  PackedBatch(l, start, rank) # NoBatch <=> F[Len(l)].fits
<1>1. Len(l) \in 0..Len(l)
  OBVIOUS
<1>2. F[Len(l)] \in PackState
  BY <1>1 DEF Packing
<1>3. F[Len(l)].batch \in Seq(Places)
  BY <1>2 DEF PackState
<1>4. PICK b \in Seq(Places) : b = F[Len(l)].batch
  BY <1>3
<1>5. b # NoBatch
  <2>0. \A i \in 1..Len(b) : b[i] \in Places
    OBVIOUS
  <2>1. SUFFICES ASSUME b = << 0 >> PROVE FALSE
    BY DEF NoBatch
  <2>2. Len(b) = 1 /\ b[1] = 0
    BY <2>1
  <2> HIDE <2>1
  <2>3. b[1] \in Places
    BY <2>0, <2>2
  <2> QED BY <2>2, <2>3 DEF Places
<1>6. PackedBatch(l, start, rank) = IF F[Len(l)].fits THEN b ELSE NoBatch
  BY <1>4 DEF Packing
<1> QED BY <1>5, <1>6

\* Whether the lengths fit does not depend on the rank that asks.
LEMMA FitsForAll ==
  ASSUME NEW l \in Seq(Places), NEW start \in Nat, NEW r \in Ranks, NEW s \in Ranks
  PROVE  PackedBatch(l, start, r) # NoBatch <=> PackedBatch(l, start, s) # NoBatch
<1>1. PICK F : Packing(l, start, r, F)
  BY PackingExists
<1>2. PICK G : Packing(l, start, s, G)
  BY PackingExists
<1>3. Len(l) \in 0..Len(l)
  OBVIOUS
<1>4. F[Len(l)].fits = G[Len(l)].fits
  BY <1>1, <1>2, <1>3, PackingsAgree
<1>5. PackedBatch(l, start, r) # NoBatch <=> F[Len(l)].fits
  BY <1>1, PackedOrNone
<1>6. PackedBatch(l, start, s) # NoBatch <=> G[Len(l)].fits
  BY <1>2, PackedOrNone
<1> QED BY <1>4, <1>5, <1>6

\* If they fit, no batch is longer than it may be.
LEMMA FitsIsShort ==
  ASSUME NEW l \in Seq(Places), NEW start \in Nat, NEW rank \in Ranks,
         NEW F, Packing(l, start, rank, F)
  PROVE  \A i \in 0..Len(l) : F[i].fits => \A r \in Ranks : F[i].fill[r] <= MaxLen
<1>1. PICK n \in Nat : n = Len(l)
  OBVIOUS
<1> DEFINE Short(i) == F[i].fits => \A r \in Ranks : F[i].fill[r] <= MaxLen
           Bad == {i \in 0..n : ~Short(i)}
<1>2. SUFFICES ASSUME Bad # {} PROVE FALSE
  BY <1>1
<1>3. Bad \subseteq Nat
  OBVIOUS
<1> HIDE DEF Bad
<1>4. PICK k \in Bad : \A i \in Bad : k <= i
  BY <1>2, <1>3, LeastNat
<1>5. k \in 0..n /\ ~Short(k)
  BY <1>4 DEF Bad
<1>6. k # 0
  <2>1. F[0] = NoSamples
    BY DEF Packing
  <2>2. \A r \in Ranks : F[0].fill[r] = 0
    BY <2>1 DEF NoSamples
  <2>3. Short(0)
    BY <2>2, SamplerSizes
  <2> QED BY <1>5, <2>3
<1>7. k \in 1..n /\ k - 1 \in 0..n /\ k - 1 \notin Bad /\ k \in 1..Len(l)
  BY <1>1, <1>4, <1>5, <1>6
<1>8. Short(k - 1)
  BY <1>7 DEF Bad
<1> DEFINE j == Descending(l)[k]
           q == LeastFull(F[k - 1].fill)
<1>9. /\ F[k].fill = [F[k - 1].fill EXCEPT ![q] = F[k - 1].fill[q] + l[j]]
      /\ F[k].fits = (F[k - 1].fits /\ F[k - 1].fill[q] + l[j] <= MaxLen)
      /\ q \in Ranks /\ F[k - 1] \in PackState
  BY <1>7, PackingStep
<1>10. F[k - 1].fill \in [Ranks -> Nat]
  BY <1>9 DEF PackState
<1>11. \A r \in Ranks : F[k].fill[r] = IF r = q THEN F[k - 1].fill[q] + l[j] ELSE F[k - 1].fill[r]
  BY <1>9, <1>10
<1> HIDE DEF j, q
<1> QED BY <1>5, <1>8, <1>9, <1>11

-----------------------------------------------------------------------------
(* What a packing puts where.                                              *)

\* The tokens of a batch, when all lengths are known.
BatchSum(lens, batch) == FoldSeq(LAMBDA i, t : lens[i] + t, 0, batch)

BatchSumIter(lens, batch, D, g) ==
  g = [s \in SUBSET D |-> IF s = {} THEN 0 ELSE lens[batch[First(s)]] + g[s \ {First(s)}]]

LEMMA BatchSumUnfolded ==
  ASSUME NEW lens, NEW batch
  PROVE  BatchSum(lens, batch) =
           (CHOOSE g : BatchSumIter(lens, batch, DOMAIN batch, g))[DOMAIN batch]
BY DEF BatchSum, FoldSeq, FoldFunction, FoldFunctionOnSet, MapThenFoldSet, BatchSumIter, First

LEMMA BatchSumIs ==
  ASSUME NEW lens, NEW batch \in Seq(Places)
  PROVE  BatchSum(lens, batch) =
           SumFunctionOnSet([k \in 1..Len(batch) |-> lens[batch[k]]], 1..Len(batch))
<1>1. PICK D : D = 1..Len(batch) /\ D = DOMAIN batch
  OBVIOUS
<1> DEFINE f == [k \in D |-> lens[batch[k]]]
<1>2. ASSUME NEW g
      PROVE  BatchSumIter(lens, batch, D, g) <=> IsIter(f, D, g)
  <2>1. ASSUME NEW s \in SUBSET D
        PROVE  (IF s = {} THEN 0 ELSE lens[batch[First(s)]] + g[s \ {First(s)}])
               = StepOf(f, g, s)
    <3>1. CASE s = {}
      BY <3>1 DEF StepOf
    <3>2. CASE s # {}
      <4>1. First(s) \in D
        BY <3>2, FirstIsIn
      <4>2. f[First(s)] = lens[batch[First(s)]]
        BY <4>1
      <4> HIDE DEF f
      <4> QED BY <3>2, <4>2 DEF StepOf
    <3> QED BY <3>1, <3>2
  <2> HIDE DEF f
  <2>2. [s \in SUBSET D |-> IF s = {} THEN 0 ELSE lens[batch[First(s)]] + g[s \ {First(s)}]]
        = [s \in SUBSET D |-> StepOf(f, g, s)]
    BY <2>1
  <2> QED BY <2>2 DEF BatchSumIter, IsIter
<1> HIDE DEF f
<1>3. (CHOOSE g : BatchSumIter(lens, batch, D, g)) = Iter(f, D)
  BY <1>2 DEF Iter
<1>4. BatchSum(lens, batch) = Iter(f, D)[D]
  BY <1>1, <1>3, BatchSumUnfolded
<1>5. BatchSum(lens, batch) = SumFunctionOnSet(f, D)
  BY <1>4, SumIsIter
<1> QED BY <1>1, <1>5 DEF f

\* An empty batch has no tokens; one more sample adds its length.
LEMMA BatchSumEmpty ==
  ASSUME NEW lens
  PROVE  BatchSum(lens, <<>>) = 0
<1>1. <<>> \in Seq(Places) /\ Len(<<>>) = 0 /\ 1..0 = {}
  OBVIOUS
<1> DEFINE f == [k \in 1..Len(<<>>) |-> lens[<<>>[k]]]
<1>2. BatchSum(lens, <<>>) = SumFunctionOnSet(f, 1..Len(<<>>))
  BY <1>1, BatchSumIs
<1>3. 1..Len(<<>>) = {}
  BY <1>1
<1> HIDE DEF f
<1> QED BY <1>2, <1>3, SumEmpty

LEMMA BatchSumAppend ==
  ASSUME NEW lens, NEW batch \in Seq(Places), NEW x \in Places,
         \A k \in 1..Len(batch) : lens[batch[k]] \in Nat, lens[x] \in Nat
  PROVE  /\ BatchSum(lens, Append(batch, x)) = BatchSum(lens, batch) + lens[x]
         /\ BatchSum(lens, batch) \in Nat
<1>1. PICK n \in Nat : n = Len(batch)
  OBVIOUS
<1>2. PICK b \in Seq(Places) : b = Append(batch, x)
  <2>1. Append(batch, x) \in Seq(Places)
    BY AppendProperties
  <2> QED BY <2>1, Zenon
<1>3. Len(b) = n + 1 /\ b[n + 1] = x /\ \A k \in 1..n : b[k] = batch[k]
  BY <1>1, <1>2
<1> DEFINE f == [k \in 1..n |-> lens[batch[k]]]
           g == [k \in 1..(n + 1) |-> lens[b[k]]]
<1>4. BatchSum(lens, batch) = SumFunctionOnSet(f, 1..n)
  BY <1>1, BatchSumIs
<1>5. BatchSum(lens, b) = SumFunctionOnSet(g, 1..(n + 1))
  BY <1>3, BatchSumIs
<1>6. g[n + 1] = lens[x] /\ \A k \in 1..n : g[k] = f[k]
  BY <1>3
<1>7. \A k \in 1..n : f[k] \in Nat
  BY <1>1
<1> HIDE DEF f, g
<1>8. n + 1 \in Nat \ {0} /\ (n + 1) - 1 = n /\ IsFiniteSet(1..n)
  <2>1. IsFiniteSet(1..n)
    BY FS_Interval
  <2> QED BY <2>1
<1>9. \A k \in 1..(n + 1) : g[k] \in Nat
  BY <1>6, <1>7
<1>10. SumFunctionOnSet(g, 1..(n + 1)) = g[n + 1] + SumFunctionOnSet(g, 1..n)
  <2>1. PICK m \in Nat \ {0} : m = n + 1 /\ m - 1 = n
    BY <1>8
  <2>2. SumFunctionOnSet(g, 1..m) = g[m] + SumFunctionOnSet(g, 1..(m - 1))
    BY <1>9, <2>1, SumUpTo
  <2> QED BY <2>1, <2>2
<1>11. SumFunctionOnSet(g, 1..n) = SumFunctionOnSet(f, 1..n)
  BY <1>6, <1>8, SumAgree
<1>12. SumFunctionOnSet(f, 1..n) \in Nat
  BY <1>7, <1>8, SumNat
<1> QED BY <1>2, <1>4, <1>5, <1>6, <1>10, <1>11, <1>12

\* A rank's batch has samples of the stretch only, the tokens of its bin, and
\* every sample that went into its bin.
Filled(lens, l, start, rank, F, i) ==
  /\ \A k \in 1..Len(F[i].batch) : \E j \in 1..Len(l) : F[i].batch[k] = start + j
  /\ BatchSum(lens, F[i].batch) = F[i].fill[rank]
  /\ \A m \in 1..i :
       LeastFull(F[m - 1].fill) = rank =>
         \E k \in 1..Len(F[i].batch) : F[i].batch[k] = start + Descending(l)[m]

LEMMA PackingFills ==
  ASSUME NEW l \in Seq(Places), NEW start \in Nat, NEW rank \in Ranks,
         NEW F, Packing(l, start, rank, F),
         NEW lens, \A j \in 1..Len(l) : lens[start + j] = l[j]
  PROVE  \A i \in 0..Len(l) : Filled(lens, l, start, rank, F, i)
<1>1. PICK n \in Nat : n = Len(l)
  OBVIOUS
<1> DEFINE Good(i) == Filled(lens, l, start, rank, F, i)
           Bad == {i \in 0..n : ~Good(i)}
<1>2. SUFFICES ASSUME Bad # {} PROVE FALSE
  BY <1>1
<1>3. Bad \subseteq Nat
  OBVIOUS
<1> HIDE DEF Bad, Good
<1>4. PICK i \in Bad : \A k \in Bad : i <= k
  BY <1>2, <1>3, LeastNat
<1>5. i \in 0..n /\ ~Good(i)
  BY <1>4 DEF Bad
<1>6. i # 0
  <2>1. F[0] = NoSamples
    BY DEF Packing
  <2>2. F[0].batch = <<>> /\ F[0].fill[rank] = 0
    BY <2>1 DEF NoSamples
  <2>3. Len(F[0].batch) = 0 /\ BatchSum(lens, F[0].batch) = 0
    BY <2>2, BatchSumEmpty
  <2>4. Good(0)
    BY <2>2, <2>3 DEF Good, Filled
  <2> QED BY <1>5, <2>4
<1>7. i \in 1..n /\ i - 1 \in 0..n /\ i - 1 \notin Bad /\ i \in 1..Len(l)
  BY <1>1, <1>4, <1>5, <1>6
<1>8. Good(i - 1)
  BY <1>7 DEF Bad
<1>9. PICK j \in 1..n : j = Descending(l)[i]
  BY <1>1, <1>7, PackingStep
<1>10. PICK q \in Ranks : q = LeastFull(F[i - 1].fill)
  BY <1>7, PackingStep
<1>11. PICK s \in PackState : s = F[i - 1]
  BY <1>7, PackingStep
<1>12. PICK t \in PackState : t = F[i]
  BY <1>7, PackingStep
<1>13. PICK b \in Seq(Places) : b = s.batch
  BY DEF PackState
<1>14. /\ t.fill = [s.fill EXCEPT ![q] = s.fill[q] + l[j]]
       /\ t.batch = IF q = rank THEN Append(b, start + j) ELSE b
       /\ l[j] \in Places
  BY <1>7, <1>9, <1>10, <1>11, <1>12, <1>13, PackingStep
<1>15. s.fill \in [Ranks -> Nat]
  BY DEF PackState
<1>16. /\ \A k \in 1..Len(b) : \E h \in 1..n : b[k] = start + h
       /\ BatchSum(lens, b) = s.fill[rank]
       /\ \A m \in 1..(i - 1) :
            LeastFull(F[m - 1].fill) = rank =>
              \E k \in 1..Len(b) : b[k] = start + Descending(l)[m]
  BY <1>1, <1>8, <1>11, <1>13 DEF Good, Filled
<1>17. CASE q # rank
  <2>1. t.batch = b /\ t.fill[rank] = s.fill[rank]
    BY <1>14, <1>15, <1>17
  <2>2. ASSUME NEW m \in 1..i, LeastFull(F[m - 1].fill) = rank
        PROVE  m \in 1..(i - 1)
    <3>1. m # i
      BY <1>10, <1>17, <2>2
    <3>2. i \in Nat /\ m \in 1..i
      BY <1>7
    <3> QED BY <3>1, <3>2
  <2>3. Good(i)
    BY <1>1, <1>12, <1>16, <2>1, <2>2 DEF Good, Filled
  <2> QED BY <2>3, <1>5
<1>18. CASE q = rank
  <2>1. start + j \in Places
    BY <1>9 DEF Places
  <2>2. PICK c \in Seq(Places) : c = Append(b, start + j)
    <3>1. Append(b, start + j) \in Seq(Places)
      BY <2>1, AppendProperties
    <3> QED BY <3>1, Zenon
  <2>3. PICK w \in Nat : w = Len(b)
    OBVIOUS
  <2>4. /\ Len(c) = w + 1 /\ c[w + 1] = start + j
        /\ \A k \in 1..w : c[k] = b[k]
    BY <2>1, <2>2, <2>3, AppendProperties
  <2>5. t.batch = c /\ t.fill[rank] = s.fill[rank] + l[j]
    BY <1>14, <1>15, <1>18, <2>2
  <2>6. lens[start + j] = l[j] /\ l[j] \in Nat
    BY <1>1, <1>9, <1>14 DEF Places
  <2>7. \A k \in 1..Len(b) : lens[b[k]] \in Nat
    <3>1. SUFFICES ASSUME NEW k \in 1..Len(b) PROVE lens[b[k]] \in Nat
      OBVIOUS
    <3>2. PICK h \in 1..n : b[k] = start + h
      BY <1>16
    <3>3. lens[start + h] = l[h] /\ l[h] \in Places
      BY <1>1
    <3> QED BY <3>2, <3>3 DEF Places
  <2>8. BatchSum(lens, c) = s.fill[rank] + l[j]
    <3>1. lens[start + j] \in Nat
      BY <2>6
    <3>2. BatchSum(lens, Append(b, start + j)) = BatchSum(lens, b) + lens[start + j]
      BY <2>1, <2>7, <3>1, BatchSumAppend
    <3> QED BY <3>2, <2>2, <2>6, <1>16
  <2>9. \A k \in 1..(w + 1) : \E h \in 1..n : c[k] = start + h
    <3>1. SUFFICES ASSUME NEW k \in 1..(w + 1) PROVE \E h \in 1..n : c[k] = start + h
      OBVIOUS
    <3>2. CASE k = w + 1
      BY <3>2, <2>4, <1>9
    <3>3. CASE k # w + 1
      <4>1. k \in 1..w
        BY <3>3
      <4> QED BY <4>1, <2>3, <2>4, <1>16
    <3> QED BY <3>2, <3>3
  <2>10. ASSUME NEW m \in 1..i, LeastFull(F[m - 1].fill) = rank
         PROVE  \E k \in 1..(w + 1) : c[k] = start + Descending(l)[m]
    <3>1. CASE m = i
      <4>1. w + 1 \in 1..(w + 1)
        OBVIOUS
      <4> QED BY <3>1, <4>1, <2>4, <1>9
    <3>2. CASE m # i
      <4>1. m \in 1..(i - 1)
        BY <3>2, <1>7
      <4>2. PICK k \in 1..w : b[k] = start + Descending(l)[m]
        BY <4>1, <2>3, <2>10, <1>16
      <4>3. k \in 1..(w + 1) /\ c[k] = b[k]
        BY <2>4
      <4> QED BY <4>2, <4>3
    <3> QED BY <3>1, <3>2
  <2>11. Good(i)
    BY <1>1, <1>12, <2>4, <2>5, <2>8, <2>9, <2>10 DEF Good, Filled
  <2> QED BY <2>11, <1>5
<1> QED BY <1>17, <1>18

\* Every sample goes into exactly one rank's batch.
LEMMA RanksAreFinite == IsFiniteSet(Ranks) /\ Cardinality(Ranks) = Replicas
<1>1. Replicas \in Nat /\ 0 \in Int /\ Replicas - 1 \in Int /\ Replicas > 0
  BY SamplerSizes
<1>2. /\ IsFiniteSet(0..(Replicas - 1))
      /\ Cardinality(0..(Replicas - 1)) =
           IF 0 > Replicas - 1 THEN 0 ELSE (Replicas - 1) - 0 + 1
  BY <1>1, FS_Interval
<1> QED BY <1>1, <1>2 DEF Ranks

BatchSize(F, i) == Len(F[i].batch)

LEMMA PackingGrows ==
  ASSUME NEW l \in Seq(Places), NEW start \in Nat, NEW rank \in Ranks,
         NEW F, Packing(l, start, rank, F), NEW i \in 1..Len(l)
  PROVE  /\ BatchSize(F, i - 1) \in Nat
         /\ BatchSize(F, i) = IF LeastFull(F[i - 1].fill) = rank
                             THEN BatchSize(F, i - 1) + 1 ELSE BatchSize(F, i - 1)
<1>1. PICK s \in PackState : s = F[i - 1]
  BY PackingStep
<1>2. PICK b \in Seq(Places) : b = s.batch
  BY DEF PackState
<1>3. PICK j \in 1..Len(l) : j = Descending(l)[i]
  BY PackingStep
<1>4. F[i].batch = IF LeastFull(s.fill) = rank THEN Append(b, start + j) ELSE b
  <2>1. PICK q \in Ranks : q = LeastFull(s.fill)
    BY <1>1, PackingStep
  <2>2. PICK t \in PackState : t = F[i]
    BY PackingStep
  <2>3. t.batch = IF q = rank THEN Append(b, start + j) ELSE b
    <3>1. /\ t.fill = [s.fill EXCEPT ![q] = s.fill[q] + l[j]]
          /\ t.batch = IF q = rank THEN Append(b, start + j) ELSE b
          /\ l[j] \in Places
      BY <1>1, <1>2, <1>3, <2>1, <2>2, PackingStep
    <3> QED BY <3>1
  <2> QED BY <2>1, <2>2, <2>3
<1>5. start + j \in Places
  BY <1>3 DEF Places
<1>6. Len(Append(b, start + j)) = Len(b) + 1 /\ Len(b) \in Nat
  BY <1>5, AppendProperties
<1> QED BY <1>1, <1>2, <1>4, <1>6 DEF BatchSize

LEMMA PackingCounts ==
  ASSUME NEW l \in Seq(Places), NEW start \in Nat,
         NEW H, \A r \in Ranks : Packing(l, start, r, H[r])
  PROVE  \A i \in 0..Len(l) :
           SumFunctionOnSet([r \in Ranks |-> Len(H[r][i].batch)], Ranks) = i
<1>1. PICK n \in Nat : n = Len(l)
  OBVIOUS
<1> DEFINE size(i) == [r \in Ranks |-> Len(H[r][i].batch)]
           Good(i) == SumFunctionOnSet(size(i), Ranks) = i
           Bad == {i \in 0..n : ~Good(i)}
<1>2. SUFFICES ASSUME Bad # {} PROVE FALSE
  BY <1>1
<1>3. Bad \subseteq Nat
  OBVIOUS
<1> HIDE DEF Bad, Good
<1>4. PICK i \in Bad : \A k \in Bad : i <= k
  BY <1>2, <1>3, LeastNat
<1>5. i \in 0..n /\ ~Good(i)
  BY <1>4 DEF Bad
<1>6. i # 0
  <2>1. \A r \in Ranks : Len(H[r][0].batch) = 0
    BY DEF Packing, NoSamples
  <2> DEFINE z == size(0)
  <2>2. \A r \in Ranks : z[r] = 0
    BY <2>1
  <2> HIDE DEF z
  <2>3. SumFunctionOnSet(z, Ranks) = 0
    BY <2>2, SumOfZeros, RanksAreFinite
  <2> QED BY <1>5, <2>3 DEF z, Good
<1>7. i \in 1..n /\ i - 1 \in 0..n /\ i - 1 \notin Bad /\ i \in 1..Len(l)
  BY <1>1, <1>4, <1>5, <1>6
<1>8. Good(i - 1)
  BY <1>7 DEF Bad
<1>9. 0 \in Ranks
  BY SamplerSizes DEF Ranks
<1>10. PICK q \in Ranks : q = LeastFull(H[0][i - 1].fill)
  BY <1>7, <1>9, PackingStep
<1>11. PICK j \in 1..n : j = Descending(l)[i]
  BY <1>1, <1>7, <1>9, PackingStep
<1>12. ASSUME NEW r \in Ranks
       PROVE  /\ size(i - 1)[r] \in Nat
              /\ size(i)[r] = IF r = q THEN size(i - 1)[r] + 1 ELSE size(i - 1)[r]
  <2>1. H[r][i - 1].fill = H[0][i - 1].fill
    <3>1. PICK F : F = H[r] /\ Packing(l, start, r, F)
      OBVIOUS
    <3>2. PICK G : G = H[0] /\ Packing(l, start, 0, G)
      BY <1>9
    <3>3. \A k \in 0..Len(l) : F[k].fill = G[k].fill /\ F[k].fits = G[k].fits
      BY <3>1, <3>2, <1>9, PackingsAgree
    <3> QED BY <1>1, <1>7, <3>1, <3>2, <3>3
  <2>2. /\ BatchSize(H[r], i - 1) \in Nat
        /\ BatchSize(H[r], i) = IF LeastFull(H[r][i - 1].fill) = r
                               THEN BatchSize(H[r], i - 1) + 1 ELSE BatchSize(H[r], i - 1)
    BY <1>7, PackingGrows
  <2>3. LeastFull(H[r][i - 1].fill) = r <=> q = r
    BY <2>1, <1>10
  <2>4. size(i - 1)[r] = BatchSize(H[r], i - 1) /\ size(i)[r] = BatchSize(H[r], i)
    BY DEF BatchSize
  <2> HIDE DEF size
  <2> QED BY <2>2, <2>3, <2>4
<1>13. PICK f : f = size(i - 1)
  OBVIOUS
<1>14. PICK g : g = size(i)
  OBVIOUS
<1>15. \A r \in Ranks : f[r] \in Nat /\ g[r] = IF r = q THEN f[r] + 1 ELSE f[r]
  <2> HIDE DEF size
  <2> QED BY <1>12, <1>13, <1>14
<1>16. \A r \in Ranks : g[r] \in Nat
  BY <1>15
<1>17. SumFunctionOnSet(f, Ranks) = f[q] + SumFunctionOnSet(f, Ranks \ {q})
  BY <1>15, RanksAreFinite, SumSplit
<1>18. SumFunctionOnSet(g, Ranks) = g[q] + SumFunctionOnSet(g, Ranks \ {q})
  BY <1>16, RanksAreFinite, SumSplit
<1>19. SumFunctionOnSet(g, Ranks \ {q}) = SumFunctionOnSet(f, Ranks \ {q})
       /\ SumFunctionOnSet(f, Ranks \ {q}) \in Nat
  <2>1. IsFiniteSet(Ranks \ {q})
    BY RanksAreFinite, FS_RemoveElement
  <2>2. \A r \in Ranks \ {q} : g[r] = f[r] /\ f[r] \in Nat
    BY <1>15
  <2> QED BY <2>1, <2>2, SumAgree, SumNat
<1>20. SumFunctionOnSet(f, Ranks) = i - 1
  BY <1>8, <1>13 DEF Good
<1>21. SumFunctionOnSet(g, Ranks) = i
  <2>1. g[q] = f[q] + 1 /\ f[q] \in Nat
    BY <1>15
  <2>2. i \in Nat
    BY <1>7
  <2> QED BY <2>1, <2>2, <1>17, <1>18, <1>19, <1>20
<1>22. Good(i)
  BY <1>14, <1>21 DEF Good
<1> QED BY <1>5, <1>22

\* The first samples go into empty bins: as long as there are not more of
\* them than ranks they fit, and then no bin is empty any more.
Empty(F, i) == {r \in Ranks : F[i].fill[r] = 0}

Spread(l, F, i) ==
  /\ i <= Replicas => Cardinality(Empty(F, i)) = Replicas - i
  /\ i >= Replicas => Empty(F, i) = {}
  /\ i <= Replicas /\ (\A j \in 1..Len(l) : l[j] <= MaxLen) => F[i].fits

LEMMA PackingSpreads ==
  ASSUME NEW l \in Seq(Places), NEW start \in Nat, NEW rank \in Ranks,
         NEW F, Packing(l, start, rank, F)
  PROVE  \A i \in 0..Len(l) : Spread(l, F, i)
<1>1. PICK n \in Nat : n = Len(l)
  OBVIOUS
<1> DEFINE Good(i) == Spread(l, F, i)
           Bad == {i \in 0..n : ~Good(i)}
<1>2. SUFFICES ASSUME Bad # {} PROVE FALSE
  BY <1>1
<1>3. Bad \subseteq Nat
  OBVIOUS
<1> HIDE DEF Bad, Good
<1>4. PICK i \in Bad : \A k \in Bad : i <= k
  BY <1>2, <1>3, LeastNat
<1>5. i \in 0..n /\ ~Good(i)
  BY <1>4 DEF Bad
<1>6. i # 0
  <2>1. F[0] = NoSamples
    BY DEF Packing
  <2>2. Empty(F, 0) = Ranks /\ F[0].fits
    BY <2>1 DEF NoSamples, Empty
  <2>3. Cardinality(Empty(F, 0)) = Replicas - 0 /\ ~(0 >= Replicas)
    BY <2>2, RanksAreFinite, SamplerSizes
  <2>4. Good(0)
    BY <2>2, <2>3 DEF Good, Spread
  <2> QED BY <1>5, <2>4
<1>7. i \in 1..n /\ i - 1 \in 0..n /\ i - 1 \notin Bad /\ i \in 1..Len(l)
  BY <1>1, <1>4, <1>5, <1>6
<1>8. Spread(l, F, i - 1)
  BY <1>7 DEF Bad, Good
<1>9. PICK j \in 1..n : j = Descending(l)[i]
  BY <1>1, <1>7, PackingStep
<1>10. PICK s \in PackState : s = F[i - 1]
  BY <1>7, PackingStep
<1>11. PICK q \in Ranks : q = LeastFull(s.fill)
  BY <1>7, <1>10, PackingStep
<1>12. PICK t \in PackState : t = F[i]
  BY <1>7, PackingStep
<1>13. /\ t.fill = [s.fill EXCEPT ![q] = s.fill[q] + l[j]]
       /\ t.fits = (s.fits /\ s.fill[q] + l[j] <= MaxLen)
       /\ l[j] \in Places
  BY <1>7, <1>9, <1>10, <1>11, <1>12, PackingStep
<1>14. s.fill \in [Ranks -> Nat]
  BY DEF PackState
<1>15. \A r \in Ranks : s.fill[q] <= s.fill[r]
  BY <1>11, <1>14, LeastFullIsLeast
<1>16. t.fill[q] # 0 /\ \A r \in Ranks : r # q => t.fill[r] = s.fill[r]
  <2>1. t.fill[q] = s.fill[q] + l[j] /\ s.fill[q] \in Nat
    BY <1>13, <1>14
  <2>2. t.fill[q] # 0
    BY <2>1, <1>13 DEF Places
  <2> QED BY <2>2, <1>13, <1>14
<1>17. Empty(F, i) = Empty(F, i - 1) \ {q}
  BY <1>10, <1>12, <1>16 DEF Empty
<1>18. Replicas \in Nat /\ i \in Nat /\ i > 0
  BY <1>7, SamplerSizes
<1>19. CASE i <= Replicas
  <2>1. i - 1 <= Replicas /\ Cardinality(Empty(F, i - 1)) = Replicas - (i - 1)
    BY <1>8, <1>18, <1>19 DEF Spread
  <2>2. IsFiniteSet(Empty(F, i - 1))
    BY RanksAreFinite, FS_Subset DEF Empty
  <2>3. Empty(F, i - 1) # {}
    <3>1. Cardinality(Empty(F, i - 1)) # 0
      BY <2>1, <1>18, <1>19
    <3> QED BY <3>1, FS_EmptySet
  <2>4. q \in Empty(F, i - 1) /\ s.fill[q] = 0
    <3>1. PICK e \in Ranks : s.fill[e] = 0
      BY <2>3, <1>10 DEF Empty
    <3>2. s.fill[q] \in Nat /\ s.fill[q] <= 0
      BY <3>1, <1>14, <1>15
    <3>3. s.fill[q] = 0
      BY <3>2
    <3> QED BY <3>3, <1>10 DEF Empty
  <2>5. /\ IsFiniteSet(Empty(F, i)) /\ Cardinality(Empty(F, i)) = Cardinality(Empty(F, i - 1)) - 1
    BY <1>17, <2>2, <2>4, FS_RemoveElement
  <2>6. Cardinality(Empty(F, i)) = Replicas - i
    BY <2>1, <2>5, <1>18
  <2>7. i >= Replicas => Empty(F, i) = {}
    BY <2>5, <2>6, <1>18, <1>19, FS_EmptySet
  <2>8. (\A h \in 1..Len(l) : l[h] <= MaxLen) => F[i].fits
    <3>1. SUFFICES ASSUME \A h \in 1..Len(l) : l[h] <= MaxLen PROVE F[i].fits
      OBVIOUS
    <3>2. s.fits
      BY <1>8, <1>10, <2>1, <3>1 DEF Spread
    <3>3. s.fill[q] + l[j] <= MaxLen
      <4>1. l[j] <= MaxLen /\ l[j] \in Nat
        BY <1>1, <1>9, <1>13, <3>1 DEF Places
      <4> QED BY <4>1, <2>4
    <3> QED BY <3>2, <3>3, <1>12, <1>13
  <2>9. Good(i)
    BY <2>6, <2>7, <2>8 DEF Good, Spread
  <2> QED BY <2>9, <1>5
<1>20. CASE ~(i <= Replicas)
  <2>1. i - 1 >= Replicas
    BY <1>18, <1>20
  <2>2. Empty(F, i - 1) = {}
    BY <1>8, <2>1 DEF Spread
  <2>3. Good(i)
    BY <2>2, <1>17, <1>20 DEF Good, Spread
  <2> QED BY <2>3, <1>5
<1> QED BY <1>19, <1>20

-----------------------------------------------------------------------------
(* The batches of one stretch.                                             *)

\* The batches of all ranks for the samples after lo up to hi: none of them
\* is missing, empty or too long, and together they are those samples, each
\* of them once.
Dealt(lens, lo, hi, B) ==
  /\ \A r \in Ranks : /\ B[r] \in Seq(Places) /\ B[r] \notin {NoBatch, <<>>}
                      /\ BatchSum(lens, B[r]) <= MaxLen
                      /\ \A k \in 1..Len(B[r]) : B[r][k] \in (lo + 1)..hi
  /\ \A i \in (lo + 1)..hi : \E r \in Ranks : \E k \in 1..Len(B[r]) : B[r][k] = i
  /\ SumFunctionOnSet([r \in Ranks |-> Len(B[r])], Ranks) = hi - lo

LEMMA PackedTogether ==
  ASSUME NEW l \in Seq(Places), NEW start \in Nat, NEW q \in Ranks, Replicas <= Len(l),
         PackedBatch(l, start, q) # NoBatch,
         NEW lens, \A j \in 1..Len(l) : lens[start + j] = l[j]
  PROVE  Dealt(lens, start, start + Len(l), [r \in Ranks |-> PackedBatch(l, start, r)])
<1>1. PICK n \in Nat : n = Len(l)
  OBVIOUS
<1>2. PICK H : \A r \in Ranks : Packing(l, start, r, H[r])
  <2> DEFINE K == [r \in Ranks |-> CHOOSE F : Packing(l, start, r, F)]
  <2>1. \A r \in Ranks : Packing(l, start, r, K[r])
    BY PackingExists
  <2> QED BY <2>1
<1>3. PICK B : B = [r \in Ranks |-> PackedBatch(l, start, r)]
  OBVIOUS
<1>4. ASSUME NEW r \in Ranks
      PROVE  /\ H[r][n].fits /\ B[r] = H[r][n].batch /\ B[r] # NoBatch
             /\ B[r] \in Seq(Places)
  <2>1. PICK F : F = H[r] /\ Packing(l, start, r, F)
    BY <1>2
  <2>2. PackedBatch(l, start, r) # NoBatch
    BY FitsForAll
  <2>3. F[n].fits
    BY <1>1, <2>1, <2>2, PackedOrNone
  <2>4. PackedBatch(l, start, r) = F[n].batch
    BY <1>1, <2>1, <2>3 DEF Packing
  <2>5. F[n] \in PackState
    BY <1>1, <2>1 DEF Packing
  <2> QED BY <1>3, <2>1, <2>2, <2>3, <2>4, <2>5 DEF PackState
<1>5. n \in 0..Len(l) /\ n \in 0..n
  BY <1>1
<1>6. ASSUME NEW r \in Ranks
      PROVE  /\ B[r] # <<>> /\ BatchSum(lens, B[r]) <= MaxLen
             /\ \A k \in 1..Len(B[r]) : B[r][k] \in (start + 1)..(start + n)
             /\ \A m \in 1..n :
                  LeastFull(H[r][m - 1].fill) = r =>
                    \E k \in 1..Len(B[r]) : B[r][k] = start + Descending(l)[m]
  <2>1. PICK F : F = H[r] /\ Packing(l, start, r, F)
    BY <1>2
  <2>2. Filled(lens, l, start, r, F, n)
    BY <1>5, <2>1, PackingFills
  <2>3. F[n].fill[r] <= MaxLen
    BY <1>4, <1>5, <2>1, FitsIsShort
  <2>4. F[n].fill[r] # 0
    <3>1. Spread(l, F, n)
      BY <1>5, <2>1, PackingSpreads
    <3>2. Empty(F, n) = {}
      BY <1>1, <3>1, SamplerSizes DEF Spread
    <3> QED BY <3>2 DEF Empty
  <2>5. BatchSum(lens, B[r]) = F[n].fill[r]
    BY <1>4, <2>1, <2>2 DEF Filled
  <2>6. B[r] # <<>>
    BY <2>4, <2>5, BatchSumEmpty
  <2>7. \A k \in 1..Len(B[r]) : \E j \in 1..n : B[r][k] = start + j
    <3>1. PICK b : b = B[r] /\ b = F[n].batch
      BY <1>4, <2>1
    <3>2. \A k \in 1..Len(b) : \E j \in 1..n : b[k] = start + j
      BY <1>1, <2>2, <3>1 DEF Filled
    <3> QED BY <3>1, <3>2
  <2>8. \A k \in 1..Len(B[r]) : B[r][k] \in (start + 1)..(start + n)
    BY <2>7
  <2>9. \A m \in 1..n :
          LeastFull(H[r][m - 1].fill) = r =>
            \E k \in 1..Len(B[r]) : B[r][k] = start + Descending(l)[m]
    <3>1. PICK b : b = B[r] /\ b = F[n].batch
      BY <1>4, <2>1
    <3>2. \A m \in 1..n :
            LeastFull(F[m - 1].fill) = r => \E k \in 1..Len(b) : b[k] = start + Descending(l)[m]
      BY <2>2, <3>1 DEF Filled
    <3> QED BY <2>1, <3>1, <3>2
  <2> QED BY <2>3, <2>5, <2>6, <2>8, <2>9
<1>7. ASSUME NEW i \in (start + 1)..(start + n)
      PROVE  \E r \in Ranks : \E k \in 1..Len(B[r]) : B[r][k] = i
  <2>1. i - start \in 1..n /\ start + (i - start) = i
    OBVIOUS
  <2>2. l \in Seq(Nat)
    BY DEF Places
  <2>3. PICK m \in 1..n : Descending(l)[m] = i - start
    BY <1>1, <2>1, <2>2, DescendingPermutes
  <2>4. m \in 1..Len(l) /\ m - 1 \in 0..Len(l)
    BY <1>1
  <2>5. PICK r \in Ranks : r = LeastFull(H[q][m - 1].fill)
    <3>1. PICK F : F = H[q] /\ Packing(l, start, q, F)
      BY <1>2
    <3>2. LeastFull(F[m - 1].fill) \in Ranks
      BY <2>4, <3>1, PackingStep
    <3> QED BY <3>1, <3>2
  <2>6. H[r][m - 1].fill = H[q][m - 1].fill
    <3>1. PICK F : F = H[q] /\ Packing(l, start, q, F)
      BY <1>2
    <3>2. PICK G : G = H[r] /\ Packing(l, start, r, G)
      BY <1>2
    <3>3. \A k \in 0..Len(l) : F[k].fill = G[k].fill /\ F[k].fits = G[k].fits
      BY <3>1, <3>2, PackingsAgree
    <3> QED BY <2>4, <3>1, <3>2, <3>3
  <2>7. LeastFull(H[r][m - 1].fill) = r
    BY <2>5, <2>6
  <2>8. \E k \in 1..Len(B[r]) : B[r][k] = start + Descending(l)[m]
    BY <1>6, <2>7
  <2> QED BY <2>1, <2>3, <2>8
<1>8. SumFunctionOnSet([r \in Ranks |-> Len(B[r])], Ranks) = n
  <2>1. SumFunctionOnSet([r \in Ranks |-> Len(H[r][n].batch)], Ranks) = n
    BY <1>2, <1>5, PackingCounts
  <2>2. [r \in Ranks |-> Len(B[r])] = [r \in Ranks |-> Len(H[r][n].batch)]
    BY <1>4
  <2> QED BY <2>1, <2>2
<1>9. (start + n) - start = n
  OBVIOUS
<1>10. Dealt(lens, start, start + n, B)
  BY <1>4, <1>6, <1>7, <1>8, <1>9 DEF Dealt
<1> QED BY <1>1, <1>3, <1>10

\* As many lengths as there are ranks fit, and fewer do.
LEMMA FewFit ==
  ASSUME NEW l \in Seq(1..MaxLen), NEW start \in Nat, NEW rank \in Ranks, Len(l) <= Replicas
  PROVE  PackedBatch(l, start, rank) # NoBatch
<1>1. l \in Seq(Places) /\ \A j \in 1..Len(l) : l[j] <= MaxLen
  BY SamplerSizes DEF Places
<1>2. PICK F : Packing(l, start, rank, F)
  BY <1>1, PackingExists
<1>3. Len(l) \in 0..Len(l)
  OBVIOUS
<1>4. Spread(l, F, Len(l))
  BY <1>1, <1>2, <1>3, PackingSpreads
<1>5. F[Len(l)].fits
  BY <1>1, <1>4 DEF Spread
<1> QED BY <1>1, <1>2, <1>5, PackedOrNone

-----------------------------------------------------------------------------
(* The binary search.                                                      *)

\* The sum of n numbers of at most c.
LEMMA SumBounded ==
  ASSUME NEW f, NEW c \in Nat, NEW n \in Nat, \A i \in 1..n : f[i] \in Nat /\ f[i] <= c
  PROVE  SumFunctionOnSet(f, 1..n) <= n * c
<1> DEFINE Bad == {k \in 0..n : ~(SumFunctionOnSet(f, 1..k) <= k * c)}
<1>1. SUFFICES ASSUME Bad # {} PROVE FALSE
  OBVIOUS
<1>2. Bad \subseteq Nat
  OBVIOUS
<1> HIDE DEF Bad
<1>3. PICK k \in Bad : \A i \in Bad : k <= i
  BY <1>1, <1>2, LeastNat
<1>4. k \in 0..n /\ ~(SumFunctionOnSet(f, 1..k) <= k * c)
  BY <1>3 DEF Bad
<1>5. k # 0
  <2>1. 1..0 = {} /\ SumFunctionOnSet(f, {}) = 0
    BY SumEmpty
  <2>2. SumFunctionOnSet(f, 1..0) <= 0 * c
    BY <2>1
  <2> QED BY <2>2, <1>4
<1>6. PICK m \in Nat \ {0} : m = k /\ m - 1 \in 0..n /\ m - 1 \notin Bad
  BY <1>3, <1>4, <1>5
<1>7. /\ SumFunctionOnSet(f, 1..m) = f[m] + SumFunctionOnSet(f, 1..(m - 1))
      /\ SumFunctionOnSet(f, 1..(m - 1)) \in Nat
  <2>1. \A i \in 1..m : f[i] \in Nat
    BY <1>4, <1>6
  <2> QED BY <2>1, SumUpTo
<1>8. SumFunctionOnSet(f, 1..(m - 1)) <= (m - 1) * c
  BY <1>6 DEF Bad
<1>9. f[m] \in Nat /\ f[m] <= c
  BY <1>4, <1>6
<1>10. (m - 1) * c + c = m * c /\ (m - 1) * c \in Nat
  BY <1>6
<1>11. SumFunctionOnSet(f, 1..m) <= m * c
  BY <1>7, <1>8, <1>9, <1>10
<1> QED BY <1>4, <1>6, <1>11

\* The library's fold, as a sum.
LEMMA TotalIs ==
  ASSUME NEW l
  PROVE  Total(l) = SumFunctionOnSet(l, DOMAIN l)
BY DEF Total, FoldSeq, FoldFunction, SumFunctionOnSet

\* Fewer lengths than ranks never exceed what all batches hold.
LEMMA FewAreShort ==
  ASSUME NEW l \in Seq(1..MaxLen), Len(l) <= Replicas
  PROVE  Total(l) <= Replicas * MaxLen
<1>1. PICK n \in Nat : n = Len(l) /\ DOMAIN l = 1..n
  OBVIOUS
<1>2. Replicas \in Nat /\ MaxLen \in Nat
  BY SamplerSizes
<1>3. \A i \in 1..n : l[i] \in Nat /\ l[i] <= MaxLen
  BY <1>1, <1>2
<1>4. SumFunctionOnSet(l, 1..n) <= n * MaxLen
  BY <1>2, <1>3, SumBounded
<1>5. n * MaxLen <= Replicas * MaxLen
  <2>1. PICK d \in Nat : Replicas = n + d
    <3>1. Replicas - n \in Nat /\ Replicas = n + (Replicas - n)
      BY <1>1, <1>2
    <3> QED BY <3>1
  <2>2. Replicas * MaxLen = n * MaxLen + d * MaxLen /\ d * MaxLen \in Nat /\ n * MaxLen \in Nat
    BY <1>2, <2>1
  <2> QED BY <2>2
<1>6. SumFunctionOnSet(l, 1..n) \in Nat
  <2>1. IsFiniteSet(1..n)
    BY FS_Interval
  <2> QED BY <1>3, <2>1, SumNat
<1>7. n * MaxLen \in Nat /\ Replicas * MaxLen \in Nat
  BY <1>2
<1>8. Total(l) = SumFunctionOnSet(l, 1..n)
  BY <1>1, TotalIs
<1> QED BY <1>4, <1>5, <1>6, <1>7, <1>8

\* How many samples after ind are considered.
Stretch(lens, ind, n) == SubSeq(lens, ind + 1, ind + n)
Considered(lens, ind) ==
  {k \in ind + 1..Len(lens) :
     Total(SubSeq(lens, ind + 1, k)) <= Replicas * MaxLen}

LEMMA StretchType ==
  ASSUME NEW T \in Seq(1..MaxLen), NEW ind \in Nat, NEW n \in Nat, ind + n <= Len(T)
  PROVE  /\ Stretch(T, ind, n) \in Seq(1..MaxLen) /\ Stretch(T, ind, n) \in Seq(Places)
         /\ Len(Stretch(T, ind, n)) = n
         /\ \A j \in 1..n : Stretch(T, ind, n)[j] = T[ind + j]
<1>1. \A i \in (ind + 1)..(ind + n) : T[i] \in 1..MaxLen
  <2>1. \A i \in 1..Len(T) : T[i] \in 1..MaxLen
    BY ElementOfSeq, Zenon
  <2>2. \A i \in (ind + 1)..(ind + n) : i \in 1..Len(T)
    OBVIOUS
  <2> QED BY <2>1, <2>2
<1>2. PICK l : l = Stretch(T, ind, n)
  OBVIOUS
<1>3. l \in Seq(1..MaxLen) /\ Len(l) = n /\ \A j \in 1..n : l[j] = T[ind + j]
  <2>1. l = [j \in 1..n |-> T[ind + j]]
    BY <1>2 DEF Stretch
  <2> QED BY <1>1, <2>1
<1>4. l \in Seq(Places)
  <2>1. \A i \in 1..Len(l) : l[i] \in 1..MaxLen
    BY <1>3, ElementOfSeq, Zenon
  <2>2. \A i \in 1..Len(l) : l[i] \in Places
    BY <2>1, SamplerSizes DEF Places
  <2> QED BY <1>3, <2>2
<1> QED BY <1>2, <1>3, <1>4

LEMMA ConsideredMany ==
  ASSUME NEW T \in Seq(1..MaxLen), NEW ind \in Nat, ind + Replicas <= Len(T)
  PROVE  Cardinality(Considered(T, ind)) \in Replicas..(Len(T) - ind)
<1>1. PICK N \in Nat : N = Len(T)
  OBVIOUS
<1>2. Replicas \in Nat /\ Replicas > 0
  BY SamplerSizes
<1>3. ASSUME NEW k \in (ind + 1)..(ind + Replicas)
      PROVE  k \in Considered(T, ind)
  <2>1. PICK n \in Nat : n = k - ind /\ ind + n = k /\ n <= Replicas
    <3>1. k - ind \in Nat /\ ind + (k - ind) = k /\ k - ind <= Replicas
      BY <1>2
    <3> QED BY <3>1
  <2>2. /\ Stretch(T, ind, n) \in Seq(1..MaxLen)
        /\ Len(Stretch(T, ind, n)) = n
    <3>1. ind + n <= Len(T)
      BY <1>1, <1>2, <2>1
    <3> QED BY <3>1, StretchType
  <2>3. Total(Stretch(T, ind, n)) <= Replicas * MaxLen
    BY <2>1, <2>2, FewAreShort
  <2>4. k \in ind + 1..Len(T)
    BY <1>2
  <2> QED BY <2>1, <2>3, <2>4 DEF Considered, Stretch
<1>4. /\ IsFiniteSet((ind + 1)..(ind + Replicas))
      /\ Cardinality((ind + 1)..(ind + Replicas)) = Replicas
  <2>1. PICK a \in Int, b \in Int : a = ind + 1 /\ b = ind + Replicas
    BY <1>2
  <2>2. IsFiniteSet(a..b) /\ Cardinality(a..b) = IF a > b THEN 0 ELSE b - a + 1
    BY FS_Interval
  <2> QED BY <1>2, <2>1, <2>2
<1>5. IsFiniteSet((ind + 1)..N) /\ Cardinality((ind + 1)..N) = N - ind
  <2>1. PICK a \in Int : a = ind + 1 /\ ~(a > N)
    BY <1>1, <1>2
  <2>2. IsFiniteSet(a..N) /\ Cardinality(a..N) = IF a > N THEN 0 ELSE N - a + 1
    BY FS_Interval
  <2> QED BY <2>1, <2>2
<1>6. Considered(T, ind) \subseteq (ind + 1)..N
  BY <1>1 DEF Considered
<1>7. (ind + 1)..(ind + Replicas) \subseteq Considered(T, ind)
  BY <1>3
<1>8. PICK S : S = Considered(T, ind)
  OBVIOUS
<1>9. IsFiniteSet(S) /\ Cardinality(S) <= N - ind
  BY <1>5, <1>6, <1>8, FS_Subset
<1>10. Replicas <= Cardinality(S)
  BY <1>4, <1>7, <1>8, <1>9, FS_Subset
<1>11. Cardinality(S) \in Nat
  BY <1>9, FS_CardinalityType
<1> QED BY <1>1, <1>2, <1>8, <1>9, <1>10, <1>11

Fits(lens, ind, rank, n) == PackedBatch(Stretch(lens, ind, n), ind, rank) # NoBatch

Middle(left, right) == (left + right) \div 2
Stops(left, right)  == ~(right - left > 1 /\ right > Replicas)
Narrowed(lens, ind, rank, left, right) ==
  IF Fits(lens, ind, rank, Middle(left, right)) THEN <<Middle(left, right), right>>
                                                   ELSE <<left, Middle(left, right)>>

IsSearch(lens, ind, rank, g) ==
  g = [bounds \in Nat \X Nat |->
         IF Stops(bounds[1], bounds[2]) THEN bounds[1]
         ELSE g[Narrowed(lens, ind, rank, bounds[1], bounds[2])]]

\* The search, unfolded.
LEMMA SearchUnfolded ==
  ASSUME NEW lens, NEW ind, NEW rank
  PROVE  PackedNext(lens, ind, rank) =
           (CHOOSE g : IsSearch(lens, ind, rank, g))
             [<<1, Cardinality(Considered(lens, ind)) + 1>>]
BY DEF PackedNext, Considered, IsSearch, Stops, Narrowed, Fits, Stretch, Middle

Searches(lens, ind, rank, g) ==
  \A left, right \in Nat :
    /\ Stops(left, right) => g[<<left, right>>] = left
    /\ ~Stops(left, right) =>
         g[<<left, right>>] = g[Narrowed(lens, ind, rank, left, right)]

LEMMA MiddleIsBetween ==
  ASSUME NEW left \in Nat, NEW right \in Nat, right - left > 1
  PROVE  Middle(left, right) \in Nat /\ left < Middle(left, right) /\ Middle(left, right) < right
BY DEF Middle

LEMMA SearchExists ==
  ASSUME NEW lens, NEW ind, NEW rank
  PROVE  \E g : PackedNext(lens, ind, rank)
                  = g[<<1, Cardinality(Considered(lens, ind)) + 1>>]
                /\ Searches(lens, ind, rank, g)
<1> DEFINE D == Nat \X Nat
           stop == [x \in D |-> Stops(x[1], x[2])]
           mu == [x \in D |-> IF x[1] < x[2] THEN x[2] - x[1] ELSE 0]
           base == [x \in D |-> x[1]]
           next == [x \in D |-> IF Stops(x[1], x[2]) THEN x
                                ELSE Narrowed(lens, ind, rank, x[1], x[2])]
           combine == [x \in D |-> [v \in Nat |-> v]]
<1>1. ASSUME NEW x \in D, ~Stops(x[1], x[2])
      PROVE  next[x] \in D /\ mu[next[x]] < mu[x]
  <2>1. PICK left \in Nat, right \in Nat : x = <<left, right>> /\ x[1] = left /\ x[2] = right
    OBVIOUS
  <2>2. right - left > 1 /\ ~Stops(left, right)
    BY <1>1, <2>1 DEF Stops
  <2>3. PICK mid \in Nat : mid = Middle(left, right) /\ left < mid /\ mid < right
    BY <2>2, MiddleIsBetween
  <2>4. next[x] = IF Fits(lens, ind, rank, mid) THEN <<mid, right>> ELSE <<left, mid>>
    BY <2>1, <2>2, <2>3 DEF Narrowed
  <2>5. mu[x] = right - left
    BY <2>1, <2>2
  <2>6. mu[<<mid, right>>] = right - mid /\ mu[<<left, mid>>] = mid - left
    BY <2>3
  <2>7. <<mid, right>> \in D /\ <<left, mid>> \in D
    OBVIOUS
  <2> HIDE DEF mu, next
  <2> QED BY <2>3, <2>4, <2>5, <2>6, <2>7
<1>2. WellFounded(D, Nat, mu, stop, base, next, combine)
  <2>1. mu \in [D -> Nat]
    <3>1. ASSUME NEW x \in D PROVE (IF x[1] < x[2] THEN x[2] - x[1] ELSE 0) \in Nat
      OBVIOUS
    <3> QED BY <3>1
  <2>2. stop \in [D -> BOOLEAN]
    BY DEF Stops
  <2>3. base \in [D -> Nat]
    OBVIOUS
  <2>4. next \in [D -> D]
    <3>1. ASSUME NEW x \in D PROVE next[x] \in D
      <4>1. CASE Stops(x[1], x[2])
        BY <4>1
      <4>2. CASE ~Stops(x[1], x[2])
        BY <4>2, <1>1
      <4> QED BY <4>1, <4>2
    <3> QED BY <3>1
  <2>5. combine \in [D -> [Nat -> Nat]]
    OBVIOUS
  <2>6. \A x \in D : ~stop[x] => mu[next[x]] < mu[x]
    <3>1. TAKE x \in D
    <3>2. stop[x] = Stops(x[1], x[2])
      OBVIOUS
    <3> HIDE DEF stop, mu, next
    <3> QED BY <1>1, <3>2
  <2> HIDE DEF D, stop, mu, base, next, combine
  <2> QED BY <2>1, <2>2, <2>3, <2>4, <2>5, <2>6 DEF WellFounded
<1>3. PICK f : Solution(D, Nat, stop, base, next, combine, f)
  <2> HIDE DEF D, stop, mu, base, next, combine
  <2> QED BY <1>2, Recursion
<1>4. IsSearch(lens, ind, rank, f)
  <2>1. f \in [D -> Nat]
    BY <1>3 DEF Solution
  <2>2. ASSUME NEW x \in D
        PROVE  f[x] = IF Stops(x[1], x[2]) THEN x[1]
                      ELSE f[Narrowed(lens, ind, rank, x[1], x[2])]
    <3>1. f[x] = IF stop[x] THEN base[x] ELSE combine[x][f[next[x]]]
      <4> HIDE DEF D, stop, base, next, combine
      <4> QED BY <1>3 DEF Solution, RecursionStep
    <3>2. CASE Stops(x[1], x[2])
      BY <3>1, <3>2
    <3>3. CASE ~Stops(x[1], x[2])
      <4>1. next[x] \in D /\ next[x] = Narrowed(lens, ind, rank, x[1], x[2])
        BY <1>1, <3>3
      <4>2. f[next[x]] \in Nat
        <5> HIDE DEF D, next
        <5> QED BY <2>1, <4>1
      <4>3. combine[x][f[next[x]]] = f[next[x]]
        <5>1. \A v \in Nat : combine[x][v] = v
          OBVIOUS
        <5> HIDE DEF combine, next
        <5> QED BY <5>1, <4>2
      <4>4. ~stop[x]
        BY <3>3
      <4> HIDE DEF stop, combine, next
      <4> QED BY <3>1, <3>3, <4>1, <4>3, <4>4
    <3> QED BY <3>2, <3>3
  <2>3. f = [x \in D |-> f[x]]
    BY <2>1
  <2> HIDE DEF stop, mu, base, next, combine
  <2> QED BY <2>2, <2>3 DEF IsSearch
<1>5. PICK g : /\ g = (CHOOSE h : IsSearch(lens, ind, rank, h))
               /\ IsSearch(lens, ind, rank, g)
  BY <1>4
<1>6. Searches(lens, ind, rank, g)
  <2>1. ASSUME NEW left \in Nat, NEW right \in Nat
        PROVE  g[<<left, right>>] = IF Stops(left, right) THEN left
                                    ELSE g[Narrowed(lens, ind, rank, left, right)]
    BY <1>5 DEF IsSearch
  <2> QED BY <2>1 DEF Searches
<1>7. PackedNext(lens, ind, rank)
        = g[<<1, Cardinality(Considered(lens, ind)) + 1>>]
  BY <1>5, SearchUnfolded
<1> QED BY <1>6, <1>7

\* Where the search is: left fits, more than the ranks lie below right.
Bracket(T, ind, left, right) ==
  /\ 1 <= left /\ left < right /\ Replicas < right /\ right <= (Len(T) - ind) + 1
  /\ Fits(T, ind, 0, left)

LEMMA FitsAlike ==
  ASSUME NEW T \in Seq(1..MaxLen), NEW ind \in Nat, NEW n \in Nat, ind + n <= Len(T),
         NEW r \in Ranks, NEW s \in Ranks
  PROVE  Fits(T, ind, r, n) <=> Fits(T, ind, s, n)
<1>1. PICK l \in Seq(Places) : l = Stretch(T, ind, n)
  BY StretchType
<1>2. PackedBatch(l, ind, r) # NoBatch <=> PackedBatch(l, ind, s) # NoBatch
  BY FitsForAll
<1> QED BY <1>1, <1>2 DEF Fits

LEMMA FewOfThemFit ==
  ASSUME NEW T \in Seq(1..MaxLen), NEW ind \in Nat, NEW n \in Nat, ind + n <= Len(T),
         NEW r \in Ranks, n <= Replicas
  PROVE  Fits(T, ind, r, n)
<1>1. PICK l \in Seq(1..MaxLen) : l = Stretch(T, ind, n) /\ Len(l) = n
  BY StretchType
<1>2. PackedBatch(l, ind, r) # NoBatch
  BY <1>1, FewFit
<1> QED BY <1>1, <1>2 DEF Fits

\* All ranks find the same number, at least one sample for each of them.
LEMMA SearchFinds ==
  ASSUME NEW T \in Seq(1..MaxLen), NEW ind \in Nat, NEW r \in Ranks, NEW s \in Ranks,
         NEW g, NEW h, Searches(T, ind, r, g), Searches(T, ind, s, h)
  PROVE  \A left, right \in Nat :
           Bracket(T, ind, left, right) =>
             /\ g[<<left, right>>] = h[<<left, right>>]
             /\ g[<<left, right>>] \in Replicas..(Len(T) - ind)
             /\ Fits(T, ind, 0, g[<<left, right>>])
<1>1. PICK N \in Nat : N = Len(T)
  OBVIOUS
<1>2. Replicas \in Nat /\ 0 \in Ranks
  BY SamplerSizes DEF Ranks
<1> DEFINE Good(left, right) ==
             Bracket(T, ind, left, right) =>
               /\ g[<<left, right>>] = h[<<left, right>>]
               /\ g[<<left, right>>] \in Replicas..(N - ind)
               /\ Fits(T, ind, 0, g[<<left, right>>])
           Bad == {d \in Nat : \E left, right \in Nat : right - left = d /\ ~Good(left, right)}
<1>3. SUFFICES ASSUME Bad # {} PROVE FALSE
  <2>1. SUFFICES ASSUME NEW left \in Nat, NEW right \in Nat, ~Good(left, right) PROVE FALSE
    BY <1>1
  <2>2. right - left \in Nat
    <3>1. Bracket(T, ind, left, right)
      BY <2>1
    <3>2. left < right
      BY <3>1 DEF Bracket
    <3> QED BY <3>2
  <2>3. right - left \in Bad
    BY <2>1, <2>2
  <2> QED BY <2>3, <1>3
<1>4. Bad \subseteq Nat
  OBVIOUS
<1> HIDE DEF Bad, Good
<1>5. PICK d \in Bad : \A e \in Bad : d <= e
  BY <1>3, <1>4, LeastNat
<1>6. PICK left \in Nat, right \in Nat : right - left = d /\ ~Good(left, right)
  BY <1>5 DEF Bad
<1>7. /\ 1 <= left /\ left < right /\ Replicas < right /\ right <= (N - ind) + 1
      /\ Fits(T, ind, 0, left)
  BY <1>1, <1>6 DEF Good, Bracket
<1>8. CASE Stops(left, right)
  <2>1. g[<<left, right>>] = left /\ h[<<left, right>>] = left
    BY <1>8 DEF Searches
  <2>2. left \in Replicas..(N - ind)
    BY <1>2, <1>7, <1>8 DEF Stops
  <2>3. Good(left, right)
    BY <1>7, <2>1, <2>2 DEF Good
  <2> QED BY <2>3, <1>6
<1>9. CASE ~Stops(left, right)
  <2>1. right - left > 1
    BY <1>9 DEF Stops
  <2>2. PICK mid \in Nat : mid = Middle(left, right) /\ left < mid /\ mid < right
    BY <2>1, MiddleIsBetween
  <2>3. ind + mid <= N /\ ind + mid <= Len(T)
    BY <1>1, <1>7, <2>2
  <2>4. /\ Fits(T, ind, r, mid) <=> Fits(T, ind, 0, mid)
        /\ Fits(T, ind, s, mid) <=> Fits(T, ind, 0, mid)
    BY <1>2, <2>3, FitsAlike
  <2>5. CASE Fits(T, ind, 0, mid)
    <3>1. g[<<left, right>>] = g[<<mid, right>>] /\ h[<<left, right>>] = h[<<mid, right>>]
      BY <1>9, <2>2, <2>4, <2>5 DEF Searches, Narrowed
    <3>2. Bracket(T, ind, mid, right)
      BY <1>1, <1>7, <2>2, <2>5 DEF Bracket
    <3>3. right - mid \in Nat /\ right - mid < d
      BY <1>6, <2>2
    <3>4. right - mid \notin Bad
      BY <1>4, <1>5, <3>3
    <3>5. Good(mid, right)
      BY <3>3, <3>4 DEF Bad
    <3>6. Good(left, right)
      BY <3>1, <3>2, <3>5 DEF Good
    <3> QED BY <3>6, <1>6
  <2>6. CASE ~Fits(T, ind, 0, mid)
    <3>1. g[<<left, right>>] = g[<<left, mid>>] /\ h[<<left, right>>] = h[<<left, mid>>]
      BY <1>9, <2>2, <2>4, <2>6 DEF Searches, Narrowed
    <3>2. Replicas < mid
      BY <1>2, <2>3, <2>6, FewOfThemFit
    <3>3. Bracket(T, ind, left, mid)
      BY <1>1, <1>7, <2>2, <3>2 DEF Bracket
    <3>4. mid - left \in Nat /\ mid - left < d
      BY <1>6, <2>2
    <3>5. mid - left \notin Bad
      BY <1>4, <1>5, <3>4
    <3>6. Good(left, mid)
      BY <3>4, <3>5 DEF Bad
    <3>7. Good(left, right)
      BY <3>1, <3>3, <3>6 DEF Good
    <3> QED BY <3>7, <1>6
  <2> QED BY <2>5, <2>6
<1> QED BY <1>8, <1>9

\* How many samples come next: the same for all ranks, enough of them, and
\* they fit.
LEMMA NextForAll ==
  ASSUME NEW T \in Seq(1..MaxLen), NEW ind \in Nat, ind + Replicas <= Len(T)
  PROVE  \E n \in Replicas..(Len(T) - ind) :
           /\ \A r \in Ranks : PackedNext(T, ind, r) = n
           /\ Fits(T, ind, 0, n)
<1>1. PICK c \in Replicas..(Len(T) - ind) : c = Cardinality(Considered(T, ind))
  BY ConsideredMany
<1>2. Replicas \in Nat /\ Replicas > 0 /\ 0 \in Ranks
  BY SamplerSizes DEF Ranks
<1>3. c \in Nat /\ c + 1 \in Nat /\ 1 \in Nat
  BY <1>2
<1>4. Bracket(T, ind, 1, c + 1)
  <2>1. ind + 1 <= Len(T) /\ 1 <= Replicas
    BY <1>2
  <2>2. Fits(T, ind, 0, 1)
    BY <1>2, <2>1, FewOfThemFit
  <2> QED BY <1>2, <2>2 DEF Bracket
<1>5. ASSUME NEW r \in Ranks
      PROVE  /\ PackedNext(T, ind, r) = PackedNext(T, ind, 0)
             /\ PackedNext(T, ind, r) \in Replicas..(Len(T) - ind)
             /\ Fits(T, ind, 0, PackedNext(T, ind, r))
  <2>1. PICK g : PackedNext(T, ind, r) = g[<<1, c + 1>>] /\ Searches(T, ind, r, g)
    BY <1>1, SearchExists
  <2>2. PICK h : PackedNext(T, ind, 0) = h[<<1, c + 1>>] /\ Searches(T, ind, 0, h)
    BY <1>1, SearchExists
  <2>3. /\ g[<<1, c + 1>>] = h[<<1, c + 1>>]
        /\ g[<<1, c + 1>>] \in Replicas..(Len(T) - ind)
        /\ Fits(T, ind, 0, g[<<1, c + 1>>])
    BY <1>2, <1>3, <1>4, <2>1, <2>2, SearchFinds
  <2> QED BY <2>1, <2>2, <2>3
<1> QED BY <1>2, <1>5

-----------------------------------------------------------------------------
(* The batches of an epoch.                                                *)

LEMMA OneMore ==
  ASSUME NEW T \in Seq(1..MaxLen), NEW ind \in Nat, ind + Replicas <= Len(T)
  PROVE  \E n \in Replicas..(Len(T) - ind) :
           LET B == [r \in Ranks |-> PackedBatch(Stretch(T, ind, n), ind, r)]
           IN  /\ \A r \in Ranks : PackedNext(T, ind, r) = n
               /\ Dealt(T, ind, ind + n, B)
<1>1. PICK n \in Replicas..(Len(T) - ind) : /\ \A r \in Ranks : PackedNext(T, ind, r) = n
                                            /\ Fits(T, ind, 0, n)
  BY NextForAll
<1>2. Replicas \in Nat /\ Replicas > 0 /\ 0 \in Ranks
  BY SamplerSizes DEF Ranks
<1>3. n \in Nat /\ ind + n <= Len(T) /\ Replicas <= n
  BY <1>2
<1>4. PICK l \in Seq(Places) : /\ l = Stretch(T, ind, n) /\ Len(l) = n
                               /\ \A j \in 1..n : l[j] = T[ind + j]
  BY <1>3, StretchType
<1>5. PackedBatch(l, ind, 0) # NoBatch
  BY <1>1, <1>4 DEF Fits
<1>6. Dealt(T, ind, ind + Len(l), [r \in Ranks |-> PackedBatch(l, ind, r)])
  <2>1. Replicas <= Len(l) /\ \A j \in 1..Len(l) : T[ind + j] = l[j]
    BY <1>3, <1>4
  <2> QED BY <1>2, <1>5, <2>1, PackedTogether
<1> QED BY <1>1, <1>4, <1>6

SampleLists == Seq(Places)

IsAssign(T, rank, g) ==
  g = [ind \in Nat |->
         IF Len(T) - ind < Replicas THEN <<>>
         ELSE <<PackedBatch(Stretch(T, ind, PackedNext(T, ind, rank)), ind, rank)>>
              \o g[ind + PackedNext(T, ind, rank)]]

LEMMA AssignUnfolded ==
  ASSUME NEW all, NEW rank
  PROVE  AssignToPackedBatches(all, rank) = (CHOOSE g : IsAssign(Truncated(all), rank, g))[0]
BY DEF AssignToPackedBatches, IsAssign, Stretch

Assigns(T, rank, g) ==
  \A ind \in Nat :
    /\ g[ind] \in Seq(SampleLists)
    /\ Len(T) - ind < Replicas => g[ind] = <<>>
    /\ ind + Replicas <= Len(T) =>
         g[ind] = <<PackedBatch(Stretch(T, ind, PackedNext(T, ind, rank)), ind, rank)>>
                  \o g[ind + PackedNext(T, ind, rank)]

LEMMA AssignExists ==
  ASSUME NEW all \in Seq(Nat \ {0}), NEW rank \in Ranks
  PROVE  \E g : AssignToPackedBatches(all, rank) = g[0] /\ Assigns(Truncated(all), rank, g)
<1>1. PICK T \in Seq(1..MaxLen) : T = Truncated(all)
  BY TruncatedType
<1>2. PICK N \in Nat : N = Len(T)
  OBVIOUS
<1>3. Replicas \in Nat /\ Replicas > 0
  BY SamplerSizes
<1> DEFINE V == Seq(SampleLists)
           last(ind) == N - ind < Replicas
           count(ind) == PackedNext(T, ind, rank)
           batch(ind) == PackedBatch(Stretch(T, ind, count(ind)), ind, rank)
           stop == [ind \in Nat |-> last(ind)]
           mu == [ind \in Nat |-> IF ind <= N THEN N - ind ELSE 0]
           base == [ind \in Nat |-> <<>>]
           next == [ind \in Nat |-> IF last(ind) THEN ind ELSE ind + count(ind)]
           combine == [ind \in Nat |-> [v \in V |-> IF last(ind) THEN v ELSE <<batch(ind)>> \o v]]
<1>4. ASSUME NEW ind \in Nat, ~last(ind)
      PROVE  /\ count(ind) \in Replicas..(N - ind) /\ batch(ind) \in SampleLists
             /\ ind + count(ind) \in Nat
  <2>1. ind + Replicas <= Len(T)
    BY <1>2, <1>3, <1>4
  <2>2. PICK n \in Replicas..(N - ind) :
          LET B == [r \in Ranks |-> PackedBatch(Stretch(T, ind, n), ind, r)]
          IN  /\ \A r \in Ranks : PackedNext(T, ind, r) = n
              /\ Dealt(T, ind, ind + n, B)
    BY <1>2, <2>1, OneMore
  <2>3. count(ind) = n /\ batch(ind) = PackedBatch(Stretch(T, ind, n), ind, rank)
    BY <2>2
  <2>4. PackedBatch(Stretch(T, ind, n), ind, rank) \in Seq(Places)
    BY <2>2 DEF Dealt
  <2>5. ind + n \in Nat
    BY <1>3
  <2> HIDE DEF count, batch
  <2> QED BY <2>3, <2>4, <2>5 DEF SampleLists
<1>5. WellFounded(Nat, V, mu, stop, base, next, combine)
  <2>1. mu \in [Nat -> Nat]
    OBVIOUS
  <2>2. stop \in [Nat -> BOOLEAN]
    OBVIOUS
  <2>3. base \in [Nat -> V]
    OBVIOUS
  <2>4. next \in [Nat -> Nat]
    <3> HIDE DEF count, last
    <3> QED BY <1>4
  <2>5. combine \in [Nat -> [V -> V]]
    <3>1. ASSUME NEW ind \in Nat, NEW v \in V
          PROVE  (IF last(ind) THEN v ELSE <<batch(ind)>> \o v) \in V
      <4>1. CASE last(ind)
        BY <4>1
      <4>2. CASE ~last(ind)
        <5>1. PICK b \in SampleLists : b = batch(ind)
          BY <1>4, <4>2
        <5>2. <<b>> \in Seq(SampleLists)
          OBVIOUS
        <5>3. <<b>> \o v \in Seq(SampleLists)
          BY <5>2, ConcatProperties
        <5> HIDE DEF last, batch
        <5> QED BY <4>2, <5>1, <5>3
      <4> QED BY <4>1, <4>2
    <3> HIDE DEF V, last, batch
    <3> QED BY <3>1
  <2>6. \A ind \in Nat : ~stop[ind] => mu[next[ind]] < mu[ind]
    <3>1. SUFFICES ASSUME NEW ind \in Nat, ~last(ind) PROVE mu[next[ind]] < mu[ind]
      OBVIOUS
    <3>2. PICK n \in Replicas..(N - ind) : n = count(ind)
      BY <1>4, <3>1
    <3>3. next[ind] = ind + n
      BY <3>1, <3>2
    <3>4. ind + n \in Nat /\ ind + n <= N /\ ind <= N /\ n > 0
      BY <1>2, <1>3
    <3>5. mu[ind + n] = N - (ind + n) /\ mu[ind] = N - ind
      BY <3>4
    <3> HIDE DEF mu, next
    <3> QED BY <3>3, <3>4, <3>5
  <2> HIDE DEF V, stop, mu, base, next, combine
  <2> QED BY <2>1, <2>2, <2>3, <2>4, <2>5, <2>6 DEF WellFounded
<1>6. PICK f : Solution(Nat, V, stop, base, next, combine, f)
  <2> HIDE DEF V, stop, mu, base, next, combine
  <2> QED BY <1>5, Recursion
<1>7. f \in [Nat -> V]
  BY <1>6 DEF Solution
<1>8. ASSUME NEW ind \in Nat
      PROVE  f[ind] = IF last(ind) THEN <<>> ELSE <<batch(ind)>> \o f[ind + count(ind)]
  <2>1. f[ind] = IF stop[ind] THEN base[ind] ELSE combine[ind][f[next[ind]]]
    <3> HIDE DEF V, stop, base, next, combine
    <3> QED BY <1>6 DEF Solution, RecursionStep
  <2>2. CASE last(ind)
    BY <2>1, <2>2
  <2>3. CASE ~last(ind)
    <3>1. PICK k \in Nat : k = ind + count(ind) /\ next[ind] = k
      <4>1. next[ind] = ind + count(ind)
        BY <2>3
      <4> HIDE DEF count, next
      <4> QED BY <1>4, <2>3, <4>1
    <3>2. PICK v \in V : v = f[k]
      BY <1>7
    <3>3. combine[ind][v] = <<batch(ind)>> \o v
      BY <2>3
    <3>4. ~stop[ind]
      BY <2>3
    <3> HIDE DEF stop, combine, next, last, batch, count
    <3> QED BY <2>1, <2>3, <3>1, <3>2, <3>3, <3>4
  <2> QED BY <2>2, <2>3
<1>9. IsAssign(T, rank, f)
  <2>1. f = [ind \in Nat |-> f[ind]]
    BY <1>7
  <2>2. ASSUME NEW ind \in Nat
        PROVE  f[ind] = IF Len(T) - ind < Replicas THEN <<>>
                        ELSE <<PackedBatch(Stretch(T, ind, PackedNext(T, ind, rank)), ind, rank)>>
                             \o f[ind + PackedNext(T, ind, rank)]
    BY <1>2, <1>8
  <2> HIDE DEF V, stop, mu, base, next, combine
  <2> QED BY <2>1, <2>2 DEF IsAssign
<1>10. PICK g : g = (CHOOSE h : IsAssign(T, rank, h)) /\ IsAssign(T, rank, g)
  BY <1>9
<1>11. ASSUME NEW ind \in Nat
       PROVE  g[ind] = IF last(ind) THEN <<>> ELSE <<batch(ind)>> \o g[ind + count(ind)]
  <2>1. g[ind] = IF Len(T) - ind < Replicas THEN <<>>
                 ELSE <<PackedBatch(Stretch(T, ind, PackedNext(T, ind, rank)), ind, rank)>>
                      \o g[ind + PackedNext(T, ind, rank)]
    <3> HIDE DEF V, stop, mu, base, next, combine, last, count, batch
    <3> QED BY <1>10 DEF IsAssign
  <2> QED BY <1>2, <2>1
<1>12. \A ind \in Nat : g[ind] \in V
  <2> DEFINE Bad == {d \in Nat : \E ind \in Nat : mu[ind] = d /\ g[ind] \notin V}
  <2>1. SUFFICES ASSUME Bad # {} PROVE FALSE
    <3>1. \A ind \in Nat : mu[ind] \in Nat
      OBVIOUS
    <3> HIDE DEF mu, V
    <3> QED BY <2>1, <3>1
  <2>2. Bad \subseteq Nat
    OBVIOUS
  <2> HIDE DEF Bad
  <2>3. PICK d \in Bad : \A e \in Bad : d <= e
    BY <2>1, <2>2, LeastNat
  <2>4. PICK ind \in Nat : mu[ind] = d /\ g[ind] \notin V
    BY <2>3 DEF Bad
  <2>5. ~last(ind)
    <3>1. <<>> \in V
      OBVIOUS
    <3> HIDE DEF V, last, batch, count
    <3> QED BY <1>11, <2>4, <3>1
  <2>6. PICK n \in Replicas..(N - ind) : n = count(ind)
    BY <1>4, <2>5
  <2>7. ind + n \in Nat /\ ind + n <= N /\ ind <= N /\ n > 0
    BY <1>2, <1>3
  <2>8. mu[ind + n] = N - (ind + n) /\ mu[ind] = N - ind
    BY <2>7
  <2>9. mu[ind + n] \in Nat /\ mu[ind + n] < d
    <3> HIDE DEF mu
    <3> QED BY <2>4, <2>7, <2>8
  <2>10. mu[ind + n] \notin Bad
    <3> HIDE DEF mu
    <3> QED BY <2>2, <2>3, <2>9
  <2>11. g[ind + n] \in V
    <3> HIDE DEF mu, V
    <3> QED BY <2>7, <2>9, <2>10 DEF Bad
  <2>12. PICK b \in SampleLists : b = batch(ind)
    BY <1>4, <2>5
  <2>13. PICK v \in Seq(SampleLists) : v = g[ind + n]
    BY <2>11
  <2>14. <<b>> \in Seq(SampleLists)
    OBVIOUS
  <2>15. <<b>> \o v \in Seq(SampleLists)
    BY <2>14, ConcatProperties
  <2>16. g[ind] = <<b>> \o v
    <3> HIDE DEF V, last, batch, count
    <3> QED BY <1>11, <2>5, <2>6, <2>12, <2>13
  <2> QED BY <2>4, <2>15, <2>16
<1>13. Assigns(T, rank, g)
  <2>1. ASSUME NEW ind \in Nat
        PROVE  /\ last(ind) <=> Len(T) - ind < Replicas
               /\ ind + Replicas <= Len(T) => ~last(ind)
    BY <1>2, <1>3
  <2>2. ASSUME NEW ind \in Nat
        PROVE  /\ Len(T) - ind < Replicas => g[ind] = <<>>
               /\ ind + Replicas <= Len(T) =>
                    g[ind] = <<PackedBatch(Stretch(T, ind, PackedNext(T, ind, rank)), ind, rank)>>
                             \o g[ind + PackedNext(T, ind, rank)]
    <3>1. g[ind] = IF last(ind) THEN <<>> ELSE <<batch(ind)>> \o g[ind + count(ind)]
      BY <1>11
    <3> HIDE DEF last
    <3> QED BY <2>1, <3>1
  <2> HIDE DEF last, count, batch, stop, mu, base, next, combine
  <2> QED BY <1>12, <2>2 DEF Assigns
<1>14. AssignToPackedBatches(all, rank) = g[0]
  BY <1>1, <1>10, AssignUnfolded
<1> QED BY <1>1, <1>13, <1>14

\* The samples of A are those after lo up to hi, each of them once.
Covered(lo, hi, A) ==
  /\ \A r \in Ranks : \A k \in 1..Len(A[r]) : A[r][k] \in (lo + 1)..hi
  /\ \A i \in (lo + 1)..hi : \E r \in Ranks : \E k \in 1..Len(A[r]) : A[r][k] = i
  /\ SumFunctionOnSet([r \in Ranks |-> Len(A[r])], Ranks) = hi - lo

Joins(A, B, C) ==
  \A r \in Ranks : A[r] \in SampleLists /\ B[r] \in SampleLists /\ C[r] = A[r] \o B[r]

LEMMA CoveredJoin ==
  ASSUME NEW lo \in Nat, NEW mid \in Nat, NEW hi \in Nat, lo <= mid, mid <= hi,
         NEW A, NEW B, NEW C, Covered(lo, mid, A), Covered(mid, hi, B), Joins(A, B, C)
  PROVE  Covered(lo, hi, C)
<1>1. ASSUME NEW r \in Ranks
      PROVE  \E m, n \in Nat :
               /\ m = Len(A[r]) /\ n = Len(B[r]) /\ Len(C[r]) = m + n
               /\ \A k \in 1..m : C[r][k] = A[r][k]
               /\ \A k \in 1..n : C[r][m + k] = B[r][k]
               /\ \A k \in 1..(m + n) : C[r][k] \in (lo + 1)..hi
  <2>1. PICK a \in Seq(Places) : a = A[r]
    BY DEF SampleLists, Joins
  <2>2. PICK b \in Seq(Places) : b = B[r]
    BY DEF SampleLists, Joins
  <2>3. PICK c \in Seq(Places) : c = a \o b
    BY ConcatProperties
  <2>4. PICK m \in Nat, n \in Nat : m = Len(a) /\ n = Len(b)
    OBVIOUS
  <2>5. /\ Len(c) = m + n
        /\ \A k \in 1..m : c[k] = a[k]
        /\ \A k \in 1..n : c[m + k] = b[k]
    BY <2>3, <2>4, ConcatProperties
  <2>6. /\ \A k \in 1..m : a[k] \in (lo + 1)..mid
        /\ \A k \in 1..n : b[k] \in (mid + 1)..hi
    BY <2>1, <2>2, <2>4 DEF Covered
  <2>7. ASSUME NEW k \in 1..(m + n) PROVE c[k] \in (lo + 1)..hi
    <3>1. CASE k <= m
      <4>1. k \in 1..m
        BY <3>1
      <4>2. c[k] \in (lo + 1)..mid
        BY <4>1, <2>5, <2>6
      <4> QED BY <4>2
    <3>2. CASE ~(k <= m)
      <4>1. k - m \in 1..n /\ m + (k - m) = k
        BY <3>2
      <4>2. c[k] \in (mid + 1)..hi
        BY <4>1, <2>5, <2>6
      <4> QED BY <4>2
    <3> QED BY <3>1, <3>2
  <2>8. C[r] = c
    BY <2>1, <2>2, <2>3 DEF Joins
  <2>9. /\ m = Len(A[r]) /\ n = Len(B[r]) /\ Len(C[r]) = m + n
        /\ \A k \in 1..m : C[r][k] = A[r][k]
        /\ \A k \in 1..n : C[r][m + k] = B[r][k]
        /\ \A k \in 1..(m + n) : C[r][k] \in (lo + 1)..hi
    BY <2>1, <2>2, <2>4, <2>5, <2>7, <2>8
  <2> QED BY <2>9
<1>2. \A r \in Ranks : \A k \in 1..Len(C[r]) : C[r][k] \in (lo + 1)..hi
  BY <1>1
<1>3. ASSUME NEW i \in (lo + 1)..hi
      PROVE  \E r \in Ranks : \E k \in 1..Len(C[r]) : C[r][k] = i
  <2>1. CASE i <= mid
    <3>1. i \in (lo + 1)..mid
      BY <2>1
    <3>2. PICK r \in Ranks : \E k \in 1..Len(A[r]) : A[r][k] = i
      BY <3>1 DEF Covered
    <3>3. PICK k \in 1..Len(A[r]) : A[r][k] = i
      BY <3>2
    <3>4. PICK m, n \in Nat :
            /\ m = Len(A[r]) /\ Len(C[r]) = m + n /\ \A j \in 1..m : C[r][j] = A[r][j]
      BY <1>1
    <3>5. k \in 1..m
      BY <3>4
    <3>6. k \in 1..(m + n) /\ C[r][k] = i
      BY <3>3, <3>4, <3>5
    <3> QED BY <3>4, <3>6
  <2>2. CASE ~(i <= mid)
    <3>1. i \in (mid + 1)..hi
      BY <2>2
    <3>2. PICK r \in Ranks : \E k \in 1..Len(B[r]) : B[r][k] = i
      BY <3>1 DEF Covered
    <3>3. PICK k \in 1..Len(B[r]) : B[r][k] = i
      BY <3>2
    <3>4. PICK m, n \in Nat :
            /\ n = Len(B[r]) /\ Len(C[r]) = m + n /\ \A j \in 1..n : C[r][m + j] = B[r][j]
      BY <1>1
    <3>5. k \in 1..n
      BY <3>4
    <3>6. m + k \in 1..(m + n)
      BY <3>5
    <3>7. C[r][m + k] = i
      BY <3>3, <3>4, <3>5
    <3> QED BY <3>4, <3>6, <3>7
  <2> QED BY <2>1, <2>2
<1>4. SumFunctionOnSet([r \in Ranks |-> Len(C[r])], Ranks) = hi - lo
  <2>1. PICK f, g, h : /\ f = [r \in Ranks |-> Len(A[r])] /\ g = [r \in Ranks |-> Len(B[r])]
                       /\ h = [r \in Ranks |-> Len(C[r])]
    OBVIOUS
  <2>2. \A r \in Ranks : f[r] \in Nat /\ g[r] \in Nat /\ h[r] = f[r] + g[r]
    BY <1>1, <2>1
  <2>3. SumFunctionOnSet(h, Ranks) = SumFunctionOnSet(f, Ranks) + SumFunctionOnSet(g, Ranks)
    BY <2>2, RanksAreFinite, SumOfSums
  <2>4. SumFunctionOnSet(f, Ranks) = mid - lo /\ SumFunctionOnSet(g, Ranks) = hi - mid
    BY <2>1 DEF Covered
  <2>5. (mid - lo) + (hi - mid) = hi - lo
    OBVIOUS
  <2> QED BY <2>1, <2>3, <2>4, <2>5
<1> QED BY <1>2, <1>3, <1>4 DEF Covered

\* As many batches on every rank, none of them missing, empty or too long,
\* and what they leave out of the samples after ind is less than one for each
\* rank.
Alike(G)    == \A r \in Ranks : G[r] \in Seq(SampleLists) /\ Len(G[r]) = Len(G[0])
Proper(T, G) == \A r \in Ranks : \A i \in 1..Len(G[r]) :
                  G[r][i] \notin {NoBatch, <<>>} /\ BatchSum(T, G[r][i]) <= MaxLen
Reaches(T, ind, G) ==
  \E c \in ind..Len(T) :
    Len(T) - c < Replicas /\ Covered(ind, c, [r \in Ranks |-> FlattenSeq(G[r])])
Shares(T, ind, G) == Alike(G) /\ Proper(T, G) /\ Reaches(T, ind, G)

LEMMA FlattenList ==
  ASSUME NEW b \in SampleLists, NEW g \in Seq(SampleLists)
  PROVE  FlattenSeq(<<b>> \o g) = b \o FlattenSeq(g) /\ FlattenSeq(g) \in SampleLists
<1>1. PICK V, S : V = Places /\ S = Seq(V) /\ S = SampleLists
  BY DEF SampleLists
<1>2. PICK a \in S : a = b
  BY <1>1
<1>3. PICK h \in Seq(S) : h = g
  BY <1>1
<1>4. FlattenSeq(<<a>> \o h) = a \o FlattenSeq(h)
  <2>1. S = Seq(V)
    BY <1>1
  <2>2. \A s \in S : \A t \in Seq(S) : FlattenSeq(<<s>> \o t) = s \o FlattenSeq(t)
    <3>1. SUFFICES ASSUME NEW s \in S, NEW t \in Seq(S)
                   PROVE  FlattenSeq(<<s>> \o t) = s \o FlattenSeq(t)
      OBVIOUS
    <3>2. FlattenSeq(InFront(s, t)) = Joined(s, FlattenSeq(t))
      BY <2>1, FlattenCons
    <3> QED BY <3>2 DEF InFront, Joined
  <2> QED BY <2>2
<1>5. FlattenSeq(h) \in S
  <2>1. S = Seq(V)
    BY <1>1
  <2> QED BY <2>1, FlattenType
<1> QED BY <1>1, <1>2, <1>3, <1>4, <1>5

LEMMA SharesEnd ==
  ASSUME NEW T \in Seq(1..MaxLen), NEW ind \in Nat, ind <= Len(T), Len(T) - ind < Replicas,
         NEW G, \A r \in Ranks : G[r] = <<>>
  PROVE  Shares(T, ind, G)
<1>1. 0 \in Ranks
  BY SamplerSizes DEF Ranks
<1>2. Alike(G)
  <2>1. <<>> \in Seq(SampleLists)
    OBVIOUS
  <2> QED BY <1>1, <2>1 DEF Alike
<1>3. Proper(T, G)
  BY DEF Proper
<1>4. PICK A : A = [r \in Ranks |-> FlattenSeq(G[r])]
  OBVIOUS
<1>5. \A r \in Ranks : A[r] = <<>>
  BY <1>4, FlattenEmpty
<1>6. SumFunctionOnSet([r \in Ranks |-> Len(A[r])], Ranks) = ind - ind
  <2>1. PICK f : f = [r \in Ranks |-> Len(A[r])]
    OBVIOUS
  <2>2. \A r \in Ranks : f[r] = 0
    BY <1>5, <2>1
  <2>3. SumFunctionOnSet(f, Ranks) = 0
    BY <2>2, RanksAreFinite, SumOfZeros
  <2> QED BY <2>1, <2>3
<1>7. Covered(ind, ind, A)
  <2>1. (ind + 1)..ind = {}
    OBVIOUS
  <2> QED BY <1>5, <1>6, <2>1 DEF Covered
<1>8. ind \in ind..Len(T)
  OBVIOUS
<1> QED BY <1>2, <1>3, <1>4, <1>7, <1>8 DEF Shares, Reaches

PutsBefore(B, G, K) == \A r \in Ranks : K[r] = <<B[r]>> \o G[r]

LEMMA SharesCons ==
  ASSUME NEW T \in Seq(1..MaxLen), NEW ind \in Nat, NEW m \in Nat, ind <= m, m <= Len(T),
         NEW B, NEW G, NEW K, Dealt(T, ind, m, B), Shares(T, m, G), PutsBefore(B, G, K)
  PROVE  Shares(T, ind, K)
<1>1. 0 \in Ranks
  BY SamplerSizes DEF Ranks
<1>2. ASSUME NEW r \in Ranks
      PROVE  /\ B[r] \in SampleLists /\ G[r] \in Seq(SampleLists) /\ K[r] \in Seq(SampleLists)
             /\ Len(K[r]) = 1 + Len(G[r]) /\ K[r][1] = B[r]
             /\ \A i \in 1..Len(K[r]) :
                  K[r][i] = B[r] \/ \E j \in 1..Len(G[r]) : K[r][i] = G[r][j]
             /\ FlattenSeq(K[r]) = B[r] \o FlattenSeq(G[r])
             /\ FlattenSeq(G[r]) \in SampleLists
  <2>1. PICK b \in SampleLists : b = B[r]
    BY DEF Dealt, SampleLists
  <2>2. PICK g \in Seq(SampleLists) : g = G[r]
    BY DEF Shares, Alike
  <2>3. PICK u \in Seq(SampleLists) : u = <<b>> /\ Len(u) = 1 /\ u[1] = b
    <3>1. <<b>> \in Seq(SampleLists)
      OBVIOUS
    <3>2. Len(<<b>>) = 1 /\ <<b>>[1] = b
      OBVIOUS
    <3> QED BY <3>1, <3>2, Zenon
  <2>4. PICK k \in Seq(SampleLists) : k = u \o g
    BY ConcatProperties
  <2>5. PICK n \in Nat : n = Len(g)
    OBVIOUS
  <2>6. /\ Len(k) = 1 + n /\ k[1] = b
        /\ \A i \in 1..n : k[1 + i] = g[i]
    BY <2>3, <2>4, <2>5, ConcatProperties
  <2>7. ASSUME NEW i \in 1..(1 + n) PROVE k[i] = b \/ \E j \in 1..n : k[i] = g[j]
    <3>1. CASE i = 1
      BY <3>1, <2>6
    <3>2. CASE i # 1
      <4>1. i - 1 \in 1..n /\ 1 + (i - 1) = i
        BY <3>2
      <4> QED BY <4>1, <2>6
    <3> QED BY <3>1, <3>2
  <2>8. k = K[r]
    BY <2>1, <2>2, <2>3, <2>4 DEF PutsBefore
  <2>9. FlattenSeq(<<b>> \o g) = b \o FlattenSeq(g) /\ FlattenSeq(g) \in SampleLists
    BY FlattenList
  <2>10. /\ \A i \in 1..Len(k) : k[i] = b \/ \E j \in 1..Len(g) : k[i] = g[j]
         /\ Len(k) = 1 + Len(g)
    BY <2>5, <2>6, <2>7
  <2>11. FlattenSeq(k) = b \o FlattenSeq(g)
    BY <2>3, <2>4, <2>9
  <2> QED BY <2>1, <2>2, <2>6, <2>8, <2>9, <2>10, <2>11
<1>3. Alike(K)
  BY <1>1, <1>2 DEF Shares, Alike
<1>4. Proper(T, K)
  <2>1. ASSUME NEW r \in Ranks, NEW i \in 1..Len(K[r])
        PROVE  K[r][i] \notin {NoBatch, <<>>} /\ BatchSum(T, K[r][i]) <= MaxLen
    <3>1. CASE K[r][i] = B[r]
      BY <3>1 DEF Dealt
    <3>2. CASE \E j \in 1..Len(G[r]) : K[r][i] = G[r][j]
      BY <3>2 DEF Shares, Proper
    <3> QED BY <1>2, <3>1, <3>2
  <2> QED BY <2>1 DEF Proper
<1>6. PICK c \in m..Len(T) :
        Len(T) - c < Replicas /\ Covered(m, c, [r \in Ranks |-> FlattenSeq(G[r])])
  BY DEF Shares, Reaches
<1>7. Covered(ind, c, [r \in Ranks |-> FlattenSeq(K[r])])
  <2>1. PICK A, C : A = [r \in Ranks |-> FlattenSeq(G[r])] /\ C = [r \in Ranks |-> FlattenSeq(K[r])]
    OBVIOUS
  <2>2. Covered(ind, m, B)
    BY DEF Dealt, Covered
  <2>3. Joins(B, A, C)
    BY <1>2, <2>1 DEF Joins
  <2>4. c \in Nat /\ m <= c
    BY <1>6
  <2>5. Covered(m, c, A)
    BY <1>6, <2>1
  <2>6. Covered(ind, c, C)
    BY <2>2, <2>3, <2>4, <2>5, CoveredJoin
  <2> QED BY <2>1, <2>6
<1>8. c \in ind..Len(T)
  BY <1>6
<1> QED BY <1>3, <1>4, <1>6, <1>7, <1>8 DEF Shares, Reaches

\* The batches that the ranks compute fit together.
LEMMA SharesOfRanks ==
  ASSUME NEW all \in Seq(Nat \ {0})
  PROVE  Shares(Truncated(all), 0, [r \in Ranks |-> AssignToPackedBatches(all, r)])
<1>1. PICK T \in Seq(1..MaxLen) : T = Truncated(all)
  BY TruncatedType
<1>2. PICK N \in Nat : N = Len(T)
  OBVIOUS
<1>3. Replicas \in Nat /\ Replicas > 0
  BY SamplerSizes
<1>4. PICK H : \A r \in Ranks : AssignToPackedBatches(all, r) = H[r][0] /\ Assigns(T, r, H[r])
  <2> DEFINE Goal(r, g) == AssignToPackedBatches(all, r) = g[0] /\ Assigns(T, r, g)
             K == [r \in Ranks |-> CHOOSE g : Goal(r, g)]
  <2>1. \A r \in Ranks : \E g : Goal(r, g)
    BY <1>1, AssignExists
  <2>2. \A r \in Ranks : Goal(r, K[r])
    <3> HIDE DEF Goal
    <3> QED BY <2>1
  <2> QED BY <2>2
<1> DEFINE G(ind) == [r \in Ranks |-> H[r][ind]]
           Good(ind) == Shares(T, ind, G(ind))
           Bad == {d \in Nat : \E ind \in 0..N : N - ind = d /\ ~Good(ind)}
<1>5. Bad = {}
  <2>1. SUFFICES ASSUME Bad # {} PROVE FALSE
    OBVIOUS
  <2>2. Bad \subseteq Nat
    OBVIOUS
  <2> HIDE DEF Bad, Good
  <2>3. PICK d \in Bad : \A e \in Bad : d <= e
    BY <2>1, <2>2, LeastNat
  <2>4. PICK ind \in 0..N : N - ind = d /\ ~Good(ind)
    BY <2>3 DEF Bad
  <2>5. CASE N - ind < Replicas
    <3>1. \A r \in Ranks : G(ind)[r] = <<>>
      <4>1. TAKE r \in Ranks
      <4>2. PICK g : g = H[r] /\ Assigns(T, r, g)
        BY <1>4
      <4>3. ind \in Nat /\ Len(T) - ind < Replicas
        BY <1>2, <2>5
      <4>4. Len(T) - ind < Replicas => g[ind] = <<>>
        BY <4>2, <4>3 DEF Assigns
      <4> QED BY <4>2, <4>3, <4>4
    <3>2. ind \in Nat /\ ind <= Len(T) /\ Len(T) - ind < Replicas
      BY <1>2, <2>5
    <3> HIDE DEF G
    <3>3. Shares(T, ind, G(ind))
      BY <3>1, <3>2, SharesEnd
    <3> QED BY <3>3, <2>4 DEF Good
  <2>6. CASE ~(N - ind < Replicas)
    <3>1. ind \in Nat /\ ind + Replicas <= Len(T)
      BY <1>2, <1>3, <2>6
    <3>2. PICK n \in Replicas..(N - ind) :
            LET B == [r \in Ranks |-> PackedBatch(Stretch(T, ind, n), ind, r)]
            IN  /\ \A r \in Ranks : PackedNext(T, ind, r) = n
                /\ Dealt(T, ind, ind + n, B)
      BY <1>2, <3>1, OneMore
    <3>3. PICK B : /\ B = [r \in Ranks |-> PackedBatch(Stretch(T, ind, n), ind, r)]
                   /\ Dealt(T, ind, ind + n, B)
      BY <3>2
    <3>4. PICK j \in Nat : j = ind + n /\ j <= N /\ j \in 0..N /\ N - j \in Nat /\ N - j < d
      <4>1. ind + n \in Nat /\ ind + n <= N /\ n > 0
        BY <1>3
      <4>2. N - (ind + n) \in Nat /\ N - (ind + n) < d
        BY <2>4, <4>1
      <4> QED BY <4>1, <4>2
    <3>5. Good(j)
      <4>1. N - j \notin Bad
        BY <2>2, <2>3, <3>4
      <4> QED BY <3>4, <4>1 DEF Bad
    <3>6. \A r \in Ranks : G(ind)[r] = <<B[r]>> \o G(j)[r]
      <4>1. TAKE r \in Ranks
      <4>2. PICK g : g = H[r] /\ Assigns(T, r, g)
        BY <1>4
      <4>3. g[ind] = <<PackedBatch(Stretch(T, ind, PackedNext(T, ind, r)), ind, r)>>
                     \o g[ind + PackedNext(T, ind, r)]
        BY <3>1, <4>2 DEF Assigns
      <4>4. PackedNext(T, ind, r) = n
        BY <3>2
      <4>5. B[r] = PackedBatch(Stretch(T, ind, n), ind, r)
        BY <3>3
      <4> QED BY <3>4, <4>2, <4>3, <4>4, <4>5
    <3>7. Shares(T, j, G(j)) /\ Dealt(T, ind, j, B)
      BY <3>3, <3>4, <3>5 DEF Good
    <3>8. ind <= j /\ j <= Len(T)
      BY <1>2, <1>3, <3>4
    <3> HIDE DEF G
    <3>9. Shares(T, ind, G(ind))
      <4>1. PICK K, L : K = G(ind) /\ L = G(j)
        OBVIOUS
      <4>2. Shares(T, j, L) /\ PutsBefore(B, L, K)
        BY <3>6, <3>7, <4>1 DEF PutsBefore
      <4>3. Shares(T, ind, K)
        BY <3>1, <3>7, <3>8, <4>2, SharesCons
      <4> QED BY <4>1, <4>3
    <3> QED BY <3>9, <2>4 DEF Good
  <2> QED BY <2>5, <2>6
<1>6. Good(0)
  <2>1. N - 0 \in Nat /\ 0 \in 0..N
    OBVIOUS
  <2>2. N - 0 \notin Bad
    BY <1>5
  <2> HIDE DEF Good
  <2> QED BY <2>1, <2>2
<1>7. G(0) = [r \in Ranks |-> AssignToPackedBatches(all, r)]
  BY <1>4
<1> QED BY <1>1, <1>6, <1>7

-----------------------------------------------------------------------------
(* The ranks of an epoch. *)

CallRecord == [kind : Collective, steps : Nat]
Operation  == Collective \cup {"update", "epoch", "interrupted"}
Statuses   == {"loading", "training", "caught", "saving", "ended", "killed", "exited"}

-----------------------------------------------------------------------------
(* One rank: what is left of its program p, its calls q and its steps s,   *)
(* in a run of n batches.                                                  *)

\* The first c calls are those of the run: n batches, a barrier, and the
\* gather of the epoch's checkpoint.
CallsOfRun(q, c, n) ==
  \A i \in 1..c :
    /\ i <= n => q[i].kind = "batch"
    /\ i = n + 1 => q[i].kind = "barrier"
    /\ i = n + 2 => q[i].kind = "gather" /\ q[i].steps = n

\* What is left after a batch, once the epoch's batches are through, and once
\* the shards are gathered.
AfterBatch(m) == <<"update">> \o RunTraining(m)
EpochSave   == <<"gather", "epoch", "barrier", "barrier", "barrier", "barrier">>
EpochWrite  == <<"epoch", "barrier", "barrier", "barrier", "barrier">>
OnlyBarriers(p) == p \in Seq({"barrier"})

Position(p, q, s, n) ==
  /\ CallsOfRun(q, Len(q), n)
  /\ \/ \E m \in 0..n : p = RunTraining(m) /\ s = n - m /\ Len(q) = n - m
     \/ \E m \in 0..n : /\ m < n /\ p = AfterBatch(m)
                        /\ s = n - m - 1 /\ Len(q) = n - m
     \/ p = EpochSave /\ s = n /\ Len(q) = n + 1
     \/ p = EpochWrite /\ s = n /\ Len(q) = n + 2
     \/ OnlyBarriers(p) /\ s = n /\ Len(q) >= n + 2

\* The calls of an interrupted rank: c of the run, and then the gather of its
\* own checkpoint, after which it does no step.
Interrupted(q, s, n, c) ==
  /\ CallsOfRun(q, c, n)
  /\ c > n => s = n
  /\ c < Len(q) => q[c + 1].kind = "gather" /\ q[c + 1].steps = s

Recorded(q, s, n) == \E c \in 0..Len(q) : Interrupted(q, s, n, c)

Saved(p, q, s, n) ==
  \E c \in 0..Len(q) :
    /\ Interrupted(q, s, n, c)
    /\ \/ c = Len(q) /\ p = SaveCheckpoint("interrupted")
       \/ c < Len(q) /\ p \in {<<"interrupted", "barrier">>, <<"barrier">>, <<>>}

-----------------------------------------------------------------------------
(* The invariant.                                                          *)

Types ==
  /\ program \in [Ranks -> Seq(Operation)]
  /\ calls \in [Ranks -> Seq(CallRecord)]
  /\ done \in Nat
  /\ steps \in [Ranks -> Nat]
  /\ status \in [Ranks -> Statuses]
  /\ handler \in [Ranks -> {"none", "graceful", "default"}]
  /\ holding \in [Ranks -> BOOLEAN]
  /\ stuck \in [Ranks -> BOOLEAN]
  /\ interrupted \in [Ranks -> BOOLEAN]
  /\ timer \in [Ranks -> BOOLEAN]
  /\ pending \in [Ranks -> BOOLEAN]
  /\ presses \in 0..MaxPresses
  /\ disk = [c \in {"epoch", "interrupted"} |-> disk[c]]
  /\ lengths \in Datasets \cup {<<>>}

\* The handler, its lock and the watchdog of a rank.
Flags ==
  \A r \in Ranks :
    /\ stuck[r] => holding[r]
    /\ holding[r] => Alive(r) /\ handler[r] # "default"
    /\ timer[r] => status[r] = "saving"
    /\ status[r] = "saving" => handler[r] = "default"

\* The operations that are complete were the same on all ranks.
Matched ==
  /\ \A r \in Ranks : done <= Len(calls[r])
  /\ \A r, s \in Ranks : \A i \in 1..done : calls[r][i].kind = calls[s][i].kind

Loading ==
  /\ \A r \in Ranks : /\ status[r] = "loading" /\ calls[r] = <<>> /\ steps[r] = 0
  /\ disk["epoch"] = Absent
  /\ \A r \in Ranks : Len(batches[r]) = Len(batches[0]) /\ Len(batches[r]) \in Nat

\* A rank that has begun its run of n batches.
Begun(r, n) ==
  /\ status[r] # "loading"
  /\ Recorded(calls[r], steps[r], n)
  /\ status[r] \in {"training", "caught"} => Position(program[r], calls[r], steps[r], n)
  /\ status[r] = "saving" => Saved(program[r], calls[r], steps[r], n)

\* The checkpoint of the epoch has every shard after n steps, and no rank
\* goes further.
Whole(n) ==
  disk["epoch"] # Absent =>
    /\ disk["epoch"] = [s \in Ranks |-> n]
    /\ \A r \in Ranks : steps[r] = n

Started(n) == Whole(n) /\ \A r \in Ranks : Begun(r, n)

IInv == Types /\ Flags /\ Matched /\ (Loading \/ \E n \in Nat : Started(n))

-----------------------------------------------------------------------------
(* The shares of the ranks.                                                *)

\* The module's sums are those of the sampler.
LEMMA SumIs ==
  ASSUME NEW batch
  PROVE  Sum(batch) = BatchSum(Truncated(lengths), batch)
BY DEF Sum, BatchSum

AllSamples(all) == FoldFunction(LAMBDA s, n : Len(s) + n, 0, all)

AllSamplesIter(all, D, g) ==
  g = [s \in SUBSET D |-> IF s = {} THEN 0 ELSE Len(all[First(s)]) + g[s \ {First(s)}]]

LEMMA AllSamplesUnfolded ==
  ASSUME NEW all
  PROVE  AllSamples(all) = (CHOOSE g : AllSamplesIter(all, DOMAIN all, g))[DOMAIN all]
BY DEF AllSamples, FoldFunction, FoldFunctionOnSet, MapThenFoldSet, AllSamplesIter, First

LEMMA AllSamplesIs ==
  ASSUME NEW all, DOMAIN all = Ranks
  PROVE  AllSamples(all) = SumFunctionOnSet([r \in Ranks |-> Len(all[r])], Ranks)
<1> DEFINE f == [r \in Ranks |-> Len(all[r])]
<1>1. ASSUME NEW g
      PROVE  AllSamplesIter(all, Ranks, g) <=> IsIter(f, Ranks, g)
  <2>1. ASSUME NEW s \in SUBSET Ranks
        PROVE  (IF s = {} THEN 0 ELSE Len(all[First(s)]) + g[s \ {First(s)}])
               = StepOf(f, g, s)
    <3>1. CASE s = {}
      BY <3>1 DEF StepOf
    <3>2. CASE s # {}
      <4>1. First(s) \in Ranks
        BY <3>2, FirstIsIn
      <4>2. f[First(s)] = Len(all[First(s)])
        BY <4>1
      <4> HIDE DEF f
      <4> QED BY <3>2, <4>2 DEF StepOf
    <3> QED BY <3>1, <3>2
  <2> HIDE DEF f
  <2>2. [s \in SUBSET Ranks |-> IF s = {} THEN 0 ELSE Len(all[First(s)]) + g[s \ {First(s)}]]
        = [s \in SUBSET Ranks |-> StepOf(f, g, s)]
    BY <2>1
  <2> QED BY <2>2 DEF AllSamplesIter, IsIter
<1> HIDE DEF f
<1>2. (CHOOSE g : AllSamplesIter(all, Ranks, g)) = Iter(f, Ranks)
  BY <1>1 DEF Iter
<1>3. AllSamples(all) = Iter(f, Ranks)[Ranks]
  BY <1>2, AllSamplesUnfolded
<1>4. AllSamples(all) = SumFunctionOnSet(f, Ranks)
  BY <1>3, SumIsIter
<1> QED BY <1>4 DEF f

\* Until the batches are counted, every rank has those it computed itself.
OwnShares ==
  lengths # <<>> =>
    /\ lengths \in Datasets
    /\ batches = [r \in Ranks |-> AssignToPackedBatches(lengths, r)]

LEMMA OwnSharesFit ==
  ASSUME OwnShares
  PROVE  SharesFitTogether
<1>1. SUFFICES ASSUME lengths # <<>> PROVE SharesFitTogether
  BY DEF SharesFitTogether
<1>2. PICK L \in Seq(Nat \ {0}) : L = lengths
  BY <1>1, DatasetsAreLegal DEF OwnShares
<1>3. PICK T \in Seq(1..MaxLen) : T = Truncated(L) /\ Len(T) = Len(L)
  BY TruncatedType
<1>4. PICK G : G = batches /\ Shares(T, 0, G)
  BY <1>1, <1>2, <1>3, SharesOfRanks DEF OwnShares
<1>5. \A r, s \in Ranks : Len(G[r]) = Len(G[s])
  BY <1>4 DEF Shares, Alike
<1>6. ASSUME NEW r \in Ranks, NEW i \in DOMAIN G[r]
      PROVE  G[r][i] \notin {NoBatch, <<>>} /\ Sum(G[r][i]) <= MaxLen
  <2>1. i \in 1..Len(G[r])
    BY <1>4 DEF Shares, Alike
  <2>2. G[r][i] \notin {NoBatch, <<>>} /\ BatchSum(T, G[r][i]) <= MaxLen
    BY <1>4, <2>1 DEF Shares, Proper
  <2>3. Sum(G[r][i]) = BatchSum(T, G[r][i])
    BY <1>2, <1>3, SumIs
  <2> QED BY <2>2, <2>3
<1>7. PICK all : all = [r \in Ranks |-> FlattenSeq(G[r])]
  OBVIOUS
<1>8. PICK c \in 0..Len(T) : Len(T) - c < Replicas /\ Covered(0, c, all)
  BY <1>4, <1>7 DEF Shares, Reaches
<1>9. AllSamples(all) = c
  <2>1. AllSamples(all) = SumFunctionOnSet([r \in Ranks |-> Len(all[r])], Ranks)
    BY <1>7, AllSamplesIs
  <2>2. SumFunctionOnSet([r \in Ranks |-> Len(all[r])], Ranks) = c - 0
    BY <1>8 DEF Covered
  <2> QED BY <2>1, <2>2
<1>10. ASSUME NEW r \in Ranks PROVE Range(all[r]) = {all[r][k] : k \in 1..Len(all[r])}
  <2>1. all[r] \in SampleLists
    <3>1. G[r] \in Seq(SampleLists)
      BY <1>4 DEF Shares, Alike
    <3>2. PICK V, S : V = Places /\ S = Seq(V) /\ S = SampleLists
      BY DEF SampleLists
    <3>3. S = Seq(V)
      BY <3>2
    <3>4. PICK g \in Seq(S) : g = G[r]
      BY <3>1, <3>2
    <3>5. FlattenSeq(g) \in S
      BY <3>3, FlattenType
    <3> QED BY <1>7, <3>2, <3>4, <3>5
  <2>2. DOMAIN all[r] = 1..Len(all[r])
    BY <2>1 DEF SampleLists
  <2> QED BY <2>2 DEF Range
<1>11. UNION {Range(all[r]) : r \in Ranks} = 1..c
  <2>1. ASSUME NEW i \in UNION {Range(all[r]) : r \in Ranks} PROVE i \in 1..c
    <3>1. PICK r \in Ranks : i \in Range(all[r])
      OBVIOUS
    <3>2. PICK k \in 1..Len(all[r]) : i = all[r][k]
      BY <1>10, <3>1
    <3> QED BY <1>8, <3>2 DEF Covered
  <2>2. ASSUME NEW i \in 1..c PROVE i \in UNION {Range(all[r]) : r \in Ranks}
    <3>1. i \in (0 + 1)..c
      OBVIOUS
    <3>2. PICK r \in Ranks : \E k \in 1..Len(all[r]) : all[r][k] = i
      BY <1>8, <3>1 DEF Covered
    <3>3. i \in Range(all[r])
      BY <1>10, <3>2
    <3> QED BY <3>3
  <2> QED BY <2>1, <2>2
<1>12. Len(lengths) - c < Replicas
  BY <1>2, <1>3, <1>8
<1> QED BY <1>4, <1>5, <1>6, <1>7, <1>9, <1>11, <1>12 DEF SharesFitTogether, AllSamples

\* The batches that the ranks compute, each on its own, fit together:
\* whatever the lengths of the samples, their number, the number of ranks and
\* the length of a batch (_assign_to_packed_batches).
THEOREM SharesAlwaysFit == Spec => []SharesFitTogether
<1>1. Init => OwnShares
  BY DEF Init, OwnShares
<1>2. OwnShares /\ [Next]_vars => OwnShares'
  <2>1. SUFFICES ASSUME OwnShares, [Next]_vars PROVE OwnShares'
    OBVIOUS
  <2>2. (lengths' = <<>>) \/ UNCHANGED share
    BY <2>1 DEF Next, vars, share, Start, Complete, Press, Call, OptimizerStep, WriteCheckpoint,
                Takes, Return, Resend, Deliver, DeliverDefault, Handle, Catch, Watchdog
  <2> QED BY <2>1, <2>2 DEF OwnShares, share
<1>3. OwnShares => SharesFitTogether
  BY OwnSharesFit
<1> QED BY <1>1, <1>2, <1>3, PTL DEF Spec

-----------------------------------------------------------------------------
(* The program of a rank, operation by operation.                          *)

Programs == Seq(Operation)
OneBatch == <<"batch", "update">>
Ending   == <<"barrier">> \o SaveCheckpoint("epoch") \o <<"barrier", "barrier", "barrier">>

LEMMA RepeatFirst ==
  ASSUME NEW n \in Nat
  PROVE  /\ Repeat(OneBatch, n + 1) = OneBatch \o Repeat(OneBatch, n)
         /\ Repeat(OneBatch, n) \in Programs
<1>1. PICK V, S : V = Operation /\ S = Seq(V) /\ S = Programs
  BY DEF Programs
<1>2. S = Seq(V)
  BY <1>1
<1>3. OneBatch \in Seq(Operation)
  BY DEF OneBatch, Operation, Collective
<1>4. PICK s \in S : s = OneBatch
  BY <1>1, <1>3
<1>5. PICK t \in Seq(S) : t = [i \in 1..n |-> s]
  <2>1. [i \in 1..n |-> s] \in Seq(S)
    OBVIOUS
  <2> QED BY <2>1, Zenon
<1>6. InFront(s, t) = [i \in 1..(n + 1) |-> s]
  <2>1. <<s>> \o t \in Seq(S) /\ Len(<<s>> \o t) = n + 1
    BY <1>5
  <2>2. \A i \in 1..(n + 1) : (<<s>> \o t)[i] = s
    BY <1>5
  <2>3. PICK c \in Seq(S) : c = <<s>> \o t
    BY <2>1, Zenon
  <2>4. DOMAIN c = 1..(n + 1) /\ \A i \in 1..(n + 1) : c[i] = s
    BY <2>1, <2>2, <2>3
  <2>5. c = [i \in 1..(n + 1) |-> s]
    BY <2>4
  <2> QED BY <2>3, <2>5 DEF InFront
<1>7. FlattenSeq(InFront(s, t)) = Joined(s, FlattenSeq(t))
  BY <1>2, FlattenCons
<1>8. FlattenSeq(t) \in S
  BY <1>2, FlattenType
<1> QED BY <1>1, <1>4, <1>5, <1>6, <1>7, <1>8 DEF Repeat, Joined

LEMMA RepeatNone == Repeat(OneBatch, 0) = <<>>
<1>1. [i \in 1..0 |-> OneBatch] = <<>>
  OBVIOUS
<1> QED BY <1>1, FlattenEmpty DEF Repeat

LEMMA EndingIs == Ending = <<"barrier">> \o EpochSave /\ Ending \in Programs
BY DEF Ending, EpochSave, SaveCheckpoint, Programs, Operation, Collective

LEMMA RunTrainingIs ==
  ASSUME NEW n \in Nat
  PROVE  RunTraining(n) = Repeat(OneBatch, n) \o Ending
<1>1. PICK r \in Seq(Operation) : r = Repeat(OneBatch, n)
  BY RepeatFirst DEF Programs
<1>2. \A a, b, c \in Seq(Operation) : ((r \o a) \o b) \o c = r \o ((a \o b) \o c)
  <2>1. TAKE a, b, c \in Seq(Operation)
  <2>2. PICK d \in Seq(Operation) : d = a \o b
    BY ConcatProperties
  <2>3. (r \o a) \o b = r \o d
    BY <2>2, ConcatAssociative
  <2>4. (r \o d) \o c = r \o (d \o c)
    BY ConcatAssociative
  <2> QED BY <2>2, <2>3, <2>4
<1>3. PICK a \in Seq(Operation) : a = <<"barrier">>
  <2>1. <<"barrier">> \in Seq(Operation)
    BY DEF Operation, Collective
  <2> QED BY <2>1, Zenon
<1>4. PICK b \in Seq(Operation) : b = SaveCheckpoint("epoch")
  <2>1. SaveCheckpoint("epoch") \in Seq(Operation)
    BY DEF Operation, Collective, SaveCheckpoint
  <2> QED BY <2>1, Zenon
<1>5. PICK c \in Seq(Operation) : c = <<"barrier", "barrier", "barrier">>
  <2>1. <<"barrier", "barrier", "barrier">> \in Seq(Operation)
    BY DEF Operation, Collective
  <2> QED BY <2>1, Zenon
<1>6. RunTraining(n) = ((r \o a) \o b) \o c
  BY <1>1, <1>3, <1>4, <1>5 DEF RunTraining, OneBatch
<1>7. Ending = (a \o b) \o c
  BY <1>3, <1>4, <1>5 DEF Ending
<1> QED BY <1>1, <1>2, <1>6, <1>7

\* With batches left the first operation is one, and its step comes after it.
LEMMA RunTrainingGoesOn ==
  ASSUME NEW n \in Nat, n > 0
  PROVE  /\ RunTraining(n) \in Programs /\ RunTraining(n) # <<>>
         /\ Head(RunTraining(n)) = "batch" /\ Tail(RunTraining(n)) = AfterBatch(n - 1)
<1>1. PICK m \in Nat : m = n - 1 /\ m + 1 = n
  OBVIOUS
<1>2. PICK r \in Seq(Operation) : r = RunTraining(m)
  <2>1. RunTraining(m) = Repeat(OneBatch, m) \o Ending
    BY RunTrainingIs
  <2>2. Repeat(OneBatch, m) \in Seq(Operation) /\ Ending \in Seq(Operation)
    BY RepeatFirst, EndingIs DEF Programs
  <2>3. RunTraining(m) \in Seq(Operation)
    BY <2>1, <2>2, ConcatProperties
  <2> QED BY <2>3, Zenon
<1>3. RunTraining(n) = OneBatch \o r
  <2>1. PICK p \in Seq(Operation) : p = Repeat(OneBatch, m)
    BY RepeatFirst DEF Programs
  <2>2. PICK e \in Seq(Operation) : e = Ending
    BY EndingIs DEF Programs
  <2>3. PICK o \in Seq(Operation) : o = OneBatch
    <3>1. OneBatch \in Seq(Operation)
      BY DEF OneBatch, Operation, Collective
    <3> QED BY <3>1, Zenon
  <2>4. RunTraining(n) = (o \o p) \o e
    BY <1>1, <2>1, <2>2, <2>3, RunTrainingIs, RepeatFirst
  <2>5. r = p \o e
    BY <1>2, <2>1, <2>2, RunTrainingIs
  <2>6. (o \o p) \o e = o \o (p \o e)
    OBVIOUS
  <2> QED BY <2>3, <2>4, <2>5, <2>6
<1>4. OneBatch \o r \in Seq(Operation)
  <2>1. OneBatch \in Seq(Operation)
    BY DEF OneBatch, Operation, Collective
  <2> QED BY <2>1, ConcatProperties
<1>5. OneBatch \o r # <<>> /\ Head(OneBatch \o r) = "batch" /\ Tail(OneBatch \o r) = <<"update">> \o r
  <2>1. OneBatch = <<"batch">> \o <<"update">>
    BY DEF OneBatch
  <2> QED BY <2>1 DEF OneBatch
<1> QED BY <1>1, <1>2, <1>3, <1>4, <1>5 DEF Programs, AfterBatch

LEMMA RunTrainingEnds ==
  /\ RunTraining(0) \in Programs /\ RunTraining(0) # <<>>
  /\ Head(RunTraining(0)) = "barrier" /\ Tail(RunTraining(0)) = EpochSave
<1>1. RunTraining(0) = <<>> \o Ending
  BY RunTrainingIs, RepeatNone
<1>2. <<>> \o Ending = Ending
  <2>1. Ending \in Seq(Operation)
    BY EndingIs DEF Programs
  <2> QED BY <2>1
<1>3. Ending = <<"barrier">> \o EpochSave /\ Ending \in Programs
  BY EndingIs
<1>4. EpochSave \in Seq(Operation)
  BY DEF EpochSave, Operation, Collective
<1>5. /\ <<"barrier">> \o EpochSave # <<>> /\ Head(<<"barrier">> \o EpochSave) = "barrier"
      /\ Tail(<<"barrier">> \o EpochSave) = EpochSave
  BY <1>4
<1> QED BY <1>1, <1>2, <1>3, <1>5

LEMMA AfterBatchIs ==
  ASSUME NEW m \in Nat
  PROVE  /\ AfterBatch(m) \in Programs /\ AfterBatch(m) # <<>>
         /\ Head(AfterBatch(m)) = "update" /\ Tail(AfterBatch(m)) = RunTraining(m)
<1>1. PICK r \in Seq(Operation) : r = RunTraining(m)
  <2>1. m = 0 \/ m > 0
    OBVIOUS
  <2>2. RunTraining(m) \in Programs
    BY <2>1, RunTrainingEnds, RunTrainingGoesOn
  <2> QED BY <2>2 DEF Programs
<1>2. "update" \in Operation
  BY DEF Operation
<1>3. /\ <<"update">> \o r \in Seq(Operation) /\ <<"update">> \o r # <<>>
      /\ Head(<<"update">> \o r) = "update" /\ Tail(<<"update">> \o r) = r
  BY <1>2
<1> QED BY <1>1, <1>3 DEF AfterBatch, Programs

LEMMA SavesAre ==
  /\ EpochSave \in Programs /\ EpochSave # <<>>
  /\ Head(EpochSave) = "gather" /\ Tail(EpochSave) = EpochWrite
  /\ EpochWrite \in Programs /\ EpochWrite # <<>>
  /\ Head(EpochWrite) = "epoch" /\ OnlyBarriers(Tail(EpochWrite))
  /\ SaveCheckpoint("interrupted") \in Programs /\ SaveCheckpoint("interrupted") # <<>>
  /\ Head(SaveCheckpoint("interrupted")) = "gather"
  /\ Tail(SaveCheckpoint("interrupted")) = <<"interrupted", "barrier">>
<1>1. /\ EpochSave \in Programs /\ EpochSave # <<>>
      /\ Head(EpochSave) = "gather" /\ Tail(EpochSave) = EpochWrite
  BY DEF EpochSave, EpochWrite, Programs, Operation, Collective
<1>2. EpochWrite \in Programs /\ EpochWrite # <<>> /\ Head(EpochWrite) = "epoch"
  BY DEF EpochWrite, Programs, Operation, Collective
<1>3. OnlyBarriers(Tail(EpochWrite))
  BY DEF EpochWrite, OnlyBarriers
<1>4. SaveCheckpoint("interrupted") = <<"gather", "interrupted", "barrier">>
  <2>1. PICK c \in Seq(Operation) : c = SaveCheckpoint("interrupted")
    <3>1. SaveCheckpoint("interrupted") \in Seq(Operation)
      BY DEF Operation, Collective, SaveCheckpoint
    <3> QED BY <3>1, Zenon
  <2>2. PICK d \in Seq(Operation) : d = <<"gather", "interrupted", "barrier">>
    <3>1. <<"gather", "interrupted", "barrier">> \in Seq(Operation)
      BY DEF Operation, Collective
    <3> QED BY <3>1, Zenon
  <2>3. Len(c) = 3 /\ c[1] = "gather" /\ c[2] = "interrupted" /\ c[3] = "barrier"
    BY <2>1 DEF SaveCheckpoint
  <2>4. Len(d) = 3 /\ d[1] = "gather" /\ d[2] = "interrupted" /\ d[3] = "barrier"
    BY <2>2
  <2>5. \A i \in 1..3 : c[i] = d[i]
    <3>1. \A i \in 1..3 : i = 1 \/ i = 2 \/ i = 3
      OBVIOUS
    <3> QED BY <3>1, <2>3, <2>4
  <2>6. c = d
    BY <2>3, <2>4, <2>5
  <2> QED BY <2>1, <2>2, <2>6
<1>5. <<"gather", "interrupted", "barrier">> \in Programs
  BY DEF Programs, Operation, Collective
<1>6. /\ Head(<<"gather", "interrupted", "barrier">>) = "gather"
      /\ Tail(<<"gather", "interrupted", "barrier">>) = <<"interrupted", "barrier">>
      /\ <<"gather", "interrupted", "barrier">> # <<>>
  OBVIOUS
<1> QED BY <1>1, <1>2, <1>3, <1>4, <1>5, <1>6

LEMMA BarriersAre ==
  ASSUME NEW p, OnlyBarriers(p)
  PROVE  /\ p \in Programs
         /\ p # <<>> => Head(p) = "barrier" /\ OnlyBarriers(Tail(p))
<1>1. p \in Seq({"barrier"})
  BY DEF OnlyBarriers
<1>2. \A i \in 1..Len(p) : p[i] \in Operation
  BY <1>1 DEF Operation, Collective
<1>3. p \in Programs
  BY <1>1, <1>2 DEF Programs
<1> QED BY <1>1, <1>3 DEF OnlyBarriers

-----------------------------------------------------------------------------
(* What an operation does to the position of a rank.                       *)

\* A further call leaves the earlier ones alone.
LEMMA CallsRemain ==
  ASSUME NEW q \in Seq(CallRecord), NEW e \in CallRecord
  PROVE  /\ Append(q, e) \in Seq(CallRecord) /\ Len(Append(q, e)) = Len(q) + 1
         /\ Append(q, e)[Len(q) + 1] = e
         /\ \A i \in 1..Len(q) : Append(q, e)[i] = q[i]
BY AppendProperties

LEMMA CallsOfRunRemain ==
  ASSUME NEW q \in Seq(CallRecord), NEW e \in CallRecord, NEW n \in Nat,
         NEW c \in 0..Len(q), CallsOfRun(q, c, n)
  PROVE  CallsOfRun(Append(q, e), c, n)
<1>1. PICK b \in Seq(CallRecord) : /\ b = Append(q, e)
                                   /\ \A i \in 1..Len(q) : b[i] = q[i]
  BY CallsRemain
<1>2. \A i \in 1..c : i \in 1..Len(q)
  OBVIOUS
<1> QED BY <1>1, <1>2 DEF CallsOfRun

\* The next call of the run.
IsNextOfRun(e, k, n) ==
  /\ k <= n => e.kind = "batch"
  /\ k = n + 1 => e.kind = "barrier"
  /\ k = n + 2 => e.kind = "gather" /\ e.steps = n

LEMMA CallsOfRunGoOn ==
  ASSUME NEW q \in Seq(CallRecord), NEW e \in CallRecord, NEW n \in Nat,
         CallsOfRun(q, Len(q), n), IsNextOfRun(e, Len(q) + 1, n)
  PROVE  CallsOfRun(Append(q, e), Len(Append(q, e)), n)
<1>1. PICK m \in Nat : m = Len(q)
  OBVIOUS
<1>2. PICK b \in Seq(CallRecord) : /\ b = Append(q, e) /\ Len(b) = m + 1 /\ b[m + 1] = e
                                   /\ \A i \in 1..m : b[i] = q[i]
  BY <1>1, CallsRemain
<1>3. ASSUME NEW i \in 1..(m + 1)
      PROVE  /\ i <= n => b[i].kind = "batch"
             /\ i = n + 1 => b[i].kind = "barrier"
             /\ i = n + 2 => b[i].kind = "gather" /\ b[i].steps = n
  <2>1. CASE i = m + 1
    BY <1>1, <1>2, <2>1 DEF IsNextOfRun
  <2>2. CASE i # m + 1
    <3>1. i \in 1..m
      BY <2>2
    <3> QED BY <3>1, <1>1, <1>2 DEF CallsOfRun
  <2> QED BY <2>1, <2>2
<1>4. CallsOfRun(b, m + 1, n)
  BY <1>3 DEF CallsOfRun
<1> QED BY <1>2, <1>4

LEMMA PositionBegins ==
  ASSUME NEW n \in Nat
  PROVE  Position(RunTraining(n), <<>>, 0, n)
<1>1. CallsOfRun(<<>>, Len(<<>>), n)
  BY DEF CallsOfRun
<1>2. n \in 0..n /\ n - n = 0 /\ Len(<<>>) = 0
  OBVIOUS
<1> QED BY <1>1, <1>2 DEF Position

\* A rank at a collective operation makes the call and is at what follows.
LEMMA PositionCalls ==
  ASSUME NEW p, NEW q \in Seq(CallRecord), NEW s \in Nat, NEW n \in Nat, Position(p, q, s, n),
         p # <<>>, Head(p) \in Collective
  PROVE  Position(Tail(p), Append(q, [kind |-> Head(p), steps |-> s]), s, n)
<1>1. PICK e \in CallRecord : e = [kind |-> Head(p), steps |-> s]
                              /\ e.kind = Head(p) /\ e.steps = s
  <2>1. [kind |-> Head(p), steps |-> s] \in CallRecord
    BY DEF CallRecord
  <2> QED BY <2>1
<1>2. PICK k \in Nat : k = Len(q)
  OBVIOUS
<1>3. PICK b \in Seq(CallRecord) : b = Append(q, e) /\ Len(b) = k + 1
  BY <1>2, CallsRemain
<1>4. ASSUME IsNextOfRun(e, k + 1, n) PROVE CallsOfRun(b, Len(b), n)
  <2>1. CallsOfRun(q, Len(q), n)
    BY DEF Position
  <2> QED BY <1>2, <1>3, <1>4, <2>1, CallsOfRunGoOn
<1>5. ASSUME NEW m \in 0..n, p = RunTraining(m), s = n - m, k = n - m, m > 0
      PROVE  Position(Tail(p), b, s, n)
  <2>1. e.kind = "batch" /\ Tail(p) = AfterBatch(m - 1)
    BY <1>1, <1>5, RunTrainingGoesOn
  <2>2. IsNextOfRun(e, k + 1, n)
    BY <1>5, <2>1 DEF IsNextOfRun
  <2>3. m - 1 \in 0..n /\ m - 1 < n /\ s = n - (m - 1) - 1 /\ Len(b) = n - (m - 1)
    BY <1>3, <1>5
  <2> QED BY <1>4, <2>1, <2>2, <2>3 DEF Position
<1>6. ASSUME p = RunTraining(0), s = n, k = n
      PROVE  Position(Tail(p), b, s, n)
  <2>1. e.kind = "barrier" /\ Tail(p) = EpochSave
    BY <1>1, <1>6, RunTrainingEnds
  <2>2. IsNextOfRun(e, k + 1, n)
    BY <1>6, <2>1 DEF IsNextOfRun
  <2>3. Len(b) = n + 1
    BY <1>3, <1>6
  <2> QED BY <1>4, <1>6, <2>1, <2>2, <2>3 DEF Position
<1>7. ASSUME p = EpochSave, s = n, k = n + 1
      PROVE  Position(Tail(p), b, s, n)
  <2>1. e.kind = "gather" /\ e.steps = n /\ Tail(p) = EpochWrite
    BY <1>1, <1>7, SavesAre
  <2>2. IsNextOfRun(e, k + 1, n)
    BY <1>7, <2>1 DEF IsNextOfRun
  <2>3. Len(b) = n + 2
    BY <1>3, <1>7
  <2> QED BY <1>4, <1>7, <2>1, <2>2, <2>3 DEF Position
<1>8. ASSUME OnlyBarriers(p), s = n, k >= n + 2
      PROVE  Position(Tail(p), b, s, n)
  <2>1. OnlyBarriers(Tail(p))
    BY <1>8, BarriersAre
  <2>2. IsNextOfRun(e, k + 1, n)
    BY <1>8 DEF IsNextOfRun
  <2>3. Len(b) >= n + 2
    BY <1>3, <1>8
  <2> QED BY <1>4, <1>8, <2>1, <2>2, <2>3 DEF Position
<1>9. \/ \E m \in 0..n : p = RunTraining(m) /\ s = n - m /\ k = n - m
      \/ \E m \in 0..n : p = AfterBatch(m)
      \/ p = EpochSave /\ s = n /\ k = n + 1
      \/ p = EpochWrite
      \/ OnlyBarriers(p) /\ s = n /\ k >= n + 2
  BY <1>2 DEF Position
<1>10. ASSUME NEW m \in 0..n PROVE p # AfterBatch(m)
  <2>1. m \in Nat
    OBVIOUS
  <2>2. Head(AfterBatch(m)) = "update"
    BY <2>1, AfterBatchIs
  <2> QED BY <2>2 DEF Collective
<1>11. p # EpochWrite
  BY SavesAre DEF Collective
<1>12. ASSUME NEW m \in 0..n, p = RunTraining(m), s = n - m, k = n - m
       PROVE  Position(Tail(p), b, s, n)
  <2>1. CASE m = 0
    BY <1>6, <1>12, <2>1
  <2>2. CASE m > 0
    BY <1>5, <1>12, <2>2
  <2> QED BY <2>1, <2>2
<1> QED BY <1>1, <1>3, <1>7, <1>8, <1>9, <1>10, <1>11, <1>12

\* A step follows a batch, and there are no more steps than batches.
LEMMA PositionSteps ==
  ASSUME NEW p, NEW q \in Seq(CallRecord), NEW s \in Nat, NEW n \in Nat, Position(p, q, s, n),
         p # <<>>, Head(p) = "update"
  PROVE  Position(Tail(p), q, s + 1, n) /\ s < n
<1>1. ASSUME NEW m \in 0..n PROVE p # RunTraining(m)
  <2>1. CASE m = 0
    BY <2>1, RunTrainingEnds
  <2>2. CASE m > 0
    BY <2>2, RunTrainingGoesOn
  <2> QED BY <2>1, <2>2
<1>2. p # EpochSave /\ p # EpochWrite /\ ~OnlyBarriers(p)
  BY SavesAre, BarriersAre
<1>3. PICK m \in 0..n : m < n /\ p = AfterBatch(m) /\ s = n - m - 1 /\ Len(q) = n - m
  BY <1>1, <1>2 DEF Position
<1>4. Tail(p) = RunTraining(m)
  <2>1. m \in Nat
    OBVIOUS
  <2> QED BY <1>3, <2>1, AfterBatchIs
<1>5. s + 1 = n - m /\ s < n
  BY <1>3
<1>6. CallsOfRun(q, Len(q), n)
  BY DEF Position
<1> QED BY <1>3, <1>4, <1>5, <1>6 DEF Position

\* The checkpoint of the epoch is written after its gather.
LEMMA PositionWrites ==
  ASSUME NEW p, NEW q \in Seq(CallRecord), NEW s \in Nat, NEW n \in Nat, Position(p, q, s, n),
         p # <<>>, Head(p) \in {"epoch", "interrupted"}
  PROVE  /\ Head(p) = "epoch" /\ s = n /\ Len(q) = n + 2 /\ CallsOfRun(q, Len(q), n)
         /\ Position(Tail(p), q, s, n)
<1>1. ASSUME NEW m \in 0..n PROVE p # RunTraining(m) /\ p # AfterBatch(m)
  <2>1. m \in Nat
    OBVIOUS
  <2>2. p # AfterBatch(m)
    BY <2>1, AfterBatchIs
  <2>3. CASE m = 0
    BY <2>2, <2>3, RunTrainingEnds
  <2>4. CASE m > 0
    <3>1. Head(RunTraining(m)) = "batch"
      BY <2>1, <2>4, RunTrainingGoesOn
    <3> QED BY <2>2, <3>1
  <2> QED BY <2>1, <2>3, <2>4
<1>2. p # EpochSave /\ ~OnlyBarriers(p)
  BY SavesAre, BarriersAre
<1>3. p = EpochWrite /\ s = n /\ Len(q) = n + 2
  BY <1>1, <1>2 DEF Position
<1>4. Head(p) = "epoch" /\ OnlyBarriers(Tail(p))
  BY <1>3, SavesAre
<1>5. CallsOfRun(q, Len(q), n)
  BY DEF Position
<1>6. Len(q) >= n + 2
  BY <1>3
<1> QED BY <1>3, <1>4, <1>5, <1>6 DEF Position

\* A rank that is interrupted now has made calls of the run only.
LEMMA PositionIsRecorded ==
  ASSUME NEW p, NEW q \in Seq(CallRecord), NEW s \in Nat, NEW n \in Nat, Position(p, q, s, n)
  PROVE  Recorded(q, s, n) /\ Saved(SaveCheckpoint("interrupted"), q, s, n)
<1>1. PICK k \in Nat : k = Len(q)
  OBVIOUS
<1>2. k > n => s = n
  <2>1. \/ \E m \in 0..n : k = n - m
        \/ s = n
    BY <1>1 DEF Position
  <2> QED BY <2>1
<1>3. CallsOfRun(q, k, n)
  BY <1>1 DEF Position
<1>4. Interrupted(q, s, n, k)
  BY <1>1, <1>2, <1>3 DEF Interrupted
<1>5. k \in 0..Len(q)
  BY <1>1
<1> QED BY <1>1, <1>4, <1>5 DEF Recorded, Saved

\* The save of an interrupted rank: the gather is its next call, and it makes
\* no step and does not write the checkpoint of the epoch.
LEMMA InterruptedRemains ==
  ASSUME NEW q \in Seq(CallRecord), NEW e \in CallRecord, NEW s \in Nat, NEW n \in Nat,
         NEW c \in 0..Len(q), Interrupted(q, s, n, c),
         c = Len(q) => e.kind = "gather" /\ e.steps = s
  PROVE  Interrupted(Append(q, e), s, n, c) /\ c < Len(Append(q, e))
<1>1. PICK k \in Nat : k = Len(q)
  OBVIOUS
<1>2. PICK b \in Seq(CallRecord) : /\ b = Append(q, e) /\ Len(b) = k + 1 /\ b[k + 1] = e
                                   /\ \A i \in 1..k : b[i] = q[i]
  BY <1>1, CallsRemain
<1>3. CallsOfRun(b, c, n)
  BY <1>2, CallsOfRunRemain DEF Interrupted
<1>4. b[c + 1].kind = "gather" /\ b[c + 1].steps = s
  <2>1. CASE c = k
    BY <1>1, <1>2, <2>1
  <2>2. CASE c # k
    <3>1. c + 1 \in 1..k /\ c < Len(q)
      BY <1>1, <2>2
    <3> QED BY <1>2, <3>1 DEF Interrupted
  <2> QED BY <2>1, <2>2
<1>5. c < k + 1 /\ (c > n => s = n)
  BY <1>1 DEF Interrupted
<1> QED BY <1>2, <1>3, <1>4, <1>5 DEF Interrupted

LEMMA SavedCalls ==
  ASSUME NEW p, NEW q \in Seq(CallRecord), NEW s \in Nat, NEW n \in Nat, Saved(p, q, s, n),
         p # <<>>, Head(p) \in Collective
  PROVE  Saved(Tail(p), Append(q, [kind |-> Head(p), steps |-> s]), s, n)
<1>1. PICK e \in CallRecord : e = [kind |-> Head(p), steps |-> s]
                              /\ e.kind = Head(p) /\ e.steps = s
  <2>1. [kind |-> Head(p), steps |-> s] \in CallRecord
    BY DEF CallRecord
  <2> QED BY <2>1
<1>2. PICK c \in 0..Len(q) :
        /\ Interrupted(q, s, n, c)
        /\ \/ c = Len(q) /\ p = SaveCheckpoint("interrupted")
           \/ c < Len(q) /\ p \in {<<"interrupted", "barrier">>, <<"barrier">>, <<>>}
  BY DEF Saved
<1>3. PICK b \in Seq(CallRecord) : b = Append(q, e) /\ Len(b) = Len(q) + 1
  BY CallsRemain
<1>4. c = Len(q) => e.kind = "gather"
  BY <1>1, <1>2, SavesAre
<1>5. Interrupted(b, s, n, c) /\ c < Len(b)
  BY <1>1, <1>2, <1>3, <1>4, InterruptedRemains
<1>6. Tail(p) \in {<<"interrupted", "barrier">>, <<"barrier">>, <<>>}
  <2>1. CASE p = SaveCheckpoint("interrupted")
    BY <2>1, SavesAre
  <2>2. CASE p = <<"interrupted", "barrier">>
    <3>1. Head(p) = "interrupted"
      BY <2>2
    <3> QED BY <3>1 DEF Collective
  <2>3. CASE p = <<"barrier">>
    BY <2>3
  <2> QED BY <1>2, <2>1, <2>2, <2>3
<1>7. c \in 0..Len(b)
  BY <1>3
<1>8. Saved(Tail(p), b, s, n)
  BY <1>5, <1>6, <1>7 DEF Saved
<1> QED BY <1>1, <1>3, <1>8

LEMMA SavedWrites ==
  ASSUME NEW p, NEW q \in Seq(CallRecord), NEW s \in Nat, NEW n \in Nat, Saved(p, q, s, n),
         p # <<>>, Head(p) \notin Collective
  PROVE  Head(p) = "interrupted" /\ Saved(Tail(p), q, s, n)
<1>1. PICK c \in 0..Len(q) :
        /\ Interrupted(q, s, n, c)
        /\ \/ c = Len(q) /\ p = SaveCheckpoint("interrupted")
           \/ c < Len(q) /\ p \in {<<"interrupted", "barrier">>, <<"barrier">>, <<>>}
  BY DEF Saved
<1>2. p # SaveCheckpoint("interrupted")
  BY SavesAre DEF Collective
<1>3. p # <<"barrier">>
  <2>1. Head(<<"barrier">>) = "barrier"
    OBVIOUS
  <2> QED BY <2>1 DEF Collective
<1>4. c < Len(q) /\ p = <<"interrupted", "barrier">>
  BY <1>1, <1>2, <1>3
<1>5. Head(p) = "interrupted" /\ Tail(p) = <<"barrier">>
  BY <1>4
<1> QED BY <1>1, <1>4, <1>5 DEF Saved

LEMMA SavedIsRecorded ==
  ASSUME NEW p, NEW q, NEW s, NEW n, Saved(p, q, s, n)
  PROVE  Recorded(q, s, n)
BY DEF Saved, Recorded

LEMMA RecordedAtStart ==
  ASSUME NEW n \in Nat
  PROVE  Recorded(<<>>, 0, n)
<1>1. Position(RunTraining(n), <<>>, 0, n)
  BY PositionBegins
<1>2. <<>> \in Seq(CallRecord) /\ 0 \in Nat
  OBVIOUS
<1> QED BY <1>1, <1>2, PositionIsRecorded

\* A rank whose calls match the run's up to the gather of the epoch has made
\* all its steps, and that is what it has in the gather.
LEMMA MatchedIsWhole ==
  ASSUME NEW q \in Seq(CallRecord), NEW s \in Nat, NEW n \in Nat, Recorded(q, s, n),
         n + 2 <= Len(q),
         NEW o, CallsOfRun(o, n + 2, n), \A i \in 1..(n + 2) : q[i].kind = o[i].kind
  PROVE  s = n /\ q[n + 2].steps = n
<1>1. PICK c \in 0..Len(q) : Interrupted(q, s, n, c)
  BY DEF Recorded
<1>2. PICK k \in Nat : k = Len(q)
  OBVIOUS
<1>3. \A i \in 1..(n + 1) : q[i].kind # "gather"
  <2>1. TAKE i \in 1..(n + 1)
  <2>2. i \in 1..(n + 2) /\ (i <= n \/ i = n + 1)
    OBVIOUS
  <2>3. o[i].kind \in {"batch", "barrier"}
    BY <2>2 DEF CallsOfRun
  <2> QED BY <2>2, <2>3
<1>4. c > n
  <2>1. SUFFICES ASSUME c <= n PROVE FALSE
    BY <1>2
  <2>2. c < Len(q) /\ c + 1 \in 1..(n + 1)
    BY <1>2, <2>1
  <2>3. q[c + 1].kind = "gather"
    BY <1>1, <2>2 DEF Interrupted
  <2> QED BY <1>3, <2>2, <2>3
<1>5. s = n
  BY <1>1, <1>4 DEF Interrupted
<1>6. CASE c = n + 1
  <2>1. c < Len(q) /\ c + 1 = n + 2
    BY <1>2, <1>6
  <2>2. q[c + 1].steps = s
    BY <1>1, <2>1 DEF Interrupted
  <2> QED BY <1>5, <2>1, <2>2
<1>7. CASE c > n + 1
  <2>1. n + 2 \in 1..c
    BY <1>7
  <2> QED BY <1>1, <1>5, <2>1 DEF Interrupted, CallsOfRun
<1> QED BY <1>2, <1>4, <1>6, <1>7

-----------------------------------------------------------------------------
(* The invariant is inductive.                                             *)

LEMMA InitHolds == ASSUME Init PROVE IInv
<1>1. 0 \in Ranks
  BY SamplerSizes DEF Ranks
<1>2. lengths \in Seq(Nat \ {0})
  BY DatasetsAreLegal DEF Init
<1>3. Types
  <2>1. <<>> \in Seq(Operation) /\ <<>> \in Seq(CallRecord) /\ 0 \in 0..MaxPresses
    BY DatasetsAreLegal
  <2>2. \A c \in {"epoch", "interrupted"} : disk[c] = Absent
    BY DEF Init
  <2>3. disk = [c \in {"epoch", "interrupted"} |-> disk[c]]
    BY DEF Init
  <2> QED BY <2>1, <2>3 DEF Init, Types, Statuses
<1>4. Flags
  BY DEF Init, Flags
<1>5. Matched
  BY DEF Init, Matched
<1>6. Alike(batches)
  <2>1. batches = [r \in Ranks |-> AssignToPackedBatches(lengths, r)]
    BY DEF Init
  <2>2. Shares(Truncated(lengths), 0, [r \in Ranks |-> AssignToPackedBatches(lengths, r)])
    BY <1>2, SharesOfRanks
  <2>3. Shares(Truncated(lengths), 0, batches)
    BY <2>1, <2>2
  <2> QED BY <2>3 DEF Shares
<1>7. \A r \in Ranks : Len(batches[r]) = Len(batches[0]) /\ Len(batches[r]) \in Nat
  <2>1. TAKE r \in Ranks
  <2>2. PICK b \in Seq(SampleLists) : b = batches[r]
    BY <1>6 DEF Alike
  <2>3. Len(b) \in Nat
    OBVIOUS
  <2>4. Len(batches[r]) = Len(batches[0])
    BY <1>6 DEF Alike
  <2> QED BY <2>2, <2>3, <2>4
<1>8. Loading
  BY <1>7 DEF Init, Loading
<1> QED BY <1>3, <1>4, <1>5, <1>8 DEF IInv

LEMMA StartKeeps == ASSUME IInv, Start PROVE IInv'
<1>1. 0 \in Ranks /\ \A r \in Ranks : status[r] = "loading"
  BY SamplerSizes DEF Ranks, Start
<1>2. Loading
  BY <1>1 DEF IInv, Started, Begun
<1>3. PICK n \in Nat : \A r \in Ranks : Len(batches[r]) = n
  BY <1>1, <1>2 DEF Loading
<1>4. RunTraining(n) \in Programs
  BY RunTrainingEnds, RunTrainingGoesOn
<1>5. program' = [r \in Ranks |-> RunTraining(n)]
  BY <1>3 DEF Start
<1>6. Types'
  <2>1. program' \in [Ranks -> Seq(Operation)]
    BY <1>4, <1>5 DEF Programs
  <2> QED BY <2>1 DEF Start, Types, IInv, Statuses
<1>7. Flags'
  BY <1>1 DEF Start, Flags, IInv, Alive, Types
<1>8. Matched'
  BY DEF Start, Matched, IInv
<1>9. Started(n)'
  <2>1. Whole(n)'
    BY <1>2 DEF Whole, Loading, Start
  <2>2. ASSUME NEW r \in Ranks PROVE Begun(r, n)'
    <3>1. status'[r] = "training" /\ calls'[r] = <<>> /\ steps'[r] = 0
          /\ program'[r] = RunTraining(n)
      BY <1>2, <1>5 DEF Start, Loading
    <3>2. Position(RunTraining(n), <<>>, 0, n) /\ Recorded(<<>>, 0, n)
      BY PositionBegins, RecordedAtStart
    <3> QED BY <3>1, <3>2 DEF Begun
  <2> QED BY <2>1, <2>2 DEF Started
<1> QED BY <1>6, <1>7, <1>8, <1>9 DEF IInv

\* Nothing happens while a rank loads, but Ctrl+C passed on.
LEMMA BegunOnceOneRuns ==
  ASSUME IInv, NEW r \in Ranks, status[r] # "loading"
  PROVE  \E n \in Nat : Started(n)
BY DEF IInv, Loading

\* What a signal does: the status of a rank moves on, its program does not.
StatusMoves ==
  \A r \in Ranks :
    \/ status'[r] = status[r]
    \/ status[r] # "loading" /\ status'[r] \in {"ended", "killed", "exited"}
    \/ status[r] = "training" /\ status'[r] = "caught"

LEMMA StatusKeeps ==
  ASSUME IInv, UNCHANGED share, UNCHANGED machine, StatusMoves, Types', Flags'
  PROVE  IInv'
<1>1. /\ batches' = batches /\ program' = program /\ calls' = calls /\ done' = done
      /\ steps' = steps /\ disk' = disk
  BY DEF share, machine
<1>2. Matched'
  BY <1>1 DEF IInv, Matched
<1>3. CASE Loading
  <2>1. \A r \in Ranks : status'[r] = "loading"
    BY <1>3 DEF StatusMoves, Loading
  <2>2. Loading'
    BY <1>1, <1>3, <2>1 DEF Loading
  <2> QED BY <1>2, <2>2 DEF IInv
<1>4. ASSUME NEW n \in Nat, Started(n) PROVE Started(n)'
  <2>1. Whole(n)'
    BY <1>1, <1>4 DEF Started, Whole
  <2>2. ASSUME NEW r \in Ranks PROVE Begun(r, n)'
    <3>1. Begun(r, n)
      BY <1>4 DEF Started
    <3>2. \/ status'[r] = status[r]
          \/ status[r] # "loading" /\ status'[r] \in {"ended", "killed", "exited"}
          \/ status[r] = "training" /\ status'[r] = "caught"
      BY DEF StatusMoves
    <3> QED BY <1>1, <3>1, <3>2 DEF Begun
  <2> QED BY <2>1, <2>2 DEF Started
<1> QED BY <1>2, <1>3, <1>4 DEF IInv

LEMMA CompleteKeeps == ASSUME IInv, Complete PROVE IInv'
<1>1. done \in Nat /\ \A r \in Ranks : done < Len(calls[r]) /\ Len(calls[r]) \in Nat
  <2>1. done \in Nat
    BY DEF IInv, Types
  <2>2. ASSUME NEW r \in Ranks PROVE done < Len(calls[r]) /\ Len(calls[r]) \in Nat
    <3>1. PICK q \in Seq(CallRecord) : q = calls[r]
      BY DEF IInv, Types
    <3>2. Len(q) \in Nat /\ Len(q) > done
      BY <3>1 DEF Complete
    <3> QED BY <2>1, <3>1, <3>2
  <2> QED BY <2>1, <2>2
<1>2. Types' /\ Flags'
  <2>1. done' \in Nat
    BY <1>1 DEF Complete
  <2> QED BY <2>1 DEF IInv, Types, Flags, Alive, Complete, signals, share
<1>3. Matched'
  <2>1. ASSUME NEW r \in Ranks PROVE done' <= Len(calls'[r])
    BY <1>1 DEF Complete
  <2>2. ASSUME NEW r \in Ranks, NEW s \in Ranks, NEW i \in 1..done'
        PROVE  calls'[r][i].kind = calls'[s][i].kind
    <3>1. i \in 1..done \/ i = done + 1
      BY <1>1 DEF Complete
    <3> QED BY <3>1 DEF IInv, Matched, Complete
  <2> QED BY <2>1, <2>2 DEF Matched
<1>4. ~Loading
  <2>1. 0 \in Ranks
    BY SamplerSizes DEF Ranks
  <2>2. Len(<<>>) = 0
    OBVIOUS
  <2> QED BY <1>1, <2>1, <2>2 DEF Loading
<1>5. PICK n \in Nat : Started(n)
  BY <1>4 DEF IInv
<1>6. Started(n)'
  BY <1>5 DEF Started, Whole, Begun, Complete
<1> QED BY <1>2, <1>3, <1>6 DEF IInv

LEMMA PressKeeps == ASSUME IInv, Press PROVE IInv'
<1>1. Types'
  <2>1. presses' \in 0..MaxPresses
    BY DatasetsAreLegal DEF Press, IInv, Types
  <2>2. pending' \in [Ranks -> BOOLEAN]
    BY DEF Press, IInv, Types, Alive
  <2> QED BY <2>1, <2>2 DEF Press, IInv, Types, machine, share
<1>2. Flags'
  BY DEF Press, IInv, Flags, Alive
<1>3. StatusMoves
  BY DEF Press, StatusMoves
<1>4. UNCHANGED share /\ UNCHANGED machine
  BY DEF Press
<1> QED BY <1>1, <1>2, <1>3, <1>4, StatusKeeps

LEMMA ReturnKeeps == ASSUME IInv, NEW r \in Ranks, Return(r) PROVE IInv'
<1>1. Types'
  BY DEF Return, IInv, Types, machine, share, Statuses
<1>2. Flags'
  BY DEF Return, IInv, Types, Flags, Alive, Statuses, Runs
<1>3. StatusMoves
  BY DEF Return, IInv, Types, Flags, Alive, StatusMoves, Statuses, Runs
<1>4. UNCHANGED share /\ UNCHANGED machine
  BY DEF Return
<1> QED BY <1>1, <1>2, <1>3, <1>4, StatusKeeps

LEMMA ResendKeeps == ASSUME IInv, NEW r \in Ranks, Resend(r) PROVE IInv'
<1>1. Types'
  BY DEF Resend, IInv, Types, machine, share, Statuses, Alive
<1>2. Flags'
  BY DEF Resend, IInv, Types, Flags, Alive, Statuses
<1>3. StatusMoves
  BY DEF Resend, IInv, Types, Flags, Alive, StatusMoves, Statuses
<1>4. UNCHANGED share /\ UNCHANGED machine
  BY DEF Resend
<1> QED BY <1>1, <1>2, <1>3, <1>4, StatusKeeps

LEMMA DeliverKeeps == ASSUME IInv, NEW r \in Ranks, Deliver(r) PROVE IInv'
<1>1. Types'
  BY DEF Deliver, IInv, Types, machine, share, Statuses
<1>2. Flags'
  BY DEF Deliver, IInv, Types, Flags, Alive, Statuses
<1>3. StatusMoves
  BY DEF Deliver, IInv, Types, Flags, Alive, StatusMoves, Statuses
<1>4. UNCHANGED share /\ UNCHANGED machine
  BY DEF Deliver
<1> QED BY <1>1, <1>2, <1>3, <1>4, StatusKeeps

LEMMA DeliverDefaultKeeps == ASSUME IInv, NEW r \in Ranks, DeliverDefault(r) PROVE IInv'
<1>1. Types'
  BY DEF DeliverDefault, IInv, Types, machine, share, Statuses
<1>2. Flags'
  BY DEF DeliverDefault, IInv, Types, Flags, Alive, Statuses
<1>3. StatusMoves
  BY DEF DeliverDefault, IInv, Types, Flags, Alive, StatusMoves, Statuses
<1>4. UNCHANGED share /\ UNCHANGED machine
  BY DEF DeliverDefault
<1> QED BY <1>1, <1>2, <1>3, <1>4, StatusKeeps

LEMMA HandleKeeps == ASSUME IInv, NEW r \in Ranks, Handle(r) PROVE IInv'
<1>1. Types'
  BY DEF Handle, IInv, Types, machine, share, Statuses
<1>2. Flags'
  BY DEF Handle, IInv, Types, Flags, Alive, Statuses
<1>3. StatusMoves
  BY DEF Handle, IInv, Types, Flags, Alive, StatusMoves, Statuses
<1>4. UNCHANGED share /\ UNCHANGED machine
  BY DEF Handle
<1> QED BY <1>1, <1>2, <1>3, <1>4, StatusKeeps

LEMMA WatchdogKeeps == ASSUME IInv, NEW r \in Ranks, Watchdog(r) PROVE IInv'
<1>1. Types'
  BY DEF Watchdog, IInv, Types, machine, share, Statuses
<1>2. Flags'
  BY DEF Watchdog, IInv, Types, Flags, Alive, Statuses
<1>3. StatusMoves
  BY DEF Watchdog, IInv, Types, Flags, Alive, StatusMoves, Statuses
<1>4. UNCHANGED share /\ UNCHANGED machine
  BY DEF Watchdog
<1> QED BY <1>1, <1>2, <1>3, <1>4, StatusKeeps

LEMMA CatchKeeps == ASSUME IInv, NEW r \in Ranks, Catch(r) PROVE IInv'
<1>1. SaveCheckpoint("interrupted") \in Seq(Operation)
  BY SavesAre DEF Programs
<1>2. Types'
  BY <1>1 DEF Catch, IInv, Types, share, Statuses
<1>3. Flags'
  BY DEF Catch, IInv, Types, Flags, Alive, Statuses
<1>4. Matched'
  BY DEF Catch, IInv, Matched
<1>5. status[r] = "caught" /\ status[r] # "loading"
  BY DEF Catch
<1>6. PICK n \in Nat : Started(n)
  BY <1>5, BegunOnceOneRuns
<1>7. Whole(n)'
  BY <1>6 DEF Catch, Started, Whole
<1>8. ASSUME NEW s \in Ranks PROVE Begun(s, n)'
  <2>1. Begun(s, n)
    BY <1>6 DEF Started
  <2>2. calls'[s] = calls[s] /\ steps'[s] = steps[s]
    BY DEF Catch
  <2>3. CASE s = r
    <3>1. PICK q \in Seq(CallRecord), t \in Nat : q = calls[r] /\ t = steps[r]
      BY DEF IInv, Types
    <3>2. Position(program[r], q, t, n)
      BY <1>5, <2>1, <2>3, <3>1 DEF Begun
    <3>3. Saved(SaveCheckpoint("interrupted"), q, t, n)
      BY <3>2, PositionIsRecorded
    <3>4. program'[r] = SaveCheckpoint("interrupted") /\ status'[r] = "saving"
      BY DEF Catch, IInv, Types
    <3> QED BY <2>1, <2>2, <2>3, <3>1, <3>3, <3>4 DEF Begun
  <2>4. CASE s # r
    <3>1. program'[s] = program[s] /\ status'[s] = status[s]
      BY <2>4 DEF Catch, IInv, Types
    <3> QED BY <2>1, <2>2, <3>1 DEF Begun
  <2> QED BY <2>3, <2>4
<1> QED BY <1>2, <1>3, <1>4, <1>6, <1>7, <1>8 DEF IInv, Started

\* A rank at an operation of its program.
LEMMA TakesAt ==
  ASSUME IInv, NEW r \in Ranks, NEW op, Takes(r, op)
  PROVE  \E n \in Nat, p \in Seq(Operation), q \in Seq(CallRecord), s \in Nat :
           /\ Started(n) /\ p = program[r] /\ q = calls[r] /\ s = steps[r]
           /\ p # <<>> /\ Head(p) = op /\ Tail(p) \in Seq(Operation)
           /\ program' = [program EXCEPT ![r] = Tail(p)]
           /\ Recorded(q, s, n)
           /\ \/ status[r] = "training" /\ Position(p, q, s, n)
              \/ status[r] = "saving" /\ Saved(p, q, s, n)
<1>1. status[r] \in {"training", "saving"}
  BY DEF Takes, Runs
<1>2. PICK n \in Nat : Started(n)
  BY <1>1, BegunOnceOneRuns
<1>3. PICK p \in Seq(Operation) : p = program[r]
  BY DEF IInv, Types
<1>4. PICK q \in Seq(CallRecord) : q = calls[r]
  BY DEF IInv, Types
<1>5. PICK s \in Nat : s = steps[r]
  BY DEF IInv, Types
<1>6. p # <<>> /\ Head(p) = op /\ program' = [program EXCEPT ![r] = Tail(p)]
  BY <1>3 DEF Takes
<1>7. Tail(p) \in Seq(Operation)
  BY <1>6
<1>8. Begun(r, n)
  BY <1>2 DEF Started
<1>9. \/ status[r] = "training" /\ Position(p, q, s, n)
      \/ status[r] = "saving" /\ Saved(p, q, s, n)
  BY <1>1, <1>3, <1>4, <1>5, <1>8 DEF Begun
<1>10. Recorded(q, s, n)
  BY <1>4, <1>5, <1>8 DEF Begun
<1> QED BY <1>2, <1>3, <1>4, <1>5, <1>6, <1>7, <1>9, <1>10

\* What it changes is its own.
LEMMA TakesKeeps ==
  ASSUME IInv, NEW r \in Ranks, NEW op, Takes(r, op)
  PROVE  /\ Flags'
         /\ \A s \in Ranks : s # r => program'[s] = program[s]
         /\ status' = status /\ done' = done
         /\ program' \in [Ranks -> Seq(Operation)]
<1>1. PICK p \in Seq(Operation) : program' = [program EXCEPT ![r] = p]
  BY TakesAt
<1>2. UNCHANGED <<share, done, status, signals>>
  BY DEF Takes
<1>3. Flags'
  BY <1>2 DEF IInv, Flags, Alive, signals
<1>4. program \in [Ranks -> Seq(Operation)]
  BY DEF IInv, Types
<1> QED BY <1>1, <1>2, <1>3, <1>4

LEMMA CallKeeps == ASSUME IInv, NEW r \in Ranks, Call(r) PROVE IInv'
<1>1. PICK kind \in Collective :
        /\ Takes(r, kind)
        /\ calls' = [calls EXCEPT ![r] = Append(@, [kind |-> kind, steps |-> steps[r]])]
        /\ UNCHANGED <<steps, disk>>
  BY DEF Call
<1>2. PICK n \in Nat, p \in Seq(Operation), q \in Seq(CallRecord), s \in Nat :
        /\ Started(n) /\ p = program[r] /\ q = calls[r] /\ s = steps[r]
        /\ p # <<>> /\ Head(p) = kind /\ Tail(p) \in Seq(Operation)
        /\ program' = [program EXCEPT ![r] = Tail(p)]
        /\ Recorded(q, s, n)
        /\ \/ status[r] = "training" /\ Position(p, q, s, n)
           \/ status[r] = "saving" /\ Saved(p, q, s, n)
  BY <1>1, TakesAt
<1>3. PICK e \in CallRecord : e = [kind |-> kind, steps |-> s]
  <2>1. [kind |-> kind, steps |-> s] \in CallRecord
    BY DEF CallRecord
  <2> QED BY <2>1
<1>4. PICK b \in Seq(CallRecord) : /\ b = Append(q, e) /\ Len(b) = Len(q) + 1
                                   /\ \A i \in 1..Len(q) : b[i] = q[i]
  BY CallsRemain
<1>5. calls' = [calls EXCEPT ![r] = b] /\ calls \in [Ranks -> Seq(CallRecord)]
  BY <1>1, <1>2, <1>3, <1>4 DEF IInv, Types
<1>6. /\ Flags' /\ status' = status /\ done' = done
      /\ \A t \in Ranks : t # r => program'[t] = program[t]
      /\ program' \in [Ranks -> Seq(Operation)]
  BY <1>1, TakesKeeps
<1>7. Types'
  <2>1. calls' \in [Ranks -> Seq(CallRecord)]
    BY <1>5
  <2> QED BY <1>1, <1>6, <2>1 DEF IInv, Types, Takes, share, signals
<1>8. Matched'
  <2>1. done \in Nat /\ done <= Len(q)
    BY <1>2 DEF IInv, Types, Matched
  <2>2. ASSUME NEW t \in Ranks
        PROVE  /\ done <= Len(calls'[t])
               /\ \A i \in 1..done : calls'[t][i] = calls[t][i]
    <3>1. CASE t = r
      <4>1. calls'[t] = b /\ calls[t] = q
        BY <1>2, <1>5, <3>1
      <4>2. done <= Len(b) /\ \A i \in 1..done : b[i] = q[i]
        BY <1>4, <2>1
      <4> QED BY <4>1, <4>2
    <3>2. CASE t # r
      <4>1. calls'[t] = calls[t]
        BY <1>5, <3>2
      <4> QED BY <4>1 DEF IInv, Matched
    <3> QED BY <3>1, <3>2
  <2>3. ASSUME NEW t \in Ranks, NEW u \in Ranks, NEW i \in 1..done
        PROVE  calls'[t][i].kind = calls'[u][i].kind
    <3>1. calls[t][i].kind = calls[u][i].kind
      BY DEF IInv, Matched
    <3>2. calls'[t][i] = calls[t][i] /\ calls'[u][i] = calls[u][i]
      BY <2>2
    <3> QED BY <3>1, <3>2
  <2>4. done' = done
    BY <1>6
  <2> QED BY <2>2, <2>3, <2>4 DEF Matched
<1>9. Whole(n)'
  BY <1>1, <1>2 DEF Started, Whole
<1>10. ASSUME NEW t \in Ranks PROVE Begun(t, n)'
  <2>1. Begun(t, n) /\ steps'[t] = steps[t] /\ status'[t] = status[t]
    BY <1>1, <1>2, <1>6 DEF Started
  <2>2. CASE t # r
    <3>1. program'[t] = program[t] /\ calls'[t] = calls[t]
      BY <1>5, <1>6, <2>2
    <3> QED BY <2>1, <3>1 DEF Begun
  <2>3. CASE t = r
    <3>1. program'[r] = Tail(p) /\ calls'[r] = b /\ steps'[r] = s /\ status'[r] = status[r]
      BY <1>2, <1>5, <2>1, <2>3 DEF IInv, Types
    <3>2. CASE status[r] = "training"
      <4>1. Position(p, q, s, n) /\ p # <<>> /\ Head(p) \in Collective
        BY <1>1, <1>2, <3>2
      <4>2. Position(Tail(p), Append(q, [kind |-> Head(p), steps |-> s]), s, n)
        BY <4>1, PositionCalls
      <4>3. Position(Tail(p), b, s, n)
        BY <1>2, <1>3, <1>4, <4>2
      <4>4. Recorded(b, s, n)
        BY <4>3, PositionIsRecorded
      <4> QED BY <2>3, <3>1, <3>2, <4>3, <4>4 DEF Begun
    <3>3. CASE status[r] = "saving"
      <4>1. Saved(p, q, s, n) /\ p # <<>> /\ Head(p) \in Collective
        BY <1>1, <1>2, <3>3
      <4>2. Saved(Tail(p), Append(q, [kind |-> Head(p), steps |-> s]), s, n)
        BY <4>1, SavedCalls
      <4>3. Saved(Tail(p), b, s, n)
        BY <1>2, <1>3, <1>4, <4>2
      <4>4. Recorded(b, s, n)
        BY <4>3, SavedIsRecorded
      <4> QED BY <2>3, <3>1, <3>3, <4>3, <4>4 DEF Begun
    <3> QED BY <1>2, <3>2, <3>3
  <2> QED BY <2>2, <2>3
<1> QED BY <1>6, <1>7, <1>8, <1>9, <1>10 DEF IInv, Started

LEMMA OptimizerStepKeeps == ASSUME IInv, NEW r \in Ranks, OptimizerStep(r) PROVE IInv'
<1>1. /\ Takes(r, "update")
      /\ steps' = [steps EXCEPT ![r] = steps[r] + 1]
      /\ UNCHANGED <<calls, disk>>
  BY DEF OptimizerStep
<1>2. PICK n \in Nat, p \in Seq(Operation), q \in Seq(CallRecord), s \in Nat :
        /\ Started(n) /\ p = program[r] /\ q = calls[r] /\ s = steps[r]
        /\ p # <<>> /\ Head(p) = "update" /\ Tail(p) \in Seq(Operation)
        /\ program' = [program EXCEPT ![r] = Tail(p)]
        /\ Recorded(q, s, n)
        /\ \/ status[r] = "training" /\ Position(p, q, s, n)
           \/ status[r] = "saving" /\ Saved(p, q, s, n)
  BY <1>1, TakesAt
<1>3. status[r] = "training" /\ Position(p, q, s, n)
  <2>1. ~Saved(p, q, s, n)
    BY <1>2, SavedWrites DEF Collective
  <2> QED BY <1>2, <2>1
<1>4. Position(Tail(p), q, s + 1, n) /\ s < n
  BY <1>2, <1>3, PositionSteps
<1>5. Recorded(q, s + 1, n)
  <2>1. s + 1 \in Nat
    OBVIOUS
  <2> QED BY <1>4, <2>1, PositionIsRecorded
<1>6. /\ Flags' /\ status' = status /\ done' = done
      /\ \A t \in Ranks : t # r => program'[t] = program[t]
      /\ program' \in [Ranks -> Seq(Operation)]
  BY <1>1, TakesKeeps
<1>7. steps \in [Ranks -> Nat]
  BY DEF IInv, Types
<1>8. Types'
  <2>1. steps' \in [Ranks -> Nat]
    BY <1>1, <1>7
  <2> QED BY <1>1, <1>6, <2>1 DEF IInv, Types, Takes, share, signals
<1>9. Matched'
  <2>1. calls' = calls /\ done' = done
    BY <1>1, <1>6
  <2>2. Matched
    BY DEF IInv
  <2> QED BY <2>1, <2>2 DEF Matched
<1>10. Whole(n)'
  <2>1. disk["epoch"] = Absent
    <3>1. Whole(n)
      BY <1>2 DEF Started
    <3>2. steps[r] # n
      BY <1>2, <1>4
    <3> QED BY <3>1, <3>2 DEF Whole
  <2> QED BY <1>1, <2>1 DEF Whole
<1>11. ASSUME NEW t \in Ranks PROVE Begun(t, n)'
  <2>1. Begun(t, n) /\ calls'[t] = calls[t] /\ status'[t] = status[t]
    BY <1>1, <1>2, <1>6 DEF Started
  <2>2. CASE t # r
    <3>1. program'[t] = program[t] /\ steps'[t] = steps[t]
      BY <1>1, <1>6, <1>7, <2>2
    <3> QED BY <2>1, <3>1 DEF Begun
  <2>3. CASE t = r
    <3>1. program'[r] = Tail(p) /\ calls'[r] = q /\ steps'[r] = s + 1 /\ status'[r] = "training"
      BY <1>1, <1>2, <1>3, <1>7, <2>1, <2>3 DEF IInv, Types
    <3> QED BY <1>4, <1>5, <2>3, <3>1 DEF Begun
  <2> QED BY <2>2, <2>3
<1> QED BY <1>6, <1>8, <1>9, <1>10, <1>11 DEF IInv, Started

LEMMA WriteCheckpointKeeps == ASSUME IInv, NEW r \in Ranks, WriteCheckpoint(r) PROVE IInv'
<1>1. PICK label \in {"epoch", "interrupted"} :
        /\ Takes(r, label)
        /\ disk' = IF r = 0
                   THEN [disk EXCEPT ![label] = [s \in Ranks |-> calls[s][Len(calls[0])].steps]]
                   ELSE disk
        /\ UNCHANGED <<calls, steps>>
  BY DEF WriteCheckpoint
<1>2. PICK n \in Nat, p \in Seq(Operation), q \in Seq(CallRecord), s \in Nat :
        /\ Started(n) /\ p = program[r] /\ q = calls[r] /\ s = steps[r]
        /\ p # <<>> /\ Head(p) = label /\ Tail(p) \in Seq(Operation)
        /\ program' = [program EXCEPT ![r] = Tail(p)]
        /\ Recorded(q, s, n)
        /\ \/ status[r] = "training" /\ Position(p, q, s, n)
           \/ status[r] = "saving" /\ Saved(p, q, s, n)
  BY <1>1, TakesAt
<1>3. label \notin Collective
  BY <1>1 DEF Collective
<1>4. \/ /\ status[r] = "training" /\ label = "epoch" /\ Len(q) = n + 2
         /\ CallsOfRun(q, Len(q), n) /\ Position(Tail(p), q, s, n)
      \/ status[r] = "saving" /\ label = "interrupted" /\ Saved(Tail(p), q, s, n)
  <2>1. CASE status[r] = "training" /\ Position(p, q, s, n)
    <3>1. Head(p) \in {"epoch", "interrupted"}
      BY <1>1, <1>2
    <3> QED BY <1>2, <2>1, <3>1, PositionWrites
  <2>2. CASE status[r] = "saving" /\ Saved(p, q, s, n)
    BY <1>2, <1>3, <2>2, SavedWrites
  <2> QED BY <1>2, <2>1, <2>2
<1>5. /\ Flags' /\ status' = status /\ done' = done
      /\ \A t \in Ranks : t # r => program'[t] = program[t]
      /\ program' \in [Ranks -> Seq(Operation)]
  BY <1>1, TakesKeeps
<1>6. disk = [c \in {"epoch", "interrupted"} |-> disk[c]]
  BY DEF IInv, Types
<1>7. Types'
  <2>1. disk' = [c \in {"epoch", "interrupted"} |-> disk'[c]]
    BY <1>1, <1>6
  <2> QED BY <1>1, <1>5, <2>1 DEF IInv, Types, Takes, share, signals
<1>8. Matched'
  <2>1. calls' = calls /\ done' = done
    BY <1>1, <1>5
  <2>2. Matched
    BY DEF IInv
  <2> QED BY <2>1, <2>2 DEF Matched
<1>9. Whole(n)'
  <2>1. CASE r = 0 /\ label = "epoch"
    <3>1. Len(q) = n + 2 /\ CallsOfRun(q, n + 2, n)
      BY <1>1, <1>4, <2>1
    <3>2. q # <<>> /\ Last(q) = q[n + 2]
      BY <3>1 DEF Last
    <3>3. q[n + 2].kind = "gather"
      <4>1. n + 2 \in 1..(n + 2)
        OBVIOUS
      <4> QED BY <3>1, <4>1 DEF CallsOfRun
    <3>4. n + 2 <= done
      <4>1. ~Waits(r)
        BY <1>1 DEF Takes
      <4>2. ~(done < n + 2)
        BY <1>2, <3>1, <3>2, <3>3, <4>1 DEF Waits
      <4>3. done \in Nat
        BY DEF IInv, Types
      <4> QED BY <4>2, <4>3
    <3>5. ASSUME NEW t \in Ranks PROVE steps[t] = n /\ calls[t][n + 2].steps = n
      <4>1. PICK o \in Seq(CallRecord), w \in Nat : o = calls[t] /\ w = steps[t]
        BY DEF IInv, Types
      <4>2. Recorded(o, w, n)
        BY <1>2, <4>1 DEF Started, Begun
      <4>3. n + 2 <= Len(o)
        <5>1. done <= Len(o) /\ done \in Nat
          BY <4>1 DEF IInv, Matched, Types
        <5>2. Len(o) \in Nat
          OBVIOUS
        <5> QED BY <3>4, <5>1, <5>2
      <4>4. \A i \in 1..(n + 2) : o[i].kind = q[i].kind
        <5>1. \A i \in 1..(n + 2) : i \in 1..done
          <6>1. done \in Nat
            BY DEF IInv, Types
          <6> QED BY <3>4, <6>1
        <5> QED BY <1>2, <4>1, <5>1 DEF IInv, Matched
      <4>5. w = n /\ o[n + 2].steps = n
        BY <3>1, <4>2, <4>3, <4>4, MatchedIsWhole
      <4> QED BY <4>1, <4>5
    <3>6. disk'["epoch"] = [t \in Ranks |-> n]
      <4>1. disk'["epoch"] = [t \in Ranks |-> calls[t][n + 2].steps]
        BY <1>1, <1>2, <1>6, <2>1, <3>1
      <4> QED BY <3>5, <4>1
    <3>7. \A t \in Ranks : steps'[t] = n
      BY <1>1, <3>5
    <3> QED BY <3>6, <3>7 DEF Whole
  <2>2. CASE ~(r = 0 /\ label = "epoch")
    <3>1. disk'["epoch"] = disk["epoch"]
      BY <1>1, <1>6, <2>2
    <3>2. Whole(n)
      BY <1>2 DEF Started
    <3> QED BY <1>1, <3>1, <3>2 DEF Whole
  <2> QED BY <2>1, <2>2
<1>10. ASSUME NEW t \in Ranks PROVE Begun(t, n)'
  <2>1. Begun(t, n) /\ calls'[t] = calls[t] /\ status'[t] = status[t] /\ steps'[t] = steps[t]
    BY <1>1, <1>2, <1>5 DEF Started
  <2>2. CASE t # r
    <3>1. program'[t] = program[t]
      BY <1>5, <2>2
    <3> QED BY <2>1, <3>1 DEF Begun
  <2>3. CASE t = r
    <3>1. program'[r] = Tail(p) /\ calls'[r] = q /\ steps'[r] = s /\ status'[r] = status[r]
      BY <1>2, <2>1, <2>3 DEF IInv, Types
    <3> QED BY <1>2, <1>4, <2>1, <2>3, <3>1 DEF Begun
  <2> QED BY <2>2, <2>3
<1> QED BY <1>5, <1>7, <1>8, <1>9, <1>10 DEF IInv, Started

LEMMA NextKeeps == ASSUME IInv, [Next]_vars PROVE IInv'
<1>1. CASE UNCHANGED vars
  <2>1. Types' /\ Flags' /\ StatusMoves /\ UNCHANGED share /\ UNCHANGED machine
    BY <1>1 DEF vars, share, machine, signals, IInv, Types, Flags, Alive, StatusMoves
  <2> QED BY <2>1, StatusKeeps
<1>2. CASE Start \/ Complete \/ Press
  BY <1>2, StartKeeps, CompleteKeeps, PressKeeps
<1>3. ASSUME NEW r \in Ranks,
             Call(r) \/ OptimizerStep(r) \/ WriteCheckpoint(r) \/ Catch(r)
      PROVE  IInv'
  BY <1>3, CallKeeps, OptimizerStepKeeps, WriteCheckpointKeeps, CatchKeeps
<1>4. ASSUME NEW r \in Ranks,
             \/ Return(r) \/ Resend(r) \/ Deliver(r) \/ DeliverDefault(r) \/ Handle(r)
             \/ Watchdog(r)
      PROVE  IInv'
  BY <1>4, ReturnKeeps, ResendKeeps, DeliverKeeps, DeliverDefaultKeeps, HandleKeeps, WatchdogKeeps
<1> QED BY <1>1, <1>2, <1>3, <1>4 DEF Next

-----------------------------------------------------------------------------
(* The theorems.                                                           *)

LEMMA InvIsSafe == ASSUME IInv PROVE Safe
<1>1. TypeOK
  <2>1. ASSUME NEW r \in Ranks PROVE Range(calls[r]) \subseteq [kind : Collective, steps : Nat]
    <3>1. PICK q \in Seq(CallRecord) : q = calls[r]
      BY DEF IInv, Types
    <3>2. \A i \in DOMAIN q : q[i] \in CallRecord
      OBVIOUS
    <3> QED BY <3>1, <3>2 DEF Range, CallRecord
  <2> QED BY <2>1 DEF IInv, Types, Flags, Statuses, TypeOK
<1>2. EpochIsWhole
  <2>1. SUFFICES ASSUME disk["epoch"] # Absent, NEW r \in Ranks, NEW s \in Ranks
                 PROVE  /\ disk["epoch"][r] = disk["epoch"][s]
                        /\ disk["epoch"][r] = steps[r]
    BY DEF EpochIsWhole
  <2>2. ~Loading
    BY <2>1 DEF Loading
  <2>3. PICK n \in Nat : Started(n)
    BY <2>2 DEF IInv
  <2>4. disk["epoch"] = [t \in Ranks |-> n] /\ steps[r] = n
    BY <2>1, <2>3 DEF Started, Whole
  <2> QED BY <2>4
<1> QED BY <1>1, <1>2 DEF Safe

\* The checkpoint of an epoch holds every shard after the epoch's last step,
\* whichever ranks were interrupted, however often and wherever they were, for
\* every number of ranks and every data set; and the handlers, their locks and
\* the watchdogs are in order (run_training, save_checkpoint, _handler).
THEOREM DistributedSafe == Spec => []Safe
<1>1. Init => IInv
  BY InitHolds
<1>2. IInv /\ [Next]_vars => IInv'
  BY NextKeeps
<1>3. IInv => Safe
  BY InvIsSafe
<1> QED BY <1>1, <1>2, <1>3, PTL DEF Spec
=============================================================================
