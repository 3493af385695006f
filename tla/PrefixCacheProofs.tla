-------------------------- MODULE PrefixCacheProofs --------------------------
(***************************************************************************)
(* The free list, the prefix cache, the reference counts and the tables of *)
(* the requests always agree, whatever the requests, their prompts, the    *)
(* sizes, the number of steps in flight and the scheduling policy: blocks  *)
(* are shared, evicted, preempted, freed and found again, and no request   *)
(* frees or takes a block that is not there.                               *)
(*                                                                         *)
(* The module goes up the layers of the code: the linked list of free      *)
(* blocks against the sequence it stands for, the pool against the list    *)
(* and the cache, the tables of the requests against the pool, and last    *)
(* the loops of schedule(), each iteration of which keeps the agreement.   *)
(***************************************************************************)
EXTENDS PrefixCache, FiniteSetTheorems, SequenceTheorems, WellFoundedInduction, TLAPS

-----------------------------------------------------------------------------
(* Sets of numbers and finite sets.                                        *)

\* A non-empty set of numbers has a least one.
LEMMA LeastNat ==
  ASSUME NEW N, N \subseteq Nat, N # {}
  PROVE  \E m \in N : \A n \in N : m <= n
<1> DEFINE Less == {ss \in Nat \X Nat : ss[1] < ss[2]}
<1>1. IsWellFoundedOn(Less, Nat)
  BY NatLessThanWellFounded, Zenon DEF OpToRel
<1>2. \A m, n \in Nat : n < m => <<n, m>> \in Less
  OBVIOUS
<1> HIDE DEF Less
<1>3. PICK m \in N : \A n \in N : ~(<<n, m>> \in Less)
  BY <1>1, WFMin
<1>4. ASSUME NEW n \in N PROVE m <= n
  <2>1. ~(n < m)
    BY <1>2, <1>3
  <2> QED BY <2>1
<1> QED BY <1>4

\* A finite set loses one element.
LEMMA Smaller ==
  ASSUME NEW s, IsFiniteSet(s), NEW x \in s
  PROVE  /\ IsFiniteSet(s \ {x})
         /\ Cardinality(s) \in Nat /\ Cardinality(s \ {x}) \in Nat
         /\ Cardinality(s \ {x}) < Cardinality(s)
<1>1. IsFiniteSet(s \ {x}) /\ Cardinality(s \ {x}) = Cardinality(s) - 1
  BY FS_RemoveElement
<1> QED BY <1>1, FS_CardinalityType

-----------------------------------------------------------------------------
(* Recursions that call themselves once.                                   *)

\* One that comes to an end, because mu decreases, is satisfied by some function.
RecursionStep(stop, base, next, combine, f, x) ==
  IF stop[x] THEN base[x] ELSE combine[x][f[next[x]]]

SolvesUpTo(D, V, mu, stop, base, next, combine, n, f) ==
  /\ f \in [{x \in D : mu[x] <= n} -> V]
  /\ \A x \in D : mu[x] <= n => f[x] = RecursionStep(stop, base, next, combine, f, x)

LEMMA RecursionUpTo ==
  ASSUME NEW D, NEW V, NEW mu \in [D -> Nat], NEW stop \in [D -> BOOLEAN],
         NEW base \in [D -> V], NEW next \in [D -> D], NEW combine \in [D -> [V -> V]],
         \A x \in D : ~stop[x] => mu[next[x]] < mu[x]
  PROVE  \A n \in Nat : \E f : SolvesUpTo(D, V, mu, stop, base, next, combine, n, f)
<1> DEFINE Bad == {n \in Nat : ~ \E f : SolvesUpTo(D, V, mu, stop, base, next, combine, n, f)}
<1>1. SUFFICES ASSUME Bad # {} PROVE FALSE
  OBVIOUS
<1>2. Bad \subseteq Nat
  OBVIOUS
<1> HIDE DEF Bad
<1>3. PICK m \in Bad : \A k \in Bad : m <= k
  BY <1>1, <1>2, LeastNat
<1>4. m \in Nat /\ ~ \E f : SolvesUpTo(D, V, mu, stop, base, next, combine, m, f)
  BY <1>3 DEF Bad
<1>5. PICK g : m > 0 => SolvesUpTo(D, V, mu, stop, base, next, combine, m - 1, g)
  <2>1. CASE m = 0
    BY <2>1
  <2>2. CASE m > 0
    <3>1. m - 1 \in Nat /\ m - 1 \notin Bad
      BY <1>3, <1>4, <2>2
    <3> QED BY <3>1 DEF Bad
  <2> QED BY <2>1, <2>2, <1>4
<1> DEFINE h == [x \in {y \in D : mu[y] <= m} |-> RecursionStep(stop, base, next, combine, g, x)]
<1>6. ASSUME NEW x \in D, mu[x] <= m, ~stop[x]
      PROVE  /\ next[x] \in D /\ mu[next[x]] <= m /\ m > 0 /\ mu[next[x]] <= m - 1
  <2>1. mu[x] \in Nat /\ mu[next[x]] \in Nat /\ mu[next[x]] < mu[x] /\ next[x] \in D
    BY <1>6
  <2> QED BY <2>1, <1>4, <1>6
<1>7. \A x \in D : mu[x] <= m => h[x] \in V
  <2>1. SUFFICES ASSUME NEW x \in D, mu[x] <= m PROVE h[x] \in V
    OBVIOUS
  <2>2. CASE stop[x]
    BY <2>1, <2>2 DEF RecursionStep
  <2>3. CASE ~stop[x]
    <3>1. next[x] \in D /\ m > 0 /\ mu[next[x]] <= m - 1
      BY <1>6, <2>1, <2>3
    <3>2. g[next[x]] \in V
      BY <1>5, <3>1 DEF SolvesUpTo
    <3>3. combine[x][g[next[x]]] \in V
      BY <3>2
    <3> QED BY <2>1, <2>3, <3>3 DEF RecursionStep
  <2> QED BY <2>2, <2>3
<1>8. \A x \in D : mu[x] <= m => h[x] = RecursionStep(stop, base, next, combine, h, x)
  <2>1. SUFFICES ASSUME NEW x \in D, mu[x] <= m
                 PROVE  h[x] = RecursionStep(stop, base, next, combine, h, x)
    OBVIOUS
  <2>2. CASE stop[x]
    BY <2>1, <2>2 DEF RecursionStep
  <2>3. CASE ~stop[x]
    <3>1. next[x] \in D /\ m > 0 /\ mu[next[x]] <= m - 1 /\ mu[next[x]] <= m
      BY <1>6, <2>1, <2>3
    <3>2. g[next[x]] = RecursionStep(stop, base, next, combine, g, next[x])
      BY <1>5, <3>1 DEF SolvesUpTo
    <3>3. h[next[x]] = g[next[x]]
      BY <3>1, <3>2
    <3> QED BY <2>1, <2>3, <3>3 DEF RecursionStep
  <2> QED BY <2>2, <2>3
<1>9. h \in [{x \in D : mu[x] <= m} -> V]
  BY <1>7
<1>10. SolvesUpTo(D, V, mu, stop, base, next, combine, m, h)
  <2> HIDE DEF h
  <2> QED BY <1>8, <1>9 DEF SolvesUpTo
<1> QED BY <1>10, <1>4

\* Two solutions agree where both are defined.
LEMMA RecursionAgrees ==
  ASSUME NEW D, NEW V, NEW mu \in [D -> Nat], NEW stop \in [D -> BOOLEAN],
         NEW base \in [D -> V], NEW next \in [D -> D], NEW combine \in [D -> [V -> V]],
         \A x \in D : ~stop[x] => mu[next[x]] < mu[x],
         NEW m \in Nat, NEW n \in Nat, NEW f, NEW g,
         SolvesUpTo(D, V, mu, stop, base, next, combine, m, f),
         SolvesUpTo(D, V, mu, stop, base, next, combine, n, g)
  PROVE  \A x \in D : mu[x] <= m /\ mu[x] <= n => f[x] = g[x]
<1> DEFINE Wrong(x) == mu[x] <= m /\ mu[x] <= n /\ f[x] # g[x]
           Bad == {k \in Nat : \E x \in D : mu[x] = k /\ Wrong(x)}
<1>1. SUFFICES ASSUME Bad # {} PROVE FALSE
  OBVIOUS
<1>2. Bad \subseteq Nat
  OBVIOUS
<1> HIDE DEF Bad
<1>3. PICK k \in Bad : \A i \in Bad : k <= i
  BY <1>1, <1>2, LeastNat
<1>4. PICK x \in D : mu[x] = k /\ Wrong(x)
  BY <1>3 DEF Bad
<1>5. f[x] = RecursionStep(stop, base, next, combine, f, x)
  BY <1>4 DEF SolvesUpTo
<1>6. g[x] = RecursionStep(stop, base, next, combine, g, x)
  BY <1>4 DEF SolvesUpTo
<1>7. ~stop[x]
  BY <1>4, <1>5, <1>6 DEF RecursionStep
<1>8. next[x] \in D /\ mu[next[x]] < mu[x] /\ mu[next[x]] \in Nat /\ mu[x] \in Nat
  BY <1>7
<1>9. mu[next[x]] \notin Bad
  BY <1>3, <1>4, <1>8
<1>10. mu[next[x]] <= m /\ mu[next[x]] <= n
  BY <1>4, <1>8
<1>11. f[next[x]] = g[next[x]]
  BY <1>8, <1>9, <1>10 DEF Bad
<1> QED BY <1>4, <1>5, <1>6, <1>7, <1>11 DEF RecursionStep

WellFounded(D, V, mu, stop, base, next, combine) ==
  /\ mu \in [D -> Nat] /\ stop \in [D -> BOOLEAN] /\ base \in [D -> V]
  /\ next \in [D -> D] /\ combine \in [D -> [V -> V]]
  /\ \A x \in D : ~stop[x] => mu[next[x]] < mu[x]

Solution(D, V, stop, base, next, combine, f) ==
  /\ f \in [D -> V]
  /\ \A x \in D : f[x] = RecursionStep(stop, base, next, combine, f, x)

\* A recursion that comes to an end has a solution.
LEMMA Recursion ==
  ASSUME NEW D, NEW V, NEW mu, NEW stop, NEW base, NEW next, NEW combine,
         WellFounded(D, V, mu, stop, base, next, combine)
  PROVE  \E f : Solution(D, V, stop, base, next, combine, f)
<1>0. /\ mu \in [D -> Nat] /\ stop \in [D -> BOOLEAN] /\ base \in [D -> V]
      /\ next \in [D -> D] /\ combine \in [D -> [V -> V]]
      /\ \A x \in D : ~stop[x] => mu[next[x]] < mu[x]
  BY DEF WellFounded
<1> DEFINE Solves(n, g) == SolvesUpTo(D, V, mu, stop, base, next, combine, n, g)
           At(n) == CHOOSE g : Solves(n, g)
           f == [x \in D |-> At(mu[x])[x]]
<1>1. \A n \in Nat : \E g : Solves(n, g)
  BY <1>0, RecursionUpTo
<1>2. \A n \in Nat : Solves(n, At(n))
  BY <1>1
<1>3. \A m, n \in Nat : \A x \in D : mu[x] <= m /\ mu[x] <= n => At(m)[x] = At(n)[x]
  <2>1. SUFFICES ASSUME NEW m \in Nat, NEW n \in Nat
                 PROVE  \A x \in D : mu[x] <= m /\ mu[x] <= n => At(m)[x] = At(n)[x]
    OBVIOUS
  <2>2. Solves(m, At(m)) /\ Solves(n, At(n))
    BY <1>2
  <2> HIDE DEF At
  <2> QED BY <1>0, <2>2, RecursionAgrees
<1> HIDE DEF At
<1>4. \A x \in D : f[x] = RecursionStep(stop, base, next, combine, f, x) /\ f[x] \in V
  <2>1. SUFFICES ASSUME NEW x \in D
                 PROVE  f[x] = RecursionStep(stop, base, next, combine, f, x) /\ f[x] \in V
    OBVIOUS
  <2>2. mu[x] \in Nat /\ mu[x] <= mu[x]
    BY <1>0
  <2>3. Solves(mu[x], At(mu[x]))
    BY <1>2, <2>2
  <2>4. /\ At(mu[x])[x] = RecursionStep(stop, base, next, combine, At(mu[x]), x)
        /\ At(mu[x])[x] \in V
    BY <2>2, <2>3 DEF SolvesUpTo
  <2>5. CASE stop[x]
    BY <2>4, <2>5 DEF RecursionStep
  <2>6. CASE ~stop[x]
    <3>1. next[x] \in D /\ mu[next[x]] \in Nat /\ mu[next[x]] <= mu[x]
          /\ mu[next[x]] <= mu[next[x]]
      <4>1. next[x] \in D /\ mu[next[x]] \in Nat /\ mu[next[x]] < mu[x]
        BY <1>0, <2>6
      <4> QED BY <4>1, <2>2
    <3>2. At(mu[next[x]])[next[x]] = At(mu[x])[next[x]]
      BY <1>3, <2>2, <3>1
    <3>3. f[next[x]] = At(mu[x])[next[x]]
      BY <3>1, <3>2
    <3> QED BY <2>4, <2>6, <3>3 DEF RecursionStep
  <2> QED BY <2>5, <2>6
<1>5. f \in [D -> V]
  BY <1>4
<1> HIDE DEF f
<1>6. Solution(D, V, stop, base, next, combine, f)
  BY <1>4, <1>5 DEF Solution
<1> QED BY <1>6

-----------------------------------------------------------------------------
(* Folds over a sequence from the left.                                    *)

\* A non-empty set of places in a sequence has a largest one.
LEMMA MaxOfPlaces ==
  ASSUME NEW n \in Nat, NEW s \in SUBSET (1..n), s # {}
  PROVE  Max(s) \in s /\ \A x \in s : x <= Max(s)
<1> DEFINE N == {n - x : x \in s}
<1>1. N \subseteq Nat /\ N # {}
  OBVIOUS
<1>2. PICK m \in N : \A k \in N : m <= k
  BY <1>1, LeastNat, Zenon
<1>3. PICK y \in s : m = n - y
  BY <1>2
<1>4. \A x \in s : x <= y
  <2>1. SUFFICES ASSUME NEW x \in s PROVE x <= y
    OBVIOUS
  <2>2. n - y <= n - x /\ x \in Nat /\ y \in Nat
    BY <1>2, <1>3
  <2> QED BY <2>2
<1>5. \E z \in s : \A x \in s : x <= z
  BY <1>4
<1>6. \A z \in s : (\A x \in s : x <= z) <=> (\A x \in s : z >= x)
  OBVIOUS
<1> QED BY <1>5, <1>6 DEF Max

\* What holds of no place, and of a set of places if it holds without its last
\* one, holds of every set.
LEMMA SubsetInduction ==
  ASSUME NEW n \in Nat, NEW Good, {} \in Good,
         \A s \in SUBSET (1..n) : s # {} /\ s \ {Max(s)} \in Good => s \in Good
  PROVE  \A s \in SUBSET (1..n) : s \in Good
<1>1. ASSUME NEW s \in SUBSET (1..n) PROVE IsFiniteSet(s) /\ Cardinality(s) \in Nat
  <2>1. IsFiniteSet(1..n)
    BY FS_Interval
  <2> QED BY <2>1, FS_Subset, FS_CardinalityType
<1> DEFINE Bad == {k \in Nat : \E s \in SUBSET (1..n) : Cardinality(s) = k /\ s \notin Good}
<1>2. SUFFICES ASSUME Bad # {} PROVE FALSE
  BY <1>1
<1>3. Bad \subseteq Nat
  OBVIOUS
<1>4. PICK k \in Bad : \A i \in Bad : k <= i
  BY <1>2, <1>3, LeastNat, Zenon
<1>5. PICK s \in SUBSET (1..n) : Cardinality(s) = k /\ s \notin Good
  BY <1>4
<1>6. s # {}
  BY <1>5
<1>7. Max(s) \in s
  BY <1>6, MaxOfPlaces
<1>8. Cardinality(s \ {Max(s)}) \in Nat /\ Cardinality(s \ {Max(s)}) < k
  BY <1>1, <1>5, <1>7, Smaller
<1>9. s \ {Max(s)} \in SUBSET (1..n) /\ s \ {Max(s)} \notin Good
  BY <1>5, <1>6
<1>10. Cardinality(s \ {Max(s)}) \in Bad
  BY <1>8, <1>9
<1>11. k \in Nat
  BY <1>4
<1> QED BY <1>4, <1>8, <1>10, <1>11

\* The values a fold may have after the places of s are in V[s].
Advances(n, V, base, step) ==
  /\ base \in V[{}]
  /\ \A s \in SUBSET (1..n) : s # {} => \A v \in V[s \ {Max(s)}] : step[s][v] \in V[s]

FoldGoes(n, V, base, step, g) ==
  /\ g[{}] = base
  /\ \A s \in SUBSET (1..n) :
       s # {} /\ g[s \ {Max(s)}] \in V[s \ {Max(s)}] => g[s] = step[s][g[s \ {Max(s)}]]

\* What a fold reaches after each of its steps satisfies what the steps keep.
LEMMA FoldReaches ==
  ASSUME NEW n \in Nat, NEW V, NEW base, NEW step, NEW g,
         Advances(n, V, base, step), FoldGoes(n, V, base, step, g)
  PROVE  \A s \in SUBSET (1..n) : g[s] \in V[s]
<1> DEFINE Good == {s \in SUBSET (1..n) : g[s] \in V[s]}
<1>1. {} \in Good
  BY DEF Advances, FoldGoes
<1>2. ASSUME NEW s \in SUBSET (1..n), s # {}, s \ {Max(s)} \in Good PROVE s \in Good
  <2>1. g[s \ {Max(s)}] \in V[s \ {Max(s)}]
    BY <1>2
  <2>2. g[s] = step[s][g[s \ {Max(s)}]]
    BY <1>2, <2>1 DEF FoldGoes
  <2>3. step[s][g[s \ {Max(s)}]] \in V[s]
    BY <1>2, <2>1 DEF Advances
  <2> QED BY <2>2, <2>3
<1> HIDE DEF Good
<1>3. \A s \in SUBSET (1..n) : s \in Good
  BY <1>1, <1>2, SubsetInduction
<1> QED BY <1>3 DEF Good

FoldStates(n, V, base, step, g) ==
  /\ g = [s \in SUBSET (1..n) |-> g[s]] /\ g[{}] = base
  /\ \A s \in SUBSET (1..n) : g[s] \in V[s]
  /\ \A s \in SUBSET (1..n) : s # {} => g[s] = step[s][g[s \ {Max(s)}]]

\* The function a fold is written as exists.
LEMMA FoldHasStates ==
  ASSUME NEW n \in Nat, NEW V, NEW base, NEW step, Advances(n, V, base, step)
  PROVE  \E g : FoldStates(n, V, base, step, g)
<1> DEFINE D    == SUBSET (1..n)
           U    == UNION {V[s] : s \in D}
           mu   == [s \in D |-> Cardinality(s)]
           stop == [s \in D |-> s = {}]
           init == [s \in D |-> base]
           next == [s \in D |-> IF s = {} THEN s ELSE s \ {Max(s)}]
           combine == [s \in D |-> [v \in U |-> IF s # {} /\ v \in V[s \ {Max(s)}]
                                                THEN step[s][v] ELSE base]]
<1>1. \A s \in D : IsFiniteSet(s) /\ Cardinality(s) \in Nat
  <2>1. IsFiniteSet(1..n)
    BY FS_Interval
  <2>2. \A s \in D : IsFiniteSet(s)
    BY <2>1, FS_Subset
  <2> QED BY <2>2, FS_CardinalityType
<1>2. \A s \in D : s # {} => Max(s) \in s /\ Max(s) \in 1..n
  BY MaxOfPlaces
<1>3. base \in U
  BY DEF Advances
<1>4. mu \in [D -> Nat] /\ stop \in [D -> BOOLEAN] /\ init \in [D -> U] /\ next \in [D -> D]
  <2> HIDE DEF U
  <2> QED BY <1>1, <1>3
<1>5. combine \in [D -> [U -> U]]
  <2>1. ASSUME NEW s \in D, NEW v \in U, s # {}, v \in V[s \ {Max(s)}]
        PROVE  step[s][v] \in U
    <3>1. step[s][v] \in V[s]
      BY <2>1 DEF Advances
    <3> QED BY <3>1
  <2> HIDE DEF U
  <2> QED BY <1>3, <2>1
<1>6. \A s \in D : ~stop[s] => mu[next[s]] < mu[s]
  <2>1. SUFFICES ASSUME NEW s \in D, s # {} PROVE mu[next[s]] < mu[s]
    OBVIOUS
  <2>2. next[s] = s \ {Max(s)} /\ s \ {Max(s)} \in D
    BY <2>1
  <2>3. IsFiniteSet(s) /\ Max(s) \in s
    BY <1>1, <1>2, <2>1
  <2>4. Cardinality(s \ {Max(s)}) < Cardinality(s)
    BY <2>3, Smaller
  <2> QED BY <2>2, <2>4
<1>7. PICK g : Solution(D, U, stop, init, next, combine, g)
  <2> HIDE DEF D, U, mu, stop, init, next, combine
  <2>1. WellFounded(D, U, mu, stop, init, next, combine)
    BY <1>4, <1>5, <1>6 DEF WellFounded
  <2> QED BY <2>1, Recursion
<1>8. g \in [D -> U] /\ \A s \in D : g[s] = RecursionStep(stop, init, next, combine, g, s)
  BY <1>7 DEF Solution
<1>9. g[{}] = base
  <2>1. {} \in D /\ stop[{}] /\ init[{}] = base
    OBVIOUS
  <2>2. g[{}] = RecursionStep(stop, init, next, combine, g, {})
    BY <1>8, <2>1
  <2> HIDE DEF D, stop, init
  <2> QED BY <2>1, <2>2 DEF RecursionStep
<1>10. ASSUME NEW s \in SUBSET (1..n), s # {}, g[s \ {Max(s)}] \in V[s \ {Max(s)}]
       PROVE  g[s] = step[s][g[s \ {Max(s)}]]
  <2>1. s \in D /\ ~stop[s] /\ next[s] = s \ {Max(s)} /\ s \ {Max(s)} \in D
    BY <1>10
  <2>2. g[s] = combine[s][g[s \ {Max(s)}]]
    BY <1>8, <2>1 DEF RecursionStep
  <2>3. g[s \ {Max(s)}] \in U
    BY <1>8, <2>1
  <2> QED BY <1>10, <2>1, <2>2, <2>3
<1>11. FoldGoes(n, V, base, step, g)
  BY <1>9, <1>10 DEF FoldGoes
<1>12. \A s \in SUBSET (1..n) : g[s] \in V[s]
  BY <1>11, FoldReaches
<1>13. \A s \in SUBSET (1..n) : s # {} => s \ {Max(s)} \in SUBSET (1..n)
  OBVIOUS
<1>14. g = [s \in SUBSET (1..n) |-> g[s]]
  BY <1>8
<1> QED BY <1>9, <1>10, <1>12, <1>13, <1>14 DEF FoldStates

\* What holds at 0, and at i if it held at i - 1, holds up to n.
LEMMA Reaches ==
  ASSUME NEW n \in Nat, NEW Good, 0 \in Good,
         \A i \in 1..n : i - 1 \in Good => i \in Good
  PROVE  \A i \in 0..n : i \in Good
<1> DEFINE Bad == {i \in 0..n : i \notin Good}
<1>1. SUFFICES ASSUME Bad # {} PROVE FALSE
  OBVIOUS
<1>2. Bad \subseteq Nat
  OBVIOUS
<1>3. PICK k \in Bad : \A i \in Bad : k <= i
  BY <1>1, <1>2, LeastNat, Zenon
<1>4. k \in 0..n /\ k \notin Good
  BY <1>3
<1>5. k # 0
  BY <1>4
<1>6. k \in 1..n /\ k - 1 \in 0..n /\ k - 1 < k
  BY <1>4, <1>5
<1>7. k - 1 \notin Bad
  BY <1>3, <1>6
<1>8. k - 1 \in Good
  BY <1>6, <1>7
<1> QED BY <1>4, <1>6, <1>8

-----------------------------------------------------------------------------
(* The list of free blocks.                                                *)

Nodes(B) == B \cup {FakeHead, FakeTail}
Links(B) == Nodes(B) \cup {NoBlock}
QueueOf(B) == [next : [Nodes(B) -> Links(B)], prev : [Nodes(B) -> Links(B)], size : Int]

Distinct(s) == \A i, j \in 1..Len(s) : s[i] = s[j] => i = j
In(s, b)    == \E i \in 1..Len(s) : s[i] = b

\* The i-th node of the list of the blocks of s, its fake ends included.
NodeAt(s, i) == IF i = 0 THEN FakeHead ELSE IF i = Len(s) + 1 THEN FakeTail ELSE s[i]

\* The queue q, of blocks of B, is the list of the blocks of s.
Linked(q, s, B) ==
  /\ B \subseteq Nat /\ q \in QueueOf(B)
  /\ s \in Seq(B) /\ Distinct(s) /\ q.size = Len(s)
  /\ \A i \in 0..Len(s) : q.next[NodeAt(s, i)] = NodeAt(s, i + 1) /\ q.prev[NodeAt(s, i + 1)] = NodeAt(s, i)
  /\ \A b \in B : ~In(s, b) => q.next[b] = NoBlock /\ q.prev[b] = NoBlock

\* The two fake nodes are no blocks, and differ from each other.
LEMMA FakesAreNone ==
  ASSUME NEW B, B \subseteq Nat
  PROVE  /\ FakeHead \notin B /\ FakeTail \notin B /\ NoBlock \notin B
         /\ FakeHead # FakeTail /\ FakeHead # NoBlock /\ FakeTail # NoBlock
         /\ NoBlock \notin Nodes(B)
BY DEF FakeHead, FakeTail, NoBlock, Nodes

LEMMA NodeAtType ==
  ASSUME NEW B, NEW s \in Seq(B)
  PROVE  /\ Len(s) \in Nat
         /\ \A i \in 0..(Len(s) + 1) : NodeAt(s, i) \in Nodes(B)
         /\ \A i \in 1..Len(s) : NodeAt(s, i) = s[i] /\ s[i] \in B
         /\ NodeAt(s, 0) = FakeHead /\ NodeAt(s, Len(s) + 1) = FakeTail
<1>1. PICK n \in Nat : n = Len(s)
  OBVIOUS
<1>2. \A i \in 1..n : s[i] \in B
  BY <1>1
<1>3. \A i \in 1..n : NodeAt(s, i) = s[i]
  BY <1>1 DEF NodeAt
<1>4. NodeAt(s, 0) = FakeHead /\ NodeAt(s, n + 1) = FakeTail
  BY <1>1 DEF NodeAt
<1>5. \A i \in 0..(n + 1) : i = 0 \/ i = n + 1 \/ i \in 1..n
  OBVIOUS
<1> QED BY <1>1, <1>2, <1>3, <1>4, <1>5 DEF Nodes

\* No node is at two places.
LEMMA NodesDiffer ==
  ASSUME NEW B, B \subseteq Nat, NEW s \in Seq(B), Distinct(s)
  PROVE  \A i, j \in 0..(Len(s) + 1) : NodeAt(s, i) = NodeAt(s, j) => i = j
<1>1. PICK n \in Nat : n = Len(s)
  OBVIOUS
<1>2. \A i \in 1..n : NodeAt(s, i) = s[i] /\ s[i] \in B
  BY <1>1, NodeAtType
<1>3. NodeAt(s, 0) = FakeHead /\ NodeAt(s, n + 1) = FakeTail
  BY <1>1, NodeAtType
<1>4. \A i \in 0..(n + 1) : i = 0 \/ i = n + 1 \/ i \in 1..n
  OBVIOUS
<1>5. \A i, j \in 1..n : s[i] = s[j] => i = j
  BY <1>1 DEF Distinct
<1>6. FakeHead \notin B /\ FakeTail \notin B /\ FakeHead # FakeTail
  BY FakesAreNone
<1>7. SUFFICES ASSUME NEW i \in 0..(n + 1), NEW j \in 0..(n + 1), NodeAt(s, i) = NodeAt(s, j)
               PROVE  i = j
  BY <1>1
<1>8. CASE i = 0
  BY <1>2, <1>3, <1>4, <1>6, <1>7, <1>8
<1>9. CASE i = n + 1
  BY <1>2, <1>3, <1>4, <1>6, <1>7, <1>9
<1>10. CASE i \in 1..n
  BY <1>2, <1>3, <1>4, <1>5, <1>6, <1>7, <1>10
<1> QED BY <1>4, <1>8, <1>9, <1>10

\* A queue that is linked is the list it represents.
LEMMA LinkedRepresents ==
  ASSUME NEW q, NEW s, NEW B, Linked(q, s, B)
  PROVE  Represents(q, s)
<1>0. /\ B \subseteq Nat /\ q \in QueueOf(B) /\ s \in Seq(B) /\ Distinct(s) /\ q.size = Len(s)
      /\ \A i \in 0..Len(s) : q.next[NodeAt(s, i)] = NodeAt(s, i + 1) /\ q.prev[NodeAt(s, i + 1)] = NodeAt(s, i)
      /\ \A b \in B : ~In(s, b) => q.next[b] = NoBlock /\ q.prev[b] = NoBlock
  BY DEF Linked
<1>1. PICK n \in Nat : n = Len(s)
  BY <1>0
<1> DEFINE t == <<FakeHead>> \o s \o <<FakeTail>>
<1>2. Len(t) = n + 2 /\ DOMAIN t = 1..(n + 2)
  BY <1>0, <1>1
<1>3. \A i \in 1..(n + 2) : t[i] = NodeAt(s, i - 1)
  <2>1. PICK u \in Seq(B) : u = s
    BY <1>0
  <2>2. ASSUME NEW i \in 1..(n + 2) PROVE (<<FakeHead>> \o u \o <<FakeTail>>)[i] = NodeAt(u, i - 1)
    <3>1. CASE i = 1
      BY <3>1, <1>1, <2>1 DEF NodeAt
    <3>2. CASE i = n + 2
      BY <3>2, <1>1, <2>1 DEF NodeAt
    <3>3. CASE i # 1 /\ i # n + 2
      BY <3>3, <1>1, <2>1 DEF NodeAt
    <3> QED BY <3>1, <3>2, <3>3
  <2> QED BY <2>1, <2>2
<1> HIDE DEF t
<1>4. \A i, j \in DOMAIN t : t[i] = t[j] => i = j
  <2>1. SUFFICES ASSUME NEW i \in 1..(n + 2), NEW j \in 1..(n + 2), t[i] = t[j]
                 PROVE  i = j
    BY <1>2
  <2>2. i - 1 \in 0..(n + 1) /\ j - 1 \in 0..(n + 1) /\ NodeAt(s, i - 1) = NodeAt(s, j - 1)
    BY <1>3, <2>1
  <2>3. i - 1 = j - 1
    BY <1>0, <1>1, <2>2, NodesDiffer
  <2> QED BY <2>3
<1>5. \A i \in 1..(Len(t) - 1) : q.next[t[i]] = t[i + 1] /\ q.prev[t[i + 1]] = t[i]
  <2>1. SUFFICES ASSUME NEW i \in 1..(n + 1)
                 PROVE  q.next[t[i]] = t[i + 1] /\ q.prev[t[i + 1]] = t[i]
    BY <1>2
  <2>2. i - 1 \in 0..n /\ (i - 1) + 1 = i /\ i \in 1..(n + 2) /\ i + 1 \in 1..(n + 2)
        /\ (i + 1) - 1 = i
    OBVIOUS
  <2>3. t[i] = NodeAt(s, i - 1) /\ t[i + 1] = NodeAt(s, i)
    BY <1>3, <2>2
  <2>4. q.next[NodeAt(s, i - 1)] = NodeAt(s, (i - 1) + 1) /\ q.prev[NodeAt(s, (i - 1) + 1)] = NodeAt(s, i - 1)
    BY <1>0, <1>1, <2>2
  <2> QED BY <2>2, <2>3, <2>4
<1>6. \A b \in DOMAIN q.next \ {t[i] : i \in DOMAIN t} : q.next[b] = NoBlock /\ q.prev[b] = NoBlock
  <2>1. SUFFICES ASSUME NEW b \in DOMAIN q.next, \A i \in 1..(n + 2) : t[i] # b
                 PROVE  q.next[b] = NoBlock /\ q.prev[b] = NoBlock
    BY <1>2
  <2>2. b \in Nodes(B)
    BY <1>0, <2>1 DEF QueueOf
  <2>3. t[1] = FakeHead /\ t[n + 2] = FakeTail
    <3>1. 1 \in 1..(n + 2) /\ n + 2 \in 1..(n + 2) /\ (n + 2) - 1 = n + 1
      OBVIOUS
    <3>2. t[1] = NodeAt(s, 0) /\ t[n + 2] = NodeAt(s, n + 1)
      BY <1>3, <3>1
    <3> QED BY <1>0, <1>1, <3>2, NodeAtType
  <2>4. b \in B
    BY <2>1, <2>2, <2>3 DEF Nodes
  <2>5. ~In(s, b)
    <3>1. SUFFICES ASSUME NEW i \in 1..n, s[i] = b PROVE FALSE
      BY <1>1 DEF In
    <3>2. i + 1 \in 1..(n + 2) /\ (i + 1) - 1 = i
      OBVIOUS
    <3>3. t[i + 1] = NodeAt(s, i)
      BY <1>3, <3>2
    <3>4. NodeAt(s, i) = s[i]
      BY <1>0, <1>1, NodeAtType
    <3> QED BY <2>1, <3>1, <3>2, <3>3, <3>4
  <2> QED BY <1>0, <2>4, <2>5
<1> QED BY <1>0, <1>4, <1>5, <1>6 DEF Represents, t

\* The nodes of t are linked in r, and the others have their links of q.
Chained(q, t, r, B) ==
  /\ r \in QueueOf(B) /\ r.size = q.size
  /\ \A i \in 1..(Len(t) - 1) : r.next[t[i]] = t[i + 1] /\ r.prev[t[i + 1]] = t[i]
  /\ \A b \in Nodes(B) : (\A i \in 1..(Len(t) - 1) : t[i] # b) => r.next[b] = q.next[b]
  /\ \A b \in Nodes(B) : (\A i \in 2..Len(t) : t[i] # b) => r.prev[b] = q.prev[b]

\* Chain links the nodes of a sequence in its order and no others.
LEMMA ChainLinks ==
  ASSUME NEW B, NEW q \in QueueOf(B), NEW t \in Seq(Nodes(B)), t # <<>>, Distinct(t)
  PROVE  Chained(q, t, Chain(q, t), B)
<1>1. PICK n \in Nat : n = Len(t)
  OBVIOUS
<1>2. n # 0 /\ DOMAIN t = 1..n
  BY <1>1
<1> DEFINE place(b) == CHOOSE i \in DOMAIN t : t[i] = b
           nodes == {t[i] : i \in DOMAIN t}
           next == [b \in DOMAIN q.next |->
                      IF b \in nodes \ {t[n]} THEN t[place(b) + 1] ELSE q.next[b]]
           prev == [b \in DOMAIN q.prev |->
                      IF b \in nodes \ {t[1]} THEN t[place(b) - 1] ELSE q.prev[b]]
<1>3. q.next \in [Nodes(B) -> Links(B)] /\ q.prev \in [Nodes(B) -> Links(B)]
      /\ DOMAIN q.next = Nodes(B) /\ DOMAIN q.prev = Nodes(B) /\ q.size \in Int
      /\ q = [next |-> q.next, prev |-> q.prev, size |-> q.size]
  BY DEF QueueOf
<1>4. Chain(q, t) = [q EXCEPT !.next = next, !.prev = prev]
  BY <1>1 DEF Chain
<1>5. \A i \in 1..n : t[i] \in Nodes(B) /\ t[i] \in nodes /\ place(t[i]) = i
  <2>1. SUFFICES ASSUME NEW i \in 1..n
                 PROVE  t[i] \in Nodes(B) /\ t[i] \in nodes /\ place(t[i]) = i
    OBVIOUS
  <2>2. t[i] \in Nodes(B) /\ t[i] \in nodes
    BY <1>1, <1>2
  <2>3. place(t[i]) \in 1..n /\ t[place(t[i])] = t[i]
    BY <1>2
  <2> HIDE DEF place
  <2>4. place(t[i]) = i
    BY <1>1, <2>3 DEF Distinct
  <2> QED BY <2>2, <2>4
<1>6. \A i, j \in 1..n : t[i] = t[j] => i = j
  BY <1>1 DEF Distinct
<1>7. \A b \in nodes : \E i \in 1..n : b = t[i]
  BY <1>2
<1> HIDE DEF place, nodes
<1>8. \A i \in 1..(n - 1) : next[t[i]] = t[i + 1] /\ prev[t[i + 1]] = t[i]
  <2>1. SUFFICES ASSUME NEW i \in 1..(n - 1) PROVE next[t[i]] = t[i + 1] /\ prev[t[i + 1]] = t[i]
    OBVIOUS
  <2>2. i \in 1..n /\ i + 1 \in 1..n /\ n \in 1..n /\ 1 \in 1..n /\ i # n /\ i + 1 # 1
        /\ (i + 1) - 1 = i
    BY <1>2
  <2>3. t[i] # t[n] /\ t[i + 1] # t[1]
    BY <1>6, <2>2
  <2>4. t[i] \in nodes \ {t[n]} /\ place(t[i]) = i /\ t[i] \in DOMAIN q.next
    BY <1>3, <1>5, <2>2, <2>3
  <2>5. t[i + 1] \in nodes \ {t[1]} /\ place(t[i + 1]) = i + 1 /\ t[i + 1] \in DOMAIN q.prev
    BY <1>3, <1>5, <2>2, <2>3
  <2> QED BY <2>2, <2>4, <2>5
<1>9. \A b \in Nodes(B) : (\A i \in 1..(n - 1) : t[i] # b) => next[b] = q.next[b]
  <2>1. SUFFICES ASSUME NEW b \in Nodes(B), \A i \in 1..(n - 1) : t[i] # b
                 PROVE  b \notin nodes \ {t[n]}
    BY <1>3
  <2>2. SUFFICES ASSUME NEW i \in 1..n, b = t[i], b # t[n] PROVE FALSE
    BY <1>7
  <2>3. i # n
    BY <2>2
  <2>4. i \in 1..(n - 1)
    BY <2>3
  <2> QED BY <2>1, <2>2, <2>4
<1>10. \A b \in Nodes(B) : (\A i \in 2..n : t[i] # b) => prev[b] = q.prev[b]
  <2>1. SUFFICES ASSUME NEW b \in Nodes(B), \A i \in 2..n : t[i] # b
                 PROVE  b \notin nodes \ {t[1]}
    BY <1>3
  <2>2. SUFFICES ASSUME NEW i \in 1..n, b = t[i], b # t[1] PROVE FALSE
    BY <1>7
  <2>3. i # 1
    BY <2>2
  <2>4. i \in 2..n
    BY <2>3
  <2> QED BY <2>1, <2>2, <2>4
<1>11. next \in [Nodes(B) -> Links(B)]
  <2>1. ASSUME NEW b \in Nodes(B), b \in nodes \ {t[n]} PROVE t[place(b) + 1] \in Links(B)
    <3>1. PICK i \in 1..n : b = t[i]
      BY <1>7, <2>1
    <3>2. i # n /\ place(b) = i
      BY <1>5, <2>1, <3>1
    <3>3. i + 1 \in 1..n
      BY <3>1, <3>2
    <3> QED BY <1>5, <3>2, <3>3 DEF Links
  <2> QED BY <1>3, <2>1
<1>12. prev \in [Nodes(B) -> Links(B)]
  <2>1. ASSUME NEW b \in Nodes(B), b \in nodes \ {t[1]} PROVE t[place(b) - 1] \in Links(B)
    <3>1. PICK i \in 1..n : b = t[i]
      BY <1>7, <2>1
    <3>2. i # 1 /\ place(b) = i
      BY <1>5, <2>1, <3>1
    <3>3. i - 1 \in 1..n
      BY <3>1, <3>2
    <3> QED BY <1>5, <3>2, <3>3 DEF Links
  <2> QED BY <1>3, <2>1
<1> HIDE DEF next, prev
<1>13. Chain(q, t) \in QueueOf(B)
  BY <1>4, <1>11, <1>12 DEF QueueOf
<1>14. Chain(q, t).next = next /\ Chain(q, t).prev = prev /\ Chain(q, t).size = q.size
  BY <1>4 DEF QueueOf
<1> QED BY <1>1, <1>8, <1>9, <1>10, <1>13, <1>14 DEF Chained

\* The nodes that following the links visits.
Visits(q, B, n, F) ==
  /\ F \in [0..n -> Links(B)] /\ F[0] = FakeHead
  /\ \A i \in 1..n : F[i] = IF F[i - 1] = NoBlock THEN NoBlock ELSE q.next[F[i - 1]]

\* FirstBlocks follows the links.
LEMMA FirstBlocksVisit ==
  ASSUME NEW B, NEW q \in QueueOf(B), NEW n \in Nat
  PROVE  \E F : Visits(q, B, n, F) /\ FirstBlocks(q, n) = [i \in 1..n |-> F[i]]
<1> DEFINE D == 0..n
           mu == [i \in D |-> i]
           stop == [i \in D |-> i = 0]
           base == [i \in D |-> FakeHead]
           next == [i \in D |-> IF i = 0 THEN 0 ELSE i - 1]
           combine == [i \in D |-> [v \in Links(B) |-> IF v = NoBlock THEN NoBlock ELSE q.next[v]]]
           IsVisit(g) == g = [i \in D |-> IF i = 0 THEN FakeHead
                                          ELSE IF g[i - 1] = NoBlock THEN NoBlock
                                          ELSE q.next[g[i - 1]]]
           F == CHOOSE g : IsVisit(g)
<1>1. FirstBlocks(q, n) = [i \in 1..n |-> F[i]]
  BY DEF FirstBlocks
<1>2. q.next \in [Nodes(B) -> Links(B)]
  BY DEF QueueOf
<1>3. \A v \in Links(B) : v # NoBlock => v \in Nodes(B) /\ q.next[v] \in Links(B)
  BY <1>2 DEF Links
<1>4. FakeHead \in Links(B) /\ NoBlock \in Links(B) /\ FakeHead # NoBlock
  BY DEF Links, Nodes, FakeHead, NoBlock
<1>5. mu \in [D -> Nat] /\ stop \in [D -> BOOLEAN] /\ base \in [D -> Links(B)]
      /\ next \in [D -> D] /\ combine \in [D -> [Links(B) -> Links(B)]]
      /\ \A x \in D : ~stop[x] => mu[next[x]] < mu[x]
  <2>1. mu \in [D -> Nat] /\ stop \in [D -> BOOLEAN] /\ base \in [D -> Links(B)]
    BY <1>4
  <2>2. \A i \in D : (IF i = 0 THEN 0 ELSE i - 1) \in D
    OBVIOUS
  <2>3. next \in [D -> D]
    BY <2>2
  <2>4. [v \in Links(B) |-> IF v = NoBlock THEN NoBlock ELSE q.next[v]]
        \in [Links(B) -> Links(B)]
    BY <1>3, <1>4
  <2>5. combine \in [D -> [Links(B) -> Links(B)]]
    BY <2>4
  <2>6. ASSUME NEW x \in D, ~stop[x] PROVE next[x] = x - 1 /\ next[x] \in D /\ x - 1 < x
    <3>1. x \in D /\ x # 0
      BY <2>6, Zenon
    <3>2. next[x] \in D
      BY <2>3, <3>1
    <3>3. next[x] = x - 1
      BY <3>1
    <3> QED BY <3>1, <3>2, <3>3
  <2>7. \A x \in D : mu[x] = x
    OBVIOUS
  <2> HIDE DEF mu, stop, base, next, combine
  <2>8. \A x \in D : ~stop[x] => mu[next[x]] < mu[x]
    BY <2>6, <2>7
  <2> QED BY <2>1, <2>3, <2>5, <2>8
<1>6. PICK g : Solution(D, Links(B), stop, base, next, combine, g)
  <2> HIDE DEF D, mu, stop, base, next, combine
  <2>1. WellFounded(D, Links(B), mu, stop, base, next, combine)
    BY <1>5 DEF WellFounded
  <2> QED BY <2>1, Recursion
<1>7. g \in [D -> Links(B)] /\ \A i \in D : g[i] = RecursionStep(stop, base, next, combine, g, i)
  BY <1>6 DEF Solution
<1>8. IsVisit(g)
  <2>1. \A i \in D : g[i] = IF i = 0 THEN FakeHead
                            ELSE IF g[i - 1] = NoBlock THEN NoBlock
                            ELSE q.next[g[i - 1]]
    <3>1. SUFFICES ASSUME NEW i \in D
                   PROVE  g[i] = IF i = 0 THEN FakeHead
                                 ELSE IF g[i - 1] = NoBlock THEN NoBlock
                                 ELSE q.next[g[i - 1]]
      OBVIOUS
    <3>2. g[i] = RecursionStep(stop, base, next, combine, g, i)
      BY <1>7
    <3>3. CASE i = 0
      BY <3>2, <3>3 DEF RecursionStep
    <3>4. CASE i # 0
      <4>0. i - 1 \in D
        BY <3>4
      <4>1. next[i] = i - 1 /\ i - 1 \in D /\ ~stop[i]
        BY <3>4, <4>0
      <4>2. g[i - 1] \in Links(B)
        BY <1>7, <4>1
      <4>3. g[i] = combine[i][g[i - 1]]
        BY <3>2, <4>1 DEF RecursionStep
      <4> QED BY <3>4, <4>2, <4>3
    <3> QED BY <3>3, <3>4
  <2> QED BY <1>7, <2>1
<1>9. IsVisit(F)
  BY <1>8
<1> HIDE DEF F
<1>10. F[0] = FakeHead
  BY <1>9
<1>11. \A i \in 1..n : F[i] = IF F[i - 1] = NoBlock THEN NoBlock ELSE q.next[F[i - 1]]
  <2>1. SUFFICES ASSUME NEW i \in 1..n
                 PROVE  F[i] = IF F[i - 1] = NoBlock THEN NoBlock ELSE q.next[F[i - 1]]
    OBVIOUS
  <2>2. i \in D /\ i # 0
    OBVIOUS
  <2> QED BY <1>9, <2>2
<1> DEFINE Good == {i \in D : F[i] \in Links(B)}
<1>12. \A i \in 0..n : i \in Good
  <2>1. 0 \in Good
    BY <1>4, <1>10
  <2>2. ASSUME NEW i \in 1..n, i - 1 \in Good PROVE i \in Good
    <3>1. F[i - 1] \in Links(B) /\ i \in D
      BY <2>2
    <3> QED BY <1>3, <1>4, <1>11, <3>1
  <2> HIDE DEF Good
  <2> QED BY <2>1, <2>2, Reaches
<1>13. F \in [D -> Links(B)]
  BY <1>9, <1>12
<1> QED BY <1>1, <1>10, <1>11, <1>13 DEF Visits

\* From the head of a list the links lead through its blocks.
LEMMA FirstBlocksAre ==
  ASSUME NEW q, NEW s, NEW B, Linked(q, s, B), NEW n \in 0..Len(s)
  PROVE  FirstBlocks(q, n) = [i \in 1..n |-> s[i]]
<1>0. /\ B \subseteq Nat /\ q \in QueueOf(B) /\ s \in Seq(B) /\ Distinct(s) /\ q.size = Len(s)
      /\ \A i \in 0..Len(s) : q.next[NodeAt(s, i)] = NodeAt(s, i + 1)
  BY DEF Linked
<1>1. Len(s) \in Nat /\ n \in Nat /\ n <= Len(s)
  BY <1>0
<1>2. PICK F : Visits(q, B, n, F) /\ FirstBlocks(q, n) = [i \in 1..n |-> F[i]]
  BY <1>0, <1>1, FirstBlocksVisit
<1> DEFINE Good == {i \in 0..n : F[i] = NodeAt(s, i)}
<1>3. \A i \in 0..n : i \in Good
  <2>1. 0 \in Good
    BY <1>0, <1>1, <1>2, NodeAtType DEF Visits
  <2>2. ASSUME NEW i \in 1..n, i - 1 \in Good PROVE i \in Good
    <3>1. i \in 0..n /\ i - 1 \in 0..Len(s) /\ (i - 1) + 1 = i /\ i - 1 \in 0..(Len(s) + 1)
      BY <1>1
    <3>2. F[i - 1] = NodeAt(s, i - 1)
      BY <2>2
    <3>3. NodeAt(s, i - 1) \in Nodes(B)
      BY <1>0, <3>1, NodeAtType
    <3>4. F[i - 1] # NoBlock
      BY <1>0, <3>2, <3>3, FakesAreNone
    <3>5. F[i] = q.next[NodeAt(s, i - 1)]
      BY <1>2, <3>2, <3>4 DEF Visits
    <3> QED BY <1>0, <3>1, <3>5
  <2> HIDE DEF Good
  <2> QED BY <1>1, <2>1, <2>2, Reaches
<1>4. \A i \in 1..n : F[i] = s[i]
  <2>1. SUFFICES ASSUME NEW i \in 1..n PROVE F[i] = s[i]
    OBVIOUS
  <2>2. i \in 0..n /\ i \in 1..Len(s)
    BY <1>1
  <2> QED BY <1>0, <1>3, <2>2, NodeAtType
<1> QED BY <1>2, <1>4

\* The blocks of S lose their links.
LEMMA UnlinkIs ==
  ASSUME NEW B, NEW q \in QueueOf(B), NEW S
  PROVE  /\ Unlink(q, S) \in QueueOf(B) /\ Unlink(q, S).size = q.size
         /\ \A b \in Nodes(B) : /\ b \in S => Unlink(q, S).next[b] = NoBlock
                                              /\ Unlink(q, S).prev[b] = NoBlock
                                /\ b \notin S => Unlink(q, S).next[b] = q.next[b]
                                                 /\ Unlink(q, S).prev[b] = q.prev[b]
<1> DEFINE next == [b \in DOMAIN q.next |-> IF b \in S THEN NoBlock ELSE q.next[b]]
           prev == [b \in DOMAIN q.prev |-> IF b \in S THEN NoBlock ELSE q.prev[b]]
<1>1. q.next \in [Nodes(B) -> Links(B)] /\ q.prev \in [Nodes(B) -> Links(B)]
  BY DEF QueueOf
<1>2. next \in [Nodes(B) -> Links(B)] /\ prev \in [Nodes(B) -> Links(B)]
  BY <1>1 DEF Links
<1>3. Unlink(q, S) = [q EXCEPT !.next = next, !.prev = prev]
  BY DEF Unlink
<1>4. Unlink(q, S) \in QueueOf(B)
  BY <1>2, <1>3 DEF QueueOf
<1>5. Unlink(q, S).next = next /\ Unlink(q, S).prev = prev /\ Unlink(q, S).size = q.size
  BY <1>3 DEF QueueOf
<1> QED BY <1>1, <1>4, <1>5

\* The same links, another counter.
Resized(q, k, r, B) ==
  r \in QueueOf(B) /\ r.size = k /\ r.next = q.next /\ r.prev = q.prev

LEMMA Resizes ==
  ASSUME NEW B, NEW q \in QueueOf(B), NEW k \in Int
  PROVE  /\ Resized(q, q.size + k, [q EXCEPT !.size = @ + k], B)
         /\ Resized(q, q.size - k, [q EXCEPT !.size = @ - k], B)
BY DEF QueueOf, Resized

\* The list s without its first n blocks.
DropFirst(s, n, t) ==
  Len(t) = Len(s) - n /\ \A i \in 1..Len(t) : t[i] = s[n + i]

\* popleft_n: the list without its first n blocks.
LEMMA PopLeftNLinks ==
  ASSUME NEW q, NEW s, NEW B, Linked(q, s, B), NEW n \in 0..Len(s),
         NEW t \in Seq(B), DropFirst(s, n, t)
  PROVE  Linked(PopLeftN(q, n), t, B)
<1>0. /\ B \subseteq Nat /\ q \in QueueOf(B) /\ s \in Seq(B) /\ Distinct(s) /\ q.size = Len(s)
      /\ \A i \in 0..Len(s) : q.next[NodeAt(s, i)] = NodeAt(s, i + 1)
                              /\ q.prev[NodeAt(s, i + 1)] = NodeAt(s, i)
      /\ \A b \in B : ~In(s, b) => q.next[b] = NoBlock /\ q.prev[b] = NoBlock
  BY DEF Linked
<1>1. PICK l \in Nat : l = Len(s)
  BY <1>0
<1>2. n \in 0..l /\ n \in Nat
  BY <1>1
<1>3. PICK m \in Nat : m = l - n
  BY <1>2
<1>4. Len(t) = m /\ \A i \in 1..m : t[i] = s[n + i] /\ n + i \in 1..l
  BY <1>1, <1>2, <1>3 DEF DropFirst
<1>5. CASE n = 0
  <2>1. m = l
    BY <1>3, <1>5
  <2>2. \A i \in 1..l : t[i] = s[i]
    BY <1>4, <1>5, <2>1
  <2>3. t = s
    BY <1>0, <1>1, <1>4, <2>1, <2>2, SeqEqual
  <2> QED BY <1>5, <2>3 DEF PopLeftN
<1>6. CASE n # 0
  <2> DEFINE popped == FirstBlocks(q, n)
             after  == NodeAt(s, n + 1)
             S      == {s[i] : i \in 1..n}
             q1     == Unlink(q, S)
             q2     == [q1 EXCEPT !.size = @ - n]
             c      == <<FakeHead, after>>
  <2>1. popped = [i \in 1..n |-> s[i]]
    BY <1>1, FirstBlocksAre
  <2>2. n \in 1..n /\ n \in 0..l /\ n \in 1..l
    BY <1>2, <1>6
  <2>3. q.next[popped[n]] = after
    <3>1. popped[n] = s[n]
      BY <2>1, <2>2
    <3>2. s[n] = NodeAt(s, n)
      BY <1>0, <1>1, <2>2, NodeAtType
    <3> HIDE DEF popped
    <3> QED BY <1>0, <1>1, <2>2, <3>1, <3>2
  <2>4. {popped[i] : i \in 1..n} = S
    BY <2>1
  <2>5. PopLeftN(q, n) = Chain(q2, c)
    BY <1>6, <2>3, <2>4 DEF PopLeftN
  <2>6. \A i \in 0..(l + 1) : NodeAt(s, i) \in Nodes(B)
    BY <1>0, <1>1, NodeAtType
  <2>7. \A i, j \in 0..(l + 1) : NodeAt(s, i) = NodeAt(s, j) => i = j
    BY <1>0, <1>1, NodesDiffer
  <2>8. \A i \in 0..(l + 1) : NodeAt(s, i) \in S => i \in 1..n
    <3>1. SUFFICES ASSUME NEW i \in 0..(l + 1), NEW j \in 1..n, NodeAt(s, i) = s[j]
                   PROVE  i \in 1..n
      OBVIOUS
    <3>2. j \in 0..(l + 1) /\ j \in 1..l
      BY <1>2
    <3>3. s[j] = NodeAt(s, j)
      BY <1>0, <1>1, <3>2, NodeAtType
    <3> QED BY <2>7, <3>1, <3>2, <3>3
  <2>9. \A i \in 0..(m + 1) : i > 0 => NodeAt(t, i) = NodeAt(s, n + i) /\ n + i \in 0..(l + 1)
    <3>1. SUFFICES ASSUME NEW i \in 0..(m + 1), i > 0
                   PROVE  NodeAt(t, i) = NodeAt(s, n + i) /\ n + i \in 0..(l + 1)
      OBVIOUS
    <3>2. n + i \in 0..(l + 1)
      BY <1>2, <1>3
    <3>3. CASE i = m + 1
      <4>1. n + i = l + 1
        BY <1>2, <1>3, <3>3
      <4> QED BY <1>0, <1>1, <1>4, <3>2, <3>3, <4>1, NodeAtType
    <3>4. CASE i # m + 1
      <4>1. i \in 1..m /\ n + i \in 1..l
        BY <1>4, <3>1, <3>4
      <4> QED BY <1>0, <1>1, <1>4, <3>2, <4>1, NodeAtType
    <3> QED BY <3>2, <3>3, <3>4
  <2>10. NodeAt(t, 0) = FakeHead /\ NodeAt(s, 0) = FakeHead
    BY <1>0, NodeAtType
  <2>11. q1 \in QueueOf(B) /\ q1.size = l
         /\ \A b \in Nodes(B) : /\ b \in S => q1.next[b] = NoBlock /\ q1.prev[b] = NoBlock
                                /\ b \notin S => q1.next[b] = q.next[b] /\ q1.prev[b] = q.prev[b]
    BY <1>0, <1>1, UnlinkIs
  <2> HIDE DEF q1
  <2>12. q2 \in QueueOf(B) /\ q2.size = l - n /\ q2.next = q1.next /\ q2.prev = q1.prev
    BY <1>2, <2>11 DEF QueueOf
  <2> HIDE DEF q2
  <2>13. after \in Nodes(B) /\ FakeHead \in Nodes(B) /\ after # FakeHead
    <3>1. n + 1 \in 0..(l + 1) /\ 0 \in 0..(l + 1) /\ n + 1 # 0
      BY <1>2
    <3> QED BY <2>6, <2>7, <2>10, <3>1
  <2> HIDE DEF after
  <2>14. c \in Seq(Nodes(B)) /\ c # <<>> /\ Len(c) = 2 /\ c[1] = FakeHead /\ c[2] = after
    BY <2>13
  <2>15. Distinct(c)
    BY <2>13, <2>14 DEF Distinct
  <2> HIDE DEF c
  <2> DEFINE r == Chain(q2, c)
  <2>16. /\ r \in QueueOf(B) /\ r.size = l - n
         /\ r.next[FakeHead] = after /\ r.prev[after] = FakeHead
         /\ \A b \in Nodes(B) : b # FakeHead => r.next[b] = q2.next[b]
         /\ \A b \in Nodes(B) : b # after => r.prev[b] = q2.prev[b]
    <3>1. \A i \in 1..(Len(c) - 1) : i = 1
      BY <2>14
    <3>2. \A i \in 2..Len(c) : i = 2
      BY <2>14
    <3>3. 1 \in 1..(Len(c) - 1) /\ 1 + 1 = 2
      BY <2>14
    <3>4. r \in QueueOf(B) /\ r.size = q2.size
          /\ (\A i \in 1..(Len(c) - 1) : r.next[c[i]] = c[i + 1] /\ r.prev[c[i + 1]] = c[i])
          /\ (\A b \in Nodes(B) : (\A i \in 1..(Len(c) - 1) : c[i] # b) => r.next[b] = q2.next[b])
          /\ (\A b \in Nodes(B) : (\A i \in 2..Len(c) : c[i] # b) => r.prev[b] = q2.prev[b])
      <4>1. q2 \in QueueOf(B) /\ c \in Seq(Nodes(B)) /\ c # <<>> /\ Distinct(c)
        BY <2>12, <2>14, <2>15
      <4> HIDE <2>12, <2>14, <2>15
      <4>2. Chained(q2, c, r, B)
        BY <4>1, ChainLinks
      <4> QED BY <4>2 DEF Chained
    <3>5. r.next[c[1]] = c[2] /\ r.prev[c[2]] = c[1]
      BY <3>3, <3>4
    <3> QED BY <2>12, <2>14, <3>1, <3>2, <3>4, <3>5
  <2> HIDE DEF r
  <2>17. ASSUME NEW i \in 0..m
         PROVE  r.next[NodeAt(t, i)] = NodeAt(t, i + 1) /\ r.prev[NodeAt(t, i + 1)] = NodeAt(t, i)
    <3>1. CASE i = 0
      <4>1. 1 \in 0..(m + 1) /\ 0 + 1 = 1
        BY <1>3
      <4>2. NodeAt(t, 1) = after
        BY <2>9, <4>1 DEF after
      <4> QED BY <2>10, <2>16, <3>1, <4>1, <4>2
    <3>2. CASE i # 0
      <4>1. i > 0 /\ i + 1 > 0 /\ i \in 0..(m + 1) /\ i + 1 \in 0..(m + 1) /\ n + i \in 0..l
            /\ (n + i) + 1 = n + (i + 1) /\ n + i \notin 1..n /\ (n + i) + 1 \notin 1..n
            /\ n + i \in 0..(l + 1) /\ (n + i) + 1 \in 0..(l + 1) /\ n + i # 0
            /\ (n + i) + 1 # n + 1 /\ n + 1 \in 0..(l + 1) /\ 0 \in 0..(l + 1)
        BY <1>2, <1>3, <3>2
      <4>2. NodeAt(t, i) = NodeAt(s, n + i) /\ NodeAt(t, i + 1) = NodeAt(s, (n + i) + 1)
        BY <2>9, <4>1
      <4>3. NodeAt(s, n + i) \notin S /\ NodeAt(s, (n + i) + 1) \notin S
        BY <2>8, <4>1
      <4>4. NodeAt(s, n + i) # FakeHead /\ NodeAt(s, (n + i) + 1) # after
        BY <2>7, <2>10, <4>1 DEF after
      <4>5. q.next[NodeAt(s, n + i)] = NodeAt(s, (n + i) + 1)
            /\ q.prev[NodeAt(s, (n + i) + 1)] = NodeAt(s, n + i)
        BY <1>0, <1>1, <4>1
      <4>6. NodeAt(s, n + i) \in Nodes(B) /\ NodeAt(s, (n + i) + 1) \in Nodes(B)
        BY <2>6, <4>1
      <4>7. r.next[NodeAt(s, n + i)] = q.next[NodeAt(s, n + i)]
        BY <2>11, <2>12, <2>16, <4>3, <4>4, <4>6
      <4>8. r.prev[NodeAt(s, (n + i) + 1)] = q.prev[NodeAt(s, (n + i) + 1)]
        BY <2>11, <2>12, <2>16, <4>3, <4>4, <4>6
      <4> QED BY <4>2, <4>5, <4>7, <4>8
    <3> QED BY <3>1, <3>2
  <2>18. ASSUME NEW b \in B, ~In(t, b) PROVE r.next[b] = NoBlock /\ r.prev[b] = NoBlock
    <3>1. b \in Nodes(B) /\ b # FakeHead
      BY <1>0, FakesAreNone DEF Nodes
    <3>2. b # after
      <4>1. SUFFICES ASSUME b = NodeAt(s, n + 1) PROVE FALSE
        BY DEF after
      <4>2. n + 1 # l + 1
        <5>1. NodeAt(s, l + 1) = FakeTail /\ FakeTail \notin B
          BY <1>0, <1>1, NodeAtType, FakesAreNone
        <5> QED BY <2>18, <4>1, <5>1
      <4>3. 1 \in 1..m /\ n + 1 \in 1..l
        BY <1>2, <1>3, <4>2
      <4>4. t[1] = b
        BY <1>0, <1>1, <1>4, <4>1, <4>3, NodeAtType
      <4> QED BY <1>4, <2>18, <4>3, <4>4 DEF In
    <3>3. r.next[b] = q1.next[b] /\ r.prev[b] = q1.prev[b]
      BY <2>12, <2>16, <3>1, <3>2
    <3>4. CASE b \in S
      BY <2>11, <3>1, <3>3, <3>4
    <3>5. CASE b \notin S
      <4>1. ~In(s, b)
        <5>1. SUFFICES ASSUME NEW j \in 1..l, s[j] = b PROVE FALSE
          BY <1>1 DEF In
        <5>2. j \notin 1..n
          BY <3>5, <5>1
        <5>3. j - n \in 1..m /\ n + (j - n) = j
          BY <1>2, <1>3, <5>2
        <5>4. t[j - n] = b
          BY <1>4, <5>1, <5>3
        <5> QED BY <1>4, <2>18, <5>3, <5>4 DEF In
      <4> QED BY <1>0, <2>11, <3>1, <3>3, <3>5, <4>1
    <3> QED BY <3>4, <3>5
  <2>19. Distinct(t)
    <3>1. SUFFICES ASSUME NEW i \in 1..m, NEW j \in 1..m, t[i] = t[j] PROVE i = j
      BY <1>4 DEF Distinct
    <3>2. s[n + i] = s[n + j] /\ n + i \in 1..l /\ n + j \in 1..l
      BY <1>4, <3>1
    <3>3. n + i = n + j
      BY <1>0, <1>1, <3>2 DEF Distinct
    <3> QED BY <1>2, <3>3
  <2>20. r.size = Len(t) /\ Len(t) = m
    BY <1>3, <1>4, <2>16
  <2>21. Linked(r, t, B)
    BY <1>0, <2>16, <2>17, <2>18, <2>19, <2>20 DEF Linked
  <2> QED BY <2>5, <2>21 DEF r
<1> QED BY <1>5, <1>6

\* Two nodes are linked.
Paired(q, a, z, r, B) ==
  /\ r \in QueueOf(B) /\ r.size = q.size /\ r.next[a] = z /\ r.prev[z] = a
  /\ \A b \in Nodes(B) : b # a => r.next[b] = q.next[b]
  /\ \A b \in Nodes(B) : b # z => r.prev[b] = q.prev[b]

LEMMA PairChained ==
  ASSUME NEW B, NEW q \in QueueOf(B), NEW a \in Nodes(B), NEW z \in Nodes(B), a # z
  PROVE  Paired(q, a, z, Chain(q, <<a, z>>), B)
<1> DEFINE c == <<a, z>>
           r == Chain(q, c)
<1>1. c \in Seq(Nodes(B)) /\ c # <<>> /\ Len(c) = 2 /\ c[1] = a /\ c[2] = z
  OBVIOUS
<1> HIDE DEF c
<1>2. Distinct(c)
  BY <1>1 DEF Distinct
<1>3. Chained(q, c, r, B)
  BY <1>1, <1>2, ChainLinks
<1> HIDE DEF r
<1>4. \A i \in 1..(Len(c) - 1) : i = 1
  BY <1>1
<1>5. \A i \in 2..Len(c) : i = 2
  BY <1>1
<1>6. 1 \in 1..(Len(c) - 1) /\ 1 + 1 = 2
  BY <1>1
<1>7. r.next[c[1]] = c[2] /\ r.prev[c[2]] = c[1]
  BY <1>3, <1>6 DEF Chained
<1>8. \A b \in Nodes(B) : b # a => r.next[b] = q.next[b]
  BY <1>1, <1>3, <1>4 DEF Chained
<1>9. \A b \in Nodes(B) : b # z => r.prev[b] = q.prev[b]
  BY <1>1, <1>3, <1>5 DEF Chained
<1>10. r \in QueueOf(B) /\ r.size = q.size /\ r.next[a] = z /\ r.prev[z] = a
  BY <1>1, <1>3, <1>7 DEF Chained
<1>11. Paired(q, a, z, r, B)
  BY <1>8, <1>9, <1>10 DEF Paired
<1> QED BY <1>11 DEF r, c

\* The list s without its k-th block.
DropAt(s, k, t) ==
  Len(t) = Len(s) - 1 /\ \A i \in 1..Len(t) : t[i] = IF i < k THEN s[i] ELSE s[i + 1]

\* remove: the list without the block, wherever it is.
LEMMA RemoveBlockLinks ==
  ASSUME NEW q, NEW s, NEW B, Linked(q, s, B), NEW k \in 1..Len(s),
         NEW t \in Seq(B), DropAt(s, k, t)
  PROVE  Linked(RemoveBlock(q, s[k]), t, B)
<1>0. /\ B \subseteq Nat /\ q \in QueueOf(B) /\ s \in Seq(B) /\ Distinct(s) /\ q.size = Len(s)
      /\ \A i \in 0..Len(s) : q.next[NodeAt(s, i)] = NodeAt(s, i + 1)
                              /\ q.prev[NodeAt(s, i + 1)] = NodeAt(s, i)
      /\ \A b \in B : ~In(s, b) => q.next[b] = NoBlock /\ q.prev[b] = NoBlock
  BY DEF Linked
<1>1. PICK l \in Nat : l = Len(s)
  BY <1>0
<1>2. k \in 1..l /\ k \in 0..l /\ k - 1 \in 0..l /\ (k - 1) + 1 = k /\ k + 1 \in 0..(l + 1)
      /\ k - 1 \in 0..(l + 1) /\ k \in 0..(l + 1) /\ k - 1 # k + 1 /\ k \in Nat
  BY <1>1
<1>3. PICK m \in Nat : m = l - 1
  BY <1>2
<1>4. Len(t) = m /\ \A i \in 1..m : t[i] = IF i < k THEN s[i] ELSE s[i + 1]
  BY <1>1, <1>3 DEF DropAt
<1>5. \A i \in 0..(l + 1) : NodeAt(s, i) \in Nodes(B)
  BY <1>0, <1>1, NodeAtType
<1>6. \A i, j \in 0..(l + 1) : NodeAt(s, i) = NodeAt(s, j) => i = j
  BY <1>0, <1>1, NodesDiffer
<1>7. \A i \in 1..l : NodeAt(s, i) = s[i] /\ s[i] \in B
  BY <1>0, <1>1, NodeAtType
<1>8. NodeAt(s, 0) = FakeHead /\ NodeAt(s, l + 1) = FakeTail
      /\ NodeAt(t, 0) = FakeHead /\ NodeAt(t, l) = FakeTail
  BY <1>0, <1>1, <1>3, <1>4, NodeAtType
<1>9. ASSUME NEW i \in 0..l
      PROVE  NodeAt(t, i) = IF i < k THEN NodeAt(s, i) ELSE NodeAt(s, i + 1)
  <2>1. CASE i = 0
    BY <1>2, <1>8, <2>1
  <2>2. CASE i = l
    BY <1>2, <1>8, <2>2
  <2>3. CASE i # 0 /\ i # l
    <3>1. i \in 1..m /\ i \in 1..l /\ i + 1 \in 1..l
      BY <1>3, <2>3
    <3>2. NodeAt(t, i) = t[i]
      BY <1>4, <3>1, NodeAtType
    <3> QED BY <1>4, <1>7, <3>1, <3>2
  <2> QED BY <2>1, <2>2, <2>3
<1> DEFINE b == s[k]
           a == NodeAt(s, k - 1)
           z == NodeAt(s, k + 1)
           q2 == Chain(q, <<a, z>>)
           q3 == Unlink(q2, {b})
           r  == [q3 EXCEPT !.size = @ - 1]
<1>10. q.prev[b] = a /\ q.next[b] = z
  <2>1. b = NodeAt(s, k)
    BY <1>2, <1>7
  <2> QED BY <1>0, <1>1, <1>2, <2>1
<1>11. RemoveBlock(q, b) = r
  BY <1>10 DEF RemoveBlock
<1>12. a \in Nodes(B) /\ z \in Nodes(B) /\ a # z /\ b = NodeAt(s, k) /\ a # b /\ z # b
       /\ b \in Nodes(B)
  <2>1. k # k - 1 /\ k # k + 1
    BY <1>2
  <2> QED BY <1>2, <1>5, <1>6, <1>7, <2>1
<1> HIDE DEF a, b, z
<1>13. /\ q2 \in QueueOf(B) /\ q2.size = l /\ q2.next[a] = z /\ q2.prev[z] = a
       /\ \A x \in Nodes(B) : x # a => q2.next[x] = q.next[x]
       /\ \A x \in Nodes(B) : x # z => q2.prev[x] = q.prev[x]
  <2>1. Paired(q, a, z, q2, B)
    BY <1>0, <1>12, PairChained
  <2> HIDE DEF q2
  <2> QED BY <1>0, <1>1, <2>1 DEF Paired
<1> HIDE DEF q2
<1>14. /\ q3 \in QueueOf(B) /\ q3.size = l
       /\ \A x \in Nodes(B) : /\ x = b => q3.next[x] = NoBlock /\ q3.prev[x] = NoBlock
                              /\ x # b => q3.next[x] = q2.next[x] /\ q3.prev[x] = q2.prev[x]
  BY <1>13, UnlinkIs
<1> HIDE DEF q3
<1>15. r \in QueueOf(B) /\ r.size = l - 1 /\ r.next = q3.next /\ r.prev = q3.prev
  BY <1>14 DEF QueueOf
<1> HIDE DEF r
<1>16. ASSUME NEW i \in 0..m
       PROVE  r.next[NodeAt(t, i)] = NodeAt(t, i + 1) /\ r.prev[NodeAt(t, i + 1)] = NodeAt(t, i)
  <2>1. i \in 0..l /\ i + 1 \in 0..l /\ i \in 0..(l + 1) /\ i + 1 \in 0..(l + 1)
        /\ (i + 1) + 1 \in 0..(l + 1)
    BY <1>3
  <2>2. CASE i + 1 < k
    <3>1. NodeAt(t, i) = NodeAt(s, i) /\ NodeAt(t, i + 1) = NodeAt(s, i + 1)
      BY <1>2, <1>9, <2>1, <2>2
    <3>2. i # k - 1 /\ i # k /\ i + 1 # k + 1 /\ i + 1 # k
      BY <1>2, <2>2
    <3>3. NodeAt(s, i) # a /\ NodeAt(s, i) # b /\ NodeAt(s, i + 1) # z /\ NodeAt(s, i + 1) # b
      BY <1>2, <1>6, <1>12, <2>1, <3>2 DEF a, z
    <3>4. q.next[NodeAt(s, i)] = NodeAt(s, i + 1) /\ q.prev[NodeAt(s, i + 1)] = NodeAt(s, i)
      BY <1>0, <1>1, <2>1
    <3>5. NodeAt(s, i) \in Nodes(B) /\ NodeAt(s, i + 1) \in Nodes(B)
      BY <1>5, <2>1
    <3> QED BY <1>13, <1>14, <1>15, <3>1, <3>3, <3>4, <3>5
  <2>3. CASE i + 1 = k
    <3>1. NodeAt(t, i) = a /\ NodeAt(t, i + 1) = z
      <4>1. i < k /\ i = k - 1 /\ ~(i + 1 < k) /\ (i + 1) + 1 = k + 1
        BY <1>2, <2>3
      <4> QED BY <1>9, <2>1, <4>1 DEF a, z
    <3> QED BY <1>12, <1>13, <1>14, <1>15, <3>1
  <2>4. CASE i + 1 > k
    <3>0. ~(i < k) /\ ~(i + 1 < k)
      BY <1>2, <2>4
    <3>1. NodeAt(t, i) = NodeAt(s, i + 1) /\ NodeAt(t, i + 1) = NodeAt(s, (i + 1) + 1)
      BY <1>9, <2>1, <3>0
    <3>2. i + 1 # k - 1 /\ i + 1 # k /\ (i + 1) + 1 # k + 1 /\ (i + 1) + 1 # k
      BY <1>2, <2>4
    <3>3. NodeAt(s, i + 1) # a /\ NodeAt(s, i + 1) # b
      BY <1>2, <1>6, <1>12, <2>1, <3>2 DEF a
    <3>4. NodeAt(s, (i + 1) + 1) # z /\ NodeAt(s, (i + 1) + 1) # b
      BY <1>2, <1>6, <1>12, <2>1, <3>2 DEF z
    <3>5. q.next[NodeAt(s, i + 1)] = NodeAt(s, (i + 1) + 1)
          /\ q.prev[NodeAt(s, (i + 1) + 1)] = NodeAt(s, i + 1)
      <4>1. i + 1 \in 0..l
        BY <2>1
      <4> QED BY <1>0, <1>1, <4>1
    <3>6. NodeAt(s, i + 1) \in Nodes(B) /\ NodeAt(s, (i + 1) + 1) \in Nodes(B)
      BY <1>5, <2>1
    <3>7. r.next[NodeAt(s, i + 1)] = q.next[NodeAt(s, i + 1)]
      BY <1>13, <1>14, <1>15, <3>3, <3>6
    <3>8. r.prev[NodeAt(s, (i + 1) + 1)] = q.prev[NodeAt(s, (i + 1) + 1)]
      BY <1>13, <1>14, <1>15, <3>4, <3>6
    <3> QED BY <3>1, <3>5, <3>7, <3>8
  <2> QED BY <1>2, <2>2, <2>3, <2>4
<1>17. ASSUME NEW x \in B, ~In(t, x) PROVE r.next[x] = NoBlock /\ r.prev[x] = NoBlock
  <2>1. x \in Nodes(B)
    BY DEF Nodes
  <2>2. CASE x = b
    BY <1>14, <1>15, <2>1, <2>2
  <2>3. CASE x # b
    <3>1. ~In(s, x)
      <4>1. SUFFICES ASSUME NEW j \in 1..l, s[j] = x PROVE FALSE
        BY <1>1 DEF In
      <4>2. j # k
        BY <2>3, <4>1 DEF b
      <4>3. CASE j < k
        <5>1. j \in 1..m
          BY <1>2, <1>3, <4>3
        <5> QED BY <1>4, <1>17, <4>1, <4>3, <5>1 DEF In
      <4>4. CASE j > k
        <5>1. j - 1 \in 1..m /\ ~(j - 1 < k) /\ (j - 1) + 1 = j
          BY <1>2, <1>3, <4>4
        <5>2. t[j - 1] = x
          BY <1>4, <4>1, <5>1
        <5> QED BY <1>4, <1>17, <5>1, <5>2 DEF In
      <4> QED BY <1>2, <4>2, <4>3, <4>4
    <3>2. x # a /\ x # z
      <4>1. ASSUME NEW i \in 0..(l + 1), x = NodeAt(s, i) PROVE FALSE
        <5>1. i # 0 /\ i # l + 1
          BY <1>0, <1>8, <4>1, FakesAreNone
        <5>2. i \in 1..l /\ s[i] = x
          BY <1>7, <4>1, <5>1
        <5> QED BY <1>1, <3>1, <5>2 DEF In
      <4> QED BY <1>2, <4>1 DEF a, z
    <3>3. q.next[x] = NoBlock /\ q.prev[x] = NoBlock
      BY <1>0, <3>1
    <3> QED BY <1>13, <1>14, <1>15, <2>1, <2>3, <3>2, <3>3
  <2> QED BY <2>2, <2>3
<1>18. Distinct(t)
  <2>1. SUFFICES ASSUME NEW i \in 1..m, NEW j \in 1..m, t[i] = t[j] PROVE i = j
    BY <1>4 DEF Distinct
  <2>2. i \in 0..l /\ j \in 0..l /\ i \in 0..(l + 1) /\ j \in 0..(l + 1)
        /\ i + 1 \in 0..(l + 1) /\ j + 1 \in 0..(l + 1)
    BY <1>3
  <2>3. NodeAt(t, i) = NodeAt(t, j)
    BY <1>4, <2>1, NodeAtType
  <2>4. (IF i < k THEN NodeAt(s, i) ELSE NodeAt(s, i + 1))
        = (IF j < k THEN NodeAt(s, j) ELSE NodeAt(s, j + 1))
    BY <1>9, <2>2, <2>3
  <2> QED BY <1>2, <1>6, <2>2, <2>4
<1>19. Linked(r, t, B)
  <2>1. r.size = Len(t)
    BY <1>3, <1>4, <1>15
  <2> QED BY <1>0, <1>4, <1>15, <1>16, <1>17, <1>18, <2>1 DEF Linked
<1> QED BY <1>11, <1>19 DEF b

\* The list s with the blocks of u after its k-th one.
Spliced(s, k, u, t) ==
  /\ Len(t) = Len(s) + Len(u)
  /\ \A i \in 1..Len(t) : t[i] = IF i <= k THEN s[i]
                                 ELSE IF i <= k + Len(u) THEN u[i - k] ELSE s[i - Len(u)]

\* Both ends of what is inserted, and what is between them.
Bridge(s, k, u) == <<NodeAt(s, k)>> \o u \o <<NodeAt(s, k + 1)>>

IsBridge(c, s, k, u, B) ==
  /\ c \in Seq(Nodes(B)) /\ Len(c) = Len(u) + 2
  /\ c[1] = NodeAt(s, k) /\ c[Len(u) + 2] = NodeAt(s, k + 1)
  /\ \A j \in 2..(Len(u) + 1) : c[j] = u[j - 1]

LEMMA BridgeIs ==
  ASSUME NEW B, NEW s \in Seq(B), NEW k \in 0..Len(s), NEW u \in Seq(B)
  PROVE  IsBridge(Bridge(s, k, u), s, k, u, B)
<1>1. PICK m \in Nat : m = Len(u)
  OBVIOUS
<1>2. PICK a \in Nodes(B) : a = NodeAt(s, k)
  BY NodeAtType
<1>3. PICK z \in Nodes(B) : z = NodeAt(s, k + 1)
  BY NodeAtType
<1>4. PICK v \in Seq(Nodes(B)) : v = u
  BY DEF Nodes
<1> DEFINE c == <<a>> \o v \o <<z>>
<1>5. c \in Seq(Nodes(B)) /\ Len(c) = m + 2
  BY <1>1, <1>4
<1>6. c[1] = a /\ c[m + 2] = z
  BY <1>1, <1>4
<1>7. \A j \in 2..(m + 1) : c[j] = v[j - 1]
  BY <1>1, <1>4
<1> HIDE DEF c
<1>8. IsBridge(c, s, k, u, B)
  BY <1>1, <1>2, <1>3, <1>4, <1>5, <1>6, <1>7 DEF IsBridge
<1>9. c = Bridge(s, k, u)
  BY <1>2, <1>3, <1>4 DEF Bridge, c
<1> QED BY <1>8, <1>9

\* Blocks that are spliced in behind place k make a list again.
LEMMA InsertLinks ==
  ASSUME NEW q, NEW s, NEW B, Linked(q, s, B), NEW k \in 0..Len(s),
         NEW u \in Seq(B), Distinct(u), \A i \in 1..Len(u) : ~In(s, u[i]),
         NEW t \in Seq(B), Spliced(s, k, u, t), NEW r,
         Chain(q, Bridge(s, k, u)) \in QueueOf(B) /\ Chain(q, Bridge(s, k, u)).size = Len(s)
           => Resized(Chain(q, Bridge(s, k, u)), Len(s) + Len(u), r, B)
  PROVE  Linked(r, t, B)
<1>0. /\ B \subseteq Nat /\ q \in QueueOf(B) /\ s \in Seq(B) /\ Distinct(s) /\ q.size = Len(s)
      /\ \A i \in 0..Len(s) : q.next[NodeAt(s, i)] = NodeAt(s, i + 1)
                              /\ q.prev[NodeAt(s, i + 1)] = NodeAt(s, i)
      /\ \A b \in B : ~In(s, b) => q.next[b] = NoBlock /\ q.prev[b] = NoBlock
  BY DEF Linked
<1>1. PICK l \in Nat : l = Len(s)
  BY <1>0
<1>2. PICK m \in Nat : m = Len(u)
  OBVIOUS
<1>3. k \in 0..l /\ k \in Nat /\ k <= l
  BY <1>1
<1>4. Len(t) = l + m
      /\ \A i \in 1..(l + m) : t[i] = IF i <= k THEN s[i]
                                      ELSE IF i <= k + m THEN u[i - k] ELSE s[i - m]
  BY <1>1, <1>2 DEF Spliced
<1>5. \A i \in 0..(l + 1) : NodeAt(s, i) \in Nodes(B)
  BY <1>0, <1>1, NodeAtType
<1>6. \A i, j \in 0..(l + 1) : NodeAt(s, i) = NodeAt(s, j) => i = j
  BY <1>0, <1>1, NodesDiffer
<1>7. \A i \in 1..l : NodeAt(s, i) = s[i] /\ s[i] \in B
  BY <1>0, <1>1, NodeAtType
<1>8. NodeAt(s, 0) = FakeHead /\ NodeAt(s, l + 1) = FakeTail
      /\ NodeAt(t, 0) = FakeHead /\ NodeAt(t, l + m + 1) = FakeTail
  BY <1>0, <1>1, <1>4, NodeAtType
<1>9. ASSUME NEW i \in 0..(l + m + 1)
      PROVE  NodeAt(t, i) = IF i <= k THEN NodeAt(s, i)
                            ELSE IF i <= k + m THEN u[i - k] ELSE NodeAt(s, i - m)
  <2>1. CASE i = 0
    BY <1>3, <1>8, <2>1
  <2>2. CASE i = l + m + 1
    <3>1. ~(i <= k) /\ ~(i <= k + m) /\ i - m = l + 1
      BY <1>3, <2>2
    <3> QED BY <1>8, <2>2, <3>1
  <2>3. CASE i # 0 /\ i # l + m + 1
    <3>1. i \in 1..(l + m)
      BY <2>3
    <3>2. NodeAt(t, i) = t[i]
      BY <1>4, <3>1, NodeAtType
    <3>3. i <= k => i \in 1..l
      BY <1>3, <3>1
    <3>4. ~(i <= k + m) => i - m \in 1..l
      BY <1>3, <3>1
    <3> QED BY <1>4, <1>7, <3>1, <3>2, <3>3, <3>4
  <2> QED BY <2>1, <2>2, <2>3
<1>10. \A i \in 1..m : u[i] \in B /\ u[i] \in Nodes(B)
  BY <1>2 DEF Nodes
<1>11. ASSUME NEW i \in 0..(l + 1), NEW j \in 1..m, NodeAt(s, i) = u[j] PROVE FALSE
  <2>1. i # 0 /\ i # l + 1
    BY <1>0, <1>8, <1>10, <1>11, FakesAreNone
  <2>2. i \in 1..l /\ s[i] = u[j]
    BY <1>7, <1>11, <2>1
  <2>3. In(s, u[j])
    BY <1>1, <2>2 DEF In
  <2> QED BY <1>2, <2>3
<1>12. Distinct(t)
  <2>1. SUFFICES ASSUME NEW i \in 1..(l + m), NEW j \in 1..(l + m), t[i] = t[j] PROVE i = j
    BY <1>4 DEF Distinct
  <2>2. i \in 0..(l + m + 1) /\ j \in 0..(l + m + 1)
    OBVIOUS
  <2>3. NodeAt(t, i) = NodeAt(t, j)
    <3>1. \A x \in 1..Len(t) : NodeAt(t, x) = t[x]
      BY NodeAtType
    <3>2. i \in 1..Len(t) /\ j \in 1..Len(t)
      BY <1>4
    <3> QED BY <2>1, <3>1, <3>2
  <2>4. (IF i <= k THEN NodeAt(s, i) ELSE IF i <= k + m THEN u[i - k] ELSE NodeAt(s, i - m))
        = (IF j <= k THEN NodeAt(s, j) ELSE IF j <= k + m THEN u[j - k] ELSE NodeAt(s, j - m))
    BY <1>9, <2>2, <2>3
  <2>5. \A x, y \in 1..m : u[x] = u[y] => x = y
    BY <1>2 DEF Distinct
  <2>6. ASSUME NEW x \in 1..(l + m)
        PROVE  /\ x <= k => x \in 0..(l + 1)
               /\ ~(x <= k) /\ x <= k + m => x - k \in 1..m
               /\ ~(x <= k + m) => x - m \in 0..(l + 1) /\ x - m > k
    BY <1>3
  <2>7. CASE i <= k
    <3>0. i \in 0..(l + 1)
      BY <2>6, <2>7
    <3>1. j <= k
      <4>1. SUFFICES ASSUME ~(j <= k) PROVE FALSE
        OBVIOUS
      <4>2. CASE j <= k + m
        <5>1. j - k \in 1..m /\ NodeAt(s, i) = u[j - k]
          BY <2>4, <2>6, <2>7, <4>1, <4>2
        <5> QED BY <1>11, <3>0, <5>1
      <4>3. CASE ~(j <= k + m)
        <5>1. j - m \in 0..(l + 1) /\ j - m > k /\ NodeAt(s, i) = NodeAt(s, j - m)
          BY <2>4, <2>6, <2>7, <4>1, <4>3
        <5> QED BY <1>3, <1>6, <2>7, <3>0, <5>1
      <4> QED BY <4>2, <4>3
    <3> QED BY <1>6, <2>4, <2>6, <2>7, <3>1
  <2>8. CASE ~(i <= k) /\ i <= k + m
    <3>1. i - k \in 1..m
      BY <2>6, <2>8
    <3>2. ~(j <= k)
      <4>1. SUFFICES ASSUME j <= k PROVE FALSE
        OBVIOUS
      <4>2. j \in 0..(l + 1) /\ NodeAt(s, j) = u[i - k]
        BY <2>4, <2>6, <2>8, <4>1
      <4> QED BY <1>11, <3>1, <4>2
    <3>3. j <= k + m
      <4>1. SUFFICES ASSUME ~(j <= k + m) PROVE FALSE
        OBVIOUS
      <4>2. j - m \in 0..(l + 1) /\ NodeAt(s, j - m) = u[i - k]
        BY <2>4, <2>6, <2>8, <3>2, <4>1
      <4> QED BY <1>11, <3>1, <4>2
    <3>4. j - k \in 1..m /\ u[i - k] = u[j - k]
      BY <2>4, <2>6, <2>8, <3>2, <3>3
    <3>5. i - k = j - k
      BY <2>5, <3>1, <3>4
    <3> QED BY <1>3, <3>5
  <2>9. CASE ~(i <= k) /\ ~(i <= k + m)
    <3>1. i - m \in 0..(l + 1) /\ i - m > k
      BY <2>6, <2>9
    <3>2. ~(j <= k)
      <4>1. SUFFICES ASSUME j <= k PROVE FALSE
        OBVIOUS
      <4>2. j \in 0..(l + 1) /\ NodeAt(s, j) = NodeAt(s, i - m)
        BY <2>4, <2>6, <2>9, <4>1
      <4> QED BY <1>3, <1>6, <3>1, <4>1, <4>2
    <3>3. ~(j <= k + m)
      <4>1. SUFFICES ASSUME j <= k + m PROVE FALSE
        OBVIOUS
      <4>2. j - k \in 1..m /\ NodeAt(s, i - m) = u[j - k]
        BY <2>4, <2>6, <2>9, <3>2, <4>1
      <4> QED BY <1>11, <3>1, <4>2
    <3>4. j - m \in 0..(l + 1) /\ NodeAt(s, i - m) = NodeAt(s, j - m)
      BY <2>4, <2>6, <2>9, <3>2, <3>3
    <3>5. i - m = j - m
      BY <1>6, <3>1, <3>4
    <3> QED BY <3>5
  <2> QED BY <2>7, <2>8, <2>9
<1>13. \A i, j \in 0..(l + m + 1) : NodeAt(t, i) = NodeAt(t, j) => i = j
  BY <1>0, <1>4, <1>12, NodesDiffer
<1> DEFINE c == Bridge(s, k, u)
           q2 == Chain(q, c)
<1>14. c \in Seq(Nodes(B)) /\ Len(c) = m + 2
       /\ \A j \in 1..(m + 2) : c[j] = NodeAt(t, k + (j - 1))
  <2>1. c \in Seq(Nodes(B)) /\ Len(c) = m + 2 /\ c[1] = NodeAt(s, k) /\ c[m + 2] = NodeAt(s, k + 1)
        /\ \A j \in 2..(m + 1) : c[j] = u[j - 1]
    <3>1. IsBridge(c, s, k, u, B)
      BY <1>0, BridgeIs
    <3> HIDE DEF c
    <3> QED BY <1>2, <3>1 DEF IsBridge
  <2> HIDE DEF c
  <2>2. ASSUME NEW j \in 1..(m + 2) PROVE c[j] = NodeAt(t, k + (j - 1))
    <3>1. k + (j - 1) \in 0..(l + m + 1)
      BY <1>3
    <3>2. CASE j = 1
      <4>1. k + (j - 1) <= k /\ k + (j - 1) = k
        BY <1>3, <3>2
      <4> QED BY <1>9, <2>1, <3>1, <3>2, <4>1
    <3>3. CASE j = m + 2
      <4>1. ~(k + (j - 1) <= k) /\ ~(k + (j - 1) <= k + m) /\ (k + (j - 1)) - m = k + 1
        BY <1>3, <3>3
      <4> QED BY <1>9, <2>1, <3>1, <3>3, <4>1
    <3>4. CASE j # 1 /\ j # m + 2
      <4>1. ~(k + (j - 1) <= k) /\ k + (j - 1) <= k + m /\ (k + (j - 1)) - k = j - 1
            /\ j \in 2..(m + 1)
        BY <1>3, <3>4
      <4> QED BY <1>9, <2>1, <3>1, <4>1
    <3> QED BY <3>2, <3>3, <3>4
  <2> QED BY <2>1, <2>2
<1> HIDE DEF c
<1>15. Distinct(c) /\ c # <<>>
  <2>1. SUFFICES ASSUME NEW i \in 1..(m + 2), NEW j \in 1..(m + 2), c[i] = c[j] PROVE i = j
    BY <1>14 DEF Distinct
  <2>2. k + (i - 1) \in 0..(l + m + 1) /\ k + (j - 1) \in 0..(l + m + 1)
    BY <1>3
  <2>3. k + (i - 1) = k + (j - 1)
    BY <1>13, <1>14, <2>1, <2>2
  <2> QED BY <1>3, <2>3
<1>16. Chained(q, c, q2, B)
  BY <1>0, <1>14, <1>15, ChainLinks
<1> HIDE DEF q2
<1>17. /\ q2 \in QueueOf(B) /\ q2.size = q.size
       /\ \A i \in 1..(m + 1) : q2.next[c[i]] = c[i + 1] /\ q2.prev[c[i + 1]] = c[i]
       /\ \A b \in Nodes(B) : (\A i \in 1..(m + 1) : c[i] # b) => q2.next[b] = q.next[b]
       /\ \A b \in Nodes(B) : (\A i \in 2..(m + 2) : c[i] # b) => q2.prev[b] = q.prev[b]
  <2>1. Len(c) - 1 = m + 1
    BY <1>14
  <2> QED BY <1>14, <1>16, <2>1 DEF Chained
<1>18. Resized(q2, l + m, r, B)
  <2>1. q2 \in QueueOf(B) /\ q2.size = Len(s)
    BY <1>0, <1>17
  <2> QED BY <1>1, <1>2, <2>1 DEF q2, c
<1>19. r \in QueueOf(B) /\ r.size = l + m /\ r.next = q2.next /\ r.prev = q2.prev
  BY <1>18 DEF Resized
<1>20. ASSUME NEW i \in 0..(l + m)
       PROVE  r.next[NodeAt(t, i)] = NodeAt(t, i + 1) /\ r.prev[NodeAt(t, i + 1)] = NodeAt(t, i)
  <2>1. i \in 0..(l + m + 1) /\ i + 1 \in 0..(l + m + 1)
    OBVIOUS
  <2>2. CASE k <= i /\ i <= k + m
    <3>1. PICK j \in 1..(m + 1) : j = i - k + 1
      BY <1>3, <2>2
    <3>2. j \in 1..(m + 2) /\ j + 1 \in 1..(m + 2) /\ k + (j - 1) = i /\ k + ((j + 1) - 1) = i + 1
      BY <1>3, <3>1
    <3>3. c[j] = NodeAt(t, i) /\ c[j + 1] = NodeAt(t, i + 1)
      BY <1>14, <3>2
    <3> QED BY <1>17, <1>19, <3>3
  <2>3. CASE i < k \/ i > k + m
    <3> DEFINE p == IF i < k THEN i ELSE i - m
    <3>1. p \in 0..l /\ p \in 0..(l + 1) /\ p + 1 \in 0..(l + 1) /\ p \in Int
      BY <1>3, <2>3
    <3>2. NodeAt(t, i) = NodeAt(s, p) /\ NodeAt(t, i + 1) = NodeAt(s, p + 1)
      <4>1. CASE i < k
        <5>1. i <= k /\ i + 1 <= k
          BY <1>3, <4>1
        <5> QED BY <1>9, <2>1, <4>1, <5>1
      <4>2. CASE i > k + m
        <5>1. ~(i < k) /\ ~(i <= k) /\ ~(i + 1 <= k) /\ ~(i <= k + m) /\ ~(i + 1 <= k + m)
              /\ (i + 1) - m = (i - m) + 1
          BY <1>3, <4>2
        <5> QED BY <1>9, <2>1, <4>2, <5>1
      <4> QED BY <2>3, <4>1, <4>2
    <3> HIDE DEF p
    <3>3. \A j \in 1..(m + 1) : c[j] # NodeAt(t, i)
      <4>1. SUFFICES ASSUME NEW j \in 1..(m + 1), c[j] = NodeAt(t, i) PROVE FALSE
        OBVIOUS
      <4>2. j \in 1..(m + 2) /\ k + (j - 1) \in 0..(l + m + 1)
        BY <1>3
      <4>3. k + (j - 1) = i
        BY <1>13, <1>14, <2>1, <4>1, <4>2
      <4> QED BY <1>3, <2>3, <4>3
    <3>4. \A j \in 2..(m + 2) : c[j] # NodeAt(t, i + 1)
      <4>1. SUFFICES ASSUME NEW j \in 2..(m + 2), c[j] = NodeAt(t, i + 1) PROVE FALSE
        OBVIOUS
      <4>2. j \in 1..(m + 2) /\ k + (j - 1) \in 0..(l + m + 1)
        BY <1>3
      <4>3. k + (j - 1) = i + 1
        BY <1>13, <1>14, <2>1, <4>1, <4>2
      <4> QED BY <1>3, <2>3, <4>3
    <3>5. q.next[NodeAt(s, p)] = NodeAt(s, p + 1) /\ q.prev[NodeAt(s, p + 1)] = NodeAt(s, p)
      BY <1>0, <1>1, <3>1
    <3>6. NodeAt(s, p) \in Nodes(B) /\ NodeAt(s, p + 1) \in Nodes(B)
      BY <1>5, <3>1
    <3>7. q2.next[NodeAt(s, p)] = q.next[NodeAt(s, p)]
      BY <1>17, <3>2, <3>3, <3>6
    <3>8. q2.prev[NodeAt(s, p + 1)] = q.prev[NodeAt(s, p + 1)]
      BY <1>17, <3>2, <3>4, <3>6
    <3> QED BY <1>19, <3>2, <3>5, <3>7, <3>8
  <2> QED BY <1>3, <2>2, <2>3
<1>21. ASSUME NEW x \in B, ~In(t, x) PROVE r.next[x] = NoBlock /\ r.prev[x] = NoBlock
  <2>1. x \in Nodes(B)
    BY DEF Nodes
  <2>2. ASSUME NEW i \in 0..(l + m + 1), NodeAt(t, i) = x PROVE FALSE
    <3>1. i # 0 /\ i # l + m + 1
      BY <1>0, <1>8, <2>2, FakesAreNone
    <3>2. i \in 1..(l + m)
      BY <3>1
    <3>3. t[i] = x
      BY <1>4, <2>2, <3>2, NodeAtType
    <3> QED BY <1>4, <1>21, <3>2, <3>3 DEF In
  <2>3. \A j \in 1..(m + 2) : c[j] # x
    <3>1. SUFFICES ASSUME NEW j \in 1..(m + 2), c[j] = x PROVE FALSE
      OBVIOUS
    <3>2. k + (j - 1) \in 0..(l + m + 1) /\ NodeAt(t, k + (j - 1)) = x
      BY <1>3, <1>14, <3>1
    <3> QED BY <2>2, <3>2
  <2>4. (\A j \in 1..(m + 1) : c[j] # x) /\ (\A j \in 2..(m + 2) : c[j] # x)
    BY <2>3
  <2>5. ~In(s, x)
    <3>1. SUFFICES ASSUME NEW j \in 1..l, s[j] = x PROVE FALSE
      BY <1>1 DEF In
    <3>2. NodeAt(s, j) = x
      BY <1>7, <3>1
    <3>3. CASE j <= k
      <4>1. j \in 0..(l + m + 1)
        BY <1>3
      <4> QED BY <1>9, <2>2, <3>2, <3>3, <4>1
    <3>4. CASE ~(j <= k)
      <4>1. j + m \in 0..(l + m + 1) /\ ~(j + m <= k) /\ ~(j + m <= k + m) /\ (j + m) - m = j
        BY <1>3, <3>4
      <4>2. NodeAt(t, j + m) = x
        BY <1>9, <3>2, <4>1
      <4> QED BY <2>2, <4>1, <4>2
    <3> QED BY <3>3, <3>4
  <2> QED BY <1>0, <1>17, <1>19, <2>1, <2>4, <2>5
<1> QED
  <2>1. r.size = Len(t)
    BY <1>4, <1>19
  <2> QED BY <1>0, <1>4, <1>12, <1>19, <1>20, <1>21, <2>1 DEF Linked

\* prepend_n: the blocks come before the list.
LEMMA PrependNLinks ==
  ASSUME NEW q, NEW s, NEW B, Linked(q, s, B),
         NEW u \in Seq(B), Distinct(u), \A i \in 1..Len(u) : ~In(s, u[i])
  PROVE  Linked(PrependN(q, u), u \o s, B)
<1>0. /\ B \subseteq Nat /\ q \in QueueOf(B) /\ s \in Seq(B) /\ q.size = Len(s) /\ Len(s) \in Nat
      /\ \A i \in 0..Len(s) : q.next[NodeAt(s, i)] = NodeAt(s, i + 1)
  BY DEF Linked
<1>1. CASE u = <<>>
  <2>1. u \o s = s
    BY <1>0, <1>1
  <2> QED BY <1>1, <2>1 DEF PrependN
<1>2. CASE u # <<>>
  <2>1. 0 \in 0..Len(s) /\ NodeAt(s, 0) = FakeHead /\ q.next[FakeHead] = NodeAt(s, 1)
    <3>1. 0 \in 0..Len(s) /\ NodeAt(s, 0) = FakeHead
      BY <1>0, NodeAtType
    <3> QED BY <1>0, <3>1
  <2> DEFINE c == Chain(q, Bridge(s, 0, u))
  <2>2. PrependN(q, u) = [c EXCEPT !.size = @ + Len(u)]
    BY <1>2, <2>1 DEF PrependN, Bridge
  <2> HIDE DEF c
  <2>4. ASSUME c \in QueueOf(B), c.size = Len(s)
        PROVE  Resized(c, Len(s) + Len(u), PrependN(q, u), B)
    <3>1. Len(u) \in Int
      OBVIOUS
    <3> QED BY <2>2, <2>4, <3>1, Resizes
  <2>5. u \o s \in Seq(B) /\ Spliced(s, 0, u, u \o s)
    BY <1>0 DEF Spliced
  <2> QED BY <2>1, <2>4, <2>5, InsertLinks DEF c
<1> QED BY <1>1, <1>2

\* append_n: the blocks come after the list.
LEMMA AppendNLinks ==
  ASSUME NEW q, NEW s, NEW B, Linked(q, s, B),
         NEW u \in Seq(B), Distinct(u), \A i \in 1..Len(u) : ~In(s, u[i])
  PROVE  Linked(AppendN(q, u), s \o u, B)
<1>0. /\ B \subseteq Nat /\ q \in QueueOf(B) /\ s \in Seq(B) /\ q.size = Len(s) /\ Len(s) \in Nat
      /\ \A i \in 0..Len(s) : q.prev[NodeAt(s, i + 1)] = NodeAt(s, i)
  BY DEF Linked
<1>1. CASE u = <<>>
  <2>1. s \o u = s
    BY <1>0, <1>1
  <2> QED BY <1>1, <2>1 DEF AppendN
<1>2. CASE u # <<>>
  <2>1. Len(s) \in 0..Len(s) /\ NodeAt(s, Len(s) + 1) = FakeTail
        /\ q.prev[FakeTail] = NodeAt(s, Len(s))
    <3>1. Len(s) \in 0..Len(s) /\ NodeAt(s, Len(s) + 1) = FakeTail
      BY <1>0, NodeAtType
    <3> QED BY <1>0, <3>1
  <2> DEFINE c == Chain(q, Bridge(s, Len(s), u))
  <2>2. AppendN(q, u) = [c EXCEPT !.size = @ + Len(u)]
    BY <1>2, <2>1 DEF AppendN, Bridge
  <2> HIDE DEF c
  <2>4. ASSUME c \in QueueOf(B), c.size = Len(s)
        PROVE  Resized(c, Len(s) + Len(u), AppendN(q, u), B)
    <3>1. Len(u) \in Int
      OBVIOUS
    <3> QED BY <2>2, <2>4, <3>1, Resizes
  <2>5. s \o u \in Seq(B) /\ Spliced(s, Len(s), u, s \o u)
    BY <1>0 DEF Spliced
  <2> QED BY <2>1, <2>4, <2>5, InsertLinks DEF c
<1> QED BY <1>1, <1>2

\* A queue of all blocks.
LEMMA NewQueueLinks ==
  ASSUME NEW B, B \subseteq Nat, NEW s \in Seq(B), Distinct(s), \A b \in B : In(s, b)
  PROVE  Linked(NewQueue(s), s, B)
<1>1. PICK n \in Nat : n = Len(s)
  OBVIOUS
<1> DEFINE nodes == {s[i] : i \in DOMAIN s} \cup {FakeHead, FakeTail}
           none == [b \in nodes |-> NoBlock]
           q == [next |-> none, prev |-> none, size |-> Len(s)]
           t == <<FakeHead>> \o s \o <<FakeTail>>
<1>2. nodes = Nodes(B)
  <2>1. {s[i] : i \in DOMAIN s} = B
    <3>1. DOMAIN s = 1..n
      BY <1>1
    <3>2. \A i \in 1..n : s[i] \in B
      BY <1>1
    <3> QED BY <1>1, <3>1, <3>2 DEF In
  <2> QED BY <2>1 DEF Nodes
<1>3. NewQueue(s) = Chain(q, t)
  BY DEF NewQueue
<1> HIDE DEF nodes
<1>4. none \in [Nodes(B) -> Links(B)]
  BY <1>2 DEF Links
<1> HIDE DEF none
<1>5. q \in QueueOf(B) /\ q.size = n
  BY <1>1, <1>4 DEF QueueOf
<1> HIDE DEF q
<1>6. t \in Seq(Nodes(B)) /\ Len(t) = n + 2
  <2>1. s \in Seq(Nodes(B))
    BY DEF Nodes
  <2>2. FakeHead \in Nodes(B) /\ FakeTail \in Nodes(B)
    BY DEF Nodes
  <2> QED BY <1>1, <2>1, <2>2
<1>7. \A i \in 1..(n + 2) : t[i] = NodeAt(s, i - 1)
  <2>1. ASSUME NEW i \in 1..(n + 2) PROVE t[i] = NodeAt(s, i - 1)
    <3>1. CASE i = 1
      BY <3>1, <1>1 DEF NodeAt
    <3>2. CASE i = n + 2
      BY <3>2, <1>1 DEF NodeAt
    <3>3. CASE i # 1 /\ i # n + 2
      BY <3>3, <1>1 DEF NodeAt
    <3> QED BY <3>1, <3>2, <3>3
  <2> QED BY <2>1
<1> HIDE DEF t
<1>8. Distinct(t) /\ t # <<>>
  <2>1. SUFFICES ASSUME NEW i \in 1..(n + 2), NEW j \in 1..(n + 2), t[i] = t[j] PROVE i = j
    BY <1>6 DEF Distinct
  <2>2. i - 1 \in 0..(n + 1) /\ j - 1 \in 0..(n + 1) /\ NodeAt(s, i - 1) = NodeAt(s, j - 1)
    BY <1>7, <2>1
  <2>3. i - 1 = j - 1
    BY <1>1, <2>2, NodesDiffer
  <2> QED BY <2>3
<1>9. Chained(q, t, NewQueue(s), B)
  BY <1>3, <1>5, <1>6, <1>8, ChainLinks
<1>10. ASSUME NEW i \in 0..n
       PROVE  /\ NewQueue(s).next[NodeAt(s, i)] = NodeAt(s, i + 1)
              /\ NewQueue(s).prev[NodeAt(s, i + 1)] = NodeAt(s, i)
  <2>1. i + 1 \in 1..(Len(t) - 1) /\ i + 1 \in 1..(n + 2) /\ (i + 1) + 1 \in 1..(n + 2)
        /\ (i + 1) - 1 = i /\ ((i + 1) + 1) - 1 = i + 1
    BY <1>6
  <2>2. t[i + 1] = NodeAt(s, i) /\ t[(i + 1) + 1] = NodeAt(s, i + 1)
    BY <1>7, <2>1
  <2> QED BY <1>9, <2>1, <2>2 DEF Chained
<1> QED BY <1>1, <1>5, <1>9, <1>10 DEF Linked, Chained

-----------------------------------------------------------------------------
(* The set of the blocks in the list.                                      *)

Elements(s) == {s[i] : i \in 1..Len(s)}

Lists(q, L, B) == \E s : Linked(q, s, B) /\ L = Elements(s)

\* A sequence without repetition has as many elements as places.
LEMMA DistinctCount ==
  ASSUME NEW S, NEW s \in Seq(S), Distinct(s)
  PROVE  IsFiniteSet(Elements(s)) /\ Cardinality(Elements(s)) = Len(s) /\ Elements(s) \subseteq S
<1>1. PICK n \in Nat : n = Len(s)
  OBVIOUS
<1>2. \A i \in 1..n : s[i] \in S
  BY <1>1
<1>3. Elements(s) \subseteq S
  BY <1>1, <1>2 DEF Elements
<1> DEFINE f == [i \in 1..n |-> s[i]]
<1>4. f \in Bijection(1..n, Elements(s))
  <2>1. f \in [1..n -> Elements(s)] /\ \A y \in Elements(s) : \E i \in 1..n : f[i] = y
    BY <1>1 DEF Elements
  <2>2. \A i, j \in 1..n : f[i] = f[j] => i = j
    BY <1>1 DEF Distinct
  <2> QED BY <2>1, <2>2 DEF Bijection, Injection, Surjection, IsInjective
<1>5. ExistsBijection(1..n, Elements(s))
  BY <1>4 DEF ExistsBijection
<1>6. IsFiniteSet(1..n) /\ Cardinality(1..n) = n
  <2>1. 1 \in Int /\ n \in Int
    OBVIOUS
  <2> QED BY <2>1, FS_Interval
<1>7. IsFiniteSet(Elements(s)) /\ Cardinality(Elements(s)) = n
  BY <1>5, <1>6, FS_Bijection
<1> QED BY <1>1, <1>3, <1>7

\* A list of the blocks in L: its size, and the sequence the links give.
LEMMA ListsAre ==
  ASSUME NEW q, NEW L, NEW B, Lists(q, L, B)
  PROVE  /\ q \in QueueOf(B) /\ L \subseteq B /\ IsFiniteSet(L) /\ q.size \in Nat
         /\ q.size = Cardinality(L)
         /\ Represents(q, FirstBlocks(q, q.size))
         /\ Elements(FirstBlocks(q, q.size)) = L /\ FirstBlocks(q, q.size) \in Seq(B)
<1>1. PICK s : Linked(q, s, B) /\ L = Elements(s)
  BY DEF Lists
<1>2. q \in QueueOf(B) /\ s \in Seq(B) /\ Distinct(s) /\ q.size = Len(s) /\ Len(s) \in Nat
  BY <1>1 DEF Linked
<1>3. IsFiniteSet(L) /\ Cardinality(L) = Len(s) /\ L \subseteq B
  BY <1>1, <1>2, DistinctCount
<1>4. FirstBlocks(q, q.size) = s
  <2>1. Len(s) \in 0..Len(s)
    BY <1>2
  <2>2. FirstBlocks(q, Len(s)) = [i \in 1..Len(s) |-> s[i]]
    BY <1>1, <2>1, FirstBlocksAre
  <2>3. s = [i \in 1..Len(s) |-> s[i]]
    BY <1>2
  <2> QED BY <1>2, <2>2, <2>3
<1> QED BY <1>1, <1>2, <1>3, <1>4, LinkedRepresents

\* The first blocks of the list, and the list without them.
LEMMA ListsFirst ==
  ASSUME NEW q, NEW L, NEW B, Lists(q, L, B), NEW n \in Nat, n <= q.size
  PROVE  /\ FirstBlocks(q, n) \in Seq(B) /\ Len(FirstBlocks(q, n)) = n
         /\ Distinct(FirstBlocks(q, n)) /\ Elements(FirstBlocks(q, n)) \subseteq L
         /\ Lists(PopLeftN(q, n), L \ Elements(FirstBlocks(q, n)), B)
         /\ PopLeftN(q, n).size = q.size - n
<1>1. PICK s : Linked(q, s, B) /\ L = Elements(s)
  BY DEF Lists
<1>2. s \in Seq(B) /\ Distinct(s) /\ q.size = Len(s)
  BY <1>1 DEF Linked
<1>3. PICK l \in Nat : l = Len(s)
  BY <1>2
<1>4. n \in 0..l /\ n \in 0..Len(s)
  BY <1>2, <1>3
<1>5. FirstBlocks(q, n) = [i \in 1..n |-> s[i]]
  BY <1>1, <1>4, FirstBlocksAre
<1>6. \A i \in 1..l : s[i] \in B
  BY <1>2, <1>3
<1> DEFINE u == [i \in 1..n |-> s[i]]
           m == l - n
           t == [i \in 1..m |-> s[n + i]]
<1>7. m \in Nat
  BY <1>4
<1>8. \A i \in 1..n : i \in 1..l
  BY <1>4
<1>9. \A i \in 1..m : n + i \in 1..l
  BY <1>4
<1>10. u \in Seq(B) /\ Len(u) = n /\ \A i \in 1..n : u[i] = s[i]
  BY <1>6, <1>8
<1>11. t \in Seq(B) /\ Len(t) = m /\ \A i \in 1..m : t[i] = s[n + i]
  BY <1>6, <1>7, <1>9
<1> HIDE DEF u, t
<1>12. Distinct(u) /\ Elements(u) \subseteq L
  BY <1>1, <1>2, <1>3, <1>8, <1>10 DEF Distinct, Elements
<1>13. DropFirst(s, n, t)
  BY <1>3, <1>11 DEF DropFirst
<1>14. Linked(PopLeftN(q, n), t, B)
  BY <1>1, <1>4, <1>11, <1>13, PopLeftNLinks
<1>15. Elements(t) = L \ Elements(u)
  <2>1. ASSUME NEW x \in Elements(t) PROVE x \in L \ Elements(u)
    <3>1. PICK i \in 1..m : x = s[n + i]
      BY <1>11, <2>1 DEF Elements
    <3>2. \A j \in 1..n : s[j] # x
      BY <1>2, <1>3, <1>4, <1>8, <1>9, <3>1 DEF Distinct
    <3> QED BY <1>1, <1>3, <1>9, <1>10, <3>1, <3>2 DEF Elements
  <2>2. ASSUME NEW x \in L \ Elements(u) PROVE x \in Elements(t)
    <3>1. PICK j \in 1..l : x = s[j]
      BY <1>1, <1>3, <2>2 DEF Elements
    <3>2. ~(j \in 1..n)
      BY <1>10, <2>2, <3>1 DEF Elements
    <3>3. j - n \in 1..m /\ n + (j - n) = j
      BY <1>4, <3>2
    <3> QED BY <1>11, <3>1, <3>3 DEF Elements
  <2> QED BY <2>1, <2>2
<1>16. PopLeftN(q, n).size = q.size - n
  BY <1>2, <1>3, <1>11, <1>14 DEF Linked
<1>17. Lists(PopLeftN(q, n), L \ Elements(u), B)
  BY <1>14, <1>15 DEF Lists
<1>18. FirstBlocks(q, n) = u
  BY <1>5 DEF u
<1> QED BY <1>10, <1>12, <1>16, <1>17, <1>18

\* The list loses one block.
LEMMA ListsRemove ==
  ASSUME NEW q, NEW L, NEW B, Lists(q, L, B), NEW b \in L
  PROVE  Lists(RemoveBlock(q, b), L \ {b}, B) /\ RemoveBlock(q, b).size = q.size - 1
<1>1. PICK s : Linked(q, s, B) /\ L = Elements(s)
  BY DEF Lists
<1>2. s \in Seq(B) /\ Distinct(s) /\ q.size = Len(s)
  BY <1>1 DEF Linked
<1>3. PICK l \in Nat : l = Len(s)
  BY <1>2
<1>4. PICK k \in 1..l : s[k] = b
  BY <1>1, <1>3 DEF Elements
<1>5. \A i \in 1..l : s[i] \in B
  BY <1>2, <1>3
<1> DEFINE m == l - 1
           t == [i \in 1..m |-> IF i < k THEN s[i] ELSE s[i + 1]]
<1>6. m \in Nat
  BY <1>4
<1>7. \A i \in 1..m : i \in 1..l /\ i + 1 \in 1..l
  OBVIOUS
<1>8. t \in Seq(B) /\ Len(t) = m /\ \A i \in 1..m : t[i] = IF i < k THEN s[i] ELSE s[i + 1]
  BY <1>5, <1>6, <1>7
<1> HIDE DEF t
<1>9. DropAt(s, k, t)
  BY <1>3, <1>8 DEF DropAt
<1>10. Linked(RemoveBlock(q, b), t, B)
  BY <1>1, <1>3, <1>4, <1>8, <1>9, RemoveBlockLinks
<1>11. Elements(t) = L \ {b}
  <2>1. ASSUME NEW x \in Elements(t) PROVE x \in L \ {b}
    <3>1. PICK i \in 1..m : x = IF i < k THEN s[i] ELSE s[i + 1]
      BY <1>8, <2>1 DEF Elements
    <3>2. PICK j \in 1..l : x = s[j] /\ j # k
      BY <1>7, <3>1
    <3> QED BY <1>1, <1>2, <1>3, <1>4, <3>2 DEF Elements, Distinct
  <2>2. ASSUME NEW x \in L \ {b} PROVE x \in Elements(t)
    <3>1. PICK j \in 1..l : x = s[j]
      BY <1>1, <1>3, <2>2 DEF Elements
    <3>2. j # k
      BY <1>4, <2>2, <3>1
    <3>3. CASE j < k
      <4>1. j \in 1..m
        BY <1>4, <3>3
      <4> QED BY <1>8, <3>1, <3>3, <4>1 DEF Elements
    <3>4. CASE j > k
      <4>1. j - 1 \in 1..m /\ ~(j - 1 < k) /\ (j - 1) + 1 = j
        BY <1>4, <3>4
      <4> QED BY <1>8, <3>1, <4>1 DEF Elements
    <3> QED BY <1>4, <3>2, <3>3, <3>4
  <2> QED BY <2>1, <2>2
<1>12. RemoveBlock(q, b).size = q.size - 1
  BY <1>2, <1>3, <1>8, <1>10 DEF Linked
<1> QED BY <1>10, <1>11, <1>12 DEF Lists

\* Blocks that are not in the list join it.
LEMMA ListsInsert ==
  ASSUME NEW q, NEW L, NEW B, Lists(q, L, B),
         NEW u \in Seq(B), Distinct(u), Elements(u) \cap L = {}
  PROVE  /\ Lists(PrependN(q, u), L \cup Elements(u), B)
         /\ Lists(AppendN(q, u), L \cup Elements(u), B)
<1>1. PICK s : Linked(q, s, B) /\ L = Elements(s)
  BY DEF Lists
<1>2. s \in Seq(B)
  BY <1>1 DEF Linked
<1>3. \A i \in 1..Len(u) : ~In(s, u[i])
  BY <1>1 DEF Elements, In
<1>4. Linked(PrependN(q, u), u \o s, B)
  BY <1>1, <1>3, PrependNLinks
<1>5. Linked(AppendN(q, u), s \o u, B)
  BY <1>1, <1>3, AppendNLinks
<1>6. ASSUME NEW v \in Seq(B), NEW w \in Seq(B)
      PROVE  Elements(v \o w) = Elements(v) \cup Elements(w)
  <2>1. Len(v \o w) = Len(v) + Len(w) /\ Len(v) \in Nat /\ Len(w) \in Nat
    OBVIOUS
  <2>2. \A i \in 1..(Len(v) + Len(w)) :
           (v \o w)[i] = IF i <= Len(v) THEN v[i] ELSE w[i - Len(v)]
    OBVIOUS
  <2>3. ASSUME NEW x \in Elements(v \o w) PROVE x \in Elements(v) \cup Elements(w)
    <3>1. PICK i \in 1..(Len(v) + Len(w)) : x = IF i <= Len(v) THEN v[i] ELSE w[i - Len(v)]
      BY <2>1, <2>2, <2>3 DEF Elements
    <3>2. IF i <= Len(v) THEN i \in 1..Len(v) ELSE i - Len(v) \in 1..Len(w)
      BY <2>1, <3>1
    <3> QED BY <3>1, <3>2 DEF Elements
  <2>4. ASSUME NEW x \in Elements(v) PROVE x \in Elements(v \o w)
    <3>1. PICK i \in 1..Len(v) : x = v[i]
      BY <2>4 DEF Elements
    <3>2. i \in 1..(Len(v) + Len(w)) /\ i <= Len(v)
      BY <2>1, <3>1
    <3> QED BY <2>1, <2>2, <3>1, <3>2 DEF Elements
  <2>5. ASSUME NEW x \in Elements(w) PROVE x \in Elements(v \o w)
    <3>1. PICK i \in 1..Len(w) : x = w[i]
      BY <2>5 DEF Elements
    <3>2. i + Len(v) \in 1..(Len(v) + Len(w)) /\ ~(i + Len(v) <= Len(v))
          /\ (i + Len(v)) - Len(v) = i
      BY <2>1, <3>1
    <3> QED BY <2>1, <2>2, <3>1, <3>2 DEF Elements
  <2> QED BY <2>3, <2>4, <2>5
<1>7. Elements(u \o s) = L \cup Elements(u) /\ Elements(s \o u) = L \cup Elements(u)
  BY <1>1, <1>2, <1>6
<1> QED BY <1>4, <1>5, <1>7 DEF Lists

-----------------------------------------------------------------------------
(* The elements of a sequence that are in a set.                           *)

OnlyStep(s, S, t, i) == IF s[i] \in S THEN Append(t, s[i]) ELSE t

IsOnly(s, S, g) ==
  g = [I \in SUBSET DOMAIN s |->
         IF I = {} THEN <<>>
         ELSE OnlyStep(s, S, g[I \ {Max(I)}], Max(I))]

LEMMA OnlyUnfolded ==
  ASSUME NEW s, NEW S
  PROVE  Only(s, S) = (CHOOSE g : IsOnly(s, S, g))[DOMAIN s]
BY DEF Only, FoldLeft, MapThenFoldSet, OnlyStep, IsOnly

\* What every step of the filter keeps holds of its result.
LEMMA OnlyRuns ==
  ASSUME NEW s, NEW S, NEW V, Len(s) \in Nat, DOMAIN s = 1..Len(s), <<>> \in V[{}],
         \A I \in SUBSET (1..Len(s)) : I # {} =>
           \A v \in V[I \ {Max(I)}] : OnlyStep(s, S, v, Max(I)) \in V[I]
  PROVE  Only(s, S) \in V[1..Len(s)]
<1> DEFINE U == UNION {V[I] : I \in SUBSET (1..Len(s))}
           step == [I \in SUBSET (1..Len(s)) |-> [v \in U |-> OnlyStep(s, S, v, Max(I))]]
<1>1. ASSUME NEW I \in SUBSET (1..Len(s)), I # {}, NEW v \in V[I \ {Max(I)}]
      PROVE  step[I][v] = OnlyStep(s, S, v, Max(I))
  <2>1. I \ {Max(I)} \in SUBSET (1..Len(s))
    OBVIOUS
  <2>2. v \in U
    BY <2>1, <1>1
  <2> QED BY <2>2
<1> HIDE DEF step
<1>2. Advances(Len(s), V, <<>>, step)
  BY <1>1 DEF Advances
<1>3. PICK g : FoldStates(Len(s), V, <<>>, step, g)
  BY <1>2, FoldHasStates
<1>4. IsOnly(s, S, g)
  <2>1. ASSUME NEW I \in SUBSET (1..Len(s)), I # {}
        PROVE  g[I] = OnlyStep(s, S, g[I \ {Max(I)}], Max(I))
    <3>1. g[I \ {Max(I)}] \in V[I \ {Max(I)}] /\ g[I] = step[I][g[I \ {Max(I)}]]
      BY <1>3, <2>1 DEF FoldStates
    <3> QED BY <1>1, <2>1, <3>1
  <2>2. g = [I \in SUBSET (1..Len(s)) |-> IF I = {} THEN <<>>
                ELSE OnlyStep(s, S, g[I \ {Max(I)}], Max(I))]
    BY <1>3, <2>1 DEF FoldStates
  <2> QED BY <2>2 DEF IsOnly
<1> DEFINE h == CHOOSE h : IsOnly(s, S, h)
<1>5. IsOnly(s, S, h)
  BY <1>4
<1> HIDE DEF h
<1>6. h = [I \in SUBSET (1..Len(s)) |-> IF I = {} THEN <<>>
             ELSE OnlyStep(s, S, h[I \ {Max(I)}], Max(I))]
  BY <1>5 DEF IsOnly
<1>7. h[{}] = <<>>
  BY <1>6
<1>8. ASSUME NEW I \in SUBSET (1..Len(s)), I # {}, h[I \ {Max(I)}] \in V[I \ {Max(I)}]
      PROVE  h[I] = step[I][h[I \ {Max(I)}]]
  <2>1. h[I] = OnlyStep(s, S, h[I \ {Max(I)}], Max(I))
    BY <1>6, <1>8
  <2> QED BY <1>1, <1>8, <2>1
<1>9. FoldGoes(Len(s), V, <<>>, step, h)
  BY <1>7, <1>8 DEF FoldGoes
<1>10. h[1..Len(s)] \in V[1..Len(s)]
  <2>1. 1..Len(s) \in SUBSET (1..Len(s))
    OBVIOUS
  <2> QED BY <1>2, <1>9, <2>1, FoldReaches
<1> QED BY <1>10, OnlyUnfolded DEF h

\* The places that are folded before the last one of I.
LEMMA BeforeLast ==
  ASSUME NEW n \in Nat, NEW I \in SUBSET (1..n), I # {}
  PROVE  \E x \in 1..n : /\ x = Max(I) /\ x \in I /\ \A i \in I \ {x} : i < x
                         /\ I = (I \ {x}) \cup {x} /\ I \ {x} \in SUBSET (1..n)
<1>1. Max(I) \in I /\ \A i \in I : i <= Max(I)
  BY MaxOfPlaces
<1>2. PICK x \in 1..n : x = Max(I)
  BY <1>1
<1>3. \A i \in I \ {x} : i < x
  <2>1. SUFFICES ASSUME NEW i \in I \ {x} PROVE i < x
    OBVIOUS
  <2>2. i <= x /\ i # x /\ i \in 1..n
    BY <1>1, <1>2
  <2> QED BY <2>2
<1>4. I = (I \ {x}) \cup {x}
  BY <1>1, <1>2
<1> QED BY <1>1, <1>2, <1>3, <1>4

\* What is appended is an element more, at a place more.
Appended(T, t, x, u) ==
  /\ u \in Seq(T) /\ Len(u) = Len(t) + 1 /\ Len(t) \in Nat
  /\ \A i \in 1..Len(t) : u[i] = t[i]
  /\ u[Len(t) + 1] = x /\ Elements(u) = Elements(t) \cup {x}
  /\ Distinct(t) /\ x \notin Elements(t) => Distinct(u)

LEMMA AppendIs ==
  ASSUME NEW T, NEW t \in Seq(T), NEW x \in T
  PROVE  Appended(T, t, x, Append(t, x))
<1>1. PICK n \in Nat : n = Len(t)
  OBVIOUS
<1>2. PICK u \in Seq(T) : u = Append(t, x)
  <2>1. Append(t, x) \in Seq(T)
    OBVIOUS
  <2> QED BY <2>1
<1>3. Len(u) = n + 1 /\ \A i \in 1..n : u[i] = t[i]
  BY <1>1, <1>2
<1>4. u[n + 1] = x
  BY <1>1, <1>2
<1>5. \A i \in 1..(n + 1) : i \in 1..n \/ i = n + 1
  OBVIOUS
<1>6. Elements(u) = Elements(t) \cup {x}
  <2>1. \A i \in 1..n : i \in 1..(n + 1)
    OBVIOUS
  <2>2. n + 1 \in 1..(n + 1)
    OBVIOUS
  <2> QED BY <1>1, <1>3, <1>4, <1>5, <2>1, <2>2 DEF Elements
<1>7. ASSUME Distinct(t), x \notin Elements(t) PROVE Distinct(u)
  <2>1. \A i, j \in 1..n : t[i] = t[j] => i = j
    BY <1>1, <1>7 DEF Distinct
  <2>2. \A i \in 1..n : t[i] # x
    BY <1>1, <1>7 DEF Elements
  <2>3. \A i, j \in 1..(n + 1) : u[i] = u[j] => i = j
    BY <1>3, <1>4, <1>5, <2>1, <2>2
  <2> QED BY <1>3, <2>3 DEF Distinct
<1>8. Appended(T, t, x, u)
  BY <1>1, <1>2, <1>3, <1>4, <1>6, <1>7 DEF Appended
<1> QED BY <1>2, <1>8

\* The filtered sequence has the elements in S, and repeats none if s did not.
LEMMA OnlyIs ==
  ASSUME NEW T, NEW s \in Seq(T), NEW S
  PROVE  /\ Only(s, S) \in Seq(T) /\ Elements(Only(s, S)) = Elements(s) \cap S
         /\ Distinct(s) => Distinct(Only(s, S))
<1>1. PICK n \in Nat : n = Len(s)
  OBVIOUS
<1>2. DOMAIN s = 1..n /\ \A i \in 1..n : s[i] \in T
  BY <1>1
<1> DEFINE At(I) == {s[i] : i \in I}
           V == [I \in SUBSET (1..n) |->
                   {t \in Seq(T) : Elements(t) = At(I) \cap S /\ (Distinct(s) => Distinct(t))}]
<1>3. <<>> \in V[{}]
  <2>1. <<>> \in Seq(T) /\ Elements(<<>>) = {} /\ Distinct(<<>>) /\ {} \in SUBSET (1..n)
    BY DEF Elements, Distinct
  <2> QED BY <2>1
<1>4. ASSUME NEW I \in SUBSET (1..n), I # {}, NEW t \in V[I \ {Max(I)}]
      PROVE  OnlyStep(s, S, t, Max(I)) \in V[I]
  <2>1. PICK x \in 1..n : /\ x = Max(I) /\ x \in I /\ \A i \in I \ {x} : i < x
                          /\ I = (I \ {x}) \cup {x} /\ I \ {x} \in SUBSET (1..n)
    BY <1>4, BeforeLast
  <2>2. t \in Seq(T) /\ Elements(t) = At(I \ {x}) \cap S /\ (Distinct(s) => Distinct(t))
    BY <1>4, <2>1
  <2>3. At(I) = At(I \ {x}) \cup {s[x]}
    BY <2>1
  <2>4. Distinct(s) => s[x] \notin At(I \ {x})
    <3>1. SUFFICES ASSUME Distinct(s), NEW i \in I \ {x}, s[i] = s[x] PROVE FALSE
      OBVIOUS
    <3>2. i \in 1..n /\ i # x
      OBVIOUS
    <3> QED BY <1>1, <3>1, <3>2 DEF Distinct
  <2> HIDE DEF At
  <2>5. CASE s[x] \in S
    <3> DEFINE u == Append(t, s[x])
    <3>1. OnlyStep(s, S, t, x) = u
      BY <2>5 DEF OnlyStep
    <3>2. s[x] \in T
      BY <1>2
    <3>3. Appended(T, t, s[x], u)
      BY <2>2, <3>2, AppendIs
    <3> HIDE DEF u
    <3>4. Elements(u) = At(I) \cap S /\ u \in Seq(T)
      BY <2>2, <2>3, <2>5, <3>3 DEF Appended
    <3>5. Distinct(s) => Distinct(u)
      BY <2>2, <2>4, <3>3 DEF Appended
    <3> QED BY <2>1, <3>1, <3>4, <3>5
  <2>6. CASE s[x] \notin S
    <3>1. OnlyStep(s, S, t, x) = t
      BY <2>6 DEF OnlyStep
    <3>2. At(I) \cap S = At(I \ {x}) \cap S
      BY <2>3, <2>6
    <3> QED BY <2>1, <2>2, <3>1, <3>2
  <2> QED BY <2>5, <2>6
<1> HIDE DEF V
<1>5. Only(s, S) \in V[1..n]
  BY <1>1, <1>2, <1>3, <1>4, OnlyRuns
<1>6. At(1..n) = Elements(s)
  BY <1>1 DEF Elements
<1> HIDE DEF At
<1>7. 1..n \in SUBSET (1..n)
  OBVIOUS
<1> QED BY <1>5, <1>6, <1>7 DEF V

\* Without the element at the place k, those after it move up a place.
Moved(s, k, u) ==
  \A i \in 1..Len(s) : i # k => \E j \in 1..Len(u) : u[j] = s[i] /\ j <= i /\ (k < i => j < i)

\* Without the element at place k the others keep their place or move up by one.
LEMMA OnlyPlaces ==
  ASSUME NEW T, NEW s \in Seq(T), NEW v, Distinct(s), NEW k \in 1..Len(s), s[k] = v
  PROVE  Moved(s, k, Only(s, T \ {v}))
<1> DEFINE S == T \ {v}
<1>0. \A y \in T : y \in S <=> y # v
  OBVIOUS
<1> HIDE DEF S
<1>1. PICK n \in Nat : n = Len(s)
  OBVIOUS
<1>2. DOMAIN s = 1..n /\ \A i \in 1..n : s[i] \in T
  BY <1>1
<1>3. \A i \in 1..n : s[i] \in S <=> i # k
  BY <1>0, <1>1, <1>2 DEF Distinct
<1> DEFINE Short(t, I) == \A m \in 0..n : (\A i \in I : i <= m) =>
                            Len(t) <= m /\ (k <= m => Len(t) < m)
           Placed(t, i) == \E j \in 1..Len(t) : t[j] = s[i] /\ j <= i /\ (k < i => j < i)
           V == [I \in SUBSET (1..n) |->
                   {t \in Seq(T) : Short(t, I) /\ \A i \in I : i # k => Placed(t, i)}]
<1>4. <<>> \in V[{}]
  <2>1. <<>> \in Seq(T) /\ Len(<<>>) = 0 /\ {} \in SUBSET (1..n)
    OBVIOUS
  <2>2. Short(<<>>, {})
    BY <1>1, <2>1
  <2> QED BY <2>1, <2>2
<1>5. ASSUME NEW I \in SUBSET (1..n), I # {}, NEW t \in V[I \ {Max(I)}]
      PROVE  OnlyStep(s, S, t, Max(I)) \in V[I]
  <2>1. PICK x \in 1..n : /\ x = Max(I) /\ x \in I /\ \A i \in I \ {x} : i < x
                          /\ I = (I \ {x}) \cup {x} /\ I \ {x} \in SUBSET (1..n)
    BY <1>5, BeforeLast
  <2>2. t \in Seq(T) /\ Short(t, I \ {x}) /\ \A i \in I \ {x} : i # k => Placed(t, i)
    BY <1>5, <2>1
  <2>3. PICK l \in Nat : l = Len(t)
    BY <2>2
  <2>4. l <= x - 1 /\ (k <= x - 1 => l < x - 1)
    <3>1. x - 1 \in 0..n /\ \A i \in I \ {x} : i <= x - 1
      BY <2>1
    <3> QED BY <2>2, <2>3, <3>1
  <2>5. CASE x # k
    <3> DEFINE u == Append(t, s[x])
    <3>1. OnlyStep(s, S, t, x) = u
      BY <1>3, <2>5 DEF OnlyStep
    <3>0. s[x] \in T
      BY <1>2
    <3>2. Appended(T, t, s[x], u)
      BY <2>2, <3>0, AppendIs
    <3> HIDE DEF u
    <3>9. u \in Seq(T) /\ Len(u) = l + 1 /\ (\A i \in 1..l : u[i] = t[i]) /\ u[l + 1] = s[x]
      BY <2>3, <3>2 DEF Appended
    <3>3. Short(u, I)
      <4>1. SUFFICES ASSUME NEW m \in 0..n, \A i \in I : i <= m
                     PROVE  Len(u) <= m /\ (k <= m => Len(u) < m)
        OBVIOUS
      <4>2. x <= m
        BY <2>1, <4>1
      <4>3. k \in Nat
        BY <1>1
      <4> QED BY <2>4, <2>5, <3>9, <4>2, <4>3
    <3>4. ASSUME NEW i \in I, i # k PROVE Placed(u, i)
      <4>1. CASE i = x
        <5>1. l + 1 \in 1..Len(u) /\ l + 1 <= x /\ (k < x => l + 1 < x)
          BY <1>1, <2>4, <3>9
        <5> QED BY <3>9, <4>1, <5>1
      <4>2. CASE i # x
        <5>1. PICK j \in 1..l : t[j] = s[i] /\ j <= i /\ (k < i => j < i)
          BY <2>2, <2>3, <3>4, <4>2
        <5>2. j \in 1..Len(u)
          BY <3>9
        <5> QED BY <3>9, <5>1, <5>2
      <4> QED BY <4>1, <4>2
    <3> HIDE DEF Short, Placed
    <3> QED BY <2>1, <3>1, <3>9, <3>3, <3>4
  <2>6. CASE x = k
    <3>1. OnlyStep(s, S, t, x) = t
      BY <1>3, <2>6 DEF OnlyStep
    <3>2. Short(t, I)
      <4>1. SUFFICES ASSUME NEW m \in 0..n, \A i \in I : i <= m
                     PROVE  Len(t) <= m /\ (k <= m => Len(t) < m)
        OBVIOUS
      <4>2. x <= m
        BY <2>1, <4>1
      <4> QED BY <2>3, <2>4, <2>6, <4>2
    <3>3. \A i \in I : i # k => Placed(t, i)
      BY <2>2, <2>6
    <3> HIDE DEF Short, Placed
    <3> QED BY <2>1, <2>2, <3>1, <3>2, <3>3
  <2> QED BY <2>5, <2>6
<1> HIDE DEF V
<1>6. Only(s, S) \in V[1..n]
  BY <1>1, <1>2, <1>4, <1>5, OnlyRuns
<1>7. 1..n \in SUBSET (1..n)
  OBVIOUS
<1>8. \A i \in 1..n : i # k => Placed(Only(s, S), i)
  BY <1>6, <1>7 DEF V
<1> QED BY <1>1, <1>8 DEF Moved, S
-----------------------------------------------------------------------------
(* The pool of blocks of B, whose keys are in K.                           *)

Caches(B, K) == UNION {[D -> Seq(B)] : D \in SUBSET K}

CacheAgrees(hash, cached, B) ==
  /\ \A b \in B : hash[b] # NoKey => hash[b] \in DOMAIN cached /\ b \in Elements(cached[hash[b]])
  /\ \A k \in DOMAIN cached : cached[k] # <<>> /\ \A b \in Elements(cached[k]) : hash[b] = k

\* The pools whose map agrees with the hashes of the blocks.
Pools(B, K) ==
  {p \in [ref : [B -> Int], hash : [B -> K \cup {NoKey}], cached : Caches(B, K),
          queue : QueueOf(B), failed : BOOLEAN] : CacheAgrees(p.hash, p.cached, B)}

\* The pool of these parts.
Parts(p, ref, hash, cached, queue, failed) ==
  p = [ref |-> ref, hash |-> hash, cached |-> cached, queue |-> queue, failed |-> failed]

\* The parts of a pool.
LEMMA PoolParts ==
  ASSUME NEW B, NEW K, NEW p \in Pools(B, K)
  PROVE  /\ p.ref \in [B -> Int] /\ p.hash \in [B -> K \cup {NoKey}] /\ p.cached \in Caches(B, K)
         /\ p.queue \in QueueOf(B) /\ p.failed \in BOOLEAN
         /\ CacheAgrees(p.hash, p.cached, B)
         /\ Parts(p, p.ref, p.hash, p.cached, p.queue, p.failed)
BY DEF Pools, Parts

PoolOf(p, ref, hash, cached, queue, failed, B, K) ==
  /\ p \in Pools(B, K) /\ p.ref = ref /\ p.hash = hash /\ p.cached = cached
  /\ p.queue = queue /\ p.failed = failed

\* A pool from its parts.
LEMMA PartsPool ==
  ASSUME NEW B, NEW K, NEW p, NEW ref \in [B -> Int], NEW hash \in [B -> K \cup {NoKey}],
         NEW cached \in Caches(B, K), NEW queue \in QueueOf(B), NEW failed \in BOOLEAN,
         CacheAgrees(hash, cached, B), Parts(p, ref, hash, cached, queue, failed)
  PROVE  PoolOf(p, ref, hash, cached, queue, failed, B, K)
BY DEF Pools, Parts, PoolOf

LEMMA CacheParts ==
  ASSUME NEW B, NEW K, NEW c \in Caches(B, K)
  PROVE  /\ DOMAIN c \in SUBSET K /\ c \in [DOMAIN c -> Seq(B)]
         /\ \A k \in DOMAIN c : c[k] \in Seq(B)
BY DEF Caches

\* A block leaves the prefix cache.
HashRemoved(p, b, r, B, K) ==
  /\ r \in Pools(B, K) /\ r.ref = p.ref /\ r.queue = p.queue /\ r.failed = p.failed
  /\ r.hash = [p.hash EXCEPT ![b] = NoKey]

\* _remove_block_hash: the block has no hash, the map does not find it.
LEMMA RemoveHashIs ==
  ASSUME NEW B, NEW K, NoKey \notin K, NEW p \in Pools(B, K), NEW b \in B
  PROVE  HashRemoved(p, b, RemoveHash(p, b), B, K)
<1>0. /\ p.ref \in [B -> Int] /\ p.hash \in [B -> K \cup {NoKey}] /\ p.cached \in Caches(B, K)
      /\ p.queue \in QueueOf(B) /\ p.failed \in BOOLEAN
      /\ CacheAgrees(p.hash, p.cached, B)
      /\ Parts(p, p.ref, p.hash, p.cached, p.queue, p.failed)
  BY PoolParts
<1> DEFINE k    == p.hash[b]
           left == Only(p.cached[k], DOMAIN p.ref \ {b})
           hash == [p.hash EXCEPT ![b] = NoKey]
           cached == IF left = <<>> THEN [x \in DOMAIN p.cached \ {k} |-> p.cached[x]]
                     ELSE [p.cached EXCEPT ![k] = left]
<1>1. CASE k = NoKey
  <2>1. RemoveHash(p, b) = p
    BY <1>1 DEF RemoveHash
  <2>2. p.hash = [p.hash EXCEPT ![b] = NoKey]
    BY <1>0, <1>1
  <2> QED BY <2>1, <2>2 DEF HashRemoved
<1>2. CASE k # NoKey
  <2>1. RemoveHash(p, b) = [p EXCEPT !.hash = hash, !.cached = cached]
    BY <1>2 DEF RemoveHash
  <2>2. /\ k \in K /\ k \in DOMAIN p.cached /\ b \in Elements(p.cached[k])
        /\ p.cached[k] \in Seq(B) /\ DOMAIN p.cached \in SUBSET K
        /\ p.cached \in [DOMAIN p.cached -> Seq(B)]
    BY <1>0, <1>2, CacheParts DEF CacheAgrees
  <2>3. left \in Seq(B) /\ Elements(left) = Elements(p.cached[k]) \ {b}
    <3>1. left \in Seq(B) /\ Elements(left) = Elements(p.cached[k]) \cap (DOMAIN p.ref \ {b})
      BY <2>2, OnlyIs
    <3>2. Elements(p.cached[k]) \subseteq B
      BY <2>2 DEF Elements
    <3>3. DOMAIN p.ref = B
      BY <1>0
    <3> QED BY <3>1, <3>2, <3>3
  <2> HIDE DEF left
  <2>4. hash \in [B -> K \cup {NoKey}]
    BY <1>0
  <2>5. cached \in Caches(B, K) /\ CacheAgrees(hash, cached, B)
    <3>1. CASE left = <<>>
      <4>1. cached = [x \in DOMAIN p.cached \ {k} |-> p.cached[x]]
        BY <3>1
      <4>2. cached \in [DOMAIN p.cached \ {k} -> Seq(B)] /\ DOMAIN cached = DOMAIN p.cached \ {k}
        BY <2>2, <4>1
      <4>3. cached \in Caches(B, K)
        BY <2>2, <4>2 DEF Caches
      <4>4. Elements(left) = {}
        BY <3>1 DEF Elements
      <4>5. Elements(p.cached[k]) = {b}
        BY <2>2, <2>3, <4>4
      <4>6. ASSUME NEW c \in B, hash[c] # NoKey
            PROVE  hash[c] \in DOMAIN cached /\ c \in Elements(cached[hash[c]])
        <5>1. c # b /\ hash[c] = p.hash[c]
          BY <1>0, <4>6
        <5>2. p.hash[c] \in DOMAIN p.cached /\ c \in Elements(p.cached[p.hash[c]])
          BY <1>0, <4>6, <5>1 DEF CacheAgrees
        <5>3. p.hash[c] # k
          BY <4>5, <5>1, <5>2
        <5> QED BY <4>1, <5>1, <5>2, <5>3
      <4>7. ASSUME NEW x \in DOMAIN cached
            PROVE  cached[x] # <<>> /\ \A c \in Elements(cached[x]) : hash[c] = x
        <5>1. x \in DOMAIN p.cached /\ x # k /\ cached[x] = p.cached[x]
          BY <4>1, <4>2
        <5>2. p.cached[x] # <<>> /\ \A c \in Elements(p.cached[x]) : p.hash[c] = x
          BY <1>0, <5>1 DEF CacheAgrees
        <5>3. \A c \in Elements(p.cached[x]) : c # b
          BY <5>1, <5>2
        <5> QED BY <1>0, <5>1, <5>2, <5>3
      <4> HIDE DEF cached, hash
      <4> QED BY <4>3, <4>6, <4>7 DEF CacheAgrees
    <3>2. CASE left # <<>>
      <4>1. cached = [p.cached EXCEPT ![k] = left]
        BY <3>2
      <4>2. cached \in [DOMAIN p.cached -> Seq(B)] /\ DOMAIN cached = DOMAIN p.cached
            /\ cached[k] = left /\ \A x \in DOMAIN p.cached \ {k} : cached[x] = p.cached[x]
        BY <2>2, <2>3, <4>1
      <4>3. cached \in Caches(B, K)
        BY <2>2, <4>2 DEF Caches
      <4>6. ASSUME NEW c \in B, hash[c] # NoKey
            PROVE  hash[c] \in DOMAIN cached /\ c \in Elements(cached[hash[c]])
        <5>1. c # b /\ hash[c] = p.hash[c]
          BY <1>0, <4>6
        <5>2. p.hash[c] \in DOMAIN p.cached /\ c \in Elements(p.cached[p.hash[c]])
          BY <1>0, <4>6, <5>1 DEF CacheAgrees
        <5> QED BY <2>3, <4>2, <5>1, <5>2
      <4>7. ASSUME NEW x \in DOMAIN cached
            PROVE  cached[x] # <<>> /\ \A c \in Elements(cached[x]) : hash[c] = x
        <5>1. x \in DOMAIN p.cached
          BY <4>2
        <5>2. p.cached[x] # <<>> /\ \A c \in Elements(p.cached[x]) : p.hash[c] = x
          BY <1>0, <5>1 DEF CacheAgrees
        <5>3. cached[x] # <<>> /\ \A c \in Elements(cached[x]) : c \in Elements(p.cached[x]) /\ c # b
          <6>1. CASE x = k
            BY <2>3, <3>2, <4>2, <6>1
          <6>2. CASE x # k
            BY <4>2, <5>1, <5>2, <6>2
          <6> QED BY <6>1, <6>2
        <5>4. Elements(p.cached[x]) \subseteq B
          BY <2>2, <5>1 DEF Elements
        <5> QED BY <1>0, <5>2, <5>3, <5>4
      <4> HIDE DEF cached, hash
      <4> QED BY <4>3, <4>6, <4>7 DEF CacheAgrees
    <3> QED BY <3>1, <3>2
  <2> HIDE DEF cached, hash
  <2>6. Parts(RemoveHash(p, b), p.ref, hash, cached, p.queue, p.failed)
    BY <1>0, <2>1 DEF Parts
  <2>7. PoolOf(RemoveHash(p, b), p.ref, hash, cached, p.queue, p.failed, B, K)
    BY <1>0, <2>4, <2>5, <2>6, PartsPool
  <2> QED BY <2>7 DEF PoolOf, HashRemoved, hash
<1> QED BY <1>1, <1>2
-----------------------------------------------------------------------------
(* The blocks that are taken from the free list.                           *)

EvictStep(s, p, i) == RemoveHash(p, s[i])
Evict(p, s)        == FoldLeft(RemoveHash, p, s)

IsEvict(p, s, g) ==
  g = [I \in SUBSET DOMAIN s |->
         IF I = {} THEN p
         ELSE EvictStep(s, g[I \ {Max(I)}], Max(I))]

LEMMA EvictUnfolded ==
  ASSUME NEW p, NEW s
  PROVE  Evict(p, s) = (CHOOSE g : IsEvict(p, s, g))[DOMAIN s]
BY DEF Evict, FoldLeft, MapThenFoldSet, EvictStep, IsEvict

LEMMA EvictRuns ==
  ASSUME NEW p, NEW s, NEW V, Len(s) \in Nat, DOMAIN s = 1..Len(s), p \in V[{}],
         \A I \in SUBSET (1..Len(s)) : I # {} =>
           \A v \in V[I \ {Max(I)}] : EvictStep(s, v, Max(I)) \in V[I]
  PROVE  Evict(p, s) \in V[1..Len(s)]
<1> DEFINE U == UNION {V[I] : I \in SUBSET (1..Len(s))}
           step == [I \in SUBSET (1..Len(s)) |-> [v \in U |-> EvictStep(s, v, Max(I))]]
<1>1. ASSUME NEW I \in SUBSET (1..Len(s)), I # {}, NEW v \in V[I \ {Max(I)}]
      PROVE  step[I][v] = EvictStep(s, v, Max(I))
  <2>1. I \ {Max(I)} \in SUBSET (1..Len(s))
    OBVIOUS
  <2>2. v \in U
    BY <2>1, <1>1
  <2> QED BY <2>2
<1> HIDE DEF step
<1>2. Advances(Len(s), V, p, step)
  BY <1>1 DEF Advances
<1>3. PICK g : FoldStates(Len(s), V, p, step, g)
  BY <1>2, FoldHasStates
<1>4. IsEvict(p, s, g)
  <2>1. ASSUME NEW I \in SUBSET (1..Len(s)), I # {}
        PROVE  g[I] = EvictStep(s, g[I \ {Max(I)}], Max(I))
    <3>1. g[I \ {Max(I)}] \in V[I \ {Max(I)}] /\ g[I] = step[I][g[I \ {Max(I)}]]
      BY <1>3, <2>1 DEF FoldStates
    <3> QED BY <1>1, <2>1, <3>1
  <2>2. g = [I \in SUBSET (1..Len(s)) |-> IF I = {} THEN p
                ELSE EvictStep(s, g[I \ {Max(I)}], Max(I))]
    BY <1>3, <2>1 DEF FoldStates
  <2> QED BY <2>2 DEF IsEvict
<1> DEFINE h == CHOOSE h : IsEvict(p, s, h)
<1>5. IsEvict(p, s, h)
  BY <1>4
<1> HIDE DEF h
<1>6. h = [I \in SUBSET (1..Len(s)) |-> IF I = {} THEN p
             ELSE EvictStep(s, h[I \ {Max(I)}], Max(I))]
  BY <1>5 DEF IsEvict
<1>7. h[{}] = p
  BY <1>6
<1>8. ASSUME NEW I \in SUBSET (1..Len(s)), I # {}, h[I \ {Max(I)}] \in V[I \ {Max(I)}]
      PROVE  h[I] = step[I][h[I \ {Max(I)}]]
  <2>1. h[I] = EvictStep(s, h[I \ {Max(I)}], Max(I))
    BY <1>6, <1>8
  <2> QED BY <1>1, <1>8, <2>1
<1>9. FoldGoes(Len(s), V, p, step, h)
  BY <1>7, <1>8 DEF FoldGoes
<1>10. h[1..Len(s)] \in V[1..Len(s)]
  <2>1. 1..Len(s) \in SUBSET (1..Len(s))
    OBVIOUS
  <2> QED BY <1>2, <1>9, <2>1, FoldReaches
<1> QED BY <1>10, EvictUnfolded DEF h

\* The blocks of s leave the prefix cache.
Evicted(p, s, r, B, K) ==
  /\ r \in Pools(B, K) /\ r.ref = p.ref /\ r.queue = p.queue /\ r.failed = p.failed
  /\ \A b \in B : r.hash[b] = IF b \in Elements(s) THEN NoKey ELSE p.hash[b]

\* _maybe_evict_cached_block for several blocks: none of them is cached.
LEMMA EvictIs ==
  ASSUME NEW B, NEW K, NoKey \notin K, NEW p \in Pools(B, K), NEW s \in Seq(B)
  PROVE  Evicted(p, s, Evict(p, s), B, K)
<1>1. PICK n \in Nat : n = Len(s)
  OBVIOUS
<1>2. DOMAIN s = 1..n /\ \A i \in 1..n : s[i] \in B
  BY <1>1
<1> DEFINE At(I) == {s[i] : i \in I}
           V == [I \in SUBSET (1..n) |->
                   {r \in Pools(B, K) :
                      /\ r.ref = p.ref /\ r.queue = p.queue /\ r.failed = p.failed
                      /\ \A b \in B : r.hash[b] = IF b \in At(I) THEN NoKey ELSE p.hash[b]}]
<1>3. p \in V[{}]
  <2>1. {} \in SUBSET (1..n) /\ At({}) = {}
    OBVIOUS
  <2> QED BY <2>1
<1>4. ASSUME NEW I \in SUBSET (1..n), I # {}, NEW r \in V[I \ {Max(I)}]
      PROVE  EvictStep(s, r, Max(I)) \in V[I]
  <2>1. PICK x \in 1..n : /\ x = Max(I) /\ x \in I /\ \A i \in I \ {x} : i < x
                          /\ I = (I \ {x}) \cup {x} /\ I \ {x} \in SUBSET (1..n)
    BY <1>4, BeforeLast
  <2>2. /\ r \in Pools(B, K) /\ r.ref = p.ref /\ r.queue = p.queue /\ r.failed = p.failed
        /\ \A b \in B : r.hash[b] = IF b \in At(I \ {x}) THEN NoKey ELSE p.hash[b]
    BY <1>4, <2>1
  <2>3. At(I) = At(I \ {x}) \cup {s[x]}
    BY <2>1
  <2> HIDE DEF At
  <2> DEFINE q == RemoveHash(r, s[x])
  <2>4. HashRemoved(r, s[x], q, B, K)
    BY <1>2, <2>2, RemoveHashIs
  <2>5. EvictStep(s, r, x) = q
    BY DEF EvictStep
  <2> HIDE DEF q
  <2>6. q \in Pools(B, K) /\ q.ref = p.ref /\ q.queue = p.queue /\ q.failed = p.failed
        /\ q.hash = [r.hash EXCEPT ![s[x]] = NoKey]
    BY <2>2, <2>4 DEF HashRemoved
  <2>7. r.hash \in [B -> K \cup {NoKey}]
    BY <2>2, PoolParts
  <2>8. \A b \in B : q.hash[b] = IF b \in At(I) THEN NoKey ELSE p.hash[b]
    BY <2>2, <2>3, <2>6, <2>7
  <2> QED BY <2>1, <2>5, <2>6, <2>8
<1> HIDE DEF V
<1>5. Evict(p, s) \in V[1..n]
  BY <1>1, <1>2, <1>3, <1>4, EvictRuns
<1>6. At(1..n) = Elements(s)
  BY <1>1 DEF Elements
<1> HIDE DEF At
<1>7. 1..n \in SUBSET (1..n)
  OBVIOUS
<1>8. Evict(p, s) \in {r \in Pools(B, K) :
                      /\ r.ref = p.ref /\ r.queue = p.queue /\ r.failed = p.failed
                      /\ \A b \in B : r.hash[b] = IF b \in At(1..n) THEN NoKey ELSE p.hash[b]}
  BY <1>5, <1>7 DEF V
<1> QED BY <1>6, <1>8 DEF Evicted

\* The first n blocks leave the list and the prefix cache, and have a holder more.
Taken(p, new, L, n, r, B, K) ==
  /\ r \in Pools(B, K) /\ Lists(r.queue, L \ Elements(new), B) /\ r.queue.size = p.queue.size - n
  /\ r.ref = [b \in B |-> IF b \in Elements(new) THEN p.ref[b] + 1 ELSE p.ref[b]]
  /\ \A b \in B : r.hash[b] = IF b \in Elements(new) THEN NoKey ELSE p.hash[b]
  /\ r.failed = (p.failed \/ \E i \in 1..n : p.ref[new[i]] # 0)

\* get_new_blocks: the first n free blocks, evicted and counted once.
LEMMA GetNewBlocksIs ==
  ASSUME NEW B, NEW K, NoKey \notin K, NEW p \in Pools(B, K), NEW L, Lists(p.queue, L, B),
         NEW n \in Nat, n <= p.queue.size
  PROVE  Taken(p, FirstBlocks(p.queue, n), L, n, GetNewBlocks(p, n), B, K)
<1> DEFINE new == FirstBlocks(p.queue, n)
           out == Evict(p, new)
           queue == PopLeftN(p.queue, n)
           ref == [b \in B |-> IF b \in Elements(new) THEN p.ref[b] + 1 ELSE p.ref[b]]
           failed == (p.failed \/ \E i \in 1..n : p.ref[new[i]] # 0)
<1>0. p.ref \in [B -> Int] /\ p.failed \in BOOLEAN
  BY PoolParts
<1>1. p.queue.size \in Nat
  BY ListsAre
<1>2. new \in Seq(B) /\ Elements(new) \subseteq L
  BY ListsFirst
<1>3. Lists(queue, L \ Elements(new), B) /\ queue.size = p.queue.size - n
  BY ListsFirst
<1>4. queue \in QueueOf(B)
  BY <1>3, ListsAre
<1>5. Evicted(p, new, out, B, K)
  BY <1>2, EvictIs
<1>6. ~(n > FreeCount(p))
  BY <1>1 DEF FreeCount
<1>7. GetNewBlocks(p, n) =
        [out EXCEPT !.queue  = PopLeftN(out.queue, n),
                    !.failed = out.failed \/ \E i \in 1..n : p.ref[new[i]] # 0,
                    !.ref    = [b \in DOMAIN out.ref |->
                                  IF Contains(new, b) THEN out.ref[b] + 1 ELSE out.ref[b]]]
  BY <1>6 DEF GetNewBlocks, Evict
<1> HIDE DEF out, new
<1>8. /\ out \in Pools(B, K) /\ out.ref = p.ref /\ out.queue = p.queue /\ out.failed = p.failed
      /\ \A b \in B : out.hash[b] = IF b \in Elements(new) THEN NoKey ELSE p.hash[b]
  BY <1>5 DEF Evicted
<1>9. /\ out.hash \in [B -> K \cup {NoKey}] /\ out.cached \in Caches(B, K)
      /\ CacheAgrees(out.hash, out.cached, B)
      /\ Parts(out, out.ref, out.hash, out.cached, out.queue, out.failed)
  BY <1>8, PoolParts
<1>10. \A b \in B : Contains(new, b) <=> b \in Elements(new)
  BY DEF Contains, Elements
<1>11. [b \in DOMAIN out.ref |-> IF Contains(new, b) THEN out.ref[b] + 1 ELSE out.ref[b]] = ref
  BY <1>0, <1>8, <1>10
<1>12. ref \in [B -> Int] /\ failed \in BOOLEAN
  BY <1>0
<1>13. GetNewBlocks(p, n) = [out EXCEPT !.queue = queue, !.failed = failed, !.ref = ref]
  BY <1>7, <1>8, <1>11
<1> HIDE DEF ref, failed, queue
<1>14. Parts(GetNewBlocks(p, n), ref, out.hash, out.cached, queue, failed)
  BY <1>9, <1>13 DEF Parts
<1>15. PoolOf(GetNewBlocks(p, n), ref, out.hash, out.cached, queue, failed, B, K)
  BY <1>4, <1>9, <1>12, <1>14, PartsPool
<1>16. GetNewBlocks(p, n).ref = [b \in B |-> IF b \in Elements(new) THEN p.ref[b] + 1 ELSE p.ref[b]]
  BY <1>15 DEF PoolOf, ref
<1>17. GetNewBlocks(p, n).failed = (p.failed \/ \E i \in 1..n : p.ref[new[i]] # 0)
  BY <1>15 DEF PoolOf, failed
<1>18. Taken(p, new, L, n, GetNewBlocks(p, n), B, K)
  BY <1>3, <1>8, <1>15, <1>16, <1>17 DEF PoolOf, Taken
<1> QED BY <1>18 DEF new

-----------------------------------------------------------------------------
(* A block enters the prefix cache.                                        *)

HashInserted(p, b, k, r, B, K) ==
  /\ r \in Pools(B, K) /\ r.ref = p.ref /\ r.queue = p.queue /\ r.failed = p.failed
  /\ r.hash = [p.hash EXCEPT ![b] = k]

\* _insert_block_hash: the block is found under the key, and nothing else changes.
LEMMA InsertHashIs ==
  ASSUME NEW B, NEW K, NoKey \notin K, NEW p \in Pools(B, K), NEW b \in B, NEW k \in K,
         p.hash[b] = NoKey
  PROVE  HashInserted(p, b, k, InsertHash(p, b, k), B, K)
<1>0. /\ p.ref \in [B -> Int] /\ p.hash \in [B -> K \cup {NoKey}] /\ p.cached \in Caches(B, K)
      /\ p.queue \in QueueOf(B) /\ p.failed \in BOOLEAN
      /\ CacheAgrees(p.hash, p.cached, B)
      /\ Parts(p, p.ref, p.hash, p.cached, p.queue, p.failed)
  BY PoolParts
<1> DEFINE others == IF k \in DOMAIN p.cached THEN p.cached[k] ELSE <<>>
           all    == Append(others, b)
           hash   == [p.hash EXCEPT ![b] = k]
           cached == [x \in DOMAIN p.cached \cup {k} |-> IF x = k THEN all ELSE p.cached[x]]
<1>1. InsertHash(p, b, k) = [p EXCEPT !.hash = hash, !.cached = cached]
  BY DEF InsertHash
<1>2. DOMAIN p.cached \in SUBSET K /\ \A x \in DOMAIN p.cached : p.cached[x] \in Seq(B)
  BY <1>0, CacheParts
<1>3. others \in Seq(B)
  BY <1>2
<1>4. Appended(B, others, b, all)
  BY <1>3, AppendIs
<1>5. \A c \in Elements(others) : c # b /\ p.hash[c] = k
  <2>1. SUFFICES ASSUME NEW c \in Elements(others) PROVE c # b /\ p.hash[c] = k
    OBVIOUS
  <2>2. k \in DOMAIN p.cached /\ c \in Elements(p.cached[k])
    BY <2>1 DEF Elements
  <2>3. p.hash[c] = k
    BY <1>0, <2>2 DEF CacheAgrees
  <2> QED BY <2>3
<1>6. k \in DOMAIN p.cached => Elements(others) = Elements(p.cached[k])
  OBVIOUS
<1>7. Elements(others) \subseteq B
  BY <1>3 DEF Elements
<1> HIDE DEF others, all
<1>8. all \in Seq(B) /\ all # <<>> /\ Elements(all) = Elements(others) \cup {b}
  BY <1>4 DEF Appended
<1>9. hash \in [B -> K \cup {NoKey}] /\ hash[b] = k /\ \A c \in B : c # b => hash[c] = p.hash[c]
  BY <1>0
<1>10. DOMAIN cached = DOMAIN p.cached \cup {k} /\ cached[k] = all
       /\ \A x \in DOMAIN p.cached : x # k => cached[x] = p.cached[x]
  OBVIOUS
<1>11. cached \in Caches(B, K)
  <2>1. cached \in [DOMAIN p.cached \cup {k} -> Seq(B)] /\ DOMAIN p.cached \cup {k} \in SUBSET K
    BY <1>2, <1>8
  <2> QED BY <2>1 DEF Caches
<1> HIDE DEF hash, cached
<1>12. CacheAgrees(hash, cached, B)
  <2>1. ASSUME NEW c \in B, hash[c] # NoKey
        PROVE  hash[c] \in DOMAIN cached /\ c \in Elements(cached[hash[c]])
    <3>1. CASE c = b
      BY <1>8, <1>9, <1>10, <3>1
    <3>2. CASE c # b
      <4>1. p.hash[c] \in DOMAIN p.cached /\ c \in Elements(p.cached[p.hash[c]])
        BY <1>0, <1>9, <2>1, <3>2 DEF CacheAgrees
      <4>2. CASE p.hash[c] = k
        BY <1>6, <1>8, <1>9, <1>10, <3>2, <4>1, <4>2
      <4>3. CASE p.hash[c] # k
        BY <1>9, <1>10, <3>2, <4>1, <4>3
      <4> QED BY <4>2, <4>3
    <3> QED BY <3>1, <3>2
  <2>2. ASSUME NEW x \in DOMAIN cached
        PROVE  cached[x] # <<>> /\ \A c \in Elements(cached[x]) : hash[c] = x
    <3>1. CASE x = k
      BY <1>5, <1>7, <1>8, <1>9, <1>10, <3>1
    <3>2. CASE x # k
      <4>1. x \in DOMAIN p.cached /\ cached[x] = p.cached[x]
        BY <1>10, <2>2, <3>2
      <4>2. p.cached[x] # <<>> /\ \A c \in Elements(p.cached[x]) : p.hash[c] = x
        BY <1>0, <4>1 DEF CacheAgrees
      <4>3. Elements(p.cached[x]) \subseteq B
        BY <1>2, <4>1 DEF Elements
      <4>4. x # NoKey
        BY <1>2, <4>1
      <4>5. \A c \in Elements(p.cached[x]) : c # b
        BY <4>2, <4>4
      <4> QED BY <1>9, <4>1, <4>2, <4>3, <4>5
    <3> QED BY <3>1, <3>2
  <2> QED BY <2>1, <2>2 DEF CacheAgrees
<1>13. Parts(InsertHash(p, b, k), p.ref, hash, cached, p.queue, p.failed)
  <2>1. p.hash[b] # k
    OBVIOUS
  <2>2. InsertHash(p, b, k) = [p EXCEPT !.hash = hash, !.cached = cached]
    BY <1>1
  <2> QED BY <1>0, <2>2 DEF Parts
<1>14. PoolOf(InsertHash(p, b, k), p.ref, hash, cached, p.queue, p.failed, B, K)
  BY <1>0, <1>9, <1>11, <1>12, <1>13, PartsPool
<1> QED BY <1>14 DEF PoolOf, HashInserted, hash
-----------------------------------------------------------------------------
(* The blocks of a prefix hit.                                             *)

TouchStep(s, p, i) == TouchOne(p, s[i])

IsTouch(p, s, g) ==
  g = [I \in SUBSET DOMAIN s |->
         IF I = {} THEN p
         ELSE TouchStep(s, g[I \ {Max(I)}], Max(I))]

LEMMA TouchUnfolded ==
  ASSUME NEW p, NEW s
  PROVE  Touch(p, s) = (CHOOSE g : IsTouch(p, s, g))[DOMAIN s]
BY DEF Touch, FoldLeft, MapThenFoldSet, TouchStep, IsTouch

LEMMA TouchRuns ==
  ASSUME NEW p, NEW s, NEW V, Len(s) \in Nat, DOMAIN s = 1..Len(s), p \in V[{}],
         \A I \in SUBSET (1..Len(s)) : I # {} =>
           \A v \in V[I \ {Max(I)}] : TouchStep(s, v, Max(I)) \in V[I]
  PROVE  Touch(p, s) \in V[1..Len(s)]
<1> DEFINE U == UNION {V[I] : I \in SUBSET (1..Len(s))}
           step == [I \in SUBSET (1..Len(s)) |-> [v \in U |-> TouchStep(s, v, Max(I))]]
<1>1. ASSUME NEW I \in SUBSET (1..Len(s)), I # {}, NEW v \in V[I \ {Max(I)}]
      PROVE  step[I][v] = TouchStep(s, v, Max(I))
  <2>1. I \ {Max(I)} \in SUBSET (1..Len(s))
    OBVIOUS
  <2>2. v \in U
    BY <2>1, <1>1
  <2> QED BY <2>2
<1> HIDE DEF step
<1>2. Advances(Len(s), V, p, step)
  BY <1>1 DEF Advances
<1>3. PICK g : FoldStates(Len(s), V, p, step, g)
  BY <1>2, FoldHasStates
<1>4. IsTouch(p, s, g)
  <2>1. ASSUME NEW I \in SUBSET (1..Len(s)), I # {}
        PROVE  g[I] = TouchStep(s, g[I \ {Max(I)}], Max(I))
    <3>1. g[I \ {Max(I)}] \in V[I \ {Max(I)}] /\ g[I] = step[I][g[I \ {Max(I)}]]
      BY <1>3, <2>1 DEF FoldStates
    <3> QED BY <1>1, <2>1, <3>1
  <2>2. g = [I \in SUBSET (1..Len(s)) |-> IF I = {} THEN p
                ELSE TouchStep(s, g[I \ {Max(I)}], Max(I))]
    BY <1>3, <2>1 DEF FoldStates
  <2> QED BY <2>2 DEF IsTouch
<1> DEFINE h == CHOOSE h : IsTouch(p, s, h)
<1>5. IsTouch(p, s, h)
  BY <1>4
<1> HIDE DEF h
<1>6. h = [I \in SUBSET (1..Len(s)) |-> IF I = {} THEN p
             ELSE TouchStep(s, h[I \ {Max(I)}], Max(I))]
  BY <1>5 DEF IsTouch
<1>7. h[{}] = p
  BY <1>6
<1>8. ASSUME NEW I \in SUBSET (1..Len(s)), I # {}, h[I \ {Max(I)}] \in V[I \ {Max(I)}]
      PROVE  h[I] = step[I][h[I \ {Max(I)}]]
  <2>1. h[I] = TouchStep(s, h[I \ {Max(I)}], Max(I))
    BY <1>6, <1>8
  <2> QED BY <1>1, <1>8, <2>1
<1>9. FoldGoes(Len(s), V, p, step, h)
  BY <1>7, <1>8 DEF FoldGoes
<1>10. h[1..Len(s)] \in V[1..Len(s)]
  <2>1. 1..Len(s) \in SUBSET (1..Len(s))
    OBVIOUS
  <2> QED BY <1>2, <1>9, <2>1, FoldReaches
<1> QED BY <1>10, TouchUnfolded DEF h

\* touch for one block: it leaves the free list if nobody held it.
LEMMA TouchOneIs ==
  ASSUME NEW B, NEW K, NEW p \in Pools(B, K), NEW b \in B, NEW L, Lists(p.queue, L, B),
         p.ref[b] = 0 => b \in L
  PROVE  PoolOf(TouchOne(p, b), [p.ref EXCEPT ![b] = p.ref[b] + 1], p.hash, p.cached,
                IF p.ref[b] = 0 THEN RemoveBlock(p.queue, b) ELSE p.queue, p.failed, B, K)
<1>0. /\ p.ref \in [B -> Int] /\ p.hash \in [B -> K \cup {NoKey}] /\ p.cached \in Caches(B, K)
      /\ p.queue \in QueueOf(B) /\ p.failed \in BOOLEAN
      /\ CacheAgrees(p.hash, p.cached, B)
      /\ Parts(p, p.ref, p.hash, p.cached, p.queue, p.failed)
  BY PoolParts
<1> DEFINE ref == [p.ref EXCEPT ![b] = p.ref[b] + 1]
           queue == IF p.ref[b] = 0 THEN RemoveBlock(p.queue, b) ELSE p.queue
<1>1. TouchOne(p, b) = [p EXCEPT !.ref = ref, !.queue = queue]
  BY DEF TouchOne
<1>2. ref \in [B -> Int]
  BY <1>0
<1>3. queue \in QueueOf(B)
  <2>1. ASSUME p.ref[b] = 0 PROVE RemoveBlock(p.queue, b) \in QueueOf(B)
    <3>1. Lists(RemoveBlock(p.queue, b), L \ {b}, B)
      BY <2>1, ListsRemove
    <3> QED BY <3>1, ListsAre
  <2> QED BY <1>0, <2>1
<1> HIDE DEF ref, queue
<1>4. Parts(TouchOne(p, b), ref, p.hash, p.cached, queue, p.failed)
  BY <1>0, <1>1 DEF Parts
<1>5. PoolOf(TouchOne(p, b), ref, p.hash, p.cached, queue, p.failed, B, K)
  BY <1>0, <1>2, <1>3, <1>4, PartsPool
<1> QED BY <1>5 DEF ref, queue

\* The blocks of s have a holder more, and those without one leave the list.
Touched(p, s, L, r, B, K) ==
  /\ r \in Pools(B, K) /\ r.hash = p.hash /\ r.cached = p.cached /\ r.failed = p.failed
  /\ \A b \in B : r.ref[b] = IF b \in Elements(s) THEN p.ref[b] + 1 ELSE p.ref[b]
  /\ Lists(r.queue, L \ {b \in Elements(s) : p.ref[b] = 0}, B)
  /\ r.queue.size + Cardinality({i \in 1..Len(s) : p.ref[s[i]] = 0}) >= p.queue.size

\* touch: every block has one holder more, and none of them is free.
LEMMA TouchIs ==
  ASSUME NEW B, NEW K, NEW p \in Pools(B, K), NEW L, Lists(p.queue, L, B),
         NEW s \in Seq(B), Distinct(s), \A b \in Elements(s) : p.ref[b] = 0 => b \in L
  PROVE  Touched(p, s, L, Touch(p, s), B, K)
<1>1. PICK n \in Nat : n = Len(s)
  OBVIOUS
<1>2. DOMAIN s = 1..n /\ \A i \in 1..n : s[i] \in B
  BY <1>1
<1>3. p.ref \in [B -> Int] /\ p.queue.size \in Nat
  BY PoolParts, ListsAre
<1> DEFINE At(I) == {s[i] : i \in I}
           Freed(I) == {i \in I : p.ref[s[i]] = 0}
           Ok(r, I) ==
             /\ r.hash = p.hash /\ r.cached = p.cached /\ r.failed = p.failed
             /\ \A b \in B : r.ref[b] = IF b \in At(I) THEN p.ref[b] + 1 ELSE p.ref[b]
             /\ Lists(r.queue, L \ {b \in At(I) : p.ref[b] = 0}, B)
             /\ r.queue.size + Cardinality(Freed(I)) >= p.queue.size
           V == [I \in SUBSET (1..n) |-> {r \in Pools(B, K) : Ok(r, I)}]
<1>4. \A I \in SUBSET (1..n) : IsFiniteSet(Freed(I)) /\ Cardinality(Freed(I)) \in Nat
  <2>1. SUFFICES ASSUME NEW I \in SUBSET (1..n)
                 PROVE  IsFiniteSet(Freed(I)) /\ Cardinality(Freed(I)) \in Nat
    OBVIOUS
  <2>2. IsFiniteSet(1..n)
    BY FS_Interval
  <2>3. Freed(I) \in SUBSET (1..n)
    OBVIOUS
  <2> QED BY <2>2, <2>3, FS_Subset, FS_CardinalityType
<1>5. p \in V[{}]
  <2>1. {} \in SUBSET (1..n) /\ At({}) = {} /\ Freed({}) = {} /\ Cardinality({}) = 0
    BY FS_EmptySet
  <2>2. L \ {b \in At({}) : p.ref[b] = 0} = L
    BY <2>1
  <2> HIDE DEF At, Freed
  <2>3. p.queue.size + Cardinality(Freed({})) >= p.queue.size
    <3>1. Cardinality(Freed({})) = 0
      BY <2>1, Zenon
    <3>2. PICK y \in Nat : y = p.queue.size
      BY <1>3
    <3> QED BY <3>1, <3>2
  <2>4. \A b \in B : p.ref[b] = IF b \in At({}) THEN p.ref[b] + 1 ELSE p.ref[b]
    BY <2>1
  <2>5. Lists(p.queue, L \ {b \in At({}) : p.ref[b] = 0}, B)
    BY <2>2
  <2>6. Ok(p, {})
    BY <2>3, <2>4, <2>5
  <2> QED BY <2>1, <2>6
<1>6. ASSUME NEW I \in SUBSET (1..n), I # {}, NEW r \in V[I \ {Max(I)}]
      PROVE  TouchStep(s, r, Max(I)) \in V[I]
  <2>1. PICK x \in 1..n : /\ x = Max(I) /\ x \in I /\ \A i \in I \ {x} : i < x
                          /\ I = (I \ {x}) \cup {x} /\ I \ {x} \in SUBSET (1..n)
    BY <1>6, BeforeLast
  <2>2. r \in Pools(B, K) /\ Ok(r, I \ {x})
    BY <1>6, <2>1
  <2>3. At(I) = At(I \ {x}) \cup {s[x]} /\ s[x] \in B
    BY <1>2, <2>1
  <2>4. s[x] \notin At(I \ {x})
    <3>1. SUFFICES ASSUME NEW i \in I \ {x}, s[i] = s[x] PROVE FALSE
      OBVIOUS
    <3>2. i \in 1..n /\ i # x
      OBVIOUS
    <3> QED BY <1>1, <3>1, <3>2 DEF Distinct
  <2>5. Freed(I) = IF p.ref[s[x]] = 0 THEN Freed(I \ {x}) \cup {x} ELSE Freed(I \ {x})
    BY <2>1
  <2>6. x \notin Freed(I \ {x})
    OBVIOUS
  <2>7. Cardinality(Freed(I)) = Cardinality(Freed(I \ {x})) + (IF p.ref[s[x]] = 0 THEN 1 ELSE 0)
        /\ Cardinality(Freed(I \ {x})) \in Nat
    <3> HIDE DEF Freed
    <3>1. IsFiniteSet(Freed(I \ {x})) /\ Cardinality(Freed(I \ {x})) \in Nat
      BY <1>4, <2>1
    <3>2. Cardinality(Freed(I \ {x}) \cup {x}) = Cardinality(Freed(I \ {x})) + 1
      BY <2>6, <3>1, FS_AddElement
    <3> QED BY <2>5, <3>1, <3>2
  <2> DEFINE M == L \ {b \in At(I \ {x}) : p.ref[b] = 0}
             q == TouchOne(r, s[x])
  <2>8. /\ r.hash = p.hash /\ r.cached = p.cached /\ r.failed = p.failed
        /\ \A b \in B : r.ref[b] = IF b \in At(I \ {x}) THEN p.ref[b] + 1 ELSE p.ref[b]
        /\ Lists(r.queue, M, B)
        /\ r.queue.size + Cardinality(Freed(I \ {x})) >= p.queue.size
    BY <2>2
  <2>9. r.ref[s[x]] = p.ref[s[x]] /\ (r.ref[s[x]] = 0 => s[x] \in M)
    <3>1. s[x] \in Elements(s)
      BY <1>1 DEF Elements
    <3> QED BY <2>3, <2>4, <2>8, <3>1
  <2>10. r.queue.size \in Nat /\ r.ref \in [B -> Int]
    BY <2>2, <2>8, ListsAre, PoolParts
  <2>11. M \ {s[x]} = L \ {b \in At(I) : p.ref[b] = 0} \/ p.ref[s[x]] # 0
    BY <2>3
  <2>12. M = L \ {b \in At(I) : p.ref[b] = 0} \/ p.ref[s[x]] = 0
    BY <2>3
  <2> HIDE DEF M, At, Freed
  <2>13. PoolOf(q, [r.ref EXCEPT ![s[x]] = r.ref[s[x]] + 1], r.hash, r.cached,
                IF r.ref[s[x]] = 0 THEN RemoveBlock(r.queue, s[x]) ELSE r.queue, r.failed, B, K)
    BY <2>2, <2>3, <2>8, <2>9, TouchOneIs
  <2>14. TouchStep(s, r, x) = q
    BY DEF TouchStep
  <2> HIDE DEF q
  <2>15. /\ q \in Pools(B, K) /\ q.hash = p.hash /\ q.cached = p.cached /\ q.failed = p.failed
         /\ q.ref = [r.ref EXCEPT ![s[x]] = r.ref[s[x]] + 1]
         /\ q.queue = IF p.ref[s[x]] = 0 THEN RemoveBlock(r.queue, s[x]) ELSE r.queue
    BY <2>8, <2>9, <2>13 DEF PoolOf
  <2>16. \A b \in B : q.ref[b] = IF b \in At(I) THEN p.ref[b] + 1 ELSE p.ref[b]
    <3>1. SUFFICES ASSUME NEW b \in B
                   PROVE  q.ref[b] = IF b \in At(I) THEN p.ref[b] + 1 ELSE p.ref[b]
      OBVIOUS
    <3>2. r.ref[b] = IF b \in At(I \ {x}) THEN p.ref[b] + 1 ELSE p.ref[b]
      BY <2>8
    <3>3. q.ref[b] = IF b = s[x] THEN r.ref[b] + 1 ELSE r.ref[b]
      BY <2>3, <2>10, <2>15
    <3> QED BY <2>3, <2>4, <3>2, <3>3
  <2>17. /\ Lists(q.queue, L \ {b \in At(I) : p.ref[b] = 0}, B)
         /\ q.queue.size + Cardinality(Freed(I)) >= p.queue.size
    <3>1. CASE p.ref[s[x]] = 0
      <4>1. Lists(RemoveBlock(r.queue, s[x]), M \ {s[x]}, B)
            /\ RemoveBlock(r.queue, s[x]).size = r.queue.size - 1
        BY <2>8, <2>9, <3>1, ListsRemove
      <4>2. q.queue = RemoveBlock(r.queue, s[x])
        BY <2>15, <3>1
      <4>3. Cardinality(Freed(I)) = Cardinality(Freed(I \ {x})) + 1
        BY <2>7, <3>1
      <4>4. q.queue.size + Cardinality(Freed(I)) >= p.queue.size
        <5>1. PICK c \in Nat : c = Cardinality(Freed(I \ {x}))
          BY <2>7
        <5>2. PICK z \in Nat : z = r.queue.size
          BY <2>10
        <5>3. PICK y \in Nat : y = p.queue.size
          BY <1>3
        <5>4. q.queue.size = z - 1 /\ z + c >= y
          BY <2>8, <4>1, <4>2, <5>1, <5>2, <5>3
        <5> QED BY <4>3, <5>1, <5>3, <5>4
      <4> QED BY <2>11, <3>1, <4>1, <4>2, <4>4
    <3>2. CASE p.ref[s[x]] # 0
      <4>1. q.queue = r.queue
        BY <2>15, <3>2
      <4>2. Cardinality(Freed(I)) = Cardinality(Freed(I \ {x}))
        BY <2>7, <3>2
      <4>3. M = L \ {b \in At(I) : p.ref[b] = 0}
        BY <2>12, <3>2
      <4> QED BY <2>8, <4>1, <4>2, <4>3
    <3> QED BY <3>1, <3>2
  <2>18. Ok(q, I)
    BY <2>15, <2>16, <2>17
  <2> HIDE DEF Ok
  <2> QED BY <2>1, <2>14, <2>15, <2>18
<1> HIDE DEF V
<1>7. Touch(p, s) \in V[1..n]
  BY <1>1, <1>2, <1>5, <1>6, TouchRuns
<1>8. At(1..n) = Elements(s) /\ Freed(1..n) = {i \in 1..Len(s) : p.ref[s[i]] = 0}
  BY <1>1 DEF Elements
<1>9. 1..n \in SUBSET (1..n)
  OBVIOUS
<1>10. Touch(p, s) \in Pools(B, K) /\ Ok(Touch(p, s), 1..n)
  <2> HIDE DEF Ok
  <2> QED BY <1>7, <1>9 DEF V
<1> HIDE DEF At, Freed
<1> QED BY <1>8, <1>10 DEF Touched

-----------------------------------------------------------------------------
(* Blocks that lose a holder.                                              *)

Released(p, s, L, r, B, K) ==
  /\ r \in Pools(B, K) /\ r.hash = p.hash /\ r.cached = p.cached /\ r.failed = p.failed
  /\ r.ref = [b \in B |-> IF b \in Elements(s) THEN p.ref[b] - 1 ELSE p.ref[b]]
  /\ Lists(r.queue, L \cup {b \in Elements(s) : p.ref[b] = 1}, B)

\* free_blocks: every block has one holder less, and those without any are free.
LEMMA FreeBlocksIs ==
  ASSUME NEW B, NEW K, NEW p \in Pools(B, K), NEW L, Lists(p.queue, L, B),
         NEW s \in Seq(B), Distinct(s), \A b \in Elements(s) : p.ref[b] = 1 => b \notin L
  PROVE  Released(p, s, L, FreeBlocks(p, s), B, K)
<1>0. /\ p.ref \in [B -> Int] /\ p.hash \in [B -> K \cup {NoKey}] /\ p.cached \in Caches(B, K)
      /\ p.queue \in QueueOf(B) /\ p.failed \in BOOLEAN
      /\ CacheAgrees(p.hash, p.cached, B)
      /\ Parts(p, p.ref, p.hash, p.cached, p.queue, p.failed)
  BY PoolParts
<1> DEFINE ref2 == [b \in DOMAIN p.ref |-> IF Contains(s, b) THEN p.ref[b] - 1 ELSE p.ref[b]]
           ref  == [b \in B |-> IF b \in Elements(s) THEN p.ref[b] - 1 ELSE p.ref[b]]
           free == {b \in DOMAIN p.ref : ref2[b] = 0}
           without == Only(s, {b \in free : p.hash[b] = NoKey})
           with    == Only(s, {b \in free : p.hash[b] # NoKey})
           queue == AppendN(PrependN(p.queue, without), with)
<1>1. FreeBlocks(p, s) = [p EXCEPT !.ref = ref2, !.queue = queue]
  BY DEF FreeBlocks
<1>2. ref2 = ref
  <2>1. \A b \in B : Contains(s, b) <=> b \in Elements(s)
    BY DEF Contains, Elements
  <2> QED BY <1>0, <2>1
<1>3. ref \in [B -> Int]
  BY <1>0
<1> HIDE DEF ref2
<1>4. free = {b \in B : ref[b] = 0}
  BY <1>0, <1>2
<1> HIDE DEF free
<1>5. Elements(s) \subseteq B
  BY DEF Elements
<1>6. \A b \in Elements(s) : b \in free <=> p.ref[b] = 1
  BY <1>0, <1>4, <1>5
<1> HIDE DEF ref
<1>7. without \in Seq(B) /\ Distinct(without)
      /\ Elements(without) = {b \in Elements(s) : p.ref[b] = 1 /\ p.hash[b] = NoKey}
  <2>1. without \in Seq(B) /\ Distinct(without)
        /\ Elements(without) = Elements(s) \cap {b \in free : p.hash[b] = NoKey}
    BY OnlyIs
  <2> QED BY <1>6, <2>1
<1>8. with \in Seq(B) /\ Distinct(with)
      /\ Elements(with) = {b \in Elements(s) : p.ref[b] = 1 /\ p.hash[b] # NoKey}
  <2>1. with \in Seq(B) /\ Distinct(with)
        /\ Elements(with) = Elements(s) \cap {b \in free : p.hash[b] # NoKey}
    BY OnlyIs
  <2> QED BY <1>6, <2>1
<1> HIDE DEF without, with
<1>9. Lists(queue, L \cup {b \in Elements(s) : p.ref[b] = 1}, B)
  <2>1. Elements(without) \cap L = {}
    BY <1>7
  <2>2. Lists(PrependN(p.queue, without), L \cup Elements(without), B)
    BY <1>7, <2>1, ListsInsert
  <2>3. Elements(with) \cap (L \cup Elements(without)) = {}
    BY <1>7, <1>8
  <2>4. Lists(queue, (L \cup Elements(without)) \cup Elements(with), B)
    BY <1>8, <2>2, <2>3, ListsInsert
  <2>5. (L \cup Elements(without)) \cup Elements(with) = L \cup {b \in Elements(s) : p.ref[b] = 1}
    BY <1>7, <1>8
  <2> QED BY <2>4, <2>5
<1> HIDE DEF queue
<1>10. queue \in QueueOf(B)
  BY <1>9, ListsAre
<1>11. Parts(FreeBlocks(p, s), ref, p.hash, p.cached, queue, p.failed)
  BY <1>0, <1>1, <1>2 DEF Parts
<1>12. PoolOf(FreeBlocks(p, s), ref, p.hash, p.cached, queue, p.failed, B, K)
  BY <1>0, <1>3, <1>10, <1>11, PartsPool
<1>13. FreeBlocks(p, s).ref = [b \in B |-> IF b \in Elements(s) THEN p.ref[b] - 1 ELSE p.ref[b]]
  BY <1>12 DEF PoolOf, ref
<1> QED BY <1>9, <1>12, <1>13 DEF PoolOf, Released
-----------------------------------------------------------------------------
(* A pool whose cache is empty.                                            *)

\* reset_prefix_cache: no block has a hash, the map is empty.
LEMMA ResetPoolIs ==
  ASSUME NEW B, NEW K, NEW p \in Pools(B, K)
  PROVE  PoolOf(ResetPool(p), p.ref, [b \in B |-> NoKey], [k \in {} |-> <<>>], p.queue, p.failed,
                B, K)
<1>0. /\ p.ref \in [B -> Int] /\ p.hash \in [B -> K \cup {NoKey}]
      /\ p.queue \in QueueOf(B) /\ p.failed \in BOOLEAN
      /\ Parts(p, p.ref, p.hash, p.cached, p.queue, p.failed)
  BY PoolParts
<1> DEFINE hash == [b \in B |-> NoKey]
           cached == [k \in {} |-> <<>>]
<1>1. ResetPool(p) = [p EXCEPT !.hash = hash, !.cached = cached]
  <2>1. DOMAIN p.hash = B
    BY <1>0
  <2> QED BY <2>1 DEF ResetPool
<1>2. hash \in [B -> K \cup {NoKey}] /\ \A b \in B : hash[b] = NoKey
  OBVIOUS
<1>3. cached \in Caches(B, K) /\ DOMAIN cached = {}
  <2>1. cached \in [{} -> Seq(B)] /\ {} \in SUBSET K
    OBVIOUS
  <2> QED BY <2>1 DEF Caches
<1> HIDE DEF hash, cached
<1>4. CacheAgrees(hash, cached, B)
  BY <1>2, <1>3 DEF CacheAgrees
<1>5. Parts(ResetPool(p), p.ref, hash, cached, p.queue, p.failed)
  BY <1>0, <1>1 DEF Parts
<1>6. PoolOf(ResetPool(p), p.ref, hash, cached, p.queue, p.failed, B, K)
  BY <1>0, <1>2, <1>3, <1>4, <1>5, PartsPool
<1> QED BY <1>6 DEF hash, cached

NewPoolOf(p, n, K) ==
  /\ p \in Pools(0..(n - 1), K) /\ Lists(p.queue, 1..(n - 1), 0..(n - 1)) /\ p.failed = FALSE
  /\ \A b \in 0..(n - 1) : p.ref[b] = 0 /\ p.hash[b] = NoKey

\* A new pool: all blocks but the null block are free.
LEMMA NewPoolIs ==
  ASSUME NEW n \in Nat \ {0}, NEW K
  PROVE  NewPoolOf(NewPool(n), n, K)
<1> DEFINE B == 0..(n - 1)
           s == [i \in 1..n |-> i - 1]
           ref == [b \in B |-> 0]
           hash == [b \in B |-> NoKey]
           cached == [k \in {} |-> <<>>]
           queue == PopLeftN(NewQueue(s), 1)
<1>1. B \subseteq Nat
  OBVIOUS
<1>2. \A i \in 1..n : i - 1 \in B
  OBVIOUS
<1>3. s \in Seq(B) /\ Len(s) = n /\ \A i \in 1..n : s[i] = i - 1
  BY <1>2
<1>4. \A b \in B : b + 1 \in 1..n /\ (b + 1) - 1 = b
  OBVIOUS
<1> HIDE DEF B, s
<1>5. Distinct(s) /\ \A b \in B : In(s, b)
  BY <1>3, <1>4 DEF Distinct, In
<1>6. Linked(NewQueue(s), s, B)
  BY <1>1, <1>3, <1>5, NewQueueLinks
<1>7. Elements(s) = B
  BY <1>2, <1>3, <1>4 DEF Elements
<1>8. Lists(NewQueue(s), B, B)
  BY <1>6, <1>7 DEF Lists
<1>9. NewQueue(s).size = n
  BY <1>3, <1>6 DEF Linked
<1>10. Lists(queue, B \ Elements(FirstBlocks(NewQueue(s), 1)), B)
  <2>1. 1 \in Nat /\ 1 <= NewQueue(s).size
    BY <1>9
  <2> QED BY <1>8, <2>1, ListsFirst
<1>11. Elements(FirstBlocks(NewQueue(s), 1)) = {0}
  <2>1. 1 \in 0..Len(s)
    BY <1>3
  <2>2. FirstBlocks(NewQueue(s), 1) = [i \in 1..1 |-> s[i]]
    <3>1. PICK m \in 0..Len(s) : m = 1
      BY <2>1
    <3>2. FirstBlocks(NewQueue(s), m) = [i \in 1..m |-> s[i]]
      BY <1>6, FirstBlocksAre
    <3> QED BY <3>1, <3>2
  <2>3. s[1] = 0
    BY <1>3
  <2>4. [i \in 1..1 |-> s[i]] = <<s[1]>>
    OBVIOUS
  <2>5. Elements(<< 0 >>) = {0}
    BY DEF Elements
  <2> QED BY <2>2, <2>3, <2>4, <2>5
<1>12. B \ {0} = 1..(n - 1)
  BY DEF B
<1>13. Lists(queue, 1..(n - 1), B)
  BY <1>10, <1>11, <1>12
<1>14. queue \in QueueOf(B)
  BY <1>13, ListsAre
<1>15. ref \in [B -> Int] /\ hash \in [B -> K \cup {NoKey}]
       /\ \A b \in B : ref[b] = 0 /\ hash[b] = NoKey
  OBVIOUS
<1>16. cached \in Caches(B, K) /\ DOMAIN cached = {}
  <2>1. cached \in [{} -> Seq(B)] /\ {} \in SUBSET K
    OBVIOUS
  <2> QED BY <2>1 DEF Caches
<1> HIDE DEF ref, hash, cached, queue
<1>17. CacheAgrees(hash, cached, B)
  BY <1>15, <1>16 DEF CacheAgrees
<1>18. Parts(NewPool(n), ref, hash, cached, queue, FALSE)
  BY DEF NewPool, Parts, B, s, ref, hash, cached, queue
<1>19. PoolOf(NewPool(n), ref, hash, cached, queue, FALSE, B, K)
  BY <1>14, <1>15, <1>16, <1>17, <1>18, PartsPool
<1> QED BY <1>13, <1>15, <1>19 DEF NewPoolOf, PoolOf, B

-----------------------------------------------------------------------------
(* The blocks that requests hold.                                          *)

Blocks == 0..(NumBlocks - 1)
Keys   == Seq(Nat) \X (1..Groups)
\* The lists of blocks: one of every request and cache group.
Cells  == Reqs \X (1..Groups)

Unheld(p) == {b \in Usable : p.ref[b] = 0}
HeldIn(t, b) == {c \in Cells : b \in Elements(t[c])}

\* The pool p is right if the list of every cell c is t[c], and the places of
\* t[c] whose blocks are cached are those in m[c].
Consistent(p, t, m) ==
  /\ p \in Pools(Blocks, Keys) /\ p.failed = FALSE
  /\ p.ref[NullBlock] = 0 /\ p.hash[NullBlock] = NoKey
  /\ t \in [Cells -> Seq(Usable)] /\ \A c \in Cells : Distinct(t[c])
  /\ m \in [Cells -> SUBSET Nat]
  /\ \A b \in Usable : p.ref[b] = Cardinality(HeldIn(t, b))
  /\ Lists(p.queue, Unheld(p), Blocks)
  /\ \A c \in Cells : \A i \in 1..Len(t[c]) : p.hash[t[c][i]] # NoKey <=> i \in m[c]
  /\ \A c, d \in Cells : \A b \in Usable :
       c # d /\ b \in Elements(t[c]) /\ b \in Elements(t[d]) => p.hash[b] # NoKey

LEMMA SizesAre ==
  /\ IsFiniteSet(Reqs) /\ IsFiniteSet(Cells)
  /\ BlockSize \in Nat \ {0} /\ Groups \in Nat \ {0} /\ HiddenGroup \in 1..Groups
  /\ NumBlocks \in Nat \ {0} /\ Usable \subseteq Blocks /\ NullBlock \in Blocks
  /\ NullBlock \notin Usable /\ Blocks = Usable \cup {NullBlock} /\ NoKey \notin Keys
<1>1. IsFiniteSet(Reqs) /\ Groups \in Nat /\ NumBlocks \in Nat \ {0}
  BY Sizes
<1>2. IsFiniteSet(1..Groups)
  BY <1>1, FS_Interval
<1>3. IsFiniteSet(Cells)
  BY <1>1, <1>2, FS_Product DEF Cells
<1>4. /\ Usable \subseteq Blocks /\ NullBlock \in Blocks /\ NullBlock \notin Usable
      /\ Blocks = Usable \cup {NullBlock}
  BY <1>1 DEF Usable, Blocks, NullBlock
<1>5. NoKey \notin Keys
  <2>1. \A k \in Keys : Len(k) = 2
    BY DEF Keys
  <2> QED BY <2>1 DEF NoKey
<1> QED BY <1>1, <1>3, <1>4, <1>5, Sizes

\* A block has finitely many holders.
LEMMA HeldInFinite ==
  ASSUME NEW t, NEW b
  PROVE  IsFiniteSet(HeldIn(t, b)) /\ Cardinality(HeldIn(t, b)) \in Nat
<1>1. HeldIn(t, b) \in SUBSET Cells
  BY DEF HeldIn
<1> QED BY <1>1, SizesAre, FS_Subset, FS_CardinalityType

\* A list changes: the holders of a block are the others, and perhaps the cell.
Recounted(t, u, c, a, b) ==
  /\ b \in Elements(a) /\ b \notin Elements(t[c]) =>
       Cardinality(HeldIn(u, b)) = Cardinality(HeldIn(t, b)) + 1
  /\ b \notin Elements(a) /\ b \in Elements(t[c]) =>
       Cardinality(HeldIn(u, b)) = Cardinality(HeldIn(t, b)) - 1
  /\ (b \in Elements(a) <=> b \in Elements(t[c])) =>
       Cardinality(HeldIn(u, b)) = Cardinality(HeldIn(t, b))

\* The holders of a block after one list of blocks has changed.
LEMMA HeldInChanges ==
  ASSUME NEW t \in [Cells -> Seq(Usable)], NEW c \in Cells, NEW a \in Seq(Usable), NEW b
  PROVE  Recounted(t, [t EXCEPT ![c] = a], c, a, b)
<1> DEFINE u == [t EXCEPT ![c] = a]
<1>1. u[c] = a /\ \A d \in Cells : d # c => u[d] = t[d]
  OBVIOUS
<1> HIDE DEF u
<1>2. b \in Elements(a) => HeldIn(u, b) = HeldIn(t, b) \cup {c}
  BY <1>1 DEF HeldIn
<1>3. b \notin Elements(a) => HeldIn(u, b) = HeldIn(t, b) \ {c}
  BY <1>1 DEF HeldIn
<1>4. b \in Elements(t[c]) <=> c \in HeldIn(t, b)
  BY DEF HeldIn
<1>5. IsFiniteSet(HeldIn(t, b)) /\ Cardinality(HeldIn(t, b)) \in Nat
  BY HeldInFinite
<1>6. Cardinality(HeldIn(t, b) \cup {c}) =
        IF c \in HeldIn(t, b) THEN Cardinality(HeldIn(t, b)) ELSE Cardinality(HeldIn(t, b)) + 1
  BY <1>5, FS_AddElement
<1>7. Cardinality(HeldIn(t, b) \ {c}) =
        IF c \in HeldIn(t, b) THEN Cardinality(HeldIn(t, b)) - 1 ELSE Cardinality(HeldIn(t, b))
  BY <1>5, FS_RemoveElement
<1>8. Recounted(t, u, c, a, b)
  BY <1>2, <1>3, <1>4, <1>6, <1>7 DEF Recounted
<1> QED BY <1>8 DEF u

\* What Consistent says of the blocks, one at a time.
LEMMA ConsistentBlocks ==
  ASSUME NEW p, NEW t, NEW m, Consistent(p, t, m)
  PROVE  /\ p.ref \in [Blocks -> Int] /\ p.hash \in [Blocks -> Keys \cup {NoKey}]
         /\ p.queue.size \in Nat
         /\ \A b \in Usable : p.ref[b] \in Nat /\ (p.ref[b] = 0 <=> b \in Unheld(p))
         /\ \A c \in Cells : /\ t[c] \in Seq(Usable) /\ t[c] \in Seq(Blocks)
                             /\ Elements(t[c]) \subseteq Usable /\ Len(t[c]) \in Nat
                             /\ \A b \in Elements(t[c]) : p.ref[b] >= 1
                             /\ \A i \in 1..Len(t[c]) : t[c][i] \in Usable /\ t[c][i] \in Elements(t[c])
<1>1. p.ref \in [Blocks -> Int] /\ p.hash \in [Blocks -> Keys \cup {NoKey}]
  BY PoolParts DEF Consistent
<1>2. p.queue.size \in Nat
  BY ListsAre DEF Consistent
<1>3. \A b \in Usable : p.ref[b] \in Nat /\ (p.ref[b] = 0 <=> b \in Unheld(p))
  BY HeldInFinite DEF Consistent, Unheld
<1>4. ASSUME NEW c \in Cells
      PROVE  /\ t[c] \in Seq(Usable) /\ t[c] \in Seq(Blocks)
             /\ Elements(t[c]) \subseteq Usable /\ Len(t[c]) \in Nat
             /\ \A b \in Elements(t[c]) : p.ref[b] >= 1
             /\ \A i \in 1..Len(t[c]) : t[c][i] \in Usable /\ t[c][i] \in Elements(t[c])
  <2>1. t[c] \in Seq(Usable)
    BY DEF Consistent
  <2>2. PICK s \in Seq(Usable) : s = t[c]
    BY <2>1
  <2>3. PICK n \in Nat : n = Len(s)
    OBVIOUS
  <2>4. \A i \in 1..n : s[i] \in Usable /\ s[i] \in Elements(s)
    BY <2>3 DEF Elements
  <2>5. s \in Seq(Blocks)
    <3>1. Usable \subseteq Blocks
      BY SizesAre
    <3> QED BY <2>3, <2>4, <3>1
  <2>6. Elements(s) \subseteq Usable
    BY <2>3, <2>4 DEF Elements
  <2>7. ASSUME NEW b \in Elements(s) PROVE p.ref[b] >= 1
    <3>1. b \in Usable
      BY <2>6
    <3>2. c \in HeldIn(t, b)
      BY <2>2 DEF HeldIn
    <3>3. IsFiniteSet(HeldIn(t, b)) /\ Cardinality(HeldIn(t, b)) \in Nat
      BY HeldInFinite
    <3>4. Cardinality(HeldIn(t, b)) # 0
      BY <3>2, <3>3, FS_EmptySet
    <3>5. p.ref[b] = Cardinality(HeldIn(t, b))
      BY <3>1 DEF Consistent
    <3> QED BY <3>3, <3>4, <3>5
  <2> QED BY <2>2, <2>3, <2>4, <2>5, <2>6, <2>7
<1> QED BY <1>1, <1>2, <1>3, <1>4

\* The marks matter at the places of the lists only.
LEMMA ConsistentMarks ==
  ASSUME NEW p, NEW t, NEW m, Consistent(p, t, m), NEW w \in [Cells -> SUBSET Nat],
         \A c \in Cells : \A i \in 1..Len(t[c]) : i \in m[c] <=> i \in w[c]
  PROVE  Consistent(p, t, w)
BY DEF Consistent

\* A cell without blocks gets cached ones.
CellTouched(p, t, m, c, a, r) ==
  /\ Consistent(r, [t EXCEPT ![c] = a], [m EXCEPT ![c] = 1..Len(a)])
  /\ r.hash = p.hash /\ r.cached = p.cached /\ \A b \in Blocks : r.ref[b] >= p.ref[b]
  /\ r.queue.size + Cardinality({i \in 1..Len(a) : p.ref[a[i]] = 0}) >= p.queue.size

\* An empty list gets blocks of a prefix hit.
LEMMA CellTouches ==
  ASSUME NEW p, NEW t, NEW m, Consistent(p, t, m), NEW c \in Cells, t[c] = <<>>,
         NEW a \in Seq(Usable), Distinct(a), \A i \in 1..Len(a) : p.hash[a[i]] # NoKey
  PROVE  CellTouched(p, t, m, c, a, Touch(p, a))
<1> DEFINE r == Touch(p, a)
           u == [t EXCEPT ![c] = a]
           w == [m EXCEPT ![c] = 1..Len(a)]
           L == Unheld(p)
<1>1. /\ p \in Pools(Blocks, Keys) /\ p.failed = FALSE
      /\ p.ref[NullBlock] = 0 /\ p.hash[NullBlock] = NoKey
      /\ t \in [Cells -> Seq(Usable)] /\ \A d \in Cells : Distinct(t[d])
      /\ m \in [Cells -> SUBSET Nat]
      /\ \A b \in Usable : p.ref[b] = Cardinality(HeldIn(t, b))
      /\ Lists(p.queue, L, Blocks)
      /\ \A d \in Cells : \A i \in 1..Len(t[d]) : p.hash[t[d][i]] # NoKey <=> i \in m[d]
      /\ \A d, e \in Cells : \A b \in Usable :
           d # e /\ b \in Elements(t[d]) /\ b \in Elements(t[e]) => p.hash[b] # NoKey
  BY DEF Consistent
<1>2. /\ p.ref \in [Blocks -> Int] /\ p.hash \in [Blocks -> Keys \cup {NoKey}]
      /\ \A b \in Usable : p.ref[b] \in Nat /\ (p.ref[b] = 0 <=> b \in Unheld(p))
  BY ConsistentBlocks
<1>3. /\ Usable \subseteq Blocks /\ NullBlock \in Blocks /\ NullBlock \notin Usable
      /\ Blocks = Usable \cup {NullBlock}
  BY SizesAre
<1>4. PICK n \in Nat : n = Len(a)
  OBVIOUS
<1>5. \A i \in 1..n : a[i] \in Usable
  BY <1>4
<1>6. a \in Seq(Blocks)
  BY <1>3, <1>4, <1>5
<1>7. Elements(a) \subseteq Usable /\ \A b \in Elements(a) : p.hash[b] # NoKey
  BY <1>4, <1>5 DEF Elements
<1>8. Touched(p, a, L, r, Blocks, Keys)
  <2>1. \A b \in Elements(a) : p.ref[b] = 0 => b \in L
    BY <1>2, <1>7
  <2> HIDE DEF L
  <2> QED BY <1>1, <1>6, <2>1, TouchIs
<1> HIDE DEF r, L
<1>9. /\ r \in Pools(Blocks, Keys) /\ r.hash = p.hash /\ r.cached = p.cached
      /\ r.failed = p.failed
      /\ \A b \in Blocks : r.ref[b] = IF b \in Elements(a) THEN p.ref[b] + 1 ELSE p.ref[b]
      /\ Lists(r.queue, L \ {b \in Elements(a) : p.ref[b] = 0}, Blocks)
      /\ r.queue.size + Cardinality({i \in 1..Len(a) : p.ref[a[i]] = 0}) >= p.queue.size
  BY <1>8 DEF Touched
<1>10. u \in [Cells -> Seq(Usable)] /\ u[c] = a /\ \A d \in Cells : d # c => u[d] = t[d]
  BY <1>1
<1>11. w \in [Cells -> SUBSET Nat] /\ w[c] = 1..n /\ \A d \in Cells : d # c => w[d] = m[d]
  BY <1>1, <1>4
<1>12. Elements(t[c]) = {}
  BY DEF Elements
<1>13. \A b \in Usable : r.ref[b] = Cardinality(HeldIn(u, b))
  <2>1. SUFFICES ASSUME NEW b \in Usable PROVE r.ref[b] = Cardinality(HeldIn(u, b))
    OBVIOUS
  <2>2. Recounted(t, u, c, a, b)
    BY <1>1, HeldInChanges
  <2>3. /\ b \in Elements(a) => Cardinality(HeldIn(u, b)) = Cardinality(HeldIn(t, b)) + 1
        /\ b \notin Elements(a) => Cardinality(HeldIn(u, b)) = Cardinality(HeldIn(t, b))
    BY <1>12, <2>2 DEF Recounted
  <2>4. r.ref[b] = IF b \in Elements(a) THEN p.ref[b] + 1 ELSE p.ref[b]
    BY <1>3, <1>9
  <2>5. p.ref[b] = Cardinality(HeldIn(t, b))
    BY <1>1
  <2> HIDE DEF u
  <2> QED BY <2>3, <2>4, <2>5
<1> HIDE DEF u, w
<1>14. Unheld(r) = L \ {b \in Elements(a) : p.ref[b] = 0}
  <2>1. ASSUME NEW b \in Usable
        PROVE  r.ref[b] = 0 <=> p.ref[b] = 0 /\ b \notin Elements(a)
    <3>1. r.ref[b] = (IF b \in Elements(a) THEN p.ref[b] + 1 ELSE p.ref[b]) /\ p.ref[b] \in Nat
      BY <1>2, <1>3, <1>9
    <3> QED BY <3>1
  <2> QED BY <2>1 DEF Unheld, L
<1>15. \A b \in Blocks : r.ref[b] >= p.ref[b]
  <2>1. SUFFICES ASSUME NEW b \in Blocks PROVE r.ref[b] >= p.ref[b]
    OBVIOUS
  <2>2. p.ref[b] \in Int
    BY <1>2
  <2> QED BY <1>9, <2>2
<1>16. r.ref[NullBlock] = 0
  <2>1. NullBlock \notin Elements(a)
    BY <1>3, <1>7
  <2> QED BY <1>1, <1>3, <1>9, <2>1
<1>17. \A d \in Cells : Distinct(u[d])
  BY <1>1, <1>10
<1>18. \A d \in Cells : \A i \in 1..Len(u[d]) : r.hash[u[d][i]] # NoKey <=> i \in w[d]
  <2>1. SUFFICES ASSUME NEW d \in Cells, NEW i \in 1..Len(u[d])
                 PROVE  r.hash[u[d][i]] # NoKey <=> i \in w[d]
    OBVIOUS
  <2>2. CASE d = c
    <3>1. i \in 1..n /\ p.hash[a[i]] # NoKey
      BY <1>4, <1>10, <2>2
    <3> QED BY <1>9, <1>10, <1>11, <2>2, <3>1
  <2>3. CASE d # c
    <3>1. u[d] = t[d] /\ w[d] = m[d]
      BY <1>10, <1>11, <2>3
    <3> QED BY <1>1, <1>9, <3>1
  <2> QED BY <2>2, <2>3
<1>19. \A d, e \in Cells : \A b \in Usable :
         d # e /\ b \in Elements(u[d]) /\ b \in Elements(u[e]) => r.hash[b] # NoKey
  <2>1. SUFFICES ASSUME NEW d \in Cells, NEW e \in Cells, NEW b \in Usable, d # e,
                        b \in Elements(u[d]), b \in Elements(u[e])
                 PROVE  p.hash[b] # NoKey
    BY <1>9
  <2>2. CASE d = c \/ e = c
    BY <1>7, <1>10, <2>1, <2>2
  <2>3. CASE d # c /\ e # c
    BY <1>1, <1>10, <2>1, <2>3
  <2> QED BY <2>2, <2>3
<1>20. r.failed = FALSE /\ r.hash[NullBlock] = NoKey
  BY <1>1, <1>9
<1>21. Consistent(r, u, w)
  <2>1. Lists(r.queue, Unheld(r), Blocks)
    BY <1>9, <1>14
  <2> QED BY <1>9, <1>10, <1>11, <1>13, <1>16, <1>17, <1>18, <1>19, <1>20, <2>1 DEF Consistent
<1> QED BY <1>9, <1>15, <1>21 DEF CellTouched, r, u, w

\* Two sequences end to end.
Concatenated(T, s, a, v) ==
  /\ v \in Seq(T) /\ Len(v) = Len(s) + Len(a) /\ Elements(v) = Elements(s) \cup Elements(a)
  /\ \A i \in 1..Len(s) : v[i] = s[i]
  /\ \A i \in 1..Len(v) : i > Len(s) => v[i] \in Elements(a)
  /\ Distinct(s) /\ Distinct(a) /\ Elements(s) \cap Elements(a) = {} => Distinct(v)

LEMMA ConcatenationIs ==
  ASSUME NEW T, NEW s \in Seq(T), NEW a \in Seq(T)
  PROVE  Concatenated(T, s, a, s \o a)
<1>1. PICK k \in Nat, n \in Nat : k = Len(s) /\ n = Len(a)
  OBVIOUS
<1>2. PICK v \in Seq(T) : v = s \o a
  <2>1. s \o a \in Seq(T)
    OBVIOUS
  <2> QED BY <2>1
<1>3. Len(v) = k + n
  BY <1>1, <1>2
<1>4. ASSUME NEW i \in 1..(k + n) PROVE v[i] = IF i <= k THEN s[i] ELSE a[i - k]
  BY <1>1, <1>2
<1>5. \A i \in 1..k : v[i] = s[i]
  BY <1>4
<1>6. ASSUME NEW i \in 1..(k + n), i > k PROVE i - k \in 1..n /\ v[i] = a[i - k]
  BY <1>4, <1>6
<1>7. Elements(v) = Elements(s) \cup Elements(a)
  <2>1. Elements(v) \subseteq Elements(s) \cup Elements(a)
    <3>1. SUFFICES ASSUME NEW i \in 1..(k + n) PROVE v[i] \in Elements(s) \cup Elements(a)
      BY <1>3 DEF Elements
    <3>2. CASE i <= k
      BY <1>1, <1>5, <3>2 DEF Elements
    <3>3. CASE i > k
      BY <1>1, <1>6, <3>3 DEF Elements
    <3> QED BY <3>2, <3>3
  <2>2. Elements(s) \subseteq Elements(v)
    <3>1. SUFFICES ASSUME NEW i \in 1..k PROVE s[i] \in Elements(v)
      BY <1>1 DEF Elements
    <3>2. i \in 1..(k + n) /\ v[i] = s[i]
      BY <1>5
    <3> QED BY <1>3, <3>2 DEF Elements
  <2>3. Elements(a) \subseteq Elements(v)
    <3>1. SUFFICES ASSUME NEW i \in 1..n PROVE a[i] \in Elements(v)
      BY <1>1 DEF Elements
    <3>2. PICK j \in 1..(k + n) : j = k + i
      OBVIOUS
    <3>3. v[j] = a[i]
      BY <1>6, <3>2
    <3> QED BY <1>3, <3>2, <3>3 DEF Elements
  <2> QED BY <2>1, <2>2, <2>3
<1>8. \A i \in 1..Len(v) : i > k => v[i] \in Elements(a)
  BY <1>1, <1>3, <1>6 DEF Elements
<1>9. ASSUME Distinct(s), Distinct(a), Elements(s) \cap Elements(a) = {}
      PROVE  Distinct(v)
  <2>1. SUFFICES ASSUME NEW i \in 1..(k + n), NEW j \in 1..(k + n), v[i] = v[j] PROVE i = j
    BY <1>3 DEF Distinct
  <2>2. \A l \in 1..k : v[l] \in Elements(s)
    BY <1>1, <1>5 DEF Elements
  <2>3. \A l \in 1..(k + n) : l > k => v[l] \in Elements(a)
    BY <1>3, <1>8
  <2>4. CASE i <= k /\ j <= k
    <3>1. \A x, y \in 1..k : s[x] = s[y] => x = y
      BY <1>1, <1>9 DEF Distinct
    <3>2. i \in 1..k /\ j \in 1..k
      BY <2>4
    <3> QED BY <1>5, <2>1, <3>1, <3>2
  <2>5. CASE i > k /\ j > k
    <3>1. i - k \in 1..n /\ j - k \in 1..n /\ a[i - k] = a[j - k]
      BY <1>6, <2>1, <2>5
    <3>2. \A x, y \in 1..n : a[x] = a[y] => x = y
      BY <1>1, <1>9 DEF Distinct
    <3>3. i - k = j - k
      BY <3>1, <3>2
    <3> QED BY <3>3
  <2>6. CASE i <= k /\ j > k
    BY <1>9, <2>1, <2>2, <2>3, <2>6
  <2>7. CASE i > k /\ j <= k
    BY <1>9, <2>1, <2>2, <2>3, <2>7
  <2> QED BY <2>4, <2>5, <2>6, <2>7
<1> QED BY <1>1, <1>2, <1>3, <1>5, <1>7, <1>8, <1>9 DEF Concatenated

\* A list turned around.
LEMMA ReverseIs ==
  ASSUME NEW T, NEW s \in Seq(T)
  PROVE  /\ Reverse(s) \in Seq(T) /\ Elements(Reverse(s)) = Elements(s)
         /\ Distinct(s) => Distinct(Reverse(s))
<1>1. PICK n \in Nat : n = Len(s)
  OBVIOUS
<1>2. \A i \in 1..n : s[i] \in T
  BY <1>1
<1> DEFINE v == [i \in 1..n |-> s[(n - i) + 1]]
<1>3. Reverse(s) = v
  BY <1>1 DEF Reverse
<1>4. \A i \in 1..n : (n - i) + 1 \in 1..n /\ v[i] = s[(n - i) + 1]
  OBVIOUS
<1>5. v \in Seq(T) /\ Len(v) = n
  <2>1. \A i \in 1..n : s[(n - i) + 1] \in T
    BY <1>2, <1>4
  <2> QED BY <2>1
<1> HIDE DEF v
<1>6. Elements(v) = Elements(s)
  <2>1. \A i \in 1..n : v[i] \in Elements(s)
    BY <1>1, <1>4 DEF Elements
  <2>2. ASSUME NEW i \in 1..n PROVE s[i] \in Elements(v)
    <3>1. PICK j \in 1..n : j = (n - i) + 1
      OBVIOUS
    <3>2. (n - j) + 1 = i
      BY <3>1
    <3>3. v[j] = s[i]
      BY <1>4, <3>2
    <3> QED BY <1>5, <3>3 DEF Elements
  <2> QED BY <1>1, <1>5, <2>1, <2>2 DEF Elements
<1>7. Distinct(s) => Distinct(v)
  <2>1. SUFFICES ASSUME Distinct(s), NEW i \in 1..n, NEW j \in 1..n, v[i] = v[j] PROVE i = j
    BY <1>5 DEF Distinct
  <2>2. (n - i) + 1 = (n - j) + 1
    BY <1>1, <1>4, <2>1 DEF Distinct
  <2> QED BY <2>2
<1> QED BY <1>3, <1>5, <1>6, <1>7

\* A cell gets the first n blocks of the free list.
CellGrown(p, t, m, c, n, r) ==
  /\ FirstBlocks(p.queue, n) \in Seq(Usable) /\ Len(FirstBlocks(p.queue, n)) = n
  /\ Consistent(r, [t EXCEPT ![c] = t[c] \o FirstBlocks(p.queue, n)], m)
  /\ r.queue.size = p.queue.size - n

\* A list gets n free blocks.
LEMMA CellGrows ==
  ASSUME NEW p, NEW t, NEW m, Consistent(p, t, m), NEW c \in Cells,
         \A i \in m[c] : i <= Len(t[c]), NEW n \in Nat, n <= p.queue.size
  PROVE  CellGrown(p, t, m, c, n, GetNewBlocks(p, n))
<1> DEFINE r == GetNewBlocks(p, n)
           new == FirstBlocks(p.queue, n)
           a == t[c] \o new
           u == [t EXCEPT ![c] = a]
           L == Unheld(p)
<1>1. /\ p \in Pools(Blocks, Keys) /\ p.failed = FALSE
      /\ p.ref[NullBlock] = 0 /\ p.hash[NullBlock] = NoKey
      /\ t \in [Cells -> Seq(Usable)] /\ \A d \in Cells : Distinct(t[d])
      /\ m \in [Cells -> SUBSET Nat]
      /\ \A b \in Usable : p.ref[b] = Cardinality(HeldIn(t, b))
      /\ Lists(p.queue, L, Blocks)
      /\ \A d \in Cells : \A i \in 1..Len(t[d]) : p.hash[t[d][i]] # NoKey <=> i \in m[d]
      /\ \A d, e \in Cells : \A b \in Usable :
           d # e /\ b \in Elements(t[d]) /\ b \in Elements(t[e]) => p.hash[b] # NoKey
  BY DEF Consistent
<1>2. /\ p.ref \in [Blocks -> Int] /\ p.hash \in [Blocks -> Keys \cup {NoKey}]
      /\ \A b \in Usable : p.ref[b] \in Nat /\ (p.ref[b] = 0 <=> b \in Unheld(p))
      /\ \A d \in Cells : /\ t[d] \in Seq(Usable) /\ Elements(t[d]) \subseteq Usable
                          /\ Len(t[d]) \in Nat
                          /\ \A b \in Elements(t[d]) : p.ref[b] >= 1
                          /\ \A i \in 1..Len(t[d]) : t[d][i] \in Usable /\ t[d][i] \in Elements(t[d])
  BY ConsistentBlocks
<1>3. /\ Usable \subseteq Blocks /\ NullBlock \in Blocks /\ NullBlock \notin Usable
      /\ Blocks = Usable \cup {NullBlock} /\ NoKey \notin Keys
  BY SizesAre
<1>4. /\ new \in Seq(Blocks) /\ Len(new) = n /\ Distinct(new) /\ Elements(new) \subseteq L
  <2> HIDE DEF L
  <2> QED BY <1>1, ListsFirst
<1>5. Taken(p, new, L, n, r, Blocks, Keys)
  <2> HIDE DEF L
  <2> QED BY <1>1, <1>3, GetNewBlocksIs
<1> HIDE DEF r, new
<1>6. L \subseteq Usable /\ \A b \in L : p.ref[b] = 0
  BY DEF Unheld
<1>7. \A i \in 1..n : new[i] \in Usable /\ p.ref[new[i]] = 0
  <2>1. \A i \in 1..n : new[i] \in Elements(new)
    BY <1>4 DEF Elements
  <2> QED BY <1>4, <1>6, <2>1
<1>8. new \in Seq(Usable)
  BY <1>4, <1>7
<1> HIDE DEF L
<1>9. /\ r \in Pools(Blocks, Keys) /\ Lists(r.queue, L \ Elements(new), Blocks)
      /\ r.queue.size = p.queue.size - n
      /\ r.ref = [b \in Blocks |-> IF b \in Elements(new) THEN p.ref[b] + 1 ELSE p.ref[b]]
      /\ \A b \in Blocks : r.hash[b] = IF b \in Elements(new) THEN NoKey ELSE p.hash[b]
      /\ r.failed = (p.failed \/ \E i \in 1..n : p.ref[new[i]] # 0)
  BY <1>5 DEF Taken
<1>10. r.failed = FALSE
  BY <1>1, <1>7, <1>9
<1>11. Concatenated(Usable, t[c], new, a)
  BY <1>2, <1>8, ConcatenationIs
<1>12. Elements(t[c]) \cap Elements(new) = {}
  <2>1. SUFFICES ASSUME NEW b, b \in Elements(t[c]), b \in Elements(new) PROVE FALSE
    OBVIOUS
  <2>2. p.ref[b] >= 1
    BY <1>2, <2>1
  <2>3. p.ref[b] = 0
    BY <1>4, <1>6, <2>1
  <2> QED BY <2>2, <2>3
<1>13. /\ a \in Seq(Usable) /\ Len(a) = Len(t[c]) + n /\ Elements(a) = Elements(t[c]) \cup Elements(new)
       /\ \A i \in 1..Len(t[c]) : a[i] = t[c][i]
       /\ \A i \in 1..Len(a) : i > Len(t[c]) => a[i] \in Elements(new)
       /\ Distinct(a)
  BY <1>1, <1>4, <1>11, <1>12 DEF Concatenated
<1> HIDE DEF a
<1>14. u \in [Cells -> Seq(Usable)] /\ u[c] = a /\ \A d \in Cells : d # c => u[d] = t[d]
  BY <1>1, <1>13
<1>15. Elements(new) \subseteq Usable /\ \A b \in Elements(new) : p.ref[b] = 0
  BY <1>4, <1>6
<1>16. \A d \in Cells : Elements(t[d]) \cap Elements(new) = {}
  <2>1. SUFFICES ASSUME NEW d \in Cells, NEW b, b \in Elements(t[d]), b \in Elements(new) PROVE FALSE
    OBVIOUS
  <2>2. p.ref[b] >= 1
    BY <1>2, <2>1
  <2>3. p.ref[b] = 0
    BY <1>15, <2>1
  <2> QED BY <2>2, <2>3
<1>17. \A b \in Usable : r.ref[b] = Cardinality(HeldIn(u, b))
  <2>1. SUFFICES ASSUME NEW b \in Usable PROVE r.ref[b] = Cardinality(HeldIn(u, b))
    OBVIOUS
  <2>2. Recounted(t, u, c, a, b)
    BY <1>1, <1>13, HeldInChanges
  <2>3. b \in Elements(new) => b \in Elements(a) /\ b \notin Elements(t[c])
    BY <1>12, <1>13
  <2>4. b \notin Elements(new) => (b \in Elements(a) <=> b \in Elements(t[c]))
    BY <1>13
  <2>5. /\ b \in Elements(new) => Cardinality(HeldIn(u, b)) = Cardinality(HeldIn(t, b)) + 1
        /\ b \notin Elements(new) => Cardinality(HeldIn(u, b)) = Cardinality(HeldIn(t, b))
    BY <2>2, <2>3, <2>4 DEF Recounted
  <2>6. r.ref[b] = IF b \in Elements(new) THEN p.ref[b] + 1 ELSE p.ref[b]
    BY <1>3, <1>9
  <2>7. p.ref[b] = Cardinality(HeldIn(t, b))
    BY <1>1
  <2> QED BY <2>5, <2>6, <2>7
<1> HIDE DEF u
<1>18. Unheld(r) = L \ Elements(new)
  <2>1. ASSUME NEW b \in Usable
        PROVE  r.ref[b] = 0 <=> p.ref[b] = 0 /\ b \notin Elements(new)
    <3>1. r.ref[b] = (IF b \in Elements(new) THEN p.ref[b] + 1 ELSE p.ref[b]) /\ p.ref[b] \in Nat
      BY <1>2, <1>3, <1>9
    <3> QED BY <3>1
  <2> QED BY <2>1 DEF Unheld, L
<1>19. r.ref[NullBlock] = 0 /\ r.hash[NullBlock] = NoKey
  <2>1. NullBlock \notin Elements(new)
    BY <1>3, <1>15
  <2> QED BY <1>1, <1>3, <1>9, <2>1
<1>20. \A d \in Cells : Distinct(u[d])
  BY <1>1, <1>13, <1>14
<1>21. \A d \in Cells : \A b \in Elements(t[d]) : r.hash[b] = p.hash[b]
  BY <1>2, <1>3, <1>9, <1>16
<1>22. \A d \in Cells : \A i \in 1..Len(u[d]) : r.hash[u[d][i]] # NoKey <=> i \in m[d]
  <2>1. SUFFICES ASSUME NEW d \in Cells, NEW i \in 1..Len(u[d])
                 PROVE  r.hash[u[d][i]] # NoKey <=> i \in m[d]
    OBVIOUS
  <2>2. CASE d # c \/ i <= Len(t[c])
    <3>1. i \in 1..Len(t[d]) /\ u[d][i] = t[d][i]
      BY <1>2, <1>13, <1>14, <2>2
    <3>2. p.hash[t[d][i]] # NoKey <=> i \in m[d]
      BY <1>1, <3>1
    <3>3. t[d][i] \in Elements(t[d])
      BY <1>2, <3>1
    <3> QED BY <1>21, <3>1, <3>2, <3>3
  <2>3. CASE d = c /\ i > Len(t[c])
    <3>1. u[d][i] \in Elements(new)
      BY <1>13, <1>14, <2>3
    <3>2. r.hash[u[d][i]] = NoKey
      BY <1>3, <1>9, <1>15, <3>1
    <3>3. i \notin m[c]
      BY <1>2, <2>3
    <3> QED BY <2>3, <3>2, <3>3
  <2> QED BY <1>2, <2>2, <2>3
<1>23. \A d, e \in Cells : \A b \in Usable :
         d # e /\ b \in Elements(u[d]) /\ b \in Elements(u[e]) => r.hash[b] # NoKey
  <2>1. SUFFICES ASSUME NEW d \in Cells, NEW e \in Cells, NEW b \in Usable, d # e,
                        b \in Elements(u[d]), b \in Elements(u[e])
                 PROVE  r.hash[b] # NoKey
    OBVIOUS
  <2>2. b \in Elements(t[d]) \/ b \in Elements(t[e])
    BY <1>13, <1>14, <2>1
  <2>3. b \notin Elements(new)
    BY <1>16, <2>2
  <2>4. b \in Elements(t[d]) /\ b \in Elements(t[e])
    BY <1>13, <1>14, <2>1, <2>3
  <2> QED BY <1>1, <1>21, <2>1, <2>4
<1>24. Consistent(r, u, m)
  <2>1. Lists(r.queue, Unheld(r), Blocks)
    BY <1>9, <1>18
  <2> QED BY <1>1, <1>9, <1>10, <1>14, <1>17, <1>19, <1>20, <1>22, <1>23, <2>1 DEF Consistent
<1> QED BY <1>4, <1>8, <1>9, <1>24 DEF CellGrown, r, u, a, new

\* A cell loses its blocks.
LEMMA CellFrees ==
  ASSUME NEW p, NEW t, NEW m, Consistent(p, t, m), NEW c \in Cells
  PROVE  Consistent(FreeBlocks(p, Reverse(t[c])), [t EXCEPT ![c] = <<>>], m)
<1> DEFINE s == Reverse(t[c])
           r == FreeBlocks(p, s)
           u == [t EXCEPT ![c] = <<>>]
           L == Unheld(p)
<1>1. /\ p \in Pools(Blocks, Keys) /\ p.failed = FALSE
      /\ p.ref[NullBlock] = 0 /\ p.hash[NullBlock] = NoKey
      /\ t \in [Cells -> Seq(Usable)] /\ \A d \in Cells : Distinct(t[d])
      /\ m \in [Cells -> SUBSET Nat]
      /\ \A b \in Usable : p.ref[b] = Cardinality(HeldIn(t, b))
      /\ Lists(p.queue, L, Blocks)
      /\ \A d \in Cells : \A i \in 1..Len(t[d]) : p.hash[t[d][i]] # NoKey <=> i \in m[d]
      /\ \A d, e \in Cells : \A b \in Usable :
           d # e /\ b \in Elements(t[d]) /\ b \in Elements(t[e]) => p.hash[b] # NoKey
  BY DEF Consistent
<1>2. /\ p.ref \in [Blocks -> Int]
      /\ \A b \in Usable : p.ref[b] \in Nat /\ (p.ref[b] = 0 <=> b \in Unheld(p))
      /\ t[c] \in Seq(Blocks) /\ Elements(t[c]) \subseteq Usable
      /\ \A b \in Elements(t[c]) : p.ref[b] >= 1
  BY ConsistentBlocks
<1>3. /\ Usable \subseteq Blocks /\ NullBlock \in Blocks /\ NullBlock \notin Usable
      /\ Blocks = Usable \cup {NullBlock}
  BY SizesAre
<1>4. s \in Seq(Blocks) /\ Elements(s) = Elements(t[c]) /\ Distinct(s)
  BY <1>1, <1>2, ReverseIs
<1> HIDE DEF s
<1>5. Released(p, s, L, r, Blocks, Keys)
  <2>1. \A b \in Elements(s) : p.ref[b] = 1 => b \notin L
    BY <1>2, <1>4
  <2> HIDE DEF L
  <2> QED BY <1>1, <1>4, <2>1, FreeBlocksIs
<1> HIDE DEF r, L
<1>6. /\ r \in Pools(Blocks, Keys) /\ r.hash = p.hash /\ r.failed = p.failed
      /\ r.ref = [b \in Blocks |-> IF b \in Elements(t[c]) THEN p.ref[b] - 1 ELSE p.ref[b]]
      /\ Lists(r.queue, L \cup {b \in Elements(t[c]) : p.ref[b] = 1}, Blocks)
  BY <1>4, <1>5 DEF Released
<1>7. <<>> \in Seq(Usable) /\ Elements(<<>>) = {} /\ Len(<<>>) = 0
  BY DEF Elements
<1>8. u \in [Cells -> Seq(Usable)] /\ u[c] = <<>> /\ \A d \in Cells : d # c => u[d] = t[d]
  BY <1>1, <1>7
<1>9. \A b \in Usable : r.ref[b] = Cardinality(HeldIn(u, b))
  <2>1. SUFFICES ASSUME NEW b \in Usable PROVE r.ref[b] = Cardinality(HeldIn(u, b))
    OBVIOUS
  <2>2. Recounted(t, u, c, <<>>, b)
    BY <1>1, <1>7, HeldInChanges
  <2>3. /\ b \in Elements(t[c]) => Cardinality(HeldIn(u, b)) = Cardinality(HeldIn(t, b)) - 1
        /\ b \notin Elements(t[c]) => Cardinality(HeldIn(u, b)) = Cardinality(HeldIn(t, b))
    BY <1>7, <2>2 DEF Recounted
  <2>4. r.ref[b] = IF b \in Elements(t[c]) THEN p.ref[b] - 1 ELSE p.ref[b]
    BY <1>3, <1>6
  <2>5. p.ref[b] = Cardinality(HeldIn(t, b))
    BY <1>1
  <2> QED BY <2>3, <2>4, <2>5
<1> HIDE DEF u
<1>10. Unheld(r) = L \cup {b \in Elements(t[c]) : p.ref[b] = 1}
  <2>1. ASSUME NEW b \in Usable
        PROVE  r.ref[b] = 0 <=> p.ref[b] = 0 \/ (b \in Elements(t[c]) /\ p.ref[b] = 1)
    <3>1. /\ r.ref[b] = (IF b \in Elements(t[c]) THEN p.ref[b] - 1 ELSE p.ref[b])
          /\ p.ref[b] \in Nat /\ (b \in Elements(t[c]) => p.ref[b] >= 1)
      BY <1>2, <1>3, <1>6
    <3> QED BY <3>1
  <2> QED BY <1>2, <2>1 DEF Unheld, L
<1>11. r.ref[NullBlock] = 0 /\ r.hash[NullBlock] = NoKey
  <2>1. NullBlock \notin Elements(t[c])
    BY <1>2, <1>3
  <2> QED BY <1>1, <1>3, <1>6, <2>1
<1>12. \A d \in Cells : Distinct(u[d])
  <2>1. Distinct(<<>>)
    BY DEF Distinct
  <2> QED BY <1>1, <1>8, <2>1
<1>13. \A d \in Cells : \A i \in 1..Len(u[d]) : r.hash[u[d][i]] # NoKey <=> i \in m[d]
  <2>1. SUFFICES ASSUME NEW d \in Cells, NEW i \in 1..Len(u[d])
                 PROVE  r.hash[u[d][i]] # NoKey <=> i \in m[d]
    OBVIOUS
  <2>2. d # c
    BY <1>7, <1>8
  <2>3. u[d] = t[d]
    BY <1>8, <2>2
  <2> QED BY <1>1, <1>6, <2>3
<1>14. \A d, e \in Cells : \A b \in Usable :
         d # e /\ b \in Elements(u[d]) /\ b \in Elements(u[e]) => r.hash[b] # NoKey
  BY <1>1, <1>6, <1>7, <1>8
<1>15. Consistent(r, u, m)
  <2>1. Lists(r.queue, Unheld(r), Blocks)
    BY <1>6, <1>10
  <2> QED BY <1>1, <1>6, <1>8, <1>9, <1>11, <1>12, <1>13, <1>14, <2>1 DEF Consistent
<1> QED BY <1>15 DEF r, u, s

\* A block of a cell is cached.
CellCached(p, t, m, c, i, r) ==
  Consistent(r, t, [m EXCEPT ![c] = m[c] \cup {i}]) /\ r.queue = p.queue

\* A block of a list is cached.
LEMMA CellCaches ==
  ASSUME NEW p, NEW t, NEW m, Consistent(p, t, m), NEW c \in Cells, NEW i \in 1..Len(t[c]),
         i \notin m[c], NEW k \in Keys
  PROVE  p.hash[t[c][i]] = NoKey /\ CellCached(p, t, m, c, i, InsertHash(p, t[c][i], k))
<1> DEFINE b == t[c][i]
           r == InsertHash(p, b, k)
           w == [m EXCEPT ![c] = m[c] \cup {i}]
<1>1. /\ p \in Pools(Blocks, Keys) /\ p.failed = FALSE
      /\ p.ref[NullBlock] = 0 /\ p.hash[NullBlock] = NoKey
      /\ t \in [Cells -> Seq(Usable)] /\ \A d \in Cells : Distinct(t[d])
      /\ m \in [Cells -> SUBSET Nat]
      /\ \A d \in Usable : p.ref[d] = Cardinality(HeldIn(t, d))
      /\ Lists(p.queue, Unheld(p), Blocks)
      /\ \A d \in Cells : \A j \in 1..Len(t[d]) : p.hash[t[d][j]] # NoKey <=> j \in m[d]
      /\ \A d, e \in Cells : \A x \in Usable :
           d # e /\ x \in Elements(t[d]) /\ x \in Elements(t[e]) => p.hash[x] # NoKey
  BY DEF Consistent
<1>2. /\ p.hash \in [Blocks -> Keys \cup {NoKey}]
      /\ \A d \in Cells : /\ Elements(t[d]) \subseteq Usable /\ Len(t[d]) \in Nat
                          /\ \A j \in 1..Len(t[d]) : t[d][j] \in Usable /\ t[d][j] \in Elements(t[d])
  BY ConsistentBlocks
<1>3. /\ Usable \subseteq Blocks /\ NullBlock \in Blocks /\ NullBlock \notin Usable
      /\ NoKey \notin Keys
  BY SizesAre
<1>4. b \in Usable /\ b \in Elements(t[c]) /\ p.hash[b] = NoKey
  BY <1>1, <1>2
<1>5. HashInserted(p, b, k, r, Blocks, Keys)
  BY <1>1, <1>3, <1>4, InsertHashIs
<1>6. \A d \in Cells : \A j \in 1..Len(t[d]) : t[d][j] = b => d = c /\ j = i
  <2>1. SUFFICES ASSUME NEW d \in Cells, NEW j \in 1..Len(t[d]), t[d][j] = b
                 PROVE  d = c /\ j = i
    OBVIOUS
  <2>2. b \in Elements(t[d])
    BY <1>2, <2>1
  <2>3. d = c
    BY <1>1, <1>4, <2>2
  <2>4. j = i
    BY <1>1, <2>1, <2>3 DEF Distinct
  <2> QED BY <2>3, <2>4
<1>7. p.hash[t[c][i]] = NoKey
  BY <1>4
<1> HIDE DEF r, b
<1>8. /\ r \in Pools(Blocks, Keys) /\ r.ref = p.ref /\ r.queue = p.queue /\ r.failed = p.failed
      /\ r.hash = [p.hash EXCEPT ![b] = k]
  BY <1>5 DEF HashInserted
<1>9. /\ r.hash[b] # NoKey /\ \A x \in Blocks : x # b => r.hash[x] = p.hash[x]
  BY <1>2, <1>3, <1>4, <1>8
<1>10. i \in Nat
  BY <1>2
<1>11. w \in [Cells -> SUBSET Nat] /\ w[c] = m[c] \cup {i} /\ \A d \in Cells : d # c => w[d] = m[d]
  BY <1>1, <1>10
<1> HIDE DEF w
<1>12. \A d \in Cells : \A j \in 1..Len(t[d]) : r.hash[t[d][j]] # NoKey <=> j \in w[d]
  <2>1. SUFFICES ASSUME NEW d \in Cells, NEW j \in 1..Len(t[d])
                 PROVE  r.hash[t[d][j]] # NoKey <=> j \in w[d]
    OBVIOUS
  <2>2. CASE d = c /\ j = i
    BY <1>9, <1>11, <2>2 DEF b
  <2>3. CASE ~(d = c /\ j = i)
    <3>1. t[d][j] # b /\ t[d][j] \in Blocks
      BY <1>2, <1>3, <1>6, <2>3
    <3>2. r.hash[t[d][j]] # NoKey <=> j \in m[d]
      BY <1>1, <1>9, <3>1
    <3>3. j \in w[d] <=> j \in m[d]
      BY <1>11, <2>3
    <3> QED BY <3>2, <3>3
  <2> QED BY <2>2, <2>3
<1>13. \A d, e \in Cells : \A x \in Usable :
         d # e /\ x \in Elements(t[d]) /\ x \in Elements(t[e]) => r.hash[x] # NoKey
  BY <1>1, <1>3, <1>9
<1>14. r.hash[NullBlock] = NoKey
  BY <1>1, <1>3, <1>4, <1>9
<1>15. Consistent(r, t, w)
  <2>1. Unheld(r) = Unheld(p)
    BY <1>8 DEF Unheld
  <2> QED BY <1>1, <1>8, <1>11, <1>12, <1>13, <1>14, <2>1 DEF Consistent
<1> QED BY <1>7, <1>8, <1>15 DEF CellCached, r, b, w

\* The prefix cache is emptied when no cell has blocks.
LEMMA CellsReset ==
  ASSUME NEW p, NEW t, NEW m, Consistent(p, t, m), \A c \in Cells : t[c] = <<>>
  PROVE  Consistent(ResetPool(p), t, m)
<1> DEFINE r == ResetPool(p)
           hash == [b \in Blocks |-> NoKey]
           cached == [k \in {} |-> <<>>]
<1>1. p \in Pools(Blocks, Keys)
  BY DEF Consistent
<1>2. PoolOf(r, p.ref, hash, cached, p.queue, p.failed, Blocks, Keys)
  BY <1>1, ResetPoolIs
<1>3. \A b \in Blocks : hash[b] = NoKey
  OBVIOUS
<1> HIDE DEF r, hash, cached
<1>4. /\ r \in Pools(Blocks, Keys) /\ r.ref = p.ref /\ r.hash = hash
      /\ r.queue = p.queue /\ r.failed = p.failed
  BY <1>2 DEF PoolOf
<1>5. Unheld(r) = Unheld(p)
  BY <1>4 DEF Unheld
<1>6. \A c \in Cells : 1..Len(t[c]) = {} /\ Elements(t[c]) = {}
  BY DEF Elements
<1>7. Consistent(r, t, m)
  BY <1>3, <1>4, <1>5, <1>6, SizesAre DEF Consistent
<1> QED BY <1>7 DEF r

-----------------------------------------------------------------------------
(* Totals over the cache groups.                                           *)

\* H[I] is the total of w at the places in I.
Totals(n, w, H) ==
  /\ H[{}] = 0
  /\ \A I \in SUBSET (1..n) : H[I] \in Nat /\ (I # {} => H[I] = H[I \ {Max(I)}] + w[Max(I)])

\* The running totals of n numbers exist.
LEMMA TotalsExist ==
  ASSUME NEW n \in Nat, NEW w, \A i \in 1..n : w[i] \in Nat
  PROVE  \E H : Totals(n, w, H)
<1> DEFINE V == [I \in SUBSET (1..n) |-> Nat]
           step == [I \in SUBSET (1..n) |-> [v \in Nat |-> v + w[Max(I)]]]
<1>1. \A I \in SUBSET (1..n) : I # {} => Max(I) \in 1..n /\ I \ {Max(I)} \in SUBSET (1..n)
  BY MaxOfPlaces
<1>2. {} \in SUBSET (1..n) /\ 0 \in Nat
  OBVIOUS
<1>3. \A I \in SUBSET (1..n) : V[I] = Nat
  OBVIOUS
<1>4. \A I \in SUBSET (1..n) : I # {} => \A v \in Nat : step[I][v] = v + w[Max(I)] /\ step[I][v] \in Nat
  BY <1>1
<1> HIDE DEF V, step
<1>5. Advances(n, V, 0, step)
  BY <1>1, <1>2, <1>3, <1>4 DEF Advances
<1>6. PICK H : FoldStates(n, V, 0, step, H)
  BY <1>2, <1>5, FoldHasStates
<1>7. /\ H[{}] = 0 /\ \A I \in SUBSET (1..n) : H[I] \in Nat
      /\ \A I \in SUBSET (1..n) : I # {} => H[I] = step[I][H[I \ {Max(I)}]]
  BY <1>3, <1>6 DEF FoldStates
<1>8. \A I \in SUBSET (1..n) : I # {} => H[I] = H[I \ {Max(I)}] + w[Max(I)]
  BY <1>1, <1>4, <1>7
<1> QED BY <1>7, <1>8 DEF Totals

\* A total of more places is no less.
LEMMA TotalsGrow ==
  ASSUME NEW n \in Nat, NEW w, \A i \in 1..n : w[i] \in Nat, NEW H, Totals(n, w, H)
  PROVE  \A I \in SUBSET (1..n) : H[I] <= H[1..n]
<1> DEFINE Good == {J \in SUBSET (1..n) : \A I \in SUBSET J : H[I] <= H[J]}
<1>1. /\ H[{}] = 0
      /\ \A I \in SUBSET (1..n) : H[I] \in Nat /\ (I # {} => H[I] = H[I \ {Max(I)}] + w[Max(I)])
  BY DEF Totals
<1>2. {} \in Good
  <2>1. \A I \in SUBSET {} : I = {}
    OBVIOUS
  <2>2. H[{}] <= H[{}]
    BY <1>1
  <2>3. \A I \in SUBSET {} : H[I] <= H[{}]
    BY <2>1, <2>2, Zenon
  <2>4. {} \in SUBSET (1..n)
    OBVIOUS
  <2> QED BY <2>3, <2>4
<1>3. ASSUME NEW J \in SUBSET (1..n), J # {}, J \ {Max(J)} \in Good PROVE J \in Good
  <2>1. PICK x \in 1..n : /\ x = Max(J) /\ x \in J /\ \A i \in J \ {x} : i < x
                          /\ J = (J \ {x}) \cup {x} /\ J \ {x} \in SUBSET (1..n)
    BY <1>3, BeforeLast
  <2>2. H[J] = H[J \ {x}] + w[x] /\ H[J \ {x}] \in Nat /\ w[x] \in Nat
    BY <1>1, <1>3, <2>1
  <2>3. \A I \in SUBSET (J \ {x}) : H[I] <= H[J \ {x}]
    BY <1>3, <2>1
  <2>4. SUFFICES ASSUME NEW I \in SUBSET J PROVE H[I] <= H[J]
    OBVIOUS
  <2>5. I \in SUBSET (1..n) /\ H[I] \in Nat
    BY <1>1, <2>4
  <2>6. CASE x \notin I
    <3>1. H[I] <= H[J \ {x}]
      BY <2>3, <2>6
    <3> QED BY <2>2, <2>5, <3>1
  <2>7. CASE x \in I
    <3>1. I # {} /\ Max(I) \in I /\ \A i \in I : i <= Max(I)
      BY <2>5, <2>7, MaxOfPlaces
    <3>2. Max(I) = x
      <4>1. Max(I) \in J /\ x <= Max(I)
        BY <2>7, <3>1
      <4>2. Max(I) \in J \ {x} => Max(I) < x
        BY <2>1
      <4>3. Max(I) \in 1..n
        BY <2>5, <3>1
      <4> QED BY <4>1, <4>2, <4>3
    <3>3. H[I] = H[I \ {x}] + w[x]
      BY <1>1, <2>5, <3>1, <3>2
    <3>4. I \ {x} \in SUBSET (J \ {x}) /\ I \ {x} \in SUBSET (1..n)
      OBVIOUS
    <3>5. H[I \ {x}] <= H[J \ {x}] /\ H[I \ {x}] \in Nat
      BY <1>1, <2>3, <3>4
    <3> QED BY <2>2, <3>3, <3>5
  <2> QED BY <2>6, <2>7
<1> HIDE DEF Good
<1>4. \A J \in SUBSET (1..n) : J \in Good
  BY <1>2, <1>3, SubsetInduction
<1>5. 1..n \in Good
  BY <1>4
<1> QED BY <1>5 DEF Good

\* The total of a sum.
LEMMA TotalsAdd ==
  ASSUME NEW n \in Nat, NEW w, NEW x, NEW y, NEW H, NEW X, NEW Y,
         \A i \in 1..n : x[i] \in Nat /\ y[i] \in Nat /\ w[i] = x[i] + y[i],
         Totals(n, w, H), Totals(n, x, X), Totals(n, y, Y)
  PROVE  \A I \in SUBSET (1..n) : H[I] = X[I] + Y[I]
<1> DEFINE Good == {I \in SUBSET (1..n) : H[I] = X[I] + Y[I]}
<1>1. {} \in Good
  BY DEF Totals
<1>2. ASSUME NEW I \in SUBSET (1..n), I # {}, I \ {Max(I)} \in Good PROVE I \in Good
  <2>1. Max(I) \in 1..n
    BY <1>2, MaxOfPlaces
  <2>2. I \ {Max(I)} \in SUBSET (1..n) /\ H[I \ {Max(I)}] = X[I \ {Max(I)}] + Y[I \ {Max(I)}]
    BY <1>2
  <2>3. /\ H[I] = H[I \ {Max(I)}] + w[Max(I)] /\ X[I] = X[I \ {Max(I)}] + x[Max(I)]
        /\ Y[I] = Y[I \ {Max(I)}] + y[Max(I)]
    BY <1>2 DEF Totals
  <2>4. X[I \ {Max(I)}] \in Nat /\ Y[I \ {Max(I)}] \in Nat
    BY <2>2 DEF Totals
  <2>5. H[I] = X[I] + Y[I]
    BY <2>1, <2>2, <2>3, <2>4
  <2> QED BY <2>5
<1> HIDE DEF Good
<1>3. \A I \in SUBSET (1..n) : I \in Good
  BY <1>1, <1>2, SubsetInduction
<1> QED BY <1>3 DEF Good

-----------------------------------------------------------------------------
(* The scheduler's record.                                                 *)

Tables == [Reqs -> [1..Groups -> Seq(Usable)]]
Cores  == [pool : Pools(Blocks, Keys), computed : [Reqs -> Nat], table : Tables,
           cached : [Reqs -> Nat], running : Seq(Reqs), waiting : Seq(Reqs),
           arrived : Seq(Reqs)]

Flat(table)   == [c \in Cells |-> table[c[1]][c[2]]]
Marks(cached) == [c \in Cells |-> 1..cached[c[1]]]

\* The tables and the pool agree, and the blocks that are cached are the first ones.
Sound(c) ==
  /\ c \in Cores /\ Consistent(c.pool, Flat(c.table), Marks(c.cached))
  /\ \A r \in Reqs, g \in 1..Groups : c.cached[r] <= Len(c.table[r][g])

CoreOf(c, pool, computed, table, cached, running, waiting, arrived) ==
  c = [pool |-> pool, computed |-> computed, table |-> table, cached |-> cached,
       running |-> running, waiting |-> waiting, arrived |-> arrived]

\* The parts of the scheduler's record.
LEMMA CoreParts ==
  ASSUME NEW c \in Cores
  PROVE  /\ CoreOf(c, c.pool, c.computed, c.table, c.cached, c.running, c.waiting, c.arrived)
         /\ c.pool \in Pools(Blocks, Keys) /\ c.computed \in [Reqs -> Nat] /\ c.table \in Tables
         /\ c.cached \in [Reqs -> Nat] /\ c.running \in Seq(Reqs) /\ c.waiting \in Seq(Reqs)
         /\ c.arrived \in Seq(Reqs)
BY DEF Cores, CoreOf

\* Only the pool, the tables and the counts of cached blocks differ.
Alike(c, d) == /\ d.computed = c.computed /\ d.running = c.running
               /\ d.waiting = c.waiting /\ d.arrived = c.arrived

CoreHas(c, pool, computed, table, cached, running, waiting, arrived) ==
  /\ c \in Cores /\ c.pool = pool /\ c.computed = computed /\ c.table = table
  /\ c.cached = cached /\ c.running = running /\ c.waiting = waiting /\ c.arrived = arrived

\* A scheduler's record from its parts.
LEMMA PartsCore ==
  ASSUME NEW c, NEW pool \in Pools(Blocks, Keys), NEW computed \in [Reqs -> Nat],
         NEW table \in Tables, NEW cached \in [Reqs -> Nat], NEW running \in Seq(Reqs),
         NEW waiting \in Seq(Reqs), NEW arrived \in Seq(Reqs),
         CoreOf(c, pool, computed, table, cached, running, waiting, arrived)
  PROVE  CoreHas(c, pool, computed, table, cached, running, waiting, arrived)
BY DEF Cores, CoreOf, CoreHas

LEMMA FlatIs ==
  ASSUME NEW table \in Tables, NEW cached \in [Reqs -> Nat]
  PROVE  /\ Flat(table) \in [Cells -> Seq(Usable)] /\ Marks(cached) \in [Cells -> SUBSET Nat]
         /\ \A r \in Reqs, g \in 1..Groups :
              /\ <<r, g>> \in Cells /\ Flat(table)[<<r, g>>] = table[r][g]
              /\ Marks(cached)[<<r, g>>] = 1..cached[r]
         /\ \A c \in Cells : c[1] \in Reqs /\ c[2] \in 1..Groups /\ c = <<c[1], c[2]>>
<1>1. \A c \in Cells : c[1] \in Reqs /\ c[2] \in 1..Groups /\ c = <<c[1], c[2]>>
  BY DEF Cells
<1>2. \A r \in Reqs, g \in 1..Groups : <<r, g>> \in Cells
  BY DEF Cells
<1>3. Flat(table) \in [Cells -> Seq(Usable)] /\ Marks(cached) \in [Cells -> SUBSET Nat]
  <2>1. \A c \in Cells : table[c[1]][c[2]] \in Seq(Usable)
    BY <1>1 DEF Tables
  <2>2. \A c \in Cells : cached[c[1]] \in Nat
    BY <1>1
  <2>3. \A c \in Cells : 1..cached[c[1]] \in SUBSET Nat
    BY <2>2
  <2> QED BY <2>1, <2>3 DEF Flat, Marks
<1>4. \A r \in Reqs, g \in 1..Groups : /\ Flat(table)[<<r, g>>] = table[r][g]
                                       /\ Marks(cached)[<<r, g>>] = 1..cached[r]
  BY <1>2 DEF Flat, Marks
<1> QED BY <1>1, <1>2, <1>3, <1>4

\* The lists of the groups in I of a request become those of a.
Relisted(table, r, I, a) ==
  [c \in Cells |-> IF c[1] = r /\ c[2] \in I THEN a[c[2]] ELSE table[c[1]][c[2]]]

Relists(table, r, a) ==
  /\ Relisted(table, r, {}, a) = Flat(table)
  /\ Relisted(table, r, 1..Groups, a) = Flat([table EXCEPT ![r] = a])
  /\ \A I \in SUBSET (1..Groups), g \in 1..Groups :
       /\ Relisted(table, r, I, a)[<<r, g>>] = IF g \in I THEN a[g] ELSE table[r][g]
       /\ Relisted(table, r, I \cup {g}, a) = [Relisted(table, r, I, a) EXCEPT ![<<r, g>>] = a[g]]
  /\ [table EXCEPT ![r] = a] \in Tables
  /\ \A x \in Reqs : [table EXCEPT ![r] = a][x] = IF x = r THEN a ELSE table[x]

LEMMA RelistedIs ==
  ASSUME NEW table \in Tables, NEW r \in Reqs, NEW a \in [1..Groups -> Seq(Usable)]
  PROVE  Relists(table, r, a)
<1>1. \A c \in Cells : c[1] \in Reqs /\ c[2] \in 1..Groups /\ c = <<c[1], c[2]>>
  BY DEF Cells
<1>2. \A g \in 1..Groups : <<r, g>> \in Cells
  BY DEF Cells
<1>3. Relisted(table, r, {}, a) = Flat(table)
  BY DEF Relisted, Flat
<1>4. \A c \in Cells : [table EXCEPT ![r] = a][c[1]][c[2]] = IF c[1] = r THEN a[c[2]] ELSE table[c[1]][c[2]]
  BY <1>1 DEF Tables
<1>5. Relisted(table, r, 1..Groups, a) = Flat([table EXCEPT ![r] = a])
  BY <1>1, <1>4 DEF Relisted, Flat
<1>6. ASSUME NEW I \in SUBSET (1..Groups), NEW g \in 1..Groups
      PROVE  Relisted(table, r, I \cup {g}, a) = [Relisted(table, r, I, a) EXCEPT ![<<r, g>>] = a[g]]
  <2>1. ASSUME NEW c \in Cells
        PROVE  (c[1] = r /\ c[2] \in I \cup {g}) <=> (c[1] = r /\ c[2] \in I) \/ c = <<r, g>>
    BY <1>1
  <2> QED BY <1>1, <1>2, <2>1 DEF Relisted
<1>7. \A I \in SUBSET (1..Groups), g \in 1..Groups :
        Relisted(table, r, I, a)[<<r, g>>] = IF g \in I THEN a[g] ELSE table[r][g]
  BY <1>2 DEF Relisted
<1>8. /\ [table EXCEPT ![r] = a] \in Tables
      /\ \A x \in Reqs : [table EXCEPT ![r] = a][x] = IF x = r THEN a ELSE table[x]
  BY DEF Tables
<1> QED BY <1>3, <1>5, <1>6, <1>7, <1>8 DEF Relists

\* The marks of the groups in I of a request become 1..k.
Remarked(cached, r, I, k) ==
  [c \in Cells |-> IF c[1] = r /\ c[2] \in I THEN 1..k ELSE 1..cached[c[1]]]

Remarks(cached, r, k) ==
  /\ Remarked(cached, r, {}, k) = Marks(cached)
  /\ Remarked(cached, r, 1..Groups, k) = Marks([cached EXCEPT ![r] = k])
  /\ \A I \in SUBSET (1..Groups), g \in 1..Groups :
       /\ Remarked(cached, r, I, k)[<<r, g>>] = IF g \in I THEN 1..k ELSE 1..cached[r]
       /\ Remarked(cached, r, I \cup {g}, k) = [Remarked(cached, r, I, k) EXCEPT ![<<r, g>>] = 1..k]
  /\ [cached EXCEPT ![r] = k] \in [Reqs -> Nat]
  /\ \A x \in Reqs : [cached EXCEPT ![r] = k][x] = IF x = r THEN k ELSE cached[x]

LEMMA RemarkedIs ==
  ASSUME NEW cached \in [Reqs -> Nat], NEW r \in Reqs, NEW k \in Nat
  PROVE  Remarks(cached, r, k)
<1>1. \A c \in Cells : c[1] \in Reqs /\ c[2] \in 1..Groups /\ c = <<c[1], c[2]>>
  BY DEF Cells
<1>2. \A g \in 1..Groups : <<r, g>> \in Cells
  BY DEF Cells
<1>3. Remarked(cached, r, {}, k) = Marks(cached)
  BY DEF Remarked, Marks
<1>4. \A c \in Cells : [cached EXCEPT ![r] = k][c[1]] = IF c[1] = r THEN k ELSE cached[c[1]]
  BY <1>1
<1>5. Remarked(cached, r, 1..Groups, k) = Marks([cached EXCEPT ![r] = k])
  <2>1. ASSUME NEW c \in Cells
        PROVE  1..([cached EXCEPT ![r] = k][c[1]])
                 = IF c[1] = r /\ c[2] \in 1..Groups THEN 1..k ELSE 1..cached[c[1]]
    BY <1>1, <1>4
  <2> QED BY <2>1 DEF Remarked, Marks
<1>6. ASSUME NEW I \in SUBSET (1..Groups), NEW g \in 1..Groups
      PROVE  Remarked(cached, r, I \cup {g}, k) = [Remarked(cached, r, I, k) EXCEPT ![<<r, g>>] = 1..k]
  <2>1. ASSUME NEW c \in Cells
        PROVE  (c[1] = r /\ c[2] \in I \cup {g}) <=> (c[1] = r /\ c[2] \in I) \/ c = <<r, g>>
    BY <1>1
  <2> QED BY <1>1, <1>2, <2>1 DEF Remarked
<1>7. \A I \in SUBSET (1..Groups), g \in 1..Groups :
        Remarked(cached, r, I, k)[<<r, g>>] = IF g \in I THEN 1..k ELSE 1..cached[r]
  BY <1>2 DEF Remarked
<1>8. /\ [cached EXCEPT ![r] = k] \in [Reqs -> Nat]
      /\ \A x \in Reqs : [cached EXCEPT ![r] = k][x] = IF x = r THEN k ELSE cached[x]
  OBVIOUS
<1> QED BY <1>3, <1>5, <1>6, <1>7, <1>8 DEF Remarks

GroupList == [g \in 1..Groups |-> g]

LEMMA GroupListIs ==
  Groups \in Nat /\ DOMAIN GroupList = 1..Groups /\ \A g \in 1..Groups : GroupList[g] = g
BY SizesAre DEF GroupList

LEMMA LastGroup ==
  ASSUME NEW I \in SUBSET (1..Groups), I # {}
  PROVE  \E g \in 1..Groups : /\ g = Max(I) /\ GroupList[Max(I)] = g /\ g \in I
                              /\ I = (I \ {g}) \cup {g} /\ I \ {g} \in SUBSET (1..Groups)
<1>1. Groups \in Nat
  BY GroupListIs
<1>2. PICK g \in 1..Groups : /\ g = Max(I) /\ g \in I /\ I = (I \ {g}) \cup {g}
                            /\ I \ {g} \in SUBSET (1..Groups)
  BY <1>1, BeforeLast
<1>3. GroupList[g] = g
  BY GroupListIs
<1> QED BY <1>2, <1>3

-----------------------------------------------------------------------------
(* The blocks of a request, freed.                                         *)

FreeStep(c, r, p, g) == FreeBlocks(p, Reverse(c.table[r][g]))
FreeGroups(c, r)     == FoldLeft(LAMBDA p, g : FreeStep(c, r, p, g), c.pool, GroupList)

LEMMA FreeUnfolds ==
  ASSUME NEW c, NEW r
  PROVE  Free(c, r) = [c EXCEPT !.pool = FreeGroups(c, r), !.table[r] = NoBlocks, !.cached[r] = 0]
BY DEF Free, FreeGroups, FreeStep, GroupList, FoldLeft, MapThenFoldSet

IsFreeGroups(c, r, g) ==
  g = [I \in SUBSET DOMAIN GroupList |->
         IF I = {} THEN c.pool
         ELSE FreeStep(c, r, g[I \ {Max(I)}], GroupList[Max(I)])]

LEMMA FreeGroupsUnfolded ==
  ASSUME NEW c, NEW r
  PROVE  FreeGroups(c, r) = (CHOOSE g : IsFreeGroups(c, r, g))[DOMAIN GroupList]
BY DEF FreeGroups, FoldLeft, MapThenFoldSet, IsFreeGroups

LEMMA FreeGroupsRuns ==
  ASSUME NEW c, NEW r, NEW V, Groups \in Nat, DOMAIN GroupList = 1..Groups, c.pool \in V[{}],
         \A I \in SUBSET (1..Groups) : I # {} =>
           \A v \in V[I \ {Max(I)}] : FreeStep(c, r, v, GroupList[Max(I)]) \in V[I]
  PROVE  FreeGroups(c, r) \in V[1..Groups]
<1> DEFINE U == UNION {V[I] : I \in SUBSET (1..Groups)}
           step == [I \in SUBSET (1..Groups) |-> [v \in U |-> FreeStep(c, r, v, GroupList[Max(I)])]]
<1>1. ASSUME NEW I \in SUBSET (1..Groups), I # {}, NEW v \in V[I \ {Max(I)}]
      PROVE  step[I][v] = FreeStep(c, r, v, GroupList[Max(I)])
  <2>1. I \ {Max(I)} \in SUBSET (1..Groups)
    OBVIOUS
  <2>2. v \in U
    BY <2>1, <1>1
  <2> QED BY <2>2
<1> HIDE DEF step
<1>2. Advances(Groups, V, c.pool, step)
  BY <1>1 DEF Advances
<1>3. PICK g : FoldStates(Groups, V, c.pool, step, g)
  BY <1>2, FoldHasStates
<1>4. IsFreeGroups(c, r, g)
  <2>1. ASSUME NEW I \in SUBSET (1..Groups), I # {}
        PROVE  g[I] = FreeStep(c, r, g[I \ {Max(I)}], GroupList[Max(I)])
    <3>1. g[I \ {Max(I)}] \in V[I \ {Max(I)}] /\ g[I] = step[I][g[I \ {Max(I)}]]
      BY <1>3, <2>1 DEF FoldStates
    <3> QED BY <1>1, <2>1, <3>1
  <2>2. g = [I \in SUBSET (1..Groups) |-> IF I = {} THEN c.pool
                ELSE FreeStep(c, r, g[I \ {Max(I)}], GroupList[Max(I)])]
    BY <1>3, <2>1 DEF FoldStates
  <2> QED BY <2>2 DEF IsFreeGroups
<1> DEFINE h == CHOOSE h : IsFreeGroups(c, r, h)
<1>5. IsFreeGroups(c, r, h)
  BY <1>4
<1> HIDE DEF h
<1>6. h = [I \in SUBSET (1..Groups) |-> IF I = {} THEN c.pool
             ELSE FreeStep(c, r, h[I \ {Max(I)}], GroupList[Max(I)])]
  BY <1>5 DEF IsFreeGroups
<1>7. h[{}] = c.pool
  BY <1>6
<1>8. ASSUME NEW I \in SUBSET (1..Groups), I # {}, h[I \ {Max(I)}] \in V[I \ {Max(I)}]
      PROVE  h[I] = step[I][h[I \ {Max(I)}]]
  <2>1. h[I] = FreeStep(c, r, h[I \ {Max(I)}], GroupList[Max(I)])
    BY <1>6, <1>8
  <2> QED BY <1>1, <1>8, <2>1
<1>9. FoldGoes(Groups, V, c.pool, step, h)
  BY <1>7, <1>8 DEF FoldGoes
<1>10. h[1..Groups] \in V[1..Groups]
  <2>1. 1..Groups \in SUBSET (1..Groups)
    OBVIOUS
  <2> QED BY <1>2, <1>9, <2>1, FoldReaches
<1> QED BY <1>10, FreeGroupsUnfolded DEF h

\* A request gives its blocks back.
Freed(c, r, d) ==
  /\ Sound(d) /\ Alike(c, d) /\ d.table = [c.table EXCEPT ![r] = NoBlocks]
  /\ d.cached = [c.cached EXCEPT ![r] = 0]

\* Freeing a request keeps all views in agreement and leaves it no block.
LEMMA FreeIs ==
  ASSUME NEW c, Sound(c), NEW r \in Reqs
  PROVE  Freed(c, r, Free(c, r))
<1> DEFINE q == FreeGroups(c, r)
           T(I) == Relisted(c.table, r, I, NoBlocks)
           table == [c.table EXCEPT ![r] = NoBlocks]
           cached == [c.cached EXCEPT ![r] = 0]
           d == Free(c, r)
<1>1. /\ c \in Cores /\ Consistent(c.pool, Flat(c.table), Marks(c.cached))
      /\ \A x \in Reqs, g \in 1..Groups : c.cached[x] <= Len(c.table[x][g])
  BY DEF Sound
<1>2. /\ CoreOf(c, c.pool, c.computed, c.table, c.cached, c.running, c.waiting, c.arrived)
      /\ c.computed \in [Reqs -> Nat] /\ c.table \in Tables
      /\ c.cached \in [Reqs -> Nat] /\ c.running \in Seq(Reqs) /\ c.waiting \in Seq(Reqs)
      /\ c.arrived \in Seq(Reqs)
  BY <1>1, CoreParts
<1>3. NoBlocks \in [1..Groups -> Seq(Usable)] /\ \A g \in 1..Groups : NoBlocks[g] = <<>>
  BY DEF NoBlocks
<1>4. Groups \in Nat /\ DOMAIN GroupList = 1..Groups
  BY GroupListIs
<1>44. Relists(c.table, r, NoBlocks)
  BY <1>2, <1>3, RelistedIs
<1>45. /\ T({}) = Flat(c.table) /\ T(1..Groups) = Flat(table) /\ table \in Tables
       /\ \A I \in SUBSET (1..Groups), g \in 1..Groups :
            /\ T(I)[<<r, g>>] = IF g \in I THEN NoBlocks[g] ELSE c.table[r][g]
            /\ T(I \cup {g}) = [T(I) EXCEPT ![<<r, g>>] = NoBlocks[g]]
       /\ \A x \in Reqs : table[x] = IF x = r THEN NoBlocks ELSE c.table[x]
  BY <1>44 DEF Relists
<1> HIDE DEF T, table
<1> DEFINE V == [I \in SUBSET (1..Groups) |-> {p \in Pools(Blocks, Keys) : Consistent(p, T(I), Marks(c.cached))}]
<1>5. c.pool \in V[{}]
  <2>1. T({}) = Flat(c.table)
    BY <1>45
  <2>2. {} \in SUBSET (1..Groups) /\ c.pool \in Pools(Blocks, Keys)
    BY <1>1 DEF Consistent
  <2> QED BY <1>1, <2>1, <2>2
<1>6. ASSUME NEW I \in SUBSET (1..Groups), I # {}, NEW p \in V[I \ {Max(I)}]
      PROVE  FreeStep(c, r, p, GroupList[Max(I)]) \in V[I]
  <2>1. PICK g \in 1..Groups : /\ g = Max(I) /\ GroupList[Max(I)] = g /\ g \in I
                               /\ I = (I \ {g}) \cup {g} /\ I \ {g} \in SUBSET (1..Groups)
    BY <1>6, LastGroup
  <2>2. Consistent(p, T(I \ {g}), Marks(c.cached))
    BY <1>6, <2>1
  <2>3. T(I \ {g})[<<r, g>>] = c.table[r][g] /\ T(I) = [T(I \ {g}) EXCEPT ![<<r, g>>] = <<>>]
    <3>1. T(I) = [T(I \ {g}) EXCEPT ![<<r, g>>] = <<>>]
      <4>1. PICK J \in SUBSET (1..Groups) : J = I \ {g} /\ I = J \cup {g}
        BY <2>1
      <4>2. T(J \cup {g}) = [T(J) EXCEPT ![<<r, g>>] = NoBlocks[g]]
        BY <1>45
      <4> QED BY <1>3, <4>1, <4>2
    <3>2. T(I \ {g})[<<r, g>>] = c.table[r][g]
      BY <1>45, <2>1
    <3> QED BY <3>1, <3>2
  <2>4. <<r, g>> \in Cells
    BY <1>2, FlatIs
  <2>5. Consistent(FreeStep(c, r, p, g), T(I), Marks(c.cached))
    <3>1. PICK t : t = T(I \ {g})
      OBVIOUS
    <3>2. Consistent(FreeBlocks(p, Reverse(t[<<r, g>>])), [t EXCEPT ![<<r, g>>] = <<>>], Marks(c.cached))
      BY <2>2, <2>4, <3>1, CellFrees
    <3> QED BY <2>3, <3>1, <3>2 DEF FreeStep
  <2>6. FreeStep(c, r, p, g) \in Pools(Blocks, Keys)
    BY <2>5 DEF Consistent
  <2> QED BY <2>1, <2>5, <2>6
<1> HIDE DEF V
<1>7. q \in V[1..Groups]
  BY <1>4, <1>5, <1>6, FreeGroupsRuns
<1>8. T(1..Groups) = Flat(table) /\ table \in Tables
  BY <1>45
<1>9. q \in Pools(Blocks, Keys) /\ Consistent(q, Flat(table), Marks(c.cached))
  <2>1. 1..Groups \in SUBSET (1..Groups)
    OBVIOUS
  <2> QED BY <1>7, <1>8, <2>1 DEF V
<1>10. d = [c EXCEPT !.pool = q, !.table[r] = NoBlocks, !.cached[r] = 0]
  BY FreeUnfolds
<1> HIDE DEF q, d
<1>11. CoreOf(d, q, c.computed, table, cached, c.running, c.waiting, c.arrived)
  BY <1>2, <1>10 DEF CoreOf, table
<1>12. cached \in [Reqs -> Nat]
  BY <1>2
<1>13. \A x \in Reqs : /\ table[x] = IF x = r THEN NoBlocks ELSE c.table[x]
                       /\ cached[x] = IF x = r THEN 0 ELSE c.cached[x]
  BY <1>2, <1>45
<1> HIDE DEF cached
<1>14. /\ d \in Cores /\ d.pool = q /\ d.computed = c.computed /\ d.table = table
       /\ d.cached = cached /\ d.running = c.running /\ d.waiting = c.waiting
       /\ d.arrived = c.arrived
  <2>1. CoreHas(d, q, c.computed, table, cached, c.running, c.waiting, c.arrived)
    BY <1>2, <1>8, <1>9, <1>11, <1>12, PartsCore
  <2> QED BY <2>1 DEF CoreHas
<1>15. Consistent(q, Flat(table), Marks(cached))
  <2>1. ASSUME NEW e \in Cells, NEW i \in 1..Len(Flat(table)[e])
        PROVE  i \in Marks(c.cached)[e] <=> i \in Marks(cached)[e]
    <3>1. /\ e[1] \in Reqs /\ e[2] \in 1..Groups /\ Flat(table)[e] = table[e[1]][e[2]]
          /\ Marks(c.cached)[e] = 1..c.cached[e[1]] /\ Marks(cached)[e] = 1..cached[e[1]]
      BY DEF Cells, Flat, Marks
    <3>2. CASE e[1] = r
      <4>1. Flat(table)[e] = <<>>
        BY <1>3, <1>13, <3>1, <3>2
      <4> QED BY <2>1, <4>1
    <3>3. CASE e[1] # r
      BY <1>13, <3>1, <3>3
    <3> QED BY <3>2, <3>3
  <2>2. Marks(cached) \in [Cells -> SUBSET Nat]
    BY <1>8, <1>12, FlatIs
  <2> QED BY <1>9, <2>1, <2>2, ConsistentMarks
<1>16. \A x \in Reqs, g \in 1..Groups : cached[x] <= Len(table[x][g])
  <2>1. SUFFICES ASSUME NEW x \in Reqs, NEW g \in 1..Groups PROVE cached[x] <= Len(table[x][g])
    OBVIOUS
  <2>2. CASE x = r
    <3>1. cached[x] = 0 /\ table[x][g] = <<>>
      BY <1>3, <1>13, <2>2
    <3> QED BY <3>1
  <2>3. CASE x # r
    BY <1>1, <1>13, <2>3
  <2> QED BY <2>2, <2>3
<1>17. Sound(d)
  BY <1>14, <1>15, <1>16 DEF Sound
<1>18. Freed(c, r, d)
  BY <1>14, <1>17 DEF Freed, Alike, table, cached
<1> QED BY <1>18 DEF d

-----------------------------------------------------------------------------
(* The blocks of a prefix hit, given to a request.                         *)

TouchGroup(hits, p, g) == Touch(p, hits[g])
TouchGroups(c, hits)   == FoldLeft(LAMBDA p, g : TouchGroup(hits, p, g), c.pool, GroupList)

GivenHits(c, r, hits, q, d) ==
  d = [c EXCEPT !.pool = q, !.table[r] = hits, !.cached[r] = Len(hits[1])]

LEMMA AddComputedUnfolds ==
  ASSUME NEW c, NEW r, NEW hits, hits # NoBlocks
  PROVE  GivenHits(c, r, hits, TouchGroups(c, hits), AddComputed(c, r, hits))
BY DEF GivenHits, AddComputed, TouchGroups, TouchGroup, GroupList, FoldLeft, MapThenFoldSet

IsTouchGroups(c, hits, g) ==
  g = [I \in SUBSET DOMAIN GroupList |->
         IF I = {} THEN c.pool
         ELSE TouchGroup(hits, g[I \ {Max(I)}], GroupList[Max(I)])]

LEMMA TouchGroupsUnfolded ==
  ASSUME NEW c, NEW hits
  PROVE  TouchGroups(c, hits) = (CHOOSE g : IsTouchGroups(c, hits, g))[DOMAIN GroupList]
BY DEF TouchGroups, FoldLeft, MapThenFoldSet, IsTouchGroups

LEMMA TouchGroupsRuns ==
  ASSUME NEW c, NEW hits, NEW V, Groups \in Nat, DOMAIN GroupList = 1..Groups, c.pool \in V[{}],
         \A I \in SUBSET (1..Groups) : I # {} =>
           \A v \in V[I \ {Max(I)}] : TouchGroup(hits, v, GroupList[Max(I)]) \in V[I]
  PROVE  TouchGroups(c, hits) \in V[1..Groups]
<1> DEFINE U == UNION {V[I] : I \in SUBSET (1..Groups)}
           step == [I \in SUBSET (1..Groups) |-> [v \in U |-> TouchGroup(hits, v, GroupList[Max(I)])]]
<1>1. ASSUME NEW I \in SUBSET (1..Groups), I # {}, NEW v \in V[I \ {Max(I)}]
      PROVE  step[I][v] = TouchGroup(hits, v, GroupList[Max(I)])
  <2>1. I \ {Max(I)} \in SUBSET (1..Groups)
    OBVIOUS
  <2>2. v \in U
    BY <2>1, <1>1
  <2> QED BY <2>2
<1> HIDE DEF step
<1>2. Advances(Groups, V, c.pool, step)
  BY <1>1 DEF Advances
<1>3. PICK g : FoldStates(Groups, V, c.pool, step, g)
  BY <1>2, FoldHasStates
<1>4. IsTouchGroups(c, hits, g)
  <2>1. ASSUME NEW I \in SUBSET (1..Groups), I # {}
        PROVE  g[I] = TouchGroup(hits, g[I \ {Max(I)}], GroupList[Max(I)])
    <3>1. g[I \ {Max(I)}] \in V[I \ {Max(I)}] /\ g[I] = step[I][g[I \ {Max(I)}]]
      BY <1>3, <2>1 DEF FoldStates
    <3> QED BY <1>1, <2>1, <3>1
  <2>2. g = [I \in SUBSET (1..Groups) |-> IF I = {} THEN c.pool
                ELSE TouchGroup(hits, g[I \ {Max(I)}], GroupList[Max(I)])]
    BY <1>3, <2>1 DEF FoldStates
  <2> QED BY <2>2 DEF IsTouchGroups
<1> DEFINE h == CHOOSE h : IsTouchGroups(c, hits, h)
<1>5. IsTouchGroups(c, hits, h)
  BY <1>4
<1> HIDE DEF h
<1>6. h = [I \in SUBSET (1..Groups) |-> IF I = {} THEN c.pool
             ELSE TouchGroup(hits, h[I \ {Max(I)}], GroupList[Max(I)])]
  BY <1>5 DEF IsTouchGroups
<1>7. h[{}] = c.pool
  BY <1>6
<1>8. ASSUME NEW I \in SUBSET (1..Groups), I # {}, h[I \ {Max(I)}] \in V[I \ {Max(I)}]
      PROVE  h[I] = step[I][h[I \ {Max(I)}]]
  <2>1. h[I] = TouchGroup(hits, h[I \ {Max(I)}], GroupList[Max(I)])
    BY <1>6, <1>8
  <2> QED BY <1>1, <1>8, <2>1
<1>9. FoldGoes(Groups, V, c.pool, step, h)
  BY <1>7, <1>8 DEF FoldGoes
<1>10. h[1..Groups] \in V[1..Groups]
  <2>1. 1..Groups \in SUBSET (1..Groups)
    OBVIOUS
  <2> QED BY <1>2, <1>9, <2>1, FoldReaches
<1> QED BY <1>10, TouchGroupsUnfolded DEF h

\* Every group has hits of the same length, which are cached.
AreHits(c, hits, len) ==
  /\ hits \in [1..Groups -> Seq(Usable)] /\ len \in Nat
  /\ \A g \in 1..Groups : /\ Len(hits[g]) = len /\ Distinct(hits[g])
                          /\ \A i \in 1..len : c.pool.hash[hits[g][i]] # NoKey

UnheldHits(c, hits, len, g) == Cardinality({i \in 1..len : c.pool.ref[hits[g][i]] = 0})

\* A request gets the hit blocks; H totals those that no request held.
AddedHits(c, r, hits, len, H, d) ==
  /\ Sound(d) /\ Alike(c, d) /\ d.table = [c.table EXCEPT ![r] = hits]
  /\ d.cached = [c.cached EXCEPT ![r] = len]
  /\ d.pool.queue.size + H[1..Groups] >= c.pool.queue.size

\* So does giving a request the blocks of a hit; the free list loses those nobody held.
LEMMA AddComputedIs ==
  ASSUME NEW c, Sound(c), NEW r \in Reqs, c.table[r] = NoBlocks, c.cached[r] = 0,
         NEW hits, NEW len, AreHits(c, hits, len), NEW w, NEW H, Totals(Groups, w, H),
         \A g \in 1..Groups : w[g] = UnheldHits(c, hits, len, g)
  PROVE  AddedHits(c, r, hits, len, H, AddComputed(c, r, hits))
<1> DEFINE q == TouchGroups(c, hits)
           T(I) == Relisted(c.table, r, I, hits)
           M(I) == Remarked(c.cached, r, I, len)
           table == [c.table EXCEPT ![r] = hits]
           cached == [c.cached EXCEPT ![r] = len]
           d == AddComputed(c, r, hits)
<1>1. /\ c \in Cores /\ Consistent(c.pool, Flat(c.table), Marks(c.cached))
      /\ \A x \in Reqs, g \in 1..Groups : c.cached[x] <= Len(c.table[x][g])
  BY DEF Sound
<1>2. /\ CoreOf(c, c.pool, c.computed, c.table, c.cached, c.running, c.waiting, c.arrived)
      /\ c.computed \in [Reqs -> Nat] /\ c.table \in Tables
      /\ c.cached \in [Reqs -> Nat] /\ c.running \in Seq(Reqs) /\ c.waiting \in Seq(Reqs)
      /\ c.arrived \in Seq(Reqs) /\ c.pool \in Pools(Blocks, Keys)
  BY <1>1, CoreParts
<1>3. /\ hits \in [1..Groups -> Seq(Usable)] /\ len \in Nat
      /\ \A g \in 1..Groups : /\ Len(hits[g]) = len /\ Distinct(hits[g])
                              /\ \A i \in 1..len : c.pool.hash[hits[g][i]] # NoKey
  BY DEF AreHits
<1>4. Groups \in Nat /\ DOMAIN GroupList = 1..Groups
  BY GroupListIs
<1>5. /\ c.pool.queue.size \in Nat
      /\ \A b \in Usable : c.pool.ref[b] \in Nat
  BY <1>1, ConsistentBlocks
<1>6. /\ H[{}] = 0
      /\ \A I \in SUBSET (1..Groups) : H[I] \in Nat /\ (I # {} => H[I] = H[I \ {Max(I)}] + w[Max(I)])
  BY DEF Totals
<1>7. /\ 1..Groups \in SUBSET (1..Groups) /\ {} \in SUBSET (1..Groups) /\ 1 \in 1..Groups
      /\ Usable \subseteq Blocks
  BY SizesAre
<1>8. CASE hits = NoBlocks
  <2>1. d = c
    BY <1>8 DEF AddComputed
  <2>2. len = 0
    <3>1. hits[1] = <<>>
      BY <1>7, <1>8 DEF NoBlocks
    <3> QED BY <1>3, <1>7, <3>1
  <2>3. table = c.table
    BY <1>2, <1>8 DEF Tables
  <2>4. cached = c.cached
    BY <1>2, <2>2
  <2>5. c.pool.queue.size + H[1..Groups] >= c.pool.queue.size
    <3>1. PICK h \in Nat : h = H[1..Groups]
      BY <1>6, <1>7
    <3> QED BY <1>5, <3>1
  <2> QED BY <2>1, <2>3, <2>4, <2>5 DEF AddedHits, Alike
<1>9. CASE hits # NoBlocks
  <2>1. Relists(c.table, r, hits) /\ Remarks(c.cached, r, len)
    BY <1>2, <1>3, RelistedIs, RemarkedIs
  <2>2. /\ T({}) = Flat(c.table) /\ T(1..Groups) = Flat(table) /\ table \in Tables
        /\ \A I \in SUBSET (1..Groups), g \in 1..Groups :
             /\ T(I)[<<r, g>>] = IF g \in I THEN hits[g] ELSE c.table[r][g]
             /\ T(I \cup {g}) = [T(I) EXCEPT ![<<r, g>>] = hits[g]]
        /\ \A x \in Reqs : table[x] = IF x = r THEN hits ELSE c.table[x]
    BY <2>1 DEF Relists
  <2>3. /\ M({}) = Marks(c.cached) /\ M(1..Groups) = Marks(cached) /\ cached \in [Reqs -> Nat]
        /\ \A I \in SUBSET (1..Groups), g \in 1..Groups :
             M(I \cup {g}) = [M(I) EXCEPT ![<<r, g>>] = 1..len]
        /\ \A x \in Reqs : cached[x] = IF x = r THEN len ELSE c.cached[x]
    BY <2>1 DEF Remarks
  <2> HIDE DEF T, M, table, cached
  <2> DEFINE V == [I \in SUBSET (1..Groups) |->
                     {p \in Pools(Blocks, Keys) :
                        /\ Consistent(p, T(I), M(I)) /\ p.hash = c.pool.hash
                        /\ \A b \in Usable : p.ref[b] >= c.pool.ref[b]
                        /\ p.queue.size + H[I] >= c.pool.queue.size}]
  <2>4. c.pool \in V[{}]
    <3>1. c.pool.queue.size + H[{}] >= c.pool.queue.size
      BY <1>5, <1>6
    <3>2. \A b \in Usable : c.pool.ref[b] >= c.pool.ref[b]
      BY <1>5
    <3> QED BY <1>1, <1>2, <1>7, <2>2, <2>3, <3>1, <3>2
  <2>5. ASSUME NEW I \in SUBSET (1..Groups), I # {}, NEW p \in V[I \ {Max(I)}]
        PROVE  TouchGroup(hits, p, GroupList[Max(I)]) \in V[I]
    <3>1. PICK g \in 1..Groups : /\ g = Max(I) /\ GroupList[Max(I)] = g /\ g \in I
                                 /\ I = (I \ {g}) \cup {g} /\ I \ {g} \in SUBSET (1..Groups)
      BY <2>5, LastGroup
    <3>2. PICK J \in SUBSET (1..Groups) : J = I \ {g} /\ I = J \cup {g} /\ g \notin J
      BY <3>1
    <3>3. /\ Consistent(p, T(J), M(J)) /\ p.hash = c.pool.hash
          /\ \A b \in Usable : p.ref[b] >= c.pool.ref[b]
          /\ p.queue.size + H[J] >= c.pool.queue.size
      BY <2>5, <3>1, <3>2
    <3>4. PICK t, m : t = T(J) /\ m = M(J)
      OBVIOUS
    <3>5. PICK a \in Seq(Usable) : a = hits[g]
      BY <1>3
    <3>6. t[<<r, g>>] = <<>> /\ T(I) = [t EXCEPT ![<<r, g>>] = a] /\ M(I) = [m EXCEPT ![<<r, g>>] = 1..len]
      <4>1. c.table[r][g] = <<>>
        BY DEF NoBlocks
      <4>2. T(J \cup {g}) = [T(J) EXCEPT ![<<r, g>>] = hits[g]]
        BY <2>2
      <4>3. M(J \cup {g}) = [M(J) EXCEPT ![<<r, g>>] = 1..len]
        BY <2>3
      <4>4. T(J)[<<r, g>>] = <<>>
        <5>1. T(J)[<<r, g>>] = IF g \in J THEN hits[g] ELSE c.table[r][g]
          BY <2>2
        <5> QED BY <3>2, <4>1, <5>1
      <4> QED BY <3>2, <3>4, <3>5, <4>2, <4>3, <4>4
    <3>7. <<r, g>> \in Cells
      BY <1>2, FlatIs
    <3>8. Len(a) = len /\ Distinct(a) /\ \A i \in 1..Len(a) : p.hash[a[i]] # NoKey
      BY <1>3, <3>3, <3>5
    <3> DEFINE s == TouchGroup(hits, p, g)
    <3>9. CellTouched(p, t, m, <<r, g>>, a, Touch(p, a))
      BY <3>3, <3>4, <3>6, <3>7, <3>8, CellTouches
    <3>10. s = Touch(p, a)
      BY <3>5 DEF TouchGroup
    <3> HIDE DEF s
    <3>11. /\ Consistent(s, [t EXCEPT ![<<r, g>>] = a], [m EXCEPT ![<<r, g>>] = 1..Len(a)])
           /\ s.hash = p.hash /\ \A b \in Blocks : s.ref[b] >= p.ref[b]
           /\ s.queue.size + Cardinality({i \in 1..Len(a) : p.ref[a[i]] = 0}) >= p.queue.size
      BY <3>9, <3>10 DEF CellTouched
    <3>12. Consistent(s, T(I), M(I))
      BY <3>6, <3>8, <3>11
    <3>13. s \in Pools(Blocks, Keys) /\ s.hash = c.pool.hash
      BY <3>3, <3>11, <3>12 DEF Consistent
    <3>14. s.queue.size \in Nat /\ p.queue.size \in Nat /\ \A b \in Usable : s.ref[b] \in Nat /\ p.ref[b] \in Nat
      BY <3>3, <3>12, ConsistentBlocks
    <3>15. \A b \in Usable : s.ref[b] >= c.pool.ref[b]
      <4>1. SUFFICES ASSUME NEW b \in Usable PROVE s.ref[b] >= c.pool.ref[b]
        OBVIOUS
      <4>2. s.ref[b] >= p.ref[b] /\ p.ref[b] >= c.pool.ref[b]
        BY <1>7, <3>3, <3>11
      <4>3. s.ref[b] \in Nat /\ p.ref[b] \in Nat /\ c.pool.ref[b] \in Nat
        BY <1>5, <3>14
      <4> QED BY <4>2, <4>3
    <3>16. PICK x \in Nat : x = Cardinality({i \in 1..Len(a) : p.ref[a[i]] = 0}) /\ x <= w[g] /\ w[g] \in Nat
      <4>1. {i \in 1..len : p.ref[a[i]] = 0} \subseteq {i \in 1..len : c.pool.ref[a[i]] = 0}
        <5>1. SUFFICES ASSUME NEW i \in 1..len, p.ref[a[i]] = 0 PROVE c.pool.ref[a[i]] = 0
          OBVIOUS
        <5>2. a[i] \in Usable
          BY <3>8
        <5>3. p.ref[a[i]] >= c.pool.ref[a[i]] /\ c.pool.ref[a[i]] \in Nat
          BY <1>5, <3>3, <5>2
        <5> QED BY <5>1, <5>3
      <4>2. IsFiniteSet(1..len)
        BY <1>3, FS_Interval
      <4>3. IsFiniteSet({i \in 1..len : c.pool.ref[a[i]] = 0})
        BY <4>2, FS_Subset
      <4>4. /\ IsFiniteSet({i \in 1..len : p.ref[a[i]] = 0})
            /\ Cardinality({i \in 1..len : p.ref[a[i]] = 0}) <= Cardinality({i \in 1..len : c.pool.ref[a[i]] = 0})
        BY <4>1, <4>3, FS_Subset
      <4>5. /\ Cardinality({i \in 1..len : p.ref[a[i]] = 0}) \in Nat
            /\ Cardinality({i \in 1..len : c.pool.ref[a[i]] = 0}) \in Nat
        BY <4>3, <4>4, FS_CardinalityType
      <4>6. w[g] = Cardinality({i \in 1..len : c.pool.ref[a[i]] = 0})
        BY <3>5 DEF UnheldHits
      <4> QED BY <3>8, <4>4, <4>5, <4>6
    <3>17. s.queue.size + H[I] >= c.pool.queue.size
      <4>1. PICK i \in Nat, j \in Nat, y \in Nat :
              i = H[I] /\ j = H[J] /\ y = w[g] /\ i = j + y
        <5>1. H[I] = H[J] + w[g] /\ H[I] \in Nat
          BY <1>6, <2>5, <3>1, <3>2
        <5>2. H[J] \in Nat /\ w[g] \in Nat
          BY <1>6, <3>16
        <5> QED BY <5>1, <5>2
      <4>2. PICK k \in Nat, l \in Nat, z \in Nat :
              k = s.queue.size /\ l = p.queue.size /\ z = c.pool.queue.size
        BY <1>5, <3>14
      <4>3. k + x >= l /\ x <= y /\ l + j >= z
        BY <3>3, <3>11, <3>16, <4>1, <4>2
      <4>4. i = j + y
        BY <4>1
      <4>5. k + i >= z
        BY <4>3, <4>4
      <4> QED BY <4>1, <4>2, <4>5
    <3> QED BY <3>1, <3>12, <3>13, <3>15, <3>17 DEF s
  <2> HIDE DEF V
  <2>6. q \in V[1..Groups]
    BY <1>4, <2>4, <2>5, TouchGroupsRuns
  <2>7. /\ q \in Pools(Blocks, Keys) /\ Consistent(q, Flat(table), Marks(cached))
        /\ q.queue.size + H[1..Groups] >= c.pool.queue.size
    BY <1>7, <2>2, <2>3, <2>6 DEF V
  <2>8. GivenHits(c, r, hits, q, d)
    BY <1>9, AddComputedUnfolds
  <2>9. Len(hits[1]) = len
    BY <1>3, <1>7
  <2> HIDE DEF q, d
  <2>10. CoreOf(d, q, c.computed, table, cached, c.running, c.waiting, c.arrived)
    BY <1>2, <2>8, <2>9 DEF GivenHits, CoreOf, table, cached
  <2>11. CoreHas(d, q, c.computed, table, cached, c.running, c.waiting, c.arrived)
    BY <1>2, <2>2, <2>3, <2>7, <2>10, PartsCore
  <2>12. /\ d \in Cores /\ d.pool = q /\ d.computed = c.computed /\ d.table = table
         /\ d.cached = cached /\ d.running = c.running /\ d.waiting = c.waiting
         /\ d.arrived = c.arrived
    BY <2>11 DEF CoreHas
  <2>13. \A x \in Reqs, g \in 1..Groups : cached[x] <= Len(table[x][g])
    <3>1. SUFFICES ASSUME NEW x \in Reqs, NEW g \in 1..Groups PROVE cached[x] <= Len(table[x][g])
      OBVIOUS
    <3>2. CASE x = r
      <4>1. cached[x] = len /\ table[x][g] = hits[g]
        BY <2>2, <2>3, <3>2
      <4> QED BY <1>3, <4>1
    <3>3. CASE x # r
      BY <1>1, <2>2, <2>3, <3>3
    <3> QED BY <3>2, <3>3
  <2>14. Sound(d)
    BY <2>7, <2>12, <2>13 DEF Sound
  <2>15. AddedHits(c, r, hits, len, H, d)
    BY <2>7, <2>12, <2>14 DEF AddedHits, Alike, table, cached
  <2> QED BY <2>15 DEF d
<1> QED BY <1>8, <1>9

-----------------------------------------------------------------------------
(* Blocks for more tokens.                                                 *)

LEMMA GreaterOf ==
  ASSUME NEW a \in Int, NEW b \in Int
  PROVE  Max({a, b}) = IF a >= b THEN a ELSE b
BY DEF Max

LEMMA LeastOf ==
  ASSUME NEW a \in Int, NEW b \in Int, NEW c \in Int
  PROVE  /\ Min({a, b, c}) \in {a, b, c} /\ Min({a, b, c}) <= a /\ Min({a, b, c}) <= b
         /\ Min({a, b, c}) <= c
<1>1. \E m \in {a, b, c} : \A x \in {a, b, c} : m <= x
  OBVIOUS
<1> QED BY <1>1 DEF Min

\* Division with a remainder.
LEMMA Quotient ==
  ASSUME NEW a \in Nat, NEW b \in Nat \ {0}
  PROVE  a \div b \in Nat /\ (a \div b) * b <= a /\ a < (a \div b) * b + b
OBVIOUS

LEMMA TimesGrows ==
  ASSUME NEW a \in Nat, NEW b \in Nat, NEW k \in Nat, a <= b
  PROVE  a * k \in Nat /\ b * k \in Nat /\ a * k <= b * k
<1>1. PICK d \in Nat : b = a + d
  <2>1. b - a \in Nat /\ b = a + (b - a)
    OBVIOUS
  <2> QED BY <2>1
<1>2. b * k = (a * k) + (d * k)
  BY <1>1
<1>3. a * k \in Nat /\ d * k \in Nat
  OBVIOUS
<1> QED BY <1>2, <1>3

\* The full blocks of n tokens are some of the blocks that n tokens need.
LEMMA BlocksOf ==
  ASSUME NEW n \in Nat
  PROVE  CDiv(n) \in Nat /\ n \div BlockSize \in Nat /\ n \div BlockSize <= CDiv(n)
         /\ (n \div BlockSize) * BlockSize <= n
<1>1. PICK b \in Nat \ {0} : b = BlockSize
  BY SizesAre
<1>2. PICK m \in Nat : m = n + b - 1
  BY <1>1
<1>3. PICK p \in Nat : p = n \div b /\ p * b <= n
  BY <1>1, Quotient
<1>4. PICK q \in Nat : q = m \div b /\ m < q * b + b
  BY <1>1, <1>2, Quotient
<1>5. p <= q
  <2>1. SUFFICES ASSUME q + 1 <= p PROVE FALSE
    OBVIOUS
  <2>2. (q + 1) * b <= p * b /\ p * b \in Nat
    BY <1>1, <2>1, TimesGrows
  <2>3. (q + 1) * b = q * b + b /\ q * b \in Nat
    BY <1>1
  <2>4. n <= m
    BY <1>1, <1>2
  <2> QED BY <1>3, <1>4, <2>2, <2>3, <2>4
<1> QED BY <1>1, <1>2, <1>3, <1>4, <1>5 DEF CDiv

\* A request gets blocks of one group.

GrownInto(c, r, g, n, q, list, d) ==
  d = [c EXCEPT !.pool = q, !.table[r][g] = c.table[r][g] \o list]

GrownOne(c, r, g, n, d) ==
  /\ Sound(d) /\ Alike(c, d) /\ d.cached = c.cached
  /\ \A x \in Reqs : x # r => d.table[x] = c.table[x]
  /\ \A h \in 1..Groups : h # g => d.table[r][h] = c.table[r][h]
  /\ Len(d.table[r][g]) = Len(c.table[r][g]) + n /\ Len(c.table[r][g]) \in Nat
  /\ d.pool.queue.size = c.pool.queue.size - n

\* One group's list gets its new blocks.
LEMMA GrowOne ==
  ASSUME NEW c, Sound(c), NEW r \in Reqs, NEW g \in 1..Groups, NEW n \in Nat,
         n <= c.pool.queue.size, NEW d,
         GrownInto(c, r, g, n, GetNewBlocks(c.pool, n), FirstBlocks(c.pool.queue, n), d)
  PROVE  GrownOne(c, r, g, n, d)
<1> DEFINE new == FirstBlocks(c.pool.queue, n)
           q == GetNewBlocks(c.pool, n)
           a == [c.table[r] EXCEPT ![g] = c.table[r][g] \o new]
           table == [c.table EXCEPT ![r] = a]
           e == <<r, g>>
<1>1. /\ c \in Cores /\ Consistent(c.pool, Flat(c.table), Marks(c.cached))
      /\ \A x \in Reqs, h \in 1..Groups : c.cached[x] <= Len(c.table[x][h])
  BY DEF Sound
<1>2. /\ CoreOf(c, c.pool, c.computed, c.table, c.cached, c.running, c.waiting, c.arrived)
      /\ c.computed \in [Reqs -> Nat] /\ c.table \in Tables
      /\ c.cached \in [Reqs -> Nat] /\ c.running \in Seq(Reqs) /\ c.waiting \in Seq(Reqs)
      /\ c.arrived \in Seq(Reqs) /\ c.pool \in Pools(Blocks, Keys)
  BY <1>1, CoreParts
<1>3. PICK old \in Tables, cached \in [Reqs -> Nat] : old = c.table /\ cached = c.cached
  BY <1>2
<1>4. /\ e \in Cells /\ Flat(old)[e] = old[r][g] /\ Marks(cached)[e] = 1..cached[r]
      /\ Flat(old) \in [Cells -> Seq(Usable)]
  BY FlatIs
<1>5. CellGrown(c.pool, Flat(old), Marks(cached), e, n, q)
  <2>1. \A i \in Marks(cached)[e] : i <= Len(Flat(old)[e])
    <3>1. cached[r] <= Len(old[r][g]) /\ cached[r] \in Nat /\ old[r][g] \in Seq(Usable)
      BY <1>1, <1>3 DEF Tables
    <3>2. PICK l \in Nat : l = Len(old[r][g])
      BY <3>1
    <3> QED BY <1>4, <3>1, <3>2
  <2> QED BY <1>1, <1>3, <1>4, <2>1, CellGrows
<1>6. d = [c EXCEPT !.pool = q, !.table[r][g] = c.table[r][g] \o new]
  BY DEF GrownInto
<1> HIDE DEF q, new, e
<1>7. /\ new \in Seq(Usable) /\ Len(new) = n
      /\ Consistent(q, [Flat(old) EXCEPT ![e] = Flat(old)[e] \o new], Marks(cached))
      /\ q.queue.size = c.pool.queue.size - n
  BY <1>5 DEF CellGrown, new
<1>8. PICK list \in Seq(Usable) : list = c.table[r][g] \o new /\ Len(list) = Len(old[r][g]) + n
  <2>1. old[r][g] \in Seq(Usable)
    BY DEF Tables
  <2>2. old[r][g] \o new \in Seq(Usable) /\ Len(old[r][g] \o new) = Len(old[r][g]) + n
    <3>1. PICK s \in Seq(Usable), u \in Seq(Usable) : s = old[r][g] /\ u = new
      BY <1>7, <2>1
    <3>2. s \o u \in Seq(Usable) /\ Len(s \o u) = Len(s) + Len(u)
      OBVIOUS
    <3> QED BY <1>7, <3>1, <3>2
  <2> QED BY <1>3, <2>2
<1>9. table \in Tables
  BY <1>2, <1>8 DEF Tables
<1>10. CoreOf(d, q, c.computed, table, c.cached, c.running, c.waiting, c.arrived)
  BY <1>2, <1>6 DEF CoreOf
<1>11. /\ \A x \in Reqs : x # r => table[x] = c.table[x]
       /\ \A h \in 1..Groups : h # g => table[r][h] = c.table[r][h]
       /\ table[r][g] = list
  BY <1>2, <1>8 DEF Tables
<1> HIDE DEF table
<1>12. CoreHas(d, q, c.computed, table, c.cached, c.running, c.waiting, c.arrived)
  <2>1. q \in Pools(Blocks, Keys)
    BY <1>7 DEF Consistent
  <2> QED BY <1>2, <1>9, <1>10, <2>1, PartsCore
<1>13. /\ d \in Cores /\ d.pool = q /\ d.computed = c.computed /\ d.table = table
       /\ d.cached = c.cached /\ d.running = c.running /\ d.waiting = c.waiting
       /\ d.arrived = c.arrived
  BY <1>12 DEF CoreHas
<1>14. Flat(table) = [Flat(old) EXCEPT ![e] = Flat(old)[e] \o new]
  <2>1. Flat(old)[e] \o new = list
    BY <1>3, <1>4, <1>8
  <2>2. ASSUME NEW x \in Cells PROVE table[x[1]][x[2]] = IF x = e THEN list ELSE old[x[1]][x[2]]
    <3>1. x[1] \in Reqs /\ x[2] \in 1..Groups /\ x = <<x[1], x[2]>>
      BY DEF Cells
    <3> QED BY <1>3, <1>11, <3>1 DEF e
  <2>3. [Flat(old) EXCEPT ![e] = list] = [x \in Cells |-> IF x = e THEN list ELSE old[x[1]][x[2]]]
    BY <1>4 DEF Flat
  <2>4. Flat(table) = [x \in Cells |-> IF x = e THEN list ELSE old[x[1]][x[2]]]
    BY <2>2 DEF Flat
  <2> QED BY <2>1, <2>3, <2>4
<1>15. \A x \in Reqs, h \in 1..Groups : c.cached[x] <= Len(table[x][h])
  <2>1. SUFFICES ASSUME NEW x \in Reqs, NEW h \in 1..Groups PROVE c.cached[x] <= Len(table[x][h])
    OBVIOUS
  <2>2. c.cached[x] <= Len(old[x][h]) /\ c.cached[x] \in Nat /\ old[x][h] \in Seq(Usable)
    BY <1>1, <1>2, <1>3 DEF Tables
  <2>3. PICK k \in Nat : k = Len(old[x][h])
    BY <2>2
  <2>4. table[x][h] = IF x = r /\ h = g THEN list ELSE old[x][h]
    BY <1>3, <1>11
  <2> QED BY <1>8, <2>2, <2>3, <2>4
<1>16. Sound(d)
  BY <1>3, <1>7, <1>13, <1>14, <1>15 DEF Sound
<1>17. Len(c.table[r][g]) \in Nat
  <2>1. old[r][g] \in Seq(Usable)
    BY DEF Tables
  <2> QED BY <1>3, <2>1
<1> QED BY <1>3, <1>7, <1>8, <1>11, <1>13, <1>16, <1>17 DEF GrownOne, Alike

NewFor(c, r, tokens, g) == Max({0, CDiv(tokens) - Len(c.table[r][g])})

AddNewStep(r, tokens, d, g) ==
  LET n == Max({0, CDiv(tokens) - Len(d.table[r][g])})
  IN  [d EXCEPT !.pool = GetNewBlocks(@, n), !.table[r][g] = @ \o FirstBlocks(d.pool.queue, n)]

IsAddNew(c, r, tokens, g) ==
  g = [I \in SUBSET DOMAIN GroupList |->
         IF I = {} THEN c
         ELSE AddNewStep(r, tokens, g[I \ {Max(I)}], GroupList[Max(I)])]

LEMMA AddNewUnfolded ==
  ASSUME NEW c, NEW r, NEW tokens
  PROVE  AddNew(c, r, tokens) = (CHOOSE g : IsAddNew(c, r, tokens, g))[DOMAIN GroupList]
BY DEF AddNew, AddNewStep, GroupList, FoldLeft, MapThenFoldSet, IsAddNew

LEMMA AddNewRuns ==
  ASSUME NEW c, NEW r, NEW tokens, NEW V, Groups \in Nat, DOMAIN GroupList = 1..Groups, c \in V[{}],
         \A I \in SUBSET (1..Groups) : I # {} =>
           \A v \in V[I \ {Max(I)}] : AddNewStep(r, tokens, v, GroupList[Max(I)]) \in V[I]
  PROVE  AddNew(c, r, tokens) \in V[1..Groups]
<1> DEFINE U == UNION {V[I] : I \in SUBSET (1..Groups)}
           step == [I \in SUBSET (1..Groups) |-> [v \in U |-> AddNewStep(r, tokens, v, GroupList[Max(I)])]]
<1>1. ASSUME NEW I \in SUBSET (1..Groups), I # {}, NEW v \in V[I \ {Max(I)}]
      PROVE  step[I][v] = AddNewStep(r, tokens, v, GroupList[Max(I)])
  <2>1. I \ {Max(I)} \in SUBSET (1..Groups)
    OBVIOUS
  <2>2. v \in U
    BY <2>1, <1>1
  <2> QED BY <2>2
<1> HIDE DEF step
<1>2. Advances(Groups, V, c, step)
  BY <1>1 DEF Advances
<1>3. PICK g : FoldStates(Groups, V, c, step, g)
  BY <1>2, FoldHasStates
<1>4. IsAddNew(c, r, tokens, g)
  <2>1. ASSUME NEW I \in SUBSET (1..Groups), I # {}
        PROVE  g[I] = AddNewStep(r, tokens, g[I \ {Max(I)}], GroupList[Max(I)])
    <3>1. g[I \ {Max(I)}] \in V[I \ {Max(I)}] /\ g[I] = step[I][g[I \ {Max(I)}]]
      BY <1>3, <2>1 DEF FoldStates
    <3> QED BY <1>1, <2>1, <3>1
  <2>2. g = [I \in SUBSET (1..Groups) |-> IF I = {} THEN c
                ELSE AddNewStep(r, tokens, g[I \ {Max(I)}], GroupList[Max(I)])]
    BY <1>3, <2>1 DEF FoldStates
  <2> QED BY <2>2 DEF IsAddNew
<1> DEFINE h == CHOOSE h : IsAddNew(c, r, tokens, h)
<1>5. IsAddNew(c, r, tokens, h)
  BY <1>4
<1> HIDE DEF h
<1>6. h = [I \in SUBSET (1..Groups) |-> IF I = {} THEN c
             ELSE AddNewStep(r, tokens, h[I \ {Max(I)}], GroupList[Max(I)])]
  BY <1>5 DEF IsAddNew
<1>7. h[{}] = c
  BY <1>6
<1>8. ASSUME NEW I \in SUBSET (1..Groups), I # {}, h[I \ {Max(I)}] \in V[I \ {Max(I)}]
      PROVE  h[I] = step[I][h[I \ {Max(I)}]]
  <2>1. h[I] = AddNewStep(r, tokens, h[I \ {Max(I)}], GroupList[Max(I)])
    BY <1>6, <1>8
  <2> QED BY <1>1, <1>8, <2>1
<1>9. FoldGoes(Groups, V, c, step, h)
  BY <1>7, <1>8 DEF FoldGoes
<1>10. h[1..Groups] \in V[1..Groups]
  <2>1. 1..Groups \in SUBSET (1..Groups)
    OBVIOUS
  <2> QED BY <1>2, <1>9, <2>1, FoldReaches
<1> QED BY <1>10, AddNewUnfolded DEF h

\* A request gets the blocks that so many tokens need; H totals the new ones.
Enlarged(c, r, tokens, d) ==
  /\ Sound(d) /\ Alike(c, d) /\ d.cached = c.cached
  /\ \A x \in Reqs : x # r => d.table[x] = c.table[x]
  /\ \A g \in 1..Groups : CDiv(tokens) <= Len(d.table[r][g])

\* Every group gets the blocks for its tokens, if the free list has as many as all need.
LEMMA AddNewIs ==
  ASSUME NEW c, Sound(c), NEW r \in Reqs, NEW tokens \in Nat, NEW w, NEW H,
         Totals(Groups, w, H), \A g \in 1..Groups : w[g] = NewFor(c, r, tokens, g),
         H[1..Groups] <= c.pool.queue.size
  PROVE  Enlarged(c, r, tokens, AddNew(c, r, tokens))
<1>1. PICK k \in Nat : k = CDiv(tokens)
  BY BlocksOf
<1>2. Groups \in Nat /\ DOMAIN GroupList = 1..Groups
  BY GroupListIs
<1>3. /\ H[{}] = 0
      /\ \A I \in SUBSET (1..Groups) : H[I] \in Nat /\ (I # {} => H[I] = H[I \ {Max(I)}] + w[Max(I)])
  BY DEF Totals
<1>4. ASSUME NEW d, Sound(d), NEW g \in 1..Groups
      PROVE  /\ Len(d.table[r][g]) \in Nat /\ NewFor(d, r, tokens, g) \in Nat
             /\ Len(d.table[r][g]) + NewFor(d, r, tokens, g) >= k
  <2>1. d.table \in Tables
    BY <1>4, CoreParts DEF Sound
  <2>2. d.table[r][g] \in Seq(Usable)
    BY <2>1 DEF Tables
  <2>3. PICK l \in Nat : l = Len(d.table[r][g])
    BY <2>2
  <2>4. Max({0, k - l}) = IF 0 >= k - l THEN 0 ELSE k - l
    BY GreaterOf
  <2>5. NewFor(d, r, tokens, g) = Max({0, k - l})
    BY <1>1, <2>3 DEF NewFor
  <2> QED BY <2>3, <2>4, <2>5
<1>5. \A g \in 1..Groups : w[g] \in Nat
  BY <1>4
<1>6. \A I \in SUBSET (1..Groups) : H[I] <= H[1..Groups]
  BY <1>2, <1>5, TotalsGrow
<1>7. PICK z \in Nat : z = c.pool.queue.size
  BY ConsistentBlocks DEF Sound
<1> DEFINE Ok(d, I) ==
             /\ Sound(d) /\ Alike(c, d) /\ d.cached = c.cached
             /\ \A x \in Reqs : x # r => d.table[x] = c.table[x]
             /\ \A g \in 1..Groups : /\ g \notin I => d.table[r][g] = c.table[r][g]
                                     /\ g \in I => k <= Len(d.table[r][g])
             /\ d.pool.queue.size + H[I] = z
           V == [I \in SUBSET (1..Groups) |-> {d \in Cores : Ok(d, I)}]
<1>8. c \in V[{}]
  <2>1. z + H[{}] = z /\ {} \in SUBSET (1..Groups)
    BY <1>3
  <2>2. c \in Cores
    BY DEF Sound
  <2> QED BY <1>7, <2>1, <2>2 DEF Alike
<1>9. ASSUME NEW I \in SUBSET (1..Groups), I # {}, NEW d \in V[I \ {Max(I)}]
      PROVE  AddNewStep(r, tokens, d, GroupList[Max(I)]) \in V[I]
  <2>1. PICK g \in 1..Groups : /\ g = Max(I) /\ GroupList[Max(I)] = g /\ g \in I
                               /\ I = (I \ {g}) \cup {g} /\ I \ {g} \in SUBSET (1..Groups)
    BY <1>9, LastGroup
  <2>2. PICK J \in SUBSET (1..Groups) : J = I \ {g} /\ I = J \cup {g} /\ g \notin J
    BY <2>1
  <2>3. Ok(d, J)
    BY <1>9, <2>1, <2>2
  <2>4. /\ Sound(d) /\ Alike(c, d) /\ d.cached = c.cached
        /\ \A x \in Reqs : x # r => d.table[x] = c.table[x]
        /\ \A h \in 1..Groups : /\ h \notin J => d.table[r][h] = c.table[r][h]
                                /\ h \in J => k <= Len(d.table[r][h])
        /\ d.pool.queue.size + H[J] = z
    BY <2>3
  <2>5. PICK n \in Nat : n = NewFor(d, r, tokens, g) /\ n = w[g] /\ Len(d.table[r][g]) + n >= k
    <3>1. d.table[r][g] = c.table[r][g]
      BY <2>2, <2>4
    <3>2. NewFor(d, r, tokens, g) = NewFor(c, r, tokens, g)
      BY <3>1 DEF NewFor
    <3> QED BY <1>4, <2>4, <3>2
  <2>6. PICK y \in Nat : y = d.pool.queue.size
    BY <2>4, ConsistentBlocks DEF Sound
  <2>7. PICK i \in Nat, j \in Nat, a \in Nat : i = H[I] /\ j = H[J] /\ a = H[1..Groups]
    <3>1. 1..Groups \in SUBSET (1..Groups)
      OBVIOUS
    <3> QED BY <1>3, <3>1
  <2>8. i = j + n /\ i <= a /\ a <= z /\ y + j = z
    <3>1. H[I] = H[J] + w[g]
      BY <1>3, <1>9, <2>1, <2>2
    <3>2. H[I] <= H[1..Groups]
      BY <1>6
    <3> QED BY <1>7, <2>4, <2>5, <2>6, <2>7, <3>1, <3>2
  <2>9. n <= y
    BY <2>8
  <2> DEFINE e == AddNewStep(r, tokens, d, g)
  <2>10. GrownInto(d, r, g, n, GetNewBlocks(d.pool, n), FirstBlocks(d.pool.queue, n), e)
    <3>1. n = Max({0, CDiv(tokens) - Len(d.table[r][g])})
      BY <2>5 DEF NewFor
    <3> QED BY <3>1 DEF AddNewStep, GrownInto
  <2> HIDE DEF e
  <2>11. GrownOne(d, r, g, n, e)
    BY <2>4, <2>6, <2>9, <2>10, GrowOne
  <2>12. /\ Sound(e) /\ Alike(d, e) /\ e.cached = d.cached
         /\ \A x \in Reqs : x # r => e.table[x] = d.table[x]
         /\ \A h \in 1..Groups : h # g => e.table[r][h] = d.table[r][h]
         /\ Len(e.table[r][g]) = Len(d.table[r][g]) + n /\ Len(d.table[r][g]) \in Nat
         /\ e.pool.queue.size = d.pool.queue.size - n
    BY <2>11 DEF GrownOne
  <2>13. e.pool.queue.size + H[I] = z
    BY <2>6, <2>7, <2>8, <2>12
  <2>14. \A h \in 1..Groups : /\ h \notin I => e.table[r][h] = c.table[r][h]
                              /\ h \in I => k <= Len(e.table[r][h])
    <3>1. SUFFICES ASSUME NEW h \in 1..Groups
                   PROVE  /\ h \notin I => e.table[r][h] = c.table[r][h]
                          /\ h \in I => k <= Len(e.table[r][h])
      OBVIOUS
    <3>2. CASE h = g
      <4>1. Len(e.table[r][g]) >= k
        BY <2>5, <2>12
      <4>2. Len(e.table[r][g]) \in Nat
        BY <1>4, <2>12
      <4>3. k <= Len(e.table[r][g])
        BY <4>1, <4>2
      <4> QED BY <2>1, <3>2, <4>3
    <3>3. CASE h # g
      BY <2>2, <2>4, <2>12, <3>3
    <3> QED BY <3>2, <3>3
  <2>15. Alike(c, e) /\ e.cached = c.cached /\ \A x \in Reqs : x # r => e.table[x] = c.table[x]
    BY <2>4, <2>12 DEF Alike
  <2>16. Ok(e, I)
    BY <2>12, <2>13, <2>14, <2>15
  <2>17. e \in Cores
    BY <2>12 DEF Sound
  <2> HIDE DEF Ok
  <2> QED BY <2>1, <2>16, <2>17 DEF e
<1> HIDE DEF V
<1>10. AddNew(c, r, tokens) \in V[1..Groups]
  BY <1>2, <1>8, <1>9, AddNewRuns
<1>11. Ok(AddNew(c, r, tokens), 1..Groups)
  <2>1. 1..Groups \in SUBSET (1..Groups)
    OBVIOUS
  <2> HIDE DEF Ok
  <2> QED BY <1>10, <2>1 DEF V
<1> QED BY <1>1, <1>11 DEF Enlarged

-----------------------------------------------------------------------------
(* Full blocks, cached.                                                    *)

FullPlaces(first, last) == [j \in 1..(last - first + 1) |-> first + j - 1]

CacheStep(blocks, keys, q, i) ==
  IF q.hash[blocks[i]] # NoKey THEN [q EXCEPT !.failed = TRUE]
  ELSE InsertHash(q, blocks[i], keys[i])

IsCacheFull(p, blocks, keys, first, last, g) ==
  g = [I \in SUBSET DOMAIN FullPlaces(first, last) |->
         IF I = {} THEN p
         ELSE CacheStep(blocks, keys, g[I \ {Max(I)}], FullPlaces(first, last)[Max(I)])]

LEMMA CacheFullUnfolded ==
  ASSUME NEW p, NEW blocks, NEW keys, NEW first, NEW last
  PROVE  CacheFullBlocks(p, blocks, keys, first, last) = (CHOOSE g : IsCacheFull(p, blocks, keys, first, last, g))[DOMAIN FullPlaces(first, last)]
BY DEF CacheFullBlocks, CacheStep, FullPlaces, FoldLeft, MapThenFoldSet, IsCacheFull

LEMMA CacheFullRuns ==
  ASSUME NEW p, NEW blocks, NEW keys, NEW first, NEW last, NEW n, NEW V, n \in Nat, DOMAIN FullPlaces(first, last) = 1..n, p \in V[{}],
         \A I \in SUBSET (1..n) : I # {} =>
           \A v \in V[I \ {Max(I)}] : CacheStep(blocks, keys, v, FullPlaces(first, last)[Max(I)]) \in V[I]
  PROVE  CacheFullBlocks(p, blocks, keys, first, last) \in V[1..n]
<1> DEFINE U == UNION {V[I] : I \in SUBSET (1..n)}
           step == [I \in SUBSET (1..n) |-> [v \in U |-> CacheStep(blocks, keys, v, FullPlaces(first, last)[Max(I)])]]
<1>1. ASSUME NEW I \in SUBSET (1..n), I # {}, NEW v \in V[I \ {Max(I)}]
      PROVE  step[I][v] = CacheStep(blocks, keys, v, FullPlaces(first, last)[Max(I)])
  <2>1. I \ {Max(I)} \in SUBSET (1..n)
    OBVIOUS
  <2>2. v \in U
    BY <2>1, <1>1
  <2> QED BY <2>2
<1> HIDE DEF step
<1>2. Advances(n, V, p, step)
  BY <1>1 DEF Advances
<1>3. PICK g : FoldStates(n, V, p, step, g)
  BY <1>2, FoldHasStates
<1>4. IsCacheFull(p, blocks, keys, first, last, g)
  <2>1. ASSUME NEW I \in SUBSET (1..n), I # {}
        PROVE  g[I] = CacheStep(blocks, keys, g[I \ {Max(I)}], FullPlaces(first, last)[Max(I)])
    <3>1. g[I \ {Max(I)}] \in V[I \ {Max(I)}] /\ g[I] = step[I][g[I \ {Max(I)}]]
      BY <1>3, <2>1 DEF FoldStates
    <3> QED BY <1>1, <2>1, <3>1
  <2>2. g = [I \in SUBSET (1..n) |-> IF I = {} THEN p
                ELSE CacheStep(blocks, keys, g[I \ {Max(I)}], FullPlaces(first, last)[Max(I)])]
    BY <1>3, <2>1 DEF FoldStates
  <2> QED BY <2>2 DEF IsCacheFull
<1> DEFINE h == CHOOSE h : IsCacheFull(p, blocks, keys, first, last, h)
<1>5. IsCacheFull(p, blocks, keys, first, last, h)
  BY <1>4
<1> HIDE DEF h
<1>6. h = [I \in SUBSET (1..n) |-> IF I = {} THEN p
             ELSE CacheStep(blocks, keys, h[I \ {Max(I)}], FullPlaces(first, last)[Max(I)])]
  BY <1>5 DEF IsCacheFull
<1>7. h[{}] = p
  BY <1>6
<1>8. ASSUME NEW I \in SUBSET (1..n), I # {}, h[I \ {Max(I)}] \in V[I \ {Max(I)}]
      PROVE  h[I] = step[I][h[I \ {Max(I)}]]
  <2>1. h[I] = CacheStep(blocks, keys, h[I \ {Max(I)}], FullPlaces(first, last)[Max(I)])
    BY <1>6, <1>8
  <2> QED BY <1>1, <1>8, <2>1
<1>9. FoldGoes(n, V, p, step, h)
  BY <1>7, <1>8 DEF FoldGoes
<1>10. h[1..n] \in V[1..n]
  <2>1. 1..n \in SUBSET (1..n)
    OBVIOUS
  <2> QED BY <1>2, <1>9, <2>1, FoldReaches
<1> QED BY <1>10, CacheFullUnfolded DEF h

\* The blocks of a cell up to a place are cached.
LEMMA CacheFullIs ==
  ASSUME NEW p, NEW t, NEW m, Consistent(p, t, m), NEW c \in Cells, NEW k \in Nat, m[c] = 1..k,
         NEW full \in Nat, full <= Len(t[c]), NEW keys, \A i \in 1..full : keys[i] \in Keys,
         NEW k2 \in Nat, k2 = IF full > k THEN full ELSE k
  PROVE  Consistent(CacheFullBlocks(p, t[c], keys, k + 1, full), t, [m EXCEPT ![c] = 1..k2])
<1> DEFINE n == IF full > k THEN full - k ELSE 0
           Marked(I) == (1..k) \cup {k + j : j \in I}
           M(I) == [m EXCEPT ![c] = Marked(I)]
           V == [I \in SUBSET (1..n) |-> {q \in Pools(Blocks, Keys) : Consistent(q, t, M(I))}]
<1>1. n \in Nat /\ DOMAIN FullPlaces(k + 1, full) = 1..n
      /\ \A j \in 1..n : FullPlaces(k + 1, full)[j] = k + j /\ k + j \in 1..full
  <2>1. 1..(full - (k + 1) + 1) = 1..n
    OBVIOUS
  <2>2. \A j \in 1..n : (k + 1) + j - 1 = k + j /\ k + j \in 1..full
    OBVIOUS
  <2> QED BY <2>1, <2>2 DEF FullPlaces
<1>2. m \in [Cells -> SUBSET Nat] /\ p \in Pools(Blocks, Keys)
  BY DEF Consistent
<1>3. PICK l \in Nat : l = Len(t[c]) /\ full <= l
  BY ConsistentBlocks
<1>4. p \in V[{}]
  <2>1. Marked({}) = m[c] /\ {} \in SUBSET (1..n)
    OBVIOUS
  <2>2. M({}) = m
    BY <1>2, <2>1
  <2> QED BY <1>2, <2>1, <2>2
<1>5. ASSUME NEW I \in SUBSET (1..n), I # {}, NEW q \in V[I \ {Max(I)}]
      PROVE  CacheStep(t[c], keys, q, FullPlaces(k + 1, full)[Max(I)]) \in V[I]
  <2> HIDE DEF n
  <2>1. PICK x \in 1..n : /\ x = Max(I) /\ x \in I /\ \A i \in I \ {x} : i < x
                          /\ I = (I \ {x}) \cup {x} /\ I \ {x} \in SUBSET (1..n)
    BY <1>1, <1>5, BeforeLast
  <2>2. PICK J \in SUBSET (1..n) : J = I \ {x} /\ I = J \cup {x} /\ x \notin J
    BY <2>1
  <2>3. Consistent(q, t, M(J))
    BY <1>5, <2>1, <2>2
  <2>4. PICK i \in 1..full : i = FullPlaces(k + 1, full)[x] /\ i = k + x
    BY <1>1
  <2>5. i \in 1..Len(t[c])
    BY <1>3, <2>4
  <2>6. i \notin Marked(J)
    BY <1>1, <2>2, <2>4
  <2>7. Marked(I) = Marked(J) \cup {i}
    BY <2>2, <2>4
  <2>8. PICK w : w = M(J) /\ w[c] = Marked(J)
    <3>1. M(J)[c] = Marked(J)
      <4> HIDE DEF Marked
      <4> QED BY <1>2
    <3> HIDE DEF M, Marked
    <3> QED BY <3>1
  <2> DEFINE r == InsertHash(q, t[c][i], keys[i])
  <2>9. i \notin w[c] /\ keys[i] \in Keys /\ Consistent(q, t, w)
    BY <2>3, <2>4, <2>6, <2>8
  <2>10. q.hash[t[c][i]] = NoKey /\ CellCached(q, t, w, c, i, r)
    BY <2>5, <2>9, CellCaches
  <2>11. CacheStep(t[c], keys, q, i) = r
    BY <2>10 DEF CacheStep
  <2> HIDE DEF r, Marked
  <2>12. Consistent(r, t, [w EXCEPT ![c] = w[c] \cup {i}])
    BY <2>10 DEF CellCached
  <2>13. [w EXCEPT ![c] = w[c] \cup {i}] = M(I)
    BY <1>2, <2>7, <2>8
  <2>14. Consistent(r, t, M(I)) /\ r \in Pools(Blocks, Keys)
    BY <2>12, <2>13 DEF Consistent
  <2> HIDE DEF M
  <2> QED BY <2>1, <2>4, <2>11, <2>14
<1> HIDE DEF V, n
<1>6. CacheFullBlocks(p, t[c], keys, k + 1, full) \in V[1..n]
  BY <1>1, <1>4, <1>5, CacheFullRuns
<1>7. Marked(1..n) = 1..k2
  <2>1. CASE full > k
    <3>1. \A i \in 1..full : i \in 1..k \/ (i - k \in 1..n /\ i = k + (i - k))
      BY <2>1 DEF n
    <3>2. \A j \in 1..n : k + j \in 1..full
      BY <2>1 DEF n
    <3>3. 1..k \subseteq 1..full
      BY <2>1
    <3>4. k2 = full
      BY <2>1
    <3> HIDE DEF n
    <3>5. 1..full \subseteq Marked(1..n)
      BY <3>1
    <3>6. Marked(1..n) \subseteq 1..full
      BY <3>2, <3>3
    <3> QED BY <3>4, <3>5, <3>6
  <2>2. CASE ~(full > k)
    <3>1. k2 = k /\ 1..n = {}
      BY <2>2 DEF n
    <3> HIDE DEF n
    <3> QED BY <3>1
  <2> QED BY <2>1, <2>2
<1>8. M(1..n) = [m EXCEPT ![c] = 1..k2]
  BY <1>7
<1> HIDE DEF M
<1>9. Consistent(CacheFullBlocks(p, t[c], keys, k + 1, full), t, M(1..n))
  <2>1. 1..n \in SUBSET (1..n)
    OBVIOUS
  <2> QED BY <1>6, <2>1 DEF V
<1> QED BY <1>8, <1>9

CacheGroup(c, r, full, p, g) ==
  CacheFullBlocks(p, c.table[r][g], [i \in 1..full |-> Key(r, g, i)], c.cached[r] + 1, full)
CacheGroups(c, r, full) == FoldLeft(LAMBDA p, g : CacheGroup(c, r, full, p, g), c.pool, GroupList)

IsCacheGroups(c, r, full, g) ==
  g = [I \in SUBSET DOMAIN GroupList |->
         IF I = {} THEN c.pool
         ELSE CacheGroup(c, r, full, g[I \ {Max(I)}], GroupList[Max(I)])]

LEMMA CacheGroupsUnfolded ==
  ASSUME NEW c, NEW r, NEW full
  PROVE  CacheGroups(c, r, full) = (CHOOSE g : IsCacheGroups(c, r, full, g))[DOMAIN GroupList]
BY DEF CacheGroups, FoldLeft, MapThenFoldSet, IsCacheGroups

LEMMA CacheGroupsRuns ==
  ASSUME NEW c, NEW r, NEW full, NEW V, Groups \in Nat, DOMAIN GroupList = 1..Groups, c.pool \in V[{}],
         \A I \in SUBSET (1..Groups) : I # {} =>
           \A v \in V[I \ {Max(I)}] : CacheGroup(c, r, full, v, GroupList[Max(I)]) \in V[I]
  PROVE  CacheGroups(c, r, full) \in V[1..Groups]
<1> DEFINE U == UNION {V[I] : I \in SUBSET (1..Groups)}
           step == [I \in SUBSET (1..Groups) |-> [v \in U |-> CacheGroup(c, r, full, v, GroupList[Max(I)])]]
<1>1. ASSUME NEW I \in SUBSET (1..Groups), I # {}, NEW v \in V[I \ {Max(I)}]
      PROVE  step[I][v] = CacheGroup(c, r, full, v, GroupList[Max(I)])
  <2>1. I \ {Max(I)} \in SUBSET (1..Groups)
    OBVIOUS
  <2>2. v \in U
    BY <2>1, <1>1
  <2> QED BY <2>2
<1> HIDE DEF step
<1>2. Advances(Groups, V, c.pool, step)
  BY <1>1 DEF Advances
<1>3. PICK g : FoldStates(Groups, V, c.pool, step, g)
  BY <1>2, FoldHasStates
<1>4. IsCacheGroups(c, r, full, g)
  <2>1. ASSUME NEW I \in SUBSET (1..Groups), I # {}
        PROVE  g[I] = CacheGroup(c, r, full, g[I \ {Max(I)}], GroupList[Max(I)])
    <3>1. g[I \ {Max(I)}] \in V[I \ {Max(I)}] /\ g[I] = step[I][g[I \ {Max(I)}]]
      BY <1>3, <2>1 DEF FoldStates
    <3> QED BY <1>1, <2>1, <3>1
  <2>2. g = [I \in SUBSET (1..Groups) |-> IF I = {} THEN c.pool
                ELSE CacheGroup(c, r, full, g[I \ {Max(I)}], GroupList[Max(I)])]
    BY <1>3, <2>1 DEF FoldStates
  <2> QED BY <2>2 DEF IsCacheGroups
<1> DEFINE h == CHOOSE h : IsCacheGroups(c, r, full, h)
<1>5. IsCacheGroups(c, r, full, h)
  BY <1>4
<1> HIDE DEF h
<1>6. h = [I \in SUBSET (1..Groups) |-> IF I = {} THEN c.pool
             ELSE CacheGroup(c, r, full, h[I \ {Max(I)}], GroupList[Max(I)])]
  BY <1>5 DEF IsCacheGroups
<1>7. h[{}] = c.pool
  BY <1>6
<1>8. ASSUME NEW I \in SUBSET (1..Groups), I # {}, h[I \ {Max(I)}] \in V[I \ {Max(I)}]
      PROVE  h[I] = step[I][h[I \ {Max(I)}]]
  <2>1. h[I] = CacheGroup(c, r, full, h[I \ {Max(I)}], GroupList[Max(I)])
    BY <1>6, <1>8
  <2> QED BY <1>1, <1>8, <2>1
<1>9. FoldGoes(Groups, V, c.pool, step, h)
  BY <1>7, <1>8 DEF FoldGoes
<1>10. h[1..Groups] \in V[1..Groups]
  <2>1. 1..Groups \in SUBSET (1..Groups)
    OBVIOUS
  <2> QED BY <1>2, <1>9, <2>1, FoldReaches
<1> QED BY <1>10, CacheGroupsUnfolded DEF h

CachedUpTo(c, r, full, q, d) == d = [c EXCEPT !.pool = q, !.cached[r] = Max({c.cached[r], full})]

LEMMA CacheBlocksUnfolds ==
  ASSUME NEW c, NEW r, NEW tokens
  PROVE  CachedUpTo(c, r, tokens \div BlockSize, CacheGroups(c, r, tokens \div BlockSize),
                    CacheBlocks(c, r, tokens))
BY DEF CachedUpTo, CacheBlocks, CacheGroups, CacheGroup, GroupList, FoldLeft, MapThenFoldSet

\* The keys of the blocks within the prompt.
LEMMA KeysAre ==
  ASSUME NEW r \in Reqs, NEW g \in 1..Groups, NEW i \in Nat, i * BlockSize <= Need(r)
  PROVE  Key(r, g, i) \in Keys
<1>1. PICK b \in Nat : b = BlockSize
  BY SizesAre
<1>2. PICK s \in Seq(Nat) : s = Prompt[r]
  BY Sizes
<1>3. PICK k \in Nat : k = i * b
  BY <1>1
<1>4. k <= Len(s)
  BY <1>1, <1>2, <1>3 DEF Need
<1>5. SubSeq(s, 1, k) \in Seq(Nat)
  BY <1>4
<1> QED BY <1>1, <1>2, <1>3, <1>5 DEF Key, Keys

\* The full blocks of a request are cached.
Recached(c, r, d) ==
  /\ Sound(d) /\ Alike(c, d) /\ d.table = c.table
  /\ \A x \in Reqs : x # r => d.cached[x] = c.cached[x]

\* cache_blocks keeps the agreement: exactly the full blocks are counted as cached.
LEMMA CacheBlocksIs ==
  ASSUME NEW c, Sound(c), NEW r \in Reqs, NEW tokens \in Nat, tokens <= Need(r),
         \A g \in 1..Groups : tokens \div BlockSize <= Len(c.table[r][g])
  PROVE  Recached(c, r, CacheBlocks(c, r, tokens))
<1>1. /\ c \in Cores /\ Consistent(c.pool, Flat(c.table), Marks(c.cached))
      /\ \A x \in Reqs, g \in 1..Groups : c.cached[x] <= Len(c.table[x][g])
  BY DEF Sound
<1>2. /\ CoreOf(c, c.pool, c.computed, c.table, c.cached, c.running, c.waiting, c.arrived)
      /\ c.computed \in [Reqs -> Nat] /\ c.table \in Tables
      /\ c.cached \in [Reqs -> Nat] /\ c.running \in Seq(Reqs) /\ c.waiting \in Seq(Reqs)
      /\ c.arrived \in Seq(Reqs) /\ c.pool \in Pools(Blocks, Keys)
  BY <1>1, CoreParts
<1>3. Groups \in Nat /\ DOMAIN GroupList = 1..Groups
  BY GroupListIs
<1>4. PICK full \in Nat : full = tokens \div BlockSize /\ full * BlockSize <= tokens
  BY BlocksOf
<1>5. PICK table \in Tables, cached \in [Reqs -> Nat] : table = c.table /\ cached = c.cached
  BY <1>2
<1>6. PICK k \in Nat : k = cached[r]
  OBVIOUS
<1>7. PICK k2 \in Nat : k2 = (IF full > k THEN full ELSE k) /\ k2 = Max({k, full})
  BY GreaterOf
<1>8. \A g \in 1..Groups, i \in 1..full : Key(r, g, i) \in Keys
  <2>1. SUFFICES ASSUME NEW g \in 1..Groups, NEW i \in 1..full PROVE Key(r, g, i) \in Keys
    OBVIOUS
  <2>2. PICK b \in Nat, l \in Nat : b = BlockSize /\ l = Need(r)
    <3>1. PICK s \in Seq(Nat) : s = Prompt[r]
      BY Sizes
    <3>2. Len(s) \in Nat /\ BlockSize \in Nat
      BY SizesAre
    <3> QED BY <3>1, <3>2 DEF Need
  <2>3. i * b <= full * b /\ full * b \in Nat /\ i * b \in Nat
    BY TimesGrows
  <2>4. i * b <= l
    BY <1>4, <2>2, <2>3
  <2> QED BY <2>2, <2>4, KeysAre
<1>9. Remarks(cached, r, k2)
  BY RemarkedIs
<1> DEFINE M(I) == Remarked(cached, r, I, k2)
           kept == [cached EXCEPT ![r] = k2]
           V == [I \in SUBSET (1..Groups) |-> {p \in Pools(Blocks, Keys) : Consistent(p, Flat(table), M(I))}]
           q == CacheGroups(c, r, full)
           d == CacheBlocks(c, r, tokens)
<1>10. /\ M({}) = Marks(cached) /\ M(1..Groups) = Marks(kept) /\ kept \in [Reqs -> Nat]
       /\ \A I \in SUBSET (1..Groups), g \in 1..Groups :
            /\ M(I)[<<r, g>>] = IF g \in I THEN 1..k2 ELSE 1..cached[r]
            /\ M(I \cup {g}) = [M(I) EXCEPT ![<<r, g>>] = 1..k2]
       /\ \A x \in Reqs : kept[x] = IF x = r THEN k2 ELSE cached[x]
  BY <1>9 DEF Remarks
<1> HIDE DEF M, kept
<1>11. c.pool \in V[{}]
  <2>1. {} \in SUBSET (1..Groups)
    OBVIOUS
  <2> QED BY <1>1, <1>2, <1>5, <1>10, <2>1
<1>12. ASSUME NEW I \in SUBSET (1..Groups), I # {}, NEW p \in V[I \ {Max(I)}]
       PROVE  CacheGroup(c, r, full, p, GroupList[Max(I)]) \in V[I]
  <2>1. PICK g \in 1..Groups : /\ g = Max(I) /\ GroupList[Max(I)] = g /\ g \in I
                               /\ I = (I \ {g}) \cup {g} /\ I \ {g} \in SUBSET (1..Groups)
    BY <1>12, LastGroup
  <2>2. PICK J \in SUBSET (1..Groups) : J = I \ {g} /\ I = J \cup {g} /\ g \notin J
    BY <2>1
  <2>3. Consistent(p, Flat(table), M(J))
    BY <1>12, <2>1, <2>2
  <2>4. PICK e \in Cells : e = <<r, g>> /\ Flat(table)[e] = table[r][g]
    <3>1. <<r, g>> \in Cells /\ Flat(table)[<<r, g>>] = table[r][g]
      BY FlatIs
    <3> HIDE DEF q, d
    <3> QED BY <3>1
  <2>45. PICK m, t : m = M(J) /\ t = Flat(table)
    OBVIOUS
  <2>5. m[e] = 1..k /\ M(I) = [m EXCEPT ![e] = 1..k2]
    <3>1. M(J)[<<r, g>>] = IF g \in J THEN 1..k2 ELSE 1..cached[r]
      BY <1>10
    <3>2. M(J \cup {g}) = [M(J) EXCEPT ![<<r, g>>] = 1..k2]
      BY <1>10
    <3> QED BY <1>6, <2>2, <2>4, <2>45, <3>1, <3>2
  <2>6. t[e] = table[r][g]
    BY <2>4, <2>45
  <2> DEFINE keys == [i \in 1..full |-> Key(r, g, i)]
             s == CacheFullBlocks(p, t[e], keys, k + 1, full)
  <2>7. \A i \in 1..full : keys[i] \in Keys
    BY <1>8
  <2>8. full <= Len(t[e])
    BY <1>4, <1>5, <2>6
  <2>9. CacheGroup(c, r, full, p, g) = s
    BY <1>5, <1>6, <2>6 DEF CacheGroup
  <2> HIDE DEF keys
  <2>10. Consistent(s, t, [m EXCEPT ![e] = 1..k2])
    BY <1>7, <2>3, <2>45, <2>5, <2>7, <2>8, CacheFullIs
  <2> HIDE DEF s
  <2>11. Consistent(s, Flat(table), M(I)) /\ s \in Pools(Blocks, Keys)
    BY <2>45, <2>5, <2>10 DEF Consistent
  <2> QED BY <2>1, <2>9, <2>11
<1> HIDE DEF V
<1>13. q \in V[1..Groups]
  BY <1>3, <1>11, <1>12, CacheGroupsRuns
<1>14. Consistent(q, Flat(table), Marks(kept)) /\ q \in Pools(Blocks, Keys)
  <2>1. 1..Groups \in SUBSET (1..Groups)
    OBVIOUS
  <2> QED BY <1>10, <1>13, <2>1 DEF V
<1>15. CachedUpTo(c, r, full, q, d)
  BY <1>4, CacheBlocksUnfolds
<1> HIDE DEF q, d
<1>16. CoreOf(d, q, c.computed, table, kept, c.running, c.waiting, c.arrived)
  <2>1. Max({c.cached[r], full}) = k2
    BY <1>5, <1>6, <1>7
  <2> QED BY <1>2, <1>5, <1>15, <2>1 DEF CoreOf, CachedUpTo, kept
<1>17. CoreHas(d, q, c.computed, table, kept, c.running, c.waiting, c.arrived)
  BY <1>2, <1>10, <1>14, <1>16, PartsCore
<1>18. /\ d \in Cores /\ d.pool = q /\ d.computed = c.computed /\ d.table = table
       /\ d.cached = kept /\ d.running = c.running /\ d.waiting = c.waiting
       /\ d.arrived = c.arrived
  BY <1>17 DEF CoreHas
<1>19. \A x \in Reqs, g \in 1..Groups : kept[x] <= Len(table[x][g])
  <2>1. SUFFICES ASSUME NEW x \in Reqs, NEW g \in 1..Groups PROVE kept[x] <= Len(table[x][g])
    OBVIOUS
  <2>2. CASE x = r
    <3>1. full <= Len(table[r][g]) /\ k <= Len(table[r][g])
      BY <1>1, <1>4, <1>5, <1>6
    <3>2. kept[x] = k2
      BY <1>10, <2>2
    <3> QED BY <1>7, <2>2, <3>1, <3>2
  <2>3. CASE x # r
    BY <1>1, <1>5, <1>10, <2>3
  <2> QED BY <2>2, <2>3
<1>20. Sound(d)
  BY <1>14, <1>18, <1>19 DEF Sound
<1>21. \A x \in Reqs : x # r => d.cached[x] = c.cached[x]
  BY <1>5, <1>10, <1>18
<1>22. Recached(c, r, d)
  BY <1>5, <1>18, <1>20, <1>21 DEF Recached, Alike
<1> QED BY <1>22 DEF d

-----------------------------------------------------------------------------
(* The blocks found in the prefix cache.                                   *)

LEMMA GreatestOf ==
  ASSUME NEW n \in Nat, NEW s \in SUBSET (0..n), s # {}
  PROVE  Max(s) \in s
<1> DEFINE N == {n - x : x \in s}
<1>1. N \subseteq Nat /\ N # {}
  <2>1. \A x \in s : x \in 0..n /\ n - x \in Nat
    OBVIOUS
  <2>2. PICK x \in s : TRUE
    OBVIOUS
  <2> QED BY <2>1, <2>2
<1>2. PICK m \in N : \A k \in N : m <= k
  BY <1>1, LeastNat, Zenon
<1>3. PICK y \in s : m = n - y
  BY <1>2
<1>4. \A x \in s : y >= x
  <2>1. SUFFICES ASSUME NEW x \in s PROVE y >= x
    OBVIOUS
  <2>2. n - y <= n - x /\ x \in Nat /\ y \in Nat
    BY <1>2, <1>3
  <2> QED BY <2>2
<1> QED BY <1>4 DEF Max

\* What is found under a key is a block with that key.
LEMMA FoundBlock ==
  ASSUME NEW p, NEW t, NEW m, Consistent(p, t, m), NEW k, GetOneBlock(p, k) # NoBlock
  PROVE  GetOneBlock(p, k) \in Usable /\ p.hash[GetOneBlock(p, k)] = k /\ k # NoKey
<1>1. /\ p \in Pools(Blocks, Keys) /\ p.hash[NullBlock] = NoKey
  BY DEF Consistent
<1>2. /\ p.cached \in Caches(Blocks, Keys)
      /\ \A x \in DOMAIN p.cached : /\ p.cached[x] # <<>>
                                    /\ \A b \in Elements(p.cached[x]) : p.hash[b] = x
  BY <1>1, PoolParts DEF CacheAgrees
<1>3. k \in DOMAIN p.cached /\ GetOneBlock(p, k) = p.cached[k][1]
  BY DEF GetOneBlock
<1>4. k \in Keys /\ p.cached[k] \in Seq(Blocks)
  BY <1>2, <1>3, CacheParts
<1>5. PICK s \in Seq(Blocks) : s = p.cached[k] /\ s # <<>>
  BY <1>2, <1>3, <1>4
<1>6. s[1] \in Blocks /\ s[1] \in Elements(s)
  <2>1. PICK n \in Nat : n = Len(s) /\ n # 0
    BY <1>5
  <2>2. 1 \in 1..n
    BY <2>1
  <2> QED BY <2>1, <2>2 DEF Elements
<1>7. p.hash[s[1]] = k
  BY <1>2, <1>3, <1>5, <1>6
<1>8. k # NoKey /\ Blocks = Usable \cup {NullBlock}
  BY <1>4, SizesAre
<1> QED BY <1>1, <1>3, <1>5, <1>6, <1>7, <1>8

\* The keys of different places differ.
LEMMA KeysDiffer ==
  ASSUME NEW r \in Reqs, NEW g, NEW i \in Nat, NEW j \in Nat, i * BlockSize <= Need(r),
         j * BlockSize <= Need(r), Key(r, g, i) = Key(r, g, j)
  PROVE  i = j
<1>1. PICK b \in Nat \ {0} : b = BlockSize
  BY SizesAre
<1>2. PICK s \in Seq(Nat) : s = Prompt[r]
  BY Sizes
<1>3. PICK x \in Nat, y \in Nat : x = i * b /\ y = j * b
  BY <1>1
<1>4. x <= Len(s) /\ y <= Len(s)
  BY <1>1, <1>2, <1>3 DEF Need
<1>5. SubSeq(s, 1, x) = SubSeq(s, 1, y)
  BY <1>1, <1>2, <1>3 DEF Key
<1>6. Len(SubSeq(s, 1, x)) = x /\ Len(SubSeq(s, 1, y)) = y
  BY <1>4
<1>7. x = y
  BY <1>5, <1>6
<1>8. ASSUME NEW u \in Nat, NEW v \in Nat, u < v, u * b = v * b PROVE FALSE
  <2>1. (u + 1) * b <= v * b
    BY <1>8, <1>1, TimesGrows
  <2>2. (u + 1) * b = (u * b) + b /\ u * b \in Nat /\ v * b \in Nat
    BY <1>1
  <2> QED BY <1>1, <1>8, <2>1, <2>2
<1>9. ~(i < j) /\ ~(j < i)
  BY <1>3, <1>7, <1>8
<1> QED BY <1>9

Hits(c, r, len) == [g \in 1..Groups |-> [i \in 1..len |-> GetOneBlock(c.pool, Key(r, g, i))]]

\* get_computed_blocks finds cached blocks, as many in each group, of fewer tokens
\* than the prompt has.
LEMMA HitsAre ==
  ASSUME NEW c, Sound(c), NEW r \in Reqs
  PROVE  \E len \in Nat : /\ AreHits(c, GetComputedBlocks(c, r), len)
                          /\ len * BlockSize \in Nat /\ len * BlockSize < Need(r)
<1>1. PICK l \in Nat : l + 1 = Need(r)
  <2>1. PICK s \in Seq(Nat) : s = Prompt[r] /\ s # <<>>
    BY Sizes
  <2>2. Len(s) \in Nat /\ Len(s) # 0
    BY <2>1
  <2>3. Len(s) - 1 \in Nat /\ (Len(s) - 1) + 1 = Len(s)
    BY <2>2
  <2> QED BY <2>1, <2>3 DEF Need
<1>2. PICK full \in Nat : full = (Need(r) - 1) \div BlockSize /\ full * BlockSize <= l
  <2>1. PICK b \in Nat \ {0} : b = BlockSize
    BY SizesAre
  <2>2. l \div b \in Nat /\ (l \div b) * b <= l
    BY <2>1, Quotient
  <2>3. Need(r) - 1 = l
    BY <1>1
  <2> QED BY <2>1, <2>2, <2>3
<1> DEFINE Found(n) == \A g \in 1..Groups : \A i \in 1..n : GetOneBlock(c.pool, Key(r, g, i)) # NoBlock
           S == {n \in 0..full : Found(n)}
<1>3. S \in SUBSET (0..full) /\ 0 \in S
  OBVIOUS
<1>4. PICK len \in 0..full : len = Max(S) /\ Found(len)
  <2>1. Max(S) \in S
    <3> HIDE DEF S
    <3> QED BY <1>3, GreatestOf
  <2> QED BY <2>1
<1>5. GetComputedBlocks(c, r) = Hits(c, r, len)
  <2>1. S = {n \in 0..((Need(r) - 1) \div BlockSize) :
               \A g \in 1..Groups : \A i \in 1..n : GetOneBlock(c.pool, Key(r, g, i)) # NoBlock}
    BY <1>2
  <2> HIDE DEF S
  <2> QED BY <1>4, <2>1 DEF GetComputedBlocks, Hits
<1>6. PICK t, m : Consistent(c.pool, t, m)
  BY DEF Sound
<1>7. PICK b \in Nat : b = BlockSize
  BY SizesAre
<1>8. \A i \in 1..len : i * b \in Nat /\ i * b <= Need(r)
  <2>1. SUFFICES ASSUME NEW i \in 1..len PROVE i * b \in Nat /\ i * b <= Need(r)
    OBVIOUS
  <2>2. i * b <= full * b /\ full * b \in Nat /\ i * b \in Nat
    BY TimesGrows
  <2> QED BY <1>1, <1>2, <1>7, <2>2
<1> DEFINE hits == Hits(c, r, len)
<1>9. \A g \in 1..Groups : \A i \in 1..len :
        /\ hits[g][i] \in Usable /\ c.pool.hash[hits[g][i]] = Key(r, g, i) /\ Key(r, g, i) # NoKey
  <2>1. SUFFICES ASSUME NEW g \in 1..Groups, NEW i \in 1..len
                 PROVE  /\ hits[g][i] \in Usable /\ c.pool.hash[hits[g][i]] = Key(r, g, i)
                        /\ Key(r, g, i) # NoKey
    OBVIOUS
  <2>2. hits[g][i] = GetOneBlock(c.pool, Key(r, g, i)) /\ GetOneBlock(c.pool, Key(r, g, i)) # NoBlock
    BY <1>4 DEF Hits
  <2> QED BY <1>6, <2>2, FoundBlock
<1>10. \A g \in 1..Groups : DOMAIN hits[g] = 1..len /\ hits[g] = [i \in 1..len |-> hits[g][i]]
  BY DEF Hits
<1>11. DOMAIN hits = 1..Groups /\ hits = [g \in 1..Groups |-> hits[g]]
  BY DEF Hits
<1> HIDE DEF hits
<1>12. \A g \in 1..Groups : hits[g] \in Seq(Usable) /\ Len(hits[g]) = len
  <2>1. SUFFICES ASSUME NEW g \in 1..Groups PROVE hits[g] \in Seq(Usable) /\ Len(hits[g]) = len
    OBVIOUS
  <2>2. PICK s : s = hits[g]
    OBVIOUS
  <2>3. s = [i \in 1..len |-> s[i]] /\ \A i \in 1..len : s[i] \in Usable
    BY <1>9, <1>10, <2>2
  <2>4. s \in [1..len -> Usable]
    BY <2>3
  <2>5. s \in Seq(Usable) /\ Len(s) = len
    BY <2>4
  <2> QED BY <2>2, <2>5
<1>13. \A g \in 1..Groups : Distinct(hits[g])
  <2>1. SUFFICES ASSUME NEW g \in 1..Groups, NEW i \in 1..len, NEW j \in 1..len, hits[g][i] = hits[g][j]
                 PROVE  i = j
    BY <1>12 DEF Distinct
  <2>2. Key(r, g, i) = Key(r, g, j)
    BY <1>9, <2>1
  <2>3. i * BlockSize <= Need(r) /\ j * BlockSize <= Need(r)
    BY <1>7, <1>8
  <2> QED BY <2>2, <2>3, KeysDiffer
<1>14. AreHits(c, hits, len)
  BY <1>9, <1>11, <1>12, <1>13 DEF AreHits
<1>15. len * BlockSize \in Nat /\ len * BlockSize < Need(r)
  <2>1. len * b <= full * b /\ full * b \in Nat /\ len * b \in Nat
    BY TimesGrows
  <2> QED BY <1>1, <1>2, <1>7, <2>1
<1> QED BY <1>5, <1>14, <1>15 DEF hits

-----------------------------------------------------------------------------
(* Room for the blocks of a request.                                       *)

NewOf(c, r, tokens, hits, g) == Max({0, CDiv(tokens) - Len(hits[g]) - Len(c.table[r][g])})
FreeHits(c, hits, g)         == Cardinality({i \in DOMAIN hits[g] : c.pool.ref[hits[g][i]] = 0})

NeedStep(c, r, tokens, hits, n, g) == n + NewOf(c, r, tokens, hits, g) + FreeHits(c, hits, g)

IsNeeded(c, r, tokens, hits, g) ==
  g = [I \in SUBSET DOMAIN GroupList |->
         IF I = {} THEN 0
         ELSE NeedStep(c, r, tokens, hits, g[I \ {Max(I)}], GroupList[Max(I)])]

LEMMA NeededUnfolded ==
  ASSUME NEW c, NEW r, NEW tokens, NEW hits
  PROVE  NumBlocksToAllocate(c, r, tokens, hits) = (CHOOSE g : IsNeeded(c, r, tokens, hits, g))[DOMAIN GroupList]
BY DEF NumBlocksToAllocate, NeedStep, NewOf, FreeHits, GroupList, FoldLeft, MapThenFoldSet, IsNeeded

LEMMA NeededRuns ==
  ASSUME NEW c, NEW r, NEW tokens, NEW hits, NEW V, Groups \in Nat, DOMAIN GroupList = 1..Groups, 0 \in V[{}],
         \A I \in SUBSET (1..Groups) : I # {} =>
           \A v \in V[I \ {Max(I)}] : NeedStep(c, r, tokens, hits, v, GroupList[Max(I)]) \in V[I]
  PROVE  NumBlocksToAllocate(c, r, tokens, hits) \in V[1..Groups]
<1> DEFINE U == UNION {V[I] : I \in SUBSET (1..Groups)}
           step == [I \in SUBSET (1..Groups) |-> [v \in U |-> NeedStep(c, r, tokens, hits, v, GroupList[Max(I)])]]
<1>1. ASSUME NEW I \in SUBSET (1..Groups), I # {}, NEW v \in V[I \ {Max(I)}]
      PROVE  step[I][v] = NeedStep(c, r, tokens, hits, v, GroupList[Max(I)])
  <2>1. I \ {Max(I)} \in SUBSET (1..Groups)
    OBVIOUS
  <2>2. v \in U
    BY <2>1, <1>1
  <2> QED BY <2>2
<1> HIDE DEF step
<1>2. Advances(Groups, V, 0, step)
  BY <1>1 DEF Advances
<1>3. PICK g : FoldStates(Groups, V, 0, step, g)
  BY <1>2, FoldHasStates
<1>4. IsNeeded(c, r, tokens, hits, g)
  <2>1. ASSUME NEW I \in SUBSET (1..Groups), I # {}
        PROVE  g[I] = NeedStep(c, r, tokens, hits, g[I \ {Max(I)}], GroupList[Max(I)])
    <3>1. g[I \ {Max(I)}] \in V[I \ {Max(I)}] /\ g[I] = step[I][g[I \ {Max(I)}]]
      BY <1>3, <2>1 DEF FoldStates
    <3> QED BY <1>1, <2>1, <3>1
  <2>2. g = [I \in SUBSET (1..Groups) |-> IF I = {} THEN 0
                ELSE NeedStep(c, r, tokens, hits, g[I \ {Max(I)}], GroupList[Max(I)])]
    BY <1>3, <2>1 DEF FoldStates
  <2> QED BY <2>2 DEF IsNeeded
<1> DEFINE h == CHOOSE h : IsNeeded(c, r, tokens, hits, h)
<1>5. IsNeeded(c, r, tokens, hits, h)
  BY <1>4
<1> HIDE DEF h
<1>6. h = [I \in SUBSET (1..Groups) |-> IF I = {} THEN 0
             ELSE NeedStep(c, r, tokens, hits, h[I \ {Max(I)}], GroupList[Max(I)])]
  BY <1>5 DEF IsNeeded
<1>7. h[{}] = 0
  BY <1>6
<1>8. ASSUME NEW I \in SUBSET (1..Groups), I # {}, h[I \ {Max(I)}] \in V[I \ {Max(I)}]
      PROVE  h[I] = step[I][h[I \ {Max(I)}]]
  <2>1. h[I] = NeedStep(c, r, tokens, hits, h[I \ {Max(I)}], GroupList[Max(I)])
    BY <1>6, <1>8
  <2> QED BY <1>1, <1>8, <2>1
<1>9. FoldGoes(Groups, V, 0, step, h)
  BY <1>7, <1>8 DEF FoldGoes
<1>10. h[1..Groups] \in V[1..Groups]
  <2>1. 1..Groups \in SUBSET (1..Groups)
    OBVIOUS
  <2> QED BY <1>2, <1>9, <2>1, FoldReaches
<1> QED BY <1>10, NeededUnfolded DEF h

\* What a request needs is the total over the groups.
LEMMA NeededIs ==
  ASSUME NEW c, NEW r, NEW tokens, NEW hits, NEW w, NEW H, Totals(Groups, w, H),
         \A g \in 1..Groups : 
           /\ NewOf(c, r, tokens, hits, g) \in Nat /\ FreeHits(c, hits, g) \in Nat
           /\ w[g] = NewOf(c, r, tokens, hits, g) + FreeHits(c, hits, g)
  PROVE  NumBlocksToAllocate(c, r, tokens, hits) = H[1..Groups]
<1> DEFINE V == [I \in SUBSET (1..Groups) |-> {n \in Nat : n = H[I]}]
<1>1. Groups \in Nat /\ DOMAIN GroupList = 1..Groups
  BY GroupListIs
<1>2. /\ H[{}] = 0
      /\ \A I \in SUBSET (1..Groups) : H[I] \in Nat /\ (I # {} => H[I] = H[I \ {Max(I)}] + w[Max(I)])
  BY DEF Totals
<1>3. 0 \in V[{}]
  <2>1. {} \in SUBSET (1..Groups) /\ 0 \in Nat
    OBVIOUS
  <2> QED BY <1>2, <2>1
<1>4. ASSUME NEW I \in SUBSET (1..Groups), I # {}, NEW n \in V[I \ {Max(I)}]
      PROVE  NeedStep(c, r, tokens, hits, n, GroupList[Max(I)]) \in V[I]
  <2>1. PICK g \in 1..Groups : /\ g = Max(I) /\ GroupList[Max(I)] = g /\ g \in I
                               /\ I = (I \ {g}) \cup {g} /\ I \ {g} \in SUBSET (1..Groups)
    BY <1>4, LastGroup
  <2>2. n \in Nat /\ n = H[I \ {g}]
    BY <1>4, <2>1
  <2>3. NeedStep(c, r, tokens, hits, n, g) = n + w[g]
    <3>1. PICK a \in Nat, b \in Nat : a = NewOf(c, r, tokens, hits, g) /\ b = FreeHits(c, hits, g)
      OBVIOUS
    <3>2. NeedStep(c, r, tokens, hits, n, g) = n + a + b /\ w[g] = a + b
      BY <3>1 DEF NeedStep
    <3> QED BY <2>2, <3>2
  <2>4. H[I] = H[I \ {g}] + w[g] /\ H[I] \in Nat
    BY <1>2, <1>4, <2>1
  <2>5. NeedStep(c, r, tokens, hits, n, g) = H[I]
    BY <2>2, <2>3, <2>4
  <2> QED BY <2>1, <2>4, <2>5
<1> HIDE DEF V
<1>5. NumBlocksToAllocate(c, r, tokens, hits) \in V[1..Groups]
  BY <1>1, <1>3, <1>4, NeededRuns
<1>6. 1..Groups \in SUBSET (1..Groups)
  OBVIOUS
<1>7. NumBlocksToAllocate(c, r, tokens, hits) = H[1..Groups]
  BY <1>5, <1>6 DEF V
<1> QED BY <1>7

LEMMA ListsOf ==
  ASSUME NEW c, Sound(c), NEW r \in Reqs, NEW g \in 1..Groups
  PROVE  c.table[r][g] \in Seq(Usable) /\ Len(c.table[r][g]) \in Nat
<1>1. c.table \in Tables
  BY CoreParts DEF Sound
<1>2. c.table[r][g] \in Seq(Usable)
  BY <1>1 DEF Tables
<1> QED BY <1>2

LEMMA NewForIs ==
  ASSUME NEW tokens \in Nat, NEW a \in Nat, NEW b \in Nat
  PROVE  Max({0, CDiv(tokens) - a - b}) \in Nat
<1>1. PICK k \in Nat : k = CDiv(tokens)
  BY BlocksOf
<1>2. Max({0, k - a - b}) = IF 0 >= k - a - b THEN 0 ELSE k - a - b
  BY GreaterOf
<1> QED BY <1>1, <1>2

\* A request that has room gets its blocks.
Allocated(c, r, d) ==
  /\ Sound(d) /\ Alike(c, d)
  /\ \A x \in Reqs : x # r => d.table[x] = c.table[x] /\ d.cached[x] = c.cached[x]

\* With the blocks for the tokens in the list, the rest of AllocateSlots.
LEMMA AllocateRest ==
  ASSUME NEW c, Sound(c), NEW r \in Reqs, NEW tokens \in Nat, tokens <= Need(r), NEW w, NEW H,
         Totals(Groups, w, H), \A g \in 1..Groups : w[g] = NewFor(c, r, tokens, g),
         H[1..Groups] <= c.pool.queue.size
  PROVE  Allocated(c, r, CacheBlocks(AddNew(c, r, tokens), r, tokens))
<1> DEFINE d == AddNew(c, r, tokens)
           e == CacheBlocks(d, r, tokens)
<1>1. Enlarged(c, r, tokens, d)
  BY AddNewIs
<1> HIDE DEF d
<1>2. /\ Sound(d) /\ Alike(c, d) /\ d.cached = c.cached
      /\ \A x \in Reqs : x # r => d.table[x] = c.table[x]
      /\ \A g \in 1..Groups : CDiv(tokens) <= Len(d.table[r][g])
  BY <1>1 DEF Enlarged
<1>3. \A g \in 1..Groups : tokens \div BlockSize <= Len(d.table[r][g])
  <2>1. SUFFICES ASSUME NEW g \in 1..Groups PROVE tokens \div BlockSize <= Len(d.table[r][g])
    OBVIOUS
  <2>2. PICK l \in Nat : l = Len(d.table[r][g])
    BY <1>2, ListsOf
  <2>3. PICK k \in Nat, f \in Nat : k = CDiv(tokens) /\ f = tokens \div BlockSize /\ f <= k
    BY BlocksOf
  <2>4. k <= l
    BY <1>2, <2>2, <2>3
  <2> QED BY <2>2, <2>3, <2>4
<1>4. Recached(d, r, e)
  BY <1>2, <1>3, CacheBlocksIs
<1> HIDE DEF e
<1>5. /\ Sound(e) /\ Alike(d, e) /\ e.table = d.table
      /\ \A x \in Reqs : x # r => e.cached[x] = d.cached[x]
  BY <1>4 DEF Recached
<1>6. Alike(c, e)
  BY <1>2, <1>5 DEF Alike
<1> QED BY <1>2, <1>5, <1>6 DEF Allocated, d, e

\* A running request has no hits.
LEMMA AllocateRunning ==
  ASSUME NEW c, Sound(c), NEW r \in Reqs, NEW n \in Nat, c.computed[r] + n <= Need(r),
         HasRoom(c, r, n, NoBlocks)
  PROVE  Allocated(c, r, AllocateSlots(c, r, n, NoBlocks))
<1>1. NoBlocks[1] = <<>> /\ \A g \in 1..Groups : NoBlocks[g] = <<>>
  BY SizesAre DEF NoBlocks
<1>2. PICK tokens \in Nat : /\ tokens = c.computed[r] + n
                            /\ tokens = c.computed[r] + Len(NoBlocks[1]) * BlockSize + n
  <2>1. c.computed \in [Reqs -> Nat]
    BY CoreParts DEF Sound
  <2>2. PICK k \in Nat : k = c.computed[r]
    BY <2>1
  <2>3. Len(NoBlocks[1]) * BlockSize = 0
    <3>1. PICK b \in Nat : b = BlockSize
      BY SizesAre
    <3> QED BY <1>1, <3>1
  <2>4. k + n \in Nat /\ k + n = k + 0 + n
    OBVIOUS
  <2> QED BY <2>2, <2>3, <2>4
<1>3. \A g \in 1..Groups : /\ NewOf(c, r, tokens, NoBlocks, g) = NewFor(c, r, tokens, g)
                           /\ NewOf(c, r, tokens, NoBlocks, g) \in Nat
                           /\ FreeHits(c, NoBlocks, g) = 0
  <2>1. SUFFICES ASSUME NEW g \in 1..Groups
                 PROVE  /\ NewOf(c, r, tokens, NoBlocks, g) = NewFor(c, r, tokens, g)
                        /\ NewOf(c, r, tokens, NoBlocks, g) \in Nat
                        /\ FreeHits(c, NoBlocks, g) = 0
    OBVIOUS
  <2>2. PICK l \in Nat : l = Len(c.table[r][g])
    BY ListsOf
  <2>3. PICK z \in Nat : z = Len(NoBlocks[g]) /\ z = 0
    BY <1>1
  <2>4. PICK k \in Nat : k = CDiv(tokens)
    BY BlocksOf
  <2>5. k - z - l = k - l
    BY <2>3
  <2>6. NewOf(c, r, tokens, NoBlocks, g) = Max({0, k - z - l})
    BY <2>2, <2>3, <2>4 DEF NewOf
  <2>7. NewFor(c, r, tokens, g) = Max({0, k - l})
    BY <2>2, <2>4 DEF NewFor
  <2>8. Max({0, k - z - l}) \in Nat
    BY <2>4, NewForIs
  <2>9. {i \in DOMAIN NoBlocks[g] : c.pool.ref[NoBlocks[g][i]] = 0} = {}
    BY <1>1
  <2>10. FreeHits(c, NoBlocks, g) = 0
    BY <2>9, FS_EmptySet DEF FreeHits
  <2> QED BY <2>5, <2>6, <2>7, <2>8, <2>10
<1> DEFINE w == [g \in 1..Groups |-> NewFor(c, r, tokens, g)]
<1>4. \A g \in 1..Groups : w[g] \in Nat /\ w[g] = NewFor(c, r, tokens, g)
  BY <1>3
<1> HIDE DEF w
<1>5. PICK H : Totals(Groups, w, H)
  BY <1>4, GroupListIs, TotalsExist
<1>6. NumBlocksToAllocate(c, r, tokens, NoBlocks) = H[1..Groups]
  <2>1. \A g \in 1..Groups : /\ NewOf(c, r, tokens, NoBlocks, g) \in Nat /\ FreeHits(c, NoBlocks, g) \in Nat
                             /\ w[g] = NewOf(c, r, tokens, NoBlocks, g) + FreeHits(c, NoBlocks, g)
    BY <1>3, <1>4
  <2> QED BY <1>5, <2>1, NeededIs
<1>7. H[1..Groups] <= c.pool.queue.size
  BY <1>2, <1>6 DEF HasRoom, FreeCount
<1>8. Allocated(c, r, CacheBlocks(AddNew(c, r, tokens), r, tokens))
  BY <1>2, <1>4, <1>5, <1>7, AllocateRest
<1>9. AllocateSlots(c, r, n, NoBlocks) = CacheBlocks(AddNew(c, r, tokens), r, tokens)
  BY <1>2 DEF AllocateSlots, AddComputed
<1> QED BY <1>8, <1>9

\* A waiting request without blocks, with its hits.
LEMMA AllocateWaiting ==
  ASSUME NEW c, Sound(c), NEW r \in Reqs, c.table[r] = NoBlocks, c.cached[r] = 0,
         NEW n \in Nat, NEW hits, NEW len \in Nat, AreHits(c, hits, len),
         NEW tokens \in Nat, tokens = c.computed[r] + len * BlockSize + n, tokens <= Need(r),
         HasRoom(c, r, n, hits)
  PROVE  Allocated(c, r, AllocateSlots(c, r, n, hits))
<1>1. /\ hits \in [1..Groups -> Seq(Usable)]
      /\ \A g \in 1..Groups : Len(hits[g]) = len
  BY DEF AreHits
<1>2. Len(hits[1]) = len
  BY <1>1, SizesAre
<1> DEFINE d == AddComputed(c, r, hits)
           x == [g \in 1..Groups |-> NewOf(c, r, tokens, hits, g)]
           y == [g \in 1..Groups |-> UnheldHits(c, hits, len, g)]
           w == [g \in 1..Groups |-> x[g] + y[g]]
<1>3. \A g \in 1..Groups : NewOf(c, r, tokens, hits, g) \in Nat
  <2>1. SUFFICES ASSUME NEW g \in 1..Groups PROVE NewOf(c, r, tokens, hits, g) \in Nat
    OBVIOUS
  <2>2. PICK l \in Nat : l = Len(c.table[r][g])
    BY ListsOf
  <2>3. NewOf(c, r, tokens, hits, g) = Max({0, CDiv(tokens) - len - l})
    BY <1>1, <2>2 DEF NewOf
  <2> QED BY <2>3, NewForIs
<1>4. \A g \in 1..Groups : /\ UnheldHits(c, hits, len, g) \in Nat
                           /\ FreeHits(c, hits, g) = UnheldHits(c, hits, len, g)
  <2>1. SUFFICES ASSUME NEW g \in 1..Groups
                 PROVE  /\ UnheldHits(c, hits, len, g) \in Nat
                        /\ FreeHits(c, hits, g) = UnheldHits(c, hits, len, g)
    OBVIOUS
  <2>2. DOMAIN hits[g] = 1..len
    <3>1. PICK s \in Seq(Usable) : s = hits[g] /\ Len(s) = len
      BY <1>1
    <3>2. DOMAIN s = 1..Len(s)
      OBVIOUS
    <3> QED BY <3>1, <3>2
  <2>3. IsFiniteSet(1..len)
    BY FS_Interval
  <2>4. IsFiniteSet({i \in 1..len : c.pool.ref[hits[g][i]] = 0})
    BY <2>3, FS_Subset
  <2> QED BY <2>2, <2>4, FS_CardinalityType DEF UnheldHits, FreeHits
<1>5. \A g \in 1..Groups : /\ x[g] = NewOf(c, r, tokens, hits, g) /\ x[g] \in Nat
                           /\ y[g] = UnheldHits(c, hits, len, g) /\ y[g] \in Nat
                           /\ w[g] = x[g] + y[g] /\ w[g] \in Nat
  <2>1. \A g \in 1..Groups : /\ x[g] = NewOf(c, r, tokens, hits, g) /\ x[g] \in Nat
                             /\ y[g] = UnheldHits(c, hits, len, g) /\ y[g] \in Nat
    BY <1>3, <1>4
  <2> HIDE DEF x, y
  <2>2. \A g \in 1..Groups : w[g] = x[g] + y[g] /\ w[g] \in Nat
    BY <2>1
  <2> QED BY <2>1, <2>2
<1> HIDE DEF w, x, y
<1>6. PICK H, X, Y : Totals(Groups, w, H) /\ Totals(Groups, x, X) /\ Totals(Groups, y, Y)
  BY <1>5, GroupListIs, TotalsExist
<1>7. NumBlocksToAllocate(c, r, tokens, hits) = H[1..Groups]
  <2>1. \A g \in 1..Groups : /\ NewOf(c, r, tokens, hits, g) \in Nat /\ FreeHits(c, hits, g) \in Nat
                             /\ w[g] = NewOf(c, r, tokens, hits, g) + FreeHits(c, hits, g)
    BY <1>4, <1>5
  <2> QED BY <1>6, <2>1, NeededIs
<1>8. H[1..Groups] <= c.pool.queue.size
  BY <1>2, <1>7 DEF HasRoom, FreeCount
<1>9. PICK h \in Nat, i \in Nat, j \in Nat : h = H[1..Groups] /\ i = X[1..Groups] /\ j = Y[1..Groups] /\ h = i + j
  <2>1. 1..Groups \in SUBSET (1..Groups) /\ Groups \in Nat
    BY GroupListIs
  <2>4. \A g \in 1..Groups : x[g] \in Nat /\ y[g] \in Nat /\ w[g] = x[g] + y[g]
    BY <1>5
  <2>5. \A I \in SUBSET (1..Groups) : H[I] = X[I] + Y[I]
    BY <1>6, <2>1, <2>4, TotalsAdd
  <2>2. H[1..Groups] = X[1..Groups] + Y[1..Groups]
    BY <2>1, <2>5, Zenon
  <2>3. H[1..Groups] \in Nat /\ X[1..Groups] \in Nat /\ Y[1..Groups] \in Nat
    BY <1>6, <2>1 DEF Totals
  <2> QED BY <2>2, <2>3
<1>10. AddedHits(c, r, hits, len, Y, d)
  BY <1>5, <1>6, AddComputedIs
<1> HIDE DEF d
<1>11. /\ Sound(d) /\ Alike(c, d) /\ d.table = [c.table EXCEPT ![r] = hits]
       /\ d.cached = [c.cached EXCEPT ![r] = len]
       /\ d.pool.queue.size + Y[1..Groups] >= c.pool.queue.size
  BY <1>10 DEF AddedHits
<1>12. PICK k \in Nat, l \in Nat : k = d.pool.queue.size /\ l = c.pool.queue.size
  BY <1>11, ConsistentBlocks DEF Sound
<1>13. X[1..Groups] <= d.pool.queue.size
  BY <1>8, <1>9, <1>11, <1>12
<1>14. c.table \in Tables /\ c.cached \in [Reqs -> Nat]
  BY CoreParts DEF Sound
<1>15. \A q \in Reqs : /\ q # r => d.table[q] = c.table[q] /\ d.cached[q] = c.cached[q]
                       /\ q = r => d.table[q] = hits
  BY <1>11, <1>14 DEF Tables
<1>16. \A g \in 1..Groups : x[g] = NewFor(d, r, tokens, g)
  <2>1. SUFFICES ASSUME NEW g \in 1..Groups PROVE x[g] = NewFor(d, r, tokens, g)
    OBVIOUS
  <2>2. PICK z \in Nat : z = Len(c.table[r][g]) /\ z = 0
    BY DEF NoBlocks
  <2>3. PICK f \in Nat : f = CDiv(tokens)
    BY BlocksOf
  <2>4. NewOf(c, r, tokens, hits, g) = Max({0, f - len - z})
    BY <1>1, <2>2, <2>3 DEF NewOf
  <2>5. NewFor(d, r, tokens, g) = Max({0, f - len})
    BY <1>1, <1>15, <2>3 DEF NewFor
  <2>6. f - len - z = f - len
    BY <2>2
  <2> QED BY <1>5, <2>4, <2>5, <2>6
<1> DEFINE e == CacheBlocks(AddNew(d, r, tokens), r, tokens)
<1>17. Allocated(d, r, e)
  BY <1>6, <1>11, <1>13, <1>16, AllocateRest
<1>18. AllocateSlots(c, r, n, hits) = e
  BY <1>2 DEF AllocateSlots, d
<1> HIDE DEF e
<1>19. Alike(c, e) /\ Sound(e)
  BY <1>11, <1>17 DEF Allocated, Alike
<1>20. \A q \in Reqs : q # r => e.table[q] = c.table[q] /\ e.cached[q] = c.cached[q]
  BY <1>15, <1>17 DEF Allocated
<1> QED BY <1>18, <1>19, <1>20 DEF Allocated

-----------------------------------------------------------------------------
(* The order of the requests.                                              *)

\* The policy orders the requests that have arrived.
LEMMA BeforeOrders ==
  ASSUME NEW c, c.arrived \in Seq(Reqs)
  PROVE  /\ \A q, r \in Elements(c.arrived) : q # r => Before(c, q, r) \/ Before(c, r, q)
         /\ \A q, r, u \in Elements(c.arrived) :
              Before(c, q, r) /\ Before(c, r, u) => Before(c, q, u)
<1>1. ASSUME NEW r \in Elements(c.arrived)
      PROVE  ArrivedAt(c, r) \in Nat /\ c.arrived[ArrivedAt(c, r)] = r /\ Priority[r] \in Nat
  <2>1. PICK s \in Seq(Reqs) : s = c.arrived
    OBVIOUS
  <2>2. DOMAIN s = 1..Len(s)
    OBVIOUS
  <2>3. PICK i \in 1..Len(s) : s[i] = r
    BY <1>1, <2>1 DEF Elements
  <2>4. ArrivedAt(c, r) \in DOMAIN s /\ s[ArrivedAt(c, r)] = r
    BY <2>1, <2>2, <2>3 DEF ArrivedAt
  <2>5. r \in Reqs
    BY <2>3
  <2> QED BY <2>1, <2>2, <2>4, <2>5, Sizes
<1>2. ASSUME NEW q \in Elements(c.arrived), NEW r \in Elements(c.arrived), q # r
      PROVE  Before(c, q, r) \/ Before(c, r, q)
  <2>1. ArrivedAt(c, q) # ArrivedAt(c, r)
    BY <1>1, <1>2
  <2> QED BY <1>1, <2>1 DEF Before
<1>3. ASSUME NEW q \in Elements(c.arrived), NEW r \in Elements(c.arrived),
             NEW u \in Elements(c.arrived), Before(c, q, r), Before(c, r, u)
      PROVE  Before(c, q, u)
  BY <1>1, <1>3 DEF Before
<1> QED BY <1>2, <1>3

\* A list has a last element under a linear order of its elements.
LEMMA Extreme ==
  ASSUME NEW T, NEW s \in Seq(T), s # <<>>, NEW R,
         \A q, r \in Elements(s) : q # r => <<q, r>> \in R \/ <<r, q>> \in R,
         \A q, r, u \in Elements(s) : <<q, r>> \in R /\ <<r, u>> \in R => <<q, u>> \in R
  PROVE  \E v \in Elements(s) : \A q \in Elements(s) \ {v} : <<q, v>> \in R
<1>1. PICK n \in Nat : n = Len(s) /\ n # 0
  OBVIOUS
<1> DEFINE At(I) == {s[i] : i \in I}
           Top(I, v) == v \in At(I) /\ \A q \in At(I) \ {v} : <<q, v>> \in R
           Good == {I \in SUBSET (1..n) : I = {} \/ \E v : Top(I, v)}
<1>2. {} \in Good
  OBVIOUS
<1>3. ASSUME NEW I \in SUBSET (1..n), I # {}, I \ {Max(I)} \in Good PROVE I \in Good
  <2>1. PICK x \in 1..n : /\ x = Max(I) /\ x \in I /\ I = (I \ {x}) \cup {x}
                          /\ I \ {x} \in SUBSET (1..n)
    BY <1>3, BeforeLast
  <2>2. At(I) = At(I \ {x}) \cup {s[x]}
    BY <2>1
  <2>3. At(I) \subseteq Elements(s)
    BY <1>1 DEF Elements
  <2>4. CASE I \ {x} = {}
    <3>1. At(I) = {s[x]}
      BY <2>1, <2>4
    <3>2. Top(I, s[x])
      BY <3>1
    <3> QED BY <3>2
  <2>5. CASE I \ {x} # {}
    <3>1. PICK v : Top(I \ {x}, v)
      BY <1>3, <2>1, <2>5
    <3>2. CASE s[x] = v
      <4>1. Top(I, v)
        BY <2>2, <3>1, <3>2
      <4> QED BY <4>1
    <3>3. CASE <<s[x], v>> \in R
      <4>1. Top(I, v)
        BY <2>2, <3>1, <3>3
      <4> QED BY <4>1
    <3>4. CASE <<v, s[x]>> \in R
      <4>1. \A q \in At(I \ {x}) : <<q, s[x]>> \in R
        <5>1. SUFFICES ASSUME NEW q \in At(I \ {x}), q # v PROVE <<q, s[x]>> \in R
          BY <3>4
        <5>2. <<q, v>> \in R
          BY <3>1, <5>1
        <5>3. q \in Elements(s) /\ v \in Elements(s) /\ s[x] \in Elements(s)
          BY <2>2, <2>3, <3>1
        <5> QED BY <3>4, <5>2, <5>3
      <4>2. Top(I, s[x])
        BY <2>2, <4>1
      <4> QED BY <4>2
    <3>5. v \in Elements(s) /\ s[x] \in Elements(s)
      BY <2>2, <2>3, <3>1
    <3> QED BY <3>2, <3>3, <3>4, <3>5
  <2> QED BY <2>4, <2>5
<1> HIDE DEF Good
<1>4. \A I \in SUBSET (1..n) : I \in Good
  BY <1>2, <1>3, SubsetInduction
<1>5. 1..n \in SUBSET (1..n) /\ 1..n # {}
  <2>1. n \in 1..n
    BY <1>1
  <2> QED BY <2>1
<1>6. \E v : Top(1..n, v)
  BY <1>4, <1>5 DEF Good
<1>7. At(1..n) = Elements(s)
  BY <1>1 DEF Elements
<1> QED BY <1>6, <1>7

\* The victim of a preemption runs.
LEMMA VictimIs ==
  ASSUME NEW c, c.running \in Seq(Reqs), c.arrived \in Seq(Reqs), c.running # <<>>,
         Elements(c.running) \subseteq Elements(c.arrived)
  PROVE  Victim(c) \in Elements(c.running)
<1>1. PICK s \in Seq(Reqs) : s = c.running /\ s # <<>>
  OBVIOUS
<1>2. Range(s) = Elements(s)
  BY DEF Range, Elements
<1> DEFINE R == {p \in Reqs \X Reqs : Before(c, p[1], p[2])}
<1>3. Elements(s) \subseteq Reqs /\ Elements(s) \subseteq Elements(c.arrived)
  <2>1. \A i \in 1..Len(s) : s[i] \in Reqs
    OBVIOUS
  <2>2. Elements(s) \subseteq Reqs
    BY <2>1 DEF Elements
  <2> QED BY <1>1, <2>2
<1>4. \A q, r \in Elements(s) : <<q, r>> \in R <=> Before(c, q, r)
  BY <1>3
<1> HIDE DEF R
<1>5. \A q, r \in Elements(s) : q # r => <<q, r>> \in R \/ <<r, q>> \in R
  BY <1>3, <1>4, BeforeOrders
<1>6. \A q, r, u \in Elements(s) : <<q, r>> \in R /\ <<r, u>> \in R => <<q, u>> \in R
  BY <1>3, <1>4, BeforeOrders
<1>7. \E v \in Elements(s) : \A q \in Elements(s) \ {v} : <<q, v>> \in R
  BY <1>1, <1>5, <1>6, Extreme
<1>8. \E v \in Elements(s) : \A q \in Elements(s) \ {v} : Before(c, q, v)
  BY <1>4, <1>7
<1>9. ByPriority => Victim(c) \in Elements(s)
  BY <1>1, <1>2, <1>8 DEF Victim
<1>10. ~ByPriority => Victim(c) \in Elements(s)
  <2>1. Len(s) \in 1..Len(s)
    BY <1>1
  <2>2. Last(s) = s[Len(s)]
    BY DEF Last
  <2> QED BY <1>1, <2>1, <2>2 DEF Victim, Elements
<1> QED BY <1>1, <1>9, <1>10

\* The first of the waiting queue waits.
LEMMA FirstWaitingIs ==
  ASSUME NEW c, c.waiting \in Seq(Reqs), c.arrived \in Seq(Reqs), c.waiting # <<>>,
         Elements(c.waiting) \subseteq Elements(c.arrived)
  PROVE  FirstWaiting(c) \in Elements(c.waiting)
<1>1. PICK s \in Seq(Reqs) : s = c.waiting /\ s # <<>>
  OBVIOUS
<1>2. Range(s) = Elements(s)
  BY DEF Range, Elements
<1> DEFINE R == {p \in Reqs \X Reqs : Before(c, p[2], p[1])}
<1>3. Elements(s) \subseteq Reqs /\ Elements(s) \subseteq Elements(c.arrived)
  <2>1. \A i \in 1..Len(s) : s[i] \in Reqs
    OBVIOUS
  <2>2. Elements(s) \subseteq Reqs
    BY <2>1 DEF Elements
  <2> QED BY <1>1, <2>2
<1>4. \A q, r \in Elements(s) : <<q, r>> \in R <=> Before(c, r, q)
  BY <1>3
<1> HIDE DEF R
<1>5. \A q, r \in Elements(s) : q # r => <<q, r>> \in R \/ <<r, q>> \in R
  BY <1>3, <1>4, BeforeOrders
<1>6. \A q, r, u \in Elements(s) : <<q, r>> \in R /\ <<r, u>> \in R => <<q, u>> \in R
  BY <1>3, <1>4, BeforeOrders
<1>7. \E v \in Elements(s) : \A q \in Elements(s) \ {v} : <<q, v>> \in R
  BY <1>1, <1>5, <1>6, Extreme
<1>8. \E v \in Elements(s) : \A q \in Elements(s) \ {v} : Before(c, v, q)
  BY <1>4, <1>7
<1>9. ByPriority => FirstWaiting(c) \in Elements(s)
  BY <1>1, <1>2, <1>8 DEF FirstWaiting
<1>10. ~ByPriority => FirstWaiting(c) \in Elements(s)
  <2>1. 1 \in 1..Len(s)
    BY <1>1
  <2> QED BY <1>1, <2>1 DEF FirstWaiting, Elements
<1> QED BY <1>1, <1>9, <1>10

-----------------------------------------------------------------------------
(* The two queues.                                                         *)

Idle(c, r) == c.table[r] = NoBlocks /\ c.cached[r] = 0 /\ c.computed[r] = 0

\* The requests of Q are in one queue each; those that wait hold nothing.
Orderly(c, Q) ==
  /\ Distinct(c.running) /\ Distinct(c.waiting)
  /\ Elements(c.running) \cap Elements(c.waiting) = {}
  /\ Elements(c.running) \cup Elements(c.waiting) = Q /\ Q \subseteq Elements(c.arrived)
  /\ \A r \in Elements(c.waiting) : Idle(c, r)
  /\ \A r \in Reqs : c.computed[r] <= Need(r)

\* The other requests are left alone.
Kept(c, d, Q) ==
  /\ d.arrived = c.arrived
  /\ \A r \in Reqs \ Q : /\ d.table[r] = c.table[r] /\ d.cached[r] = c.cached[r]
                         /\ d.computed[r] = c.computed[r]

LEMMA ElementsAre ==
  ASSUME NEW c, Sound(c)
  PROVE  /\ c.running \in Seq(Reqs) /\ c.waiting \in Seq(Reqs) /\ c.arrived \in Seq(Reqs)
         /\ c.computed \in [Reqs -> Nat] /\ c.cached \in [Reqs -> Nat] /\ c.table \in Tables
         /\ Elements(c.running) \subseteq Reqs /\ Elements(c.waiting) \subseteq Reqs
<1>1. /\ c.running \in Seq(Reqs) /\ c.waiting \in Seq(Reqs) /\ c.arrived \in Seq(Reqs)
      /\ c.computed \in [Reqs -> Nat] /\ c.cached \in [Reqs -> Nat] /\ c.table \in Tables
  BY CoreParts DEF Sound
<1>2. \A s \in Seq(Reqs) : Elements(s) \subseteq Reqs
  <2>1. SUFFICES ASSUME NEW s \in Seq(Reqs), NEW i \in 1..Len(s) PROVE s[i] \in Reqs
    BY DEF Elements
  <2> QED OBVIOUS
<1> QED BY <1>1, <1>2

\* The queues change, and the tokens computed of one request.
Requeued(c, r, h, a, b, d) ==
  /\ Sound(d) /\ d.table = c.table /\ d.cached = c.cached /\ d.arrived = c.arrived
  /\ d.running = a /\ d.waiting = b
  /\ \A x \in Reqs : d.computed[x] = IF x = r THEN h ELSE c.computed[x]

Requeue(c, r, h, a, b) == [c EXCEPT !.computed[r] = h, !.running = a, !.waiting = b]

LEMMA RequeueIs ==
  ASSUME NEW c, Sound(c), NEW r \in Reqs, NEW h \in Nat, NEW a \in Seq(Reqs), NEW b \in Seq(Reqs)
  PROVE  Requeued(c, r, h, a, b, Requeue(c, r, h, a, b))
<1> DEFINE computed == [c.computed EXCEPT ![r] = h]
           d == Requeue(c, r, h, a, b)
<1>1. c \in Cores
  BY DEF Sound
<1>2. /\ CoreOf(c, c.pool, c.computed, c.table, c.cached, c.running, c.waiting, c.arrived)
      /\ c.pool \in Pools(Blocks, Keys) /\ c.computed \in [Reqs -> Nat] /\ c.table \in Tables
      /\ c.cached \in [Reqs -> Nat] /\ c.arrived \in Seq(Reqs)
  BY <1>1, CoreParts
<1>3. d = [c EXCEPT !.computed = computed, !.running = a, !.waiting = b]
  BY DEF Requeue
<1>4. computed \in [Reqs -> Nat] /\ \A x \in Reqs : computed[x] = IF x = r THEN h ELSE c.computed[x]
  BY <1>2
<1> HIDE DEF computed, d
<1>8. CoreOf(d, c.pool, computed, c.table, c.cached, a, b, c.arrived)
  BY <1>2, <1>3 DEF CoreOf
<1>5. CoreHas(d, c.pool, computed, c.table, c.cached, a, b, c.arrived)
  BY <1>2, <1>4, <1>8, PartsCore
<1>6. Sound(d)
  BY <1>5 DEF Sound, CoreHas
<1>7. Requeued(c, r, h, a, b, d)
  BY <1>4, <1>5, <1>6 DEF Requeued, CoreHas
<1> QED BY <1>7 DEF d

\* A running request gives its blocks up, and waits again.
Preempted(c, v, Q, d) ==
  /\ Sound(d) /\ Orderly(d, Q) /\ Kept(c, d, Q) /\ d.running = Only(c.running, Reqs \ {v})
  /\ \A r \in Reqs : r # v => d.computed[r] = c.computed[r]

\* A preempted request waits, holds nothing, and the rest is as it was.
LEMMA PreemptIs ==
  ASSUME NEW c, NEW Q, Sound(c), Orderly(c, Q), NEW v \in Elements(c.running)
  PROVE  Preempted(c, v, Q, Preempt(c, v))
<1> DEFINE f == Free(c, v)
           a == Only(c.running, Reqs \ {v})
           b == <<v>> \o c.waiting
           d == Preempt(c, v)
<1>1. v \in Reqs
  BY ElementsAre
<1>2. Freed(c, v, f)
  BY <1>1, FreeIs
<1>3. d = Requeue(f, v, 0, Only(f.running, Reqs \ {v}), <<v>> \o f.waiting)
  BY DEF Preempt, Requeue
<1> HIDE DEF f, d
<1>4. /\ Sound(f) /\ Alike(c, f) /\ f.table = [c.table EXCEPT ![v] = NoBlocks]
      /\ f.cached = [c.cached EXCEPT ![v] = 0]
  BY <1>2 DEF Freed
<1>5. /\ f.computed = c.computed /\ f.running = c.running /\ f.waiting = c.waiting
      /\ f.arrived = c.arrived
  BY <1>4 DEF Alike
<1>6. /\ c.running \in Seq(Reqs) /\ c.waiting \in Seq(Reqs) /\ c.computed \in [Reqs -> Nat]
      /\ c.cached \in [Reqs -> Nat] /\ c.table \in [Reqs -> [1..Groups -> Seq(Usable)]]
  BY ElementsAre DEF Tables
<1>7. /\ a \in Seq(Reqs) /\ Elements(a) = Elements(c.running) \cap (Reqs \ {v})
      /\ Distinct(c.running) => Distinct(a)
  BY <1>6, OnlyIs
<1>8. /\ b \in Seq(Reqs) /\ Elements(b) = {v} \cup Elements(c.waiting)
      /\ Distinct(c.waiting) /\ v \notin Elements(c.waiting) => Distinct(b)
  <2>1. PICK s \in Seq(Reqs) : s = << v >> /\ Elements(s) = {v} /\ Distinct(s)
    <3>1. << v >> \in Seq(Reqs)
      BY <1>1
    <3>2. Elements(<< v >>) = {v} /\ Distinct(<< v >>)
      BY DEF Elements, Distinct
    <3> QED BY <3>1, <3>2
  <2>2. Concatenated(Reqs, s, c.waiting, s \o c.waiting)
    BY <1>6, ConcatenationIs
  <2> QED BY <2>1, <2>2 DEF Concatenated
<1>9. d = Requeue(f, v, 0, a, b)
  BY <1>3, <1>5
<1> HIDE DEF a, b
<1>10. Requeued(f, v, 0, a, b, d)
  BY <1>1, <1>4, <1>7, <1>8, <1>9, RequeueIs
<1>11. /\ Sound(d) /\ d.running = a /\ d.waiting = b /\ d.arrived = c.arrived
       /\ \A x \in Reqs : /\ d.table[x] = IF x = v THEN NoBlocks ELSE c.table[x]
                          /\ d.cached[x] = IF x = v THEN 0 ELSE c.cached[x]
                          /\ d.computed[x] = IF x = v THEN 0 ELSE c.computed[x]
  BY <1>4, <1>5, <1>6, <1>10 DEF Requeued
<1>12. /\ Distinct(c.running) /\ Distinct(c.waiting)
       /\ Elements(c.running) \cap Elements(c.waiting) = {}
       /\ Elements(c.running) \cup Elements(c.waiting) = Q /\ Q \subseteq Elements(c.arrived)
       /\ \A r \in Elements(c.waiting) : Idle(c, r)
       /\ \A r \in Reqs : c.computed[r] <= Need(r)
  BY DEF Orderly
<1>13. Elements(c.running) \subseteq Reqs /\ Elements(c.waiting) \subseteq Reqs
  BY ElementsAre
<1>14. Orderly(d, Q)
  <2>1. Distinct(d.running) /\ Distinct(d.waiting)
    BY <1>7, <1>8, <1>11, <1>12
  <2>2. /\ Elements(d.running) \cap Elements(d.waiting) = {}
        /\ Elements(d.running) \cup Elements(d.waiting) = Q /\ Q \subseteq Elements(d.arrived)
    BY <1>7, <1>8, <1>11, <1>12, <1>13
  <2>3. \A r \in Elements(d.waiting) : Idle(d, r)
    BY <1>1, <1>8, <1>11, <1>12, <1>13 DEF Idle
  <2>4. \A r \in Reqs : d.computed[r] <= Need(r)
    <3>1. Need(v) \in Nat
      BY <1>1, Sizes DEF Need
    <3> QED BY <1>11, <1>12, <3>1
  <2> QED BY <2>1, <2>2, <2>3, <2>4 DEF Orderly
<1>15. Kept(c, d, Q)
  BY <1>11, <1>12 DEF Kept
<1>16. Preempted(c, v, Q, d)
  BY <1>11, <1>14, <1>15 DEF Preempted, a
<1> QED BY <1>16 DEF d

\* A running request gets blocks for more tokens.
Continued(c, Q, d) == Sound(d) /\ Orderly(d, Q) /\ Kept(c, d, Q) /\ Alike(c, d)

\* A running request that has room gets its blocks.
LEMMA ContinueIs ==
  ASSUME NEW c, NEW Q, Sound(c), Orderly(c, Q), NEW r \in Elements(c.running),
         NEW n \in Nat, c.computed[r] + n <= Need(r), HasRoom(c, r, n, NoBlocks)
  PROVE  Continued(c, Q, AllocateSlots(c, r, n, NoBlocks))
<1> DEFINE d == AllocateSlots(c, r, n, NoBlocks)
<1>1. r \in Reqs /\ Elements(c.running) \subseteq Reqs /\ Elements(c.waiting) \subseteq Reqs
  BY ElementsAre
<1>2. Allocated(c, r, d)
  BY <1>1, AllocateRunning
<1> HIDE DEF d
<1>3. /\ Sound(d) /\ Alike(c, d)
      /\ \A x \in Reqs : x # r => d.table[x] = c.table[x] /\ d.cached[x] = c.cached[x]
  BY <1>2 DEF Allocated
<1>4. /\ d.computed = c.computed /\ d.running = c.running /\ d.waiting = c.waiting
      /\ d.arrived = c.arrived
  BY <1>3 DEF Alike
<1>5. r \notin Elements(c.waiting) /\ r \in Q
  BY DEF Orderly
<1>6. \A x \in Elements(c.waiting) : Idle(d, x)
  BY <1>1, <1>3, <1>4, <1>5 DEF Orderly, Idle
<1>7. Orderly(d, Q)
  BY <1>4, <1>6 DEF Orderly
<1>8. Kept(c, d, Q)
  BY <1>3, <1>4, <1>5 DEF Kept
<1> QED BY <1>3, <1>7, <1>8 DEF Continued, d

\* A waiting request gets its blocks and runs.
Admitted(c, r, h, Q, d) ==
  /\ Sound(d) /\ Orderly(d, Q) /\ Kept(c, d, Q) /\ d.running = Append(c.running, r)
  /\ \A x \in Reqs : d.computed[x] = IF x = r THEN h ELSE c.computed[x]

Admit(c, r, h, n, hits) ==
  [AllocateSlots(c, r, n, hits) EXCEPT !.computed[r] = h, !.running = Append(@, r),
                                       !.waiting = Only(@, Reqs \ {r})]

\* A waiting request that has room gets its hits and new blocks, and runs.
LEMMA AdmitIs ==
  ASSUME NEW c, NEW Q, Sound(c), Orderly(c, Q), NEW r \in Elements(c.waiting),
         NEW hits, NEW len \in Nat, AreHits(c, hits, len), NEW h \in Nat, h = len * BlockSize,
         NEW n \in Nat, h + n <= Need(r), HasRoom(c, r, n, hits)
  PROVE  Admitted(c, r, h, Q, Admit(c, r, h, n, hits))
<1> DEFINE f == AllocateSlots(c, r, n, hits)
           a == Append(c.running, r)
           b == Only(c.waiting, Reqs \ {r})
           d == Admit(c, r, h, n, hits)
<1>1. r \in Reqs /\ Elements(c.running) \subseteq Reqs /\ Elements(c.waiting) \subseteq Reqs
  BY ElementsAre
<1>2. c.table[r] = NoBlocks /\ c.cached[r] = 0 /\ c.computed[r] = 0
  BY DEF Orderly, Idle
<1>3. h + n \in Nat /\ h + n = c.computed[r] + len * BlockSize + n
  BY <1>2
<1>4. Allocated(c, r, f)
  BY <1>1, <1>2, <1>3, AllocateWaiting
<1>5. d = Requeue(f, r, h, Append(f.running, r), Only(f.waiting, Reqs \ {r}))
  BY DEF Admit, Requeue
<1> HIDE DEF f, d
<1>6. /\ Sound(f) /\ Alike(c, f)
      /\ \A x \in Reqs : x # r => f.table[x] = c.table[x] /\ f.cached[x] = c.cached[x]
  BY <1>4 DEF Allocated
<1>7. /\ f.computed = c.computed /\ f.running = c.running /\ f.waiting = c.waiting
      /\ f.arrived = c.arrived
  BY <1>6 DEF Alike
<1>8. /\ c.running \in Seq(Reqs) /\ c.waiting \in Seq(Reqs)
  BY ElementsAre
<1>9. /\ a \in Seq(Reqs) /\ Elements(a) = Elements(c.running) \cup {r}
      /\ Distinct(c.running) /\ r \notin Elements(c.running) => Distinct(a)
  <2>1. Appended(Reqs, c.running, r, a)
    BY <1>1, <1>8, AppendIs
  <2> HIDE DEF a
  <2> QED BY <2>1 DEF Appended
<1>10. /\ b \in Seq(Reqs) /\ Elements(b) = Elements(c.waiting) \cap (Reqs \ {r})
       /\ Distinct(c.waiting) => Distinct(b)
  BY <1>8, OnlyIs
<1>11. d = Requeue(f, r, h, a, b)
  BY <1>5, <1>7
<1> HIDE DEF a, b
<1>12. Requeued(f, r, h, a, b, d)
  BY <1>1, <1>6, <1>9, <1>10, <1>11, RequeueIs
<1>13. /\ Sound(d) /\ d.running = a /\ d.waiting = b /\ d.arrived = c.arrived
       /\ \A x \in Reqs : /\ x # r => d.table[x] = c.table[x] /\ d.cached[x] = c.cached[x]
                          /\ d.computed[x] = IF x = r THEN h ELSE c.computed[x]
  BY <1>6, <1>7, <1>12 DEF Requeued
<1>14. /\ Distinct(c.running) /\ Distinct(c.waiting)
       /\ Elements(c.running) \cap Elements(c.waiting) = {}
       /\ Elements(c.running) \cup Elements(c.waiting) = Q /\ Q \subseteq Elements(c.arrived)
       /\ \A x \in Elements(c.waiting) : Idle(c, x)
       /\ \A x \in Reqs : c.computed[x] <= Need(x)
  BY DEF Orderly
<1>15. Orderly(d, Q)
  <2>1. Distinct(d.running) /\ Distinct(d.waiting)
    BY <1>9, <1>10, <1>13, <1>14
  <2>2. /\ Elements(d.running) \cap Elements(d.waiting) = {}
        /\ Elements(d.running) \cup Elements(d.waiting) = Q /\ Q \subseteq Elements(d.arrived)
    BY <1>1, <1>9, <1>10, <1>13, <1>14
  <2>3. \A x \in Elements(d.waiting) : Idle(d, x)
    BY <1>1, <1>10, <1>13, <1>14 DEF Idle
  <2>4. \A x \in Reqs : d.computed[x] <= Need(x)
    <3>1. Need(r) \in Nat
      BY <1>1, Sizes DEF Need
    <3>2. h <= Need(r)
      BY <3>1
    <3> QED BY <1>13, <1>14, <3>2
  <2> QED BY <2>1, <2>2, <2>3, <2>4 DEF Orderly
<1>16. Kept(c, d, Q)
  BY <1>13, <1>14 DEF Kept
<1>17. Admitted(c, r, h, Q, d)
  BY <1>13, <1>15, <1>16 DEF Admitted, a
<1> QED BY <1>17 DEF d

-----------------------------------------------------------------------------
(* The plan of a step.                                                     *)

TokensOf(plan, r) == FoldLeft(LAMBDA n, e : IF e.req = r THEN n + e.n ELSE n, 0, plan)

TokensStep(plan, r, n, i) == IF plan[i].req = r THEN n + plan[i].n ELSE n

IsTokensOf(plan, r, g) ==
  g = [I \in SUBSET DOMAIN plan |->
         IF I = {} THEN 0
         ELSE TokensStep(plan, r, g[I \ {Max(I)}], Max(I))]

LEMMA TokensOfUnfolded ==
  ASSUME NEW plan, NEW r
  PROVE  TokensOf(plan, r) = (CHOOSE g : IsTokensOf(plan, r, g))[DOMAIN plan]
BY DEF TokensOf, TokensStep, FoldLeft, MapThenFoldSet, IsTokensOf

LEMMA TokensOfRuns ==
  ASSUME NEW plan, NEW r, NEW n, NEW V, n \in Nat, DOMAIN plan = 1..n, 0 \in V[{}],
         \A I \in SUBSET (1..n) : I # {} =>
           \A v \in V[I \ {Max(I)}] : TokensStep(plan, r, v, Max(I)) \in V[I]
  PROVE  TokensOf(plan, r) \in V[1..n]
<1> DEFINE U == UNION {V[I] : I \in SUBSET (1..n)}
           step == [I \in SUBSET (1..n) |-> [v \in U |-> TokensStep(plan, r, v, Max(I))]]
<1>1. ASSUME NEW I \in SUBSET (1..n), I # {}, NEW v \in V[I \ {Max(I)}]
      PROVE  step[I][v] = TokensStep(plan, r, v, Max(I))
  <2>1. I \ {Max(I)} \in SUBSET (1..n)
    OBVIOUS
  <2>2. v \in U
    BY <2>1, <1>1
  <2> QED BY <2>2
<1> HIDE DEF step
<1>2. Advances(n, V, 0, step)
  BY <1>1 DEF Advances
<1>3. PICK g : FoldStates(n, V, 0, step, g)
  BY <1>2, FoldHasStates
<1>4. IsTokensOf(plan, r, g)
  <2>1. ASSUME NEW I \in SUBSET (1..n), I # {}
        PROVE  g[I] = TokensStep(plan, r, g[I \ {Max(I)}], Max(I))
    <3>1. g[I \ {Max(I)}] \in V[I \ {Max(I)}] /\ g[I] = step[I][g[I \ {Max(I)}]]
      BY <1>3, <2>1 DEF FoldStates
    <3> QED BY <1>1, <2>1, <3>1
  <2>2. g = [I \in SUBSET (1..n) |-> IF I = {} THEN 0
                ELSE TokensStep(plan, r, g[I \ {Max(I)}], Max(I))]
    BY <1>3, <2>1 DEF FoldStates
  <2> QED BY <2>2 DEF IsTokensOf
<1> DEFINE h == CHOOSE h : IsTokensOf(plan, r, h)
<1>5. IsTokensOf(plan, r, h)
  BY <1>4
<1> HIDE DEF h
<1>6. h = [I \in SUBSET (1..n) |-> IF I = {} THEN 0
             ELSE TokensStep(plan, r, h[I \ {Max(I)}], Max(I))]
  BY <1>5 DEF IsTokensOf
<1>7. h[{}] = 0
  BY <1>6
<1>8. ASSUME NEW I \in SUBSET (1..n), I # {}, h[I \ {Max(I)}] \in V[I \ {Max(I)}]
      PROVE  h[I] = step[I][h[I \ {Max(I)}]]
  <2>1. h[I] = TokensStep(plan, r, h[I \ {Max(I)}], Max(I))
    BY <1>6, <1>8
  <2> QED BY <1>1, <1>8, <2>1
<1>9. FoldGoes(n, V, 0, step, h)
  BY <1>7, <1>8 DEF FoldGoes
<1>10. h[1..n] \in V[1..n]
  <2>1. 1..n \in SUBSET (1..n)
    OBVIOUS
  <2> QED BY <1>2, <1>9, <2>1, FoldReaches
<1> QED BY <1>10, TokensOfUnfolded DEF h
\* The tokens of the requests in the plan are those of their entries.
Scheduling == [req : Reqs, n : Nat]
OneEach(plan) ==
  /\ plan \in Seq(Scheduling) /\ Distinct(plan)
  /\ \A e, f \in Elements(plan) : e.req = f.req => e = f

\* The tokens the plan has for a request: those of its one entry.
LEMMA TokensAre ==
  ASSUME NEW plan, OneEach(plan), NEW r
  PROVE  /\ TokensOf(plan, r) \in Nat
         /\ \A e \in Elements(plan) : e.req = r => TokensOf(plan, r) = e.n
         /\ (\A e \in Elements(plan) : e.req # r) => TokensOf(plan, r) = 0
<1>1. plan \in Seq(Scheduling)
  BY DEF OneEach
<1>2. PICK n \in Nat : n = Len(plan)
  BY <1>1
<1>3. DOMAIN plan = 1..n /\ \A i \in 1..n : plan[i] \in Scheduling /\ plan[i] \in Elements(plan)
  BY <1>1, <1>2 DEF Elements
<1>4. \A i, j \in 1..n : plan[i].req = plan[j].req => i = j
  BY <1>2, <1>3 DEF OneEach, Distinct
<1>5. \A i \in 1..n : plan[i].req \in Reqs /\ plan[i].n \in Nat
  BY <1>3 DEF Scheduling
<1> DEFINE V == [I \in SUBSET (1..n) |->
                   {v \in Nat : /\ \A i \in I : plan[i].req = r => v = plan[i].n
                                /\ (\A i \in I : plan[i].req # r) => v = 0}]
<1>6. 0 \in V[{}]
  <2>1. {} \in SUBSET (1..n)
    OBVIOUS
  <2> QED BY <2>1
<1>7. ASSUME NEW I \in SUBSET (1..n), I # {}, NEW v \in V[I \ {Max(I)}]
      PROVE  TokensStep(plan, r, v, Max(I)) \in V[I]
  <2>1. PICK x \in 1..n : /\ x = Max(I) /\ x \in I /\ I = (I \ {x}) \cup {x}
                          /\ I \ {x} \in SUBSET (1..n)
    BY <1>7, BeforeLast
  <2>2. /\ v \in Nat /\ \A i \in I \ {x} : plan[i].req = r => v = plan[i].n
        /\ (\A i \in I \ {x} : plan[i].req # r) => v = 0
    BY <1>7, <2>1
  <2>3. CASE plan[x].req = r
    <3>1. \A i \in I \ {x} : plan[i].req # r
      BY <1>4, <2>1, <2>3
    <3>2. v + plan[x].n = plan[x].n /\ plan[x].n \in Nat
      BY <1>5, <2>2, <3>1
    <3>3. plan[x].n \in V[I]
      BY <2>1, <2>3, <3>1, <3>2
    <3> QED BY <2>1, <2>3, <3>2, <3>3 DEF TokensStep
  <2>4. CASE plan[x].req # r
    <3>1. v \in V[I]
      BY <2>1, <2>2, <2>4
    <3> QED BY <2>1, <2>4, <3>1 DEF TokensStep
  <2> QED BY <2>1, <2>3, <2>4
<1> HIDE DEF V
<1>8. TokensOf(plan, r) \in V[1..n]
  BY <1>3, <1>6, <1>7, TokensOfRuns
<1>9. 1..n \in SUBSET (1..n)
  OBVIOUS
<1>10. /\ TokensOf(plan, r) \in Nat
       /\ \A i \in 1..n : plan[i].req = r => TokensOf(plan, r) = plan[i].n
       /\ (\A i \in 1..n : plan[i].req # r) => TokensOf(plan, r) = 0
  BY <1>8, <1>9 DEF V
<1>11. \A e \in Elements(plan) : e.req = r => TokensOf(plan, r) = e.n
  BY <1>2, <1>10 DEF Elements
<1>12. (\A e \in Elements(plan) : e.req # r) => TokensOf(plan, r) = 0
  BY <1>3, <1>10
<1> QED BY <1>10, <1>11, <1>12

LEMMA ChunkIs ==
  ASSUME NEW a \in Nat, NEW b \in Nat
  PROVE  Chunk(a, b) \in Nat /\ Chunk(a, b) <= a /\ Chunk(a, b) <= b
<1>1. PICK t \in Nat : t = Threshold
  BY Sizes
<1>2. PICK m \in {a, t, b} : m = Min({a, t, b}) /\ m <= a /\ m <= b
  BY <1>1, LeastOf
<1>3. Chunk(a, b) = m
  BY <1>1, <1>2 DEF Chunk
<1> QED BY <1>1, <1>2, <1>3

-----------------------------------------------------------------------------
(* One step of the scheduler.                                              *)

Steps == [core : Cores, plan : Seq(Scheduling), budget : Nat, next : Int, preempted : BOOLEAN]

StepOf(s, d, plan, budget, next, preempted) ==
  s = [core |-> d, plan |-> plan, budget |-> budget, next |-> next, preempted |-> preempted]

\* A request that is scheduled runs, and its tokens are of its prompt.  In the
\* first loop it is at a place that the loop is past.
Fits(plan, c, next) ==
  /\ OneEach(plan)
  /\ \A e \in Elements(plan) :
       /\ e.req \in Elements(c.running) /\ c.computed[e.req] + e.n <= Need(e.req)
       /\ next > 0 => \E k \in 1..Len(c.running) : k < next /\ c.running[k] = e.req

\* The step that began with c.
InStep(c, Q, s) ==
  /\ s \in Steps /\ Sound(s.core) /\ Orderly(s.core, Q) /\ Kept(c, s.core, Q)
  /\ Fits(s.plan, s.core, s.next)

LEMMA StepParts ==
  ASSUME NEW s \in Steps
  PROVE  /\ StepOf(s, s.core, s.plan, s.budget, s.next, s.preempted)
         /\ s.core \in Cores /\ s.plan \in Seq(Scheduling) /\ s.budget \in Nat
         /\ s.next \in Int /\ s.preempted \in BOOLEAN
BY DEF Steps, StepOf

\* A step from its parts.
LEMMA PartsStep ==
  ASSUME NEW c, NEW Q, NEW s, NEW d, NEW plan, NEW budget \in Nat, NEW next \in Int,
         NEW preempted \in BOOLEAN, StepOf(s, d, plan, budget, next, preempted),
         Sound(d), Orderly(d, Q), Kept(c, d, Q), Fits(plan, d, next)
  PROVE  InStep(c, Q, s)
<1>1. /\ s.core = d /\ s.plan = plan /\ s.budget = budget /\ s.next = next
      /\ s.preempted = preempted
  BY DEF StepOf
<1>2. d \in Cores /\ plan \in Seq(Scheduling)
  BY DEF Sound, Fits, OneEach
<1>3. s \in Steps
  BY <1>2 DEF Steps, StepOf
<1> QED BY <1>1, <1>3 DEF InStep

\* What two changes keep, both together keep.
LEMMA KeptOn ==
  ASSUME NEW c, NEW d, NEW e, NEW Q, Kept(c, d, Q), Kept(d, e, Q)
  PROVE  Kept(c, e, Q)
BY DEF Kept

\* What the plan is after another request is scheduled.
LEMMA FitsMore ==
  ASSUME NEW plan, NEW c, NEW next \in Int, Fits(plan, c, next), NEW d, NEW r \in Reqs, NEW n \in Nat,
         NEW more \in Int, d.running \in Seq(Reqs),
         \A e \in Elements(plan) : e.req # r,
         \A e \in Elements(plan) : e.req \in Elements(d.running) /\ d.computed[e.req] = c.computed[e.req],
         r \in Elements(d.running), d.computed[r] + n <= Need(r),
         more > 0 => /\ more = next + 1 /\ next \in 1..Len(d.running) /\ d.running = c.running
                     /\ d.running[next] = r
  PROVE  Fits(Append(plan, [req |-> r, n |-> n]), d, more)
<1> DEFINE e == [req |-> r, n |-> n]
           u == Append(plan, e)
<1>1. /\ plan \in Seq(Scheduling) /\ Distinct(plan)
      /\ \A x, y \in Elements(plan) : x.req = y.req => x = y
      /\ \A x \in Elements(plan) :
           /\ x.req \in Elements(c.running) /\ c.computed[x.req] + x.n <= Need(x.req)
           /\ next > 0 => \E k \in 1..Len(c.running) : k < next /\ c.running[k] = x.req
  BY DEF Fits, OneEach
<1>2. e \in Scheduling /\ e.req = r /\ e.n = n
  BY DEF Scheduling
<1> HIDE DEF e
<1>3. e \notin Elements(plan)
  BY <1>2
<1>4. Appended(Scheduling, plan, e, u)
  BY <1>1, <1>2, AppendIs
<1> HIDE DEF u
<1>5. u \in Seq(Scheduling) /\ Distinct(u) /\ Elements(u) = Elements(plan) \cup {e}
  BY <1>1, <1>3, <1>4 DEF Appended
<1>6. \A x, y \in Elements(u) : x.req = y.req => x = y
  BY <1>1, <1>2, <1>5
<1>7. ASSUME NEW x \in Elements(u)
      PROVE  /\ x.req \in Elements(d.running) /\ d.computed[x.req] + x.n <= Need(x.req)
             /\ more > 0 => \E k \in 1..Len(d.running) : k < more /\ d.running[k] = x.req
  <2>1. CASE x = e
    <3>1. more > 0 => next \in 1..Len(d.running) /\ next < more /\ d.running[next] = x.req
      BY <1>2, <2>1
    <3> QED BY <1>2, <2>1, <3>1
  <2>2. CASE x \in Elements(plan)
    <3>1. x.req \in Elements(d.running) /\ d.computed[x.req] + x.n <= Need(x.req)
      BY <1>1, <2>2
    <3>2. ASSUME more > 0 PROVE \E k \in 1..Len(d.running) : k < more /\ d.running[k] = x.req
      <4>1. d.running = c.running /\ next > 0 /\ more = next + 1
        BY <3>2
      <4>2. PICK k \in 1..Len(c.running) : k < next /\ c.running[k] = x.req
        BY <1>1, <2>2, <4>1
      <4> QED BY <4>1, <4>2
    <3> QED BY <3>1, <3>2
  <2> QED BY <1>5, <2>1, <2>2
<1>8. Fits(u, d, more)
  BY <1>5, <1>6, <1>7 DEF Fits, OneEach
<1> QED BY <1>8 DEF u, e

Dropped(plan, v, u) == u = Only(plan, {e \in Range(plan) : e.req # v})

\* What the plan is without the entry of a request that was preempted.
LEMMA FitsLess ==
  ASSUME NEW plan, NEW c, NEW next \in Int, Fits(plan, c, next), NEW d, NEW v \in Elements(c.running),
         c.running \in Seq(Reqs), Distinct(c.running), d.running = Only(c.running, Reqs \ {v}),
         \A r \in Reqs : r # v => d.computed[r] = c.computed[r], NEW less \in Int,
         less > 0 => less = IF Planned(plan, v) # {} THEN next - 1 ELSE next,
         NEW u, Dropped(plan, v, u)
  PROVE  Fits(u, d, less)
<1>1. /\ plan \in Seq(Scheduling) /\ Distinct(plan)
      /\ \A x, y \in Elements(plan) : x.req = y.req => x = y
      /\ \A x \in Elements(plan) :
           /\ x.req \in Elements(c.running) /\ c.computed[x.req] + x.n <= Need(x.req)
           /\ next > 0 => \E k \in 1..Len(c.running) : k < next /\ c.running[k] = x.req
  BY DEF Fits, OneEach
<1>2. PICK s \in Seq(Reqs) : s = c.running
  OBVIOUS
<1>3. PICK l \in Nat : l = Len(s) /\ DOMAIN s = 1..l /\ \A i \in 1..l : s[i] \in Reqs
  OBVIOUS
<1>4. PICK m \in 1..l : s[m] = v
  BY <1>2, <1>3 DEF Elements
<1>5. \A i, j \in 1..l : s[i] = s[j] => i = j
  BY <1>2, <1>3 DEF Distinct
<1>6. Range(plan) = Elements(plan)
  BY <1>1 DEF Range, Elements
<1>7. /\ u \in Seq(Scheduling) /\ Distinct(u)
      /\ Elements(u) = Elements(plan) \cap {e \in Range(plan) : e.req # v}
  BY <1>1, OnlyIs DEF Dropped
<1>8. \A x \in Elements(u) : x \in Elements(plan) /\ x.req # v
  BY <1>7
<1>9. \A x, y \in Elements(u) : x.req = y.req => x = y
  BY <1>1, <1>8
<1>10. Elements(d.running) = Elements(c.running) \cap (Reqs \ {v})
  BY OnlyIs
<1>11. Elements(s) \subseteq Reqs
  BY <1>3 DEF Elements
<1>12. \A i \in 1..l : i # m => \E j \in 1..Len(d.running) :
                                   d.running[j] = s[i] /\ j <= i /\ (m < i => j < i)
  <2>1. Distinct(s) /\ m \in 1..Len(s)
    BY <1>2, <1>3
  <2>2. Moved(s, m, Only(s, Reqs \ {v}))
    BY <1>4, <2>1, OnlyPlaces
  <2>3. Moved(s, m, d.running)
    BY <1>2, <2>2
  <2> QED BY <1>3, <2>3 DEF Moved
<1>13. ASSUME NEW x \in Elements(u)
       PROVE  /\ x.req \in Elements(d.running) /\ d.computed[x.req] + x.n <= Need(x.req)
              /\ less > 0 => \E k \in 1..Len(d.running) : k < less /\ d.running[k] = x.req
  <2>1. x \in Elements(plan) /\ x.req # v /\ x.req \in Elements(c.running)
    BY <1>1, <1>8
  <2>2. x.req \in Reqs
    BY <1>2, <1>11, <2>1
  <2>3. x.req \in Elements(d.running) /\ d.computed[x.req] + x.n <= Need(x.req)
    BY <1>1, <1>10, <2>1, <2>2
  <2>4. ASSUME less > 0 PROVE \E k \in 1..Len(d.running) : k < less /\ d.running[k] = x.req
    <3>1. next > 0
      BY <2>4
    <3>2. PICK i \in 1..l : i < next /\ s[i] = x.req
      BY <1>1, <1>2, <1>3, <2>1, <3>1
    <3>3. i # m
      BY <1>4, <2>1, <3>2
    <3>4. PICK j \in 1..Len(d.running) : d.running[j] = s[i] /\ j <= i /\ (m < i => j < i)
      BY <1>12, <3>3
    <3>5. d.running \in Seq(Reqs)
      BY OnlyIs
    <3>6. j \in Nat
      BY <3>5
    <3>7. CASE Planned(plan, v) # {}
      <4>1. PICK y \in Elements(plan) : y.req = v
        BY <1>1, <3>7 DEF Planned, Elements
      <4>2. PICK k \in 1..l : k < next /\ s[k] = v
        BY <1>1, <1>2, <1>3, <3>1, <4>1
      <4>3. m < next
        BY <1>4, <1>5, <4>2
      <4>4. j < next - 1
        BY <3>2, <3>3, <3>4, <3>6, <4>3
      <4> QED BY <2>4, <3>2, <3>4, <3>7, <4>4
    <3>8. CASE Planned(plan, v) = {}
      <4>1. j < next
        BY <3>2, <3>4, <3>6
      <4> QED BY <2>4, <3>2, <3>4, <3>8, <4>1
    <3> QED BY <3>7, <3>8
  <2> QED BY <2>3, <2>4
<1> QED BY <1>7, <1>9, <1>13 DEF Fits, OneEach

\* A victim leaves the plan and the queue; the position moves with them.
LEMMA DropVictimIs ==
  ASSUME NEW c, NEW Q, NEW s, InStep(c, Q, s), NEW v \in Elements(s.core.running), NEW r
  PROVE  InStep(c, Q, DropVictim(s, v, r))
<1>1. /\ s \in Steps /\ Sound(s.core) /\ Orderly(s.core, Q) /\ Kept(c, s.core, Q)
      /\ Fits(s.plan, s.core, s.next)
  BY DEF InStep
<1>2. /\ StepOf(s, s.core, s.plan, s.budget, s.next, s.preempted)
      /\ s.budget \in Nat /\ s.next \in Int /\ s.preempted \in BOOLEAN
  BY <1>1, StepParts
<1> DEFINE d == Preempt(s.core, v)
           plan == Only(s.plan, {e \in Range(s.plan) : e.req # v})
           next == IF v = r THEN -1 ELSE IF Planned(s.plan, v) # {} THEN s.next - 1 ELSE s.next
           budget == s.budget + TokensOf(s.plan, v)
           t == DropVictim(s, v, r)
<1>3. Preempted(s.core, v, Q, d)
  BY <1>1, PreemptIs
<1>4. budget \in Nat
  <2>1. OneEach(s.plan)
    BY <1>1 DEF Fits
  <2>2. TokensOf(s.plan, v) \in Nat
    BY <2>1, TokensAre
  <2> QED BY <1>2, <2>2
<1>5. next \in Int /\ (next > 0 => next = IF Planned(s.plan, v) # {} THEN s.next - 1 ELSE s.next)
  BY <1>2
<1>6. t = [s EXCEPT !.core = d, !.preempted = TRUE, !.plan = plan, !.budget = budget, !.next = next]
  BY DEF DropVictim, TokensOf
<1> HIDE DEF d, next, budget, t
<1>7. /\ Sound(d) /\ Orderly(d, Q) /\ Kept(s.core, d, Q)
      /\ d.running = Only(s.core.running, Reqs \ {v})
      /\ \A x \in Reqs : x # v => d.computed[x] = s.core.computed[x]
  BY <1>3 DEF Preempted
<1>8. s.core.running \in Seq(Reqs) /\ Distinct(s.core.running)
  BY <1>1, ElementsAre DEF Orderly
<1>13. Dropped(s.plan, v, plan)
  BY DEF Dropped
<1> HIDE DEF plan
<1>9. Fits(plan, d, next)
  BY <1>1, <1>2, <1>5, <1>7, <1>8, <1>13, FitsLess
<1>10. Kept(c, d, Q)
  BY <1>1, <1>7, KeptOn
<1>11. StepOf(t, d, plan, budget, next, TRUE)
  BY <1>2, <1>6 DEF StepOf
<1>12. InStep(c, Q, t)
  BY <1>4, <1>5, <1>7, <1>9, <1>10, <1>11, PartsStep
<1> QED BY <1>12 DEF t

\* The place in the first loop, or the loop, moves on.
LEMMA MovesOn ==
  ASSUME NEW c, NEW Q, NEW s, InStep(c, Q, s), NEW next \in Int,
         next > 0 => next = s.next + 1 /\ s.next > 0
  PROVE  InStep(c, Q, [s EXCEPT !.next = next])
<1>1. /\ s \in Steps /\ Sound(s.core) /\ Orderly(s.core, Q) /\ Kept(c, s.core, Q)
      /\ Fits(s.plan, s.core, s.next)
  BY DEF InStep
<1>2. /\ StepOf(s, s.core, s.plan, s.budget, s.next, s.preempted)
      /\ s.budget \in Nat /\ s.next \in Int /\ s.preempted \in BOOLEAN
  BY <1>1, StepParts
<1> DEFINE t == [s EXCEPT !.next = next]
<1>3. StepOf(t, s.core, s.plan, s.budget, next, s.preempted)
  BY <1>2 DEF StepOf
<1> HIDE DEF t
<1>4. PICK l \in Nat : l = Len(s.core.running)
  <2>1. s.core.running \in Seq(Reqs)
    BY <1>1, ElementsAre
  <2> QED BY <2>1
<1>5. Fits(s.plan, s.core, next)
  <2>1. OneEach(s.plan)
    BY <1>1 DEF Fits
  <2>2. ASSUME NEW e \in Elements(s.plan)
        PROVE  /\ e.req \in Elements(s.core.running)
               /\ s.core.computed[e.req] + e.n <= Need(e.req)
               /\ next > 0 => \E k \in 1..Len(s.core.running) : k < next /\ s.core.running[k] = e.req
    <3>1. /\ e.req \in Elements(s.core.running)
          /\ s.core.computed[e.req] + e.n <= Need(e.req)
          /\ s.next > 0 => \E k \in 1..l : k < s.next /\ s.core.running[k] = e.req
      BY <1>1, <1>4 DEF Fits
    <3>2. ASSUME next > 0 PROVE \E k \in 1..l : k < next /\ s.core.running[k] = e.req
      <4>1. PICK k \in 1..l : k < s.next /\ s.core.running[k] = e.req
        BY <3>1, <3>2
      <4>2. k < next
        BY <1>2, <3>2, <4>1
      <4> QED BY <4>1, <4>2
    <3> QED BY <1>4, <3>1, <3>2
  <2> QED BY <2>1, <2>2 DEF Fits
<1>6. InStep(c, Q, t)
  BY <1>1, <1>2, <1>3, <1>5, PartsStep
<1> QED BY <1>6 DEF t

\* A request joins the plan; the core is d.
LEMMA JoinsPlan ==
  ASSUME NEW c, NEW Q, NEW s, InStep(c, Q, s), NEW d, Sound(d), Orderly(d, Q), Kept(s.core, d, Q),
         NEW r \in Elements(d.running), NEW n \in Nat, n <= s.budget, d.computed[r] + n <= Need(r),
         \A e \in Elements(s.plan) : e.req # r,
         \A e \in Elements(s.plan) : /\ e.req \in Elements(d.running)
                                     /\ d.computed[e.req] = s.core.computed[e.req],
         NEW next \in Int,
         next > 0 => /\ next = s.next + 1 /\ s.next \in 1..Len(d.running)
                     /\ d.running = s.core.running /\ d.running[s.next] = r
  PROVE  InStep(c, Q, [s EXCEPT !.core = d, !.next = next, !.budget = s.budget - n,
                                !.plan = Append(s.plan, [req |-> r, n |-> n])])
<1>1. /\ s \in Steps /\ Sound(s.core) /\ Orderly(s.core, Q) /\ Kept(c, s.core, Q)
      /\ Fits(s.plan, s.core, s.next)
  BY DEF InStep
<1>2. /\ StepOf(s, s.core, s.plan, s.budget, s.next, s.preempted)
      /\ s.budget \in Nat /\ s.next \in Int /\ s.preempted \in BOOLEAN
  BY <1>1, StepParts
<1> DEFINE plan == Append(s.plan, [req |-> r, n |-> n])
           budget == s.budget - n
           t == [s EXCEPT !.core = d, !.next = next, !.budget = s.budget - n, !.plan = plan]
<1>3. d.running \in Seq(Reqs) /\ r \in Reqs
  BY ElementsAre
<1>4. Fits(plan, d, next)
  BY <1>1, <1>2, <1>3, FitsMore
<1>5. budget \in Nat
  BY <1>2
<1> HIDE DEF plan
<1>9. t = [s EXCEPT !.core = d, !.next = next, !.budget = budget, !.plan = plan]
  OBVIOUS
<1> HIDE DEF budget, t
<1>6. StepOf(t, d, plan, budget, next, s.preempted)
  BY <1>2, <1>9 DEF StepOf
<1>7. Kept(c, d, Q)
  BY <1>1, KeptOn
<1>8. InStep(c, Q, t)
  BY <1>2, <1>4, <1>5, <1>6, <1>7, PartsStep
<1> QED BY <1>8 DEF t, plan

\* One turn of the loop over the running requests.
LEMMA ScheduleRunningIs ==
  ASSUME NEW c, NEW Q, NEW s, InStep(c, Q, s), s.next > 0, s.next <= Len(s.core.running)
  PROVE  InStep(c, Q, ScheduleRunning(s))
<1>1. /\ s \in Steps /\ Sound(s.core) /\ Orderly(s.core, Q) /\ Fits(s.plan, s.core, s.next)
  BY DEF InStep
<1>2. s.budget \in Nat /\ s.next \in Int
  BY <1>1, StepParts
<1>3. /\ s.core.running \in Seq(Reqs) /\ s.core.computed \in [Reqs -> Nat]
      /\ s.core.arrived \in Seq(Reqs) /\ Elements(s.core.running) \subseteq Reqs
  BY <1>1, ElementsAre
<1>4. PICK l \in Nat : l = Len(s.core.running)
  BY <1>3
<1>5. s.next \in 1..l
  BY <1>2, <1>4
<1> DEFINE r == s.core.running[s.next]
           n == Chunk(Need(r) - s.core.computed[r], s.budget)
<1>6. r \in Elements(s.core.running)
  BY <1>4, <1>5 DEF Elements
<1> HIDE DEF r
<1>7. PICK need \in Nat, done \in Nat : need = Need(r) /\ done = s.core.computed[r] /\ done <= need
  <2>1. r \in Reqs
    BY <1>3, <1>6
  <2>2. Need(r) \in Nat
    BY <2>1, Sizes DEF Need
  <2>3. s.core.computed[r] \in Nat
    BY <1>3, <2>1
  <2>4. s.core.computed[r] <= Need(r)
    BY <1>1, <2>1 DEF Orderly
  <2> QED BY <2>2, <2>3, <2>4
<1>8. n \in Nat /\ n <= s.budget /\ s.core.computed[r] + n <= Need(r)
  <2>1. PICK left \in Nat : left = need - done
    BY <1>7
  <2>2. Chunk(left, s.budget) \in Nat /\ Chunk(left, s.budget) <= left /\ Chunk(left, s.budget) <= s.budget
    BY <1>2, ChunkIs
  <2>3. n = Chunk(left, s.budget)
    BY <1>7, <2>1
  <2> HIDE DEF n
  <2> QED BY <1>7, <2>1, <2>2, <2>3
<1> HIDE DEF n
<1>9. CASE n = 0
  <2>1. ScheduleRunning(s) = [s EXCEPT !.next = s.next + 1]
    BY <1>9 DEF ScheduleRunning, n, r
  <2>2. PICK next \in Int : next = s.next + 1
    BY <1>2
  <2>3. InStep(c, Q, [s EXCEPT !.next = next])
    BY <2>2, MovesOn
  <2> QED BY <2>1, <2>2, <2>3
<1>10. CASE n # 0 /\ HasRoom(s.core, r, n, NoBlocks)
  <2> DEFINE d == AllocateSlots(s.core, r, n, NoBlocks)
  <2>1. Continued(s.core, Q, d)
    BY <1>1, <1>6, <1>8, <1>10, ContinueIs
  <2>2. ScheduleRunning(s) = [s EXCEPT !.core = d, !.next = s.next + 1, !.budget = s.budget - n,
                                       !.plan = Append(s.plan, [req |-> r, n |-> n])]
    BY <1>10 DEF ScheduleRunning, n, r
  <2> HIDE DEF d
  <2>3. Sound(d) /\ Orderly(d, Q) /\ Kept(s.core, d, Q) /\ Alike(s.core, d)
    BY <2>1 DEF Continued
  <2>4. d.running = s.core.running /\ d.computed = s.core.computed
    BY <2>3 DEF Alike
  <2>5. \A e \in Elements(s.plan) : e.req # r
    <3>1. SUFFICES ASSUME NEW e \in Elements(s.plan), e.req = r PROVE FALSE
      OBVIOUS
    <3>2. PICK k \in 1..l : k < s.next /\ s.core.running[k] = e.req
      BY <1>1, <1>2, <1>4 DEF Fits
    <3>3. Distinct(s.core.running)
      BY <1>1 DEF Orderly
    <3>4. \A i, j \in 1..l : s.core.running[i] = s.core.running[j] => i = j
      BY <1>4, <3>3 DEF Distinct
    <3>5. k = s.next
      BY <1>5, <3>1, <3>2, <3>4 DEF r
    <3> QED BY <1>2, <3>2, <3>5
  <2>6. \A e \in Elements(s.plan) : /\ e.req \in Elements(d.running)
                                    /\ d.computed[e.req] = s.core.computed[e.req]
    BY <1>1, <2>4 DEF Fits
  <2>7. r \in Elements(d.running) /\ d.computed[r] + n <= Need(r)
    BY <1>6, <1>8, <2>4
  <2>8. s.next + 1 \in Int /\ s.next \in 1..Len(d.running) /\ d.running[s.next] = r
    BY <1>2, <1>4, <1>5, <2>4 DEF r
  <2>9. InStep(c, Q, [s EXCEPT !.core = d, !.next = s.next + 1, !.budget = s.budget - n,
                               !.plan = Append(s.plan, [req |-> r, n |-> n])])
    BY <1>8, <2>3, <2>4, <2>5, <2>6, <2>7, <2>8, JoinsPlan
  <2> QED BY <2>2, <2>9
<1>11. CASE n # 0 /\ ~HasRoom(s.core, r, n, NoBlocks)
  <2>1. ScheduleRunning(s) = DropVictim(s, Victim(s.core), r)
    BY <1>11 DEF ScheduleRunning, n, r
  <2>2. s.core.running # <<>> /\ Elements(s.core.running) \subseteq Elements(s.core.arrived)
    <3>1. s.core.running # <<>>
      BY <1>6 DEF Elements
    <3> QED BY <1>1, <3>1 DEF Orderly
  <2>3. Victim(s.core) \in Elements(s.core.running)
    BY <1>3, <2>2, VictimIs
  <2>4. InStep(c, Q, DropVictim(s, Victim(s.core), r))
    BY <2>3, DropVictimIs
  <2> QED BY <2>1, <2>4
<1> QED BY <1>9, <1>10, <1>11

\* One turn of the loop over the waiting requests.
LEMMA ScheduleWaitingIs ==
  ASSUME NEW c, NEW Q, NEW s, InStep(c, Q, s), s.next = 0, s.core.waiting # <<>>
  PROVE  InStep(c, Q, ScheduleWaiting(s))
<1>1. /\ s \in Steps /\ Sound(s.core) /\ Orderly(s.core, Q) /\ Fits(s.plan, s.core, s.next)
  BY DEF InStep
<1>2. s.budget \in Nat
  BY <1>1, StepParts
<1>3. /\ s.core.running \in Seq(Reqs) /\ s.core.waiting \in Seq(Reqs)
      /\ s.core.arrived \in Seq(Reqs) /\ Elements(s.core.waiting) \subseteq Reqs
      /\ Elements(s.core.running) \subseteq Reqs
  BY <1>1, ElementsAre
<1> DEFINE r == FirstWaiting(s.core)
           hits == GetComputedBlocks(s.core, r)
           h == Len(hits[1]) * BlockSize
           n == Chunk(Need(r) - h, s.budget)
<1>4. r \in Elements(s.core.waiting)
  <2>1. Elements(s.core.waiting) \subseteq Elements(s.core.arrived)
    BY <1>1 DEF Orderly
  <2> QED BY <1>3, <2>1, FirstWaitingIs
<1> HIDE DEF r
<1>5. r \in Reqs /\ r \notin Elements(s.core.running)
  BY <1>1, <1>3, <1>4 DEF Orderly
<1>6. PICK len \in Nat : /\ AreHits(s.core, hits, len)
                         /\ len * BlockSize \in Nat /\ len * BlockSize < Need(r)
  BY <1>1, <1>5, HitsAre
<1> HIDE DEF hits
<1>7. h = len * BlockSize /\ h \in Nat
  <2>1. Len(hits[1]) = len
    BY <1>6, SizesAre DEF AreHits
  <2> QED BY <1>6, <2>1
<1> HIDE DEF h
<1>8. PICK need \in Nat : need = Need(r)
  BY <1>5, Sizes DEF Need
<1>9. n \in Nat /\ n <= s.budget /\ h + n <= Need(r)
  <2>1. PICK left \in Nat : left = need - h
    BY <1>6, <1>7, <1>8
  <2>2. Chunk(left, s.budget) \in Nat /\ Chunk(left, s.budget) <= left /\ Chunk(left, s.budget) <= s.budget
    BY <1>2, ChunkIs
  <2>3. n = Chunk(left, s.budget)
    BY <1>8, <2>1
  <2> HIDE DEF n
  <2> QED BY <1>7, <1>8, <2>1, <2>2, <2>3
<1> HIDE DEF n
<1>10. CASE ~HasRoom(s.core, r, n, hits)
  <2>1. ScheduleWaiting(s) = [s EXCEPT !.next = -1]
    BY <1>10 DEF ScheduleWaiting, r, hits, h, n
  <2>2. PICK next \in Int : next = -1 /\ ~(next > 0)
    OBVIOUS
  <2>3. InStep(c, Q, [s EXCEPT !.next = next])
    BY <2>2, MovesOn
  <2> QED BY <2>1, <2>2, <2>3
<1>11. CASE HasRoom(s.core, r, n, hits)
  <2> DEFINE d == Admit(s.core, r, h, n, hits)
  <2>1. Admitted(s.core, r, h, Q, d)
    BY <1>1, <1>4, <1>6, <1>7, <1>9, <1>11, AdmitIs
  <2>2. ScheduleWaiting(s) = [s EXCEPT !.core = d, !.budget = s.budget - n,
                                       !.plan = Append(s.plan, [req |-> r, n |-> n])]
    BY <1>11 DEF ScheduleWaiting, Admit, r, hits, h, n
  <2> HIDE DEF d
  <2>3. /\ Sound(d) /\ Orderly(d, Q) /\ Kept(s.core, d, Q) /\ d.running = Append(s.core.running, r)
        /\ \A x \in Reqs : d.computed[x] = IF x = r THEN h ELSE s.core.computed[x]
    BY <2>1 DEF Admitted
  <2>4. Elements(d.running) = Elements(s.core.running) \cup {r}
    BY <1>3, <1>5, <2>3, AppendIs DEF Appended
  <2>5. \A e \in Elements(s.plan) : e.req \in Elements(s.core.running)
    BY <1>1 DEF Fits
  <2>6. \A e \in Elements(s.plan) : e.req # r
    BY <1>5, <2>5
  <2>7. \A e \in Elements(s.plan) : /\ e.req \in Elements(d.running)
                                    /\ d.computed[e.req] = s.core.computed[e.req]
    BY <1>3, <2>3, <2>4, <2>5, <2>6
  <2>8. r \in Elements(d.running) /\ d.computed[r] + n <= Need(r)
    BY <1>5, <1>9, <2>3, <2>4
  <2>11. PICK next \in Int : next = 0 /\ ~(next > 0)
    OBVIOUS
  <2>9. InStep(c, Q, [s EXCEPT !.core = d, !.next = next, !.budget = s.budget - n,
                               !.plan = Append(s.plan, [req |-> r, n |-> n])])
    BY <1>9, <2>3, <2>6, <2>7, <2>8, <2>11, JoinsPlan
  <2>10. [s EXCEPT !.core = d, !.budget = s.budget - n, !.plan = Append(s.plan, [req |-> r, n |-> n])]
         = [s EXCEPT !.core = d, !.next = 0, !.budget = s.budget - n,
                     !.plan = Append(s.plan, [req |-> r, n |-> n])]
    BY <1>1, StepParts DEF StepOf
  <2> QED BY <2>2, <2>9, <2>10, <2>11
<1> QED BY <1>10, <1>11

\* Every iteration of the two loops keeps a step in order.
LEMMA AdvanceIs ==
  ASSUME NEW c, NEW Q, NEW s, InStep(c, Q, s)
  PROVE  InStep(c, Q, Advance(s))
<1>1. s.next \in Int
  BY StepParts DEF InStep
<1>2. CASE s.next > 0 /\ s.next <= Len(s.core.running) /\ s.budget > 0
  <2>1. Advance(s) = ScheduleRunning(s)
    BY <1>2 DEF Advance
  <2> QED BY <1>2, <2>1, ScheduleRunningIs
<1>3. CASE s.next > 0 /\ ~(s.next <= Len(s.core.running) /\ s.budget > 0)
  <2> DEFINE next == IF s.preempted THEN -1 ELSE 0
  <2>1. Advance(s) = [s EXCEPT !.next = next]
    BY <1>3 DEF Advance
  <2>2. next \in Int /\ ~(next > 0)
    OBVIOUS
  <2> HIDE DEF next
  <2>3. InStep(c, Q, [s EXCEPT !.next = next])
    BY <2>2, MovesOn
  <2> QED BY <2>1, <2>3
<1>4. CASE s.next = 0 /\ s.core.waiting # <<>> /\ s.budget > 0
  <2>1. Advance(s) = ScheduleWaiting(s)
    BY <1>4 DEF Advance
  <2> QED BY <1>4, <2>1, ScheduleWaitingIs
<1>5. CASE ~(s.next > 0) /\ ~(s.next = 0 /\ s.core.waiting # <<>> /\ s.budget > 0)
  <2>1. Advance(s) = s
    BY <1>5 DEF Advance
  <2> QED BY <2>1
<1> QED BY <1>1, <1>2, <1>3, <1>4, <1>5

FirstOf(c) == [core |-> c, plan |-> <<>>, budget |-> Budget, next |-> 1, preempted |-> FALSE]
Turns   == [i \in 1..Iterations |-> i]
Loop(c) == FoldLeft(LAMBDA s, i : Advance(s), FirstOf(c), Turns)

LEMMA LoopUnfolds == Scheduled = Loop(core)
BY DEF Scheduled, Loop, FirstOf, Turns

IsLoop(c, g) ==
  g = [I \in SUBSET DOMAIN Turns |->
         IF I = {} THEN FirstOf(c)
         ELSE Advance(g[I \ {Max(I)}])]

LEMMA LoopUnfolded ==
  ASSUME NEW c
  PROVE  Loop(c) = (CHOOSE g : IsLoop(c, g))[DOMAIN Turns]
BY DEF Loop, FoldLeft, MapThenFoldSet, IsLoop

\* What every turn of the loops keeps holds in the end.
LEMMA LoopRuns ==
  ASSUME NEW c, NEW n, NEW V, n \in Nat, DOMAIN Turns = 1..n, FirstOf(c) \in V[{}],
         \A I \in SUBSET (1..n) : I # {} =>
           \A v \in V[I \ {Max(I)}] : Advance(v) \in V[I]
  PROVE  Loop(c) \in V[1..n]
<1> DEFINE U == UNION {V[I] : I \in SUBSET (1..n)}
           step == [I \in SUBSET (1..n) |-> [v \in U |-> Advance(v)]]
<1>1. ASSUME NEW I \in SUBSET (1..n), I # {}, NEW v \in V[I \ {Max(I)}]
      PROVE  step[I][v] = Advance(v)
  <2>1. I \ {Max(I)} \in SUBSET (1..n)
    OBVIOUS
  <2>2. v \in U
    BY <2>1, <1>1
  <2> QED BY <2>2
<1> HIDE DEF step
<1>2. Advances(n, V, FirstOf(c), step)
  BY <1>1 DEF Advances
<1>3. PICK g : FoldStates(n, V, FirstOf(c), step, g)
  BY <1>2, FoldHasStates
<1>4. IsLoop(c, g)
  <2>1. ASSUME NEW I \in SUBSET (1..n), I # {}
        PROVE  g[I] = Advance(g[I \ {Max(I)}])
    <3>1. g[I \ {Max(I)}] \in V[I \ {Max(I)}] /\ g[I] = step[I][g[I \ {Max(I)}]]
      BY <1>3, <2>1 DEF FoldStates
    <3> QED BY <1>1, <2>1, <3>1
  <2>2. g = [I \in SUBSET (1..n) |-> IF I = {} THEN FirstOf(c)
                ELSE Advance(g[I \ {Max(I)}])]
    BY <1>3, <2>1 DEF FoldStates
  <2> QED BY <2>2 DEF IsLoop
<1> DEFINE h == CHOOSE h : IsLoop(c, h)
<1>5. IsLoop(c, h)
  BY <1>4
<1> HIDE DEF h
<1>6. h = [I \in SUBSET (1..n) |-> IF I = {} THEN FirstOf(c)
             ELSE Advance(h[I \ {Max(I)}])]
  BY <1>5 DEF IsLoop
<1>7. h[{}] = FirstOf(c)
  BY <1>6
<1>8. ASSUME NEW I \in SUBSET (1..n), I # {}, h[I \ {Max(I)}] \in V[I \ {Max(I)}]
      PROVE  h[I] = step[I][h[I \ {Max(I)}]]
  <2>1. h[I] = Advance(h[I \ {Max(I)}])
    BY <1>6, <1>8
  <2> QED BY <1>1, <1>8, <2>1
<1>9. FoldGoes(n, V, FirstOf(c), step, h)
  BY <1>7, <1>8 DEF FoldGoes
<1>10. h[1..n] \in V[1..n]
  <2>1. 1..n \in SUBSET (1..n)
    OBVIOUS
  <2> QED BY <1>2, <1>9, <2>1, FoldReaches
<1> QED BY <1>10, LoopUnfolded DEF h
\* The whole of schedule().
LEMMA ScheduledIs ==
  ASSUME NEW c, NEW Q, Sound(c), Orderly(c, Q)
  PROVE  InStep(c, Q, Loop(c))
<1>1. PICK n \in Nat : n = Iterations /\ DOMAIN Turns = 1..n
  <2>1. IsFiniteSet(Reqs)
    BY SizesAre
  <2>2. PICK k \in Nat : k = Cardinality(Reqs)
    BY <2>1, FS_CardinalityType
  <2>3. 3 * k + 2 \in Nat
    OBVIOUS
  <2> QED BY <2>2, <2>3 DEF Iterations, Turns
<1> DEFINE W == {s \in Steps : InStep(c, Q, s)}
           V == [I \in SUBSET (1..n) |-> W]
<1>2. InStep(c, Q, FirstOf(c))
  <2> DEFINE s == FirstOf(c)
  <2>1. PICK b \in Nat : b = Budget
    BY Sizes
  <2>6. PICK plan : plan = << >>
    OBVIOUS
  <2>7. PICK one \in Int : one = 1
    OBVIOUS
  <2>8. PICK no \in BOOLEAN : no = FALSE
    OBVIOUS
  <2>2. StepOf(s, c, plan, b, one, no)
    BY <2>1, <2>6, <2>7, <2>8 DEF StepOf, FirstOf
  <2> HIDE DEF s
  <2>3. Fits(plan, c, one)
    <3>1. /\ << >> \in Seq(Scheduling) /\ Distinct(<< >>)
          /\ \A e \in Elements(<< >>) : FALSE
      BY DEF Distinct, Elements
    <3> QED BY <2>6, <3>1 DEF Fits, OneEach
  <2>4. Kept(c, c, Q)
    BY DEF Kept
  <2>5. InStep(c, Q, s)
    BY <2>1, <2>2, <2>3, <2>4, PartsStep
  <2> QED BY <2>5 DEF s
<1>3. FirstOf(c) \in V[{}]
  <2>1. {} \in SUBSET (1..n)
    OBVIOUS
  <2> QED BY <1>2, <2>1 DEF InStep
<1>4. ASSUME NEW I \in SUBSET (1..n), I # {}, NEW s \in V[I \ {Max(I)}]
      PROVE  Advance(s) \in V[I]
  <2>1. I \ {Max(I)} \in SUBSET (1..n)
    OBVIOUS
  <2>2. InStep(c, Q, s)
    BY <1>4, <2>1
  <2>3. InStep(c, Q, Advance(s))
    BY <2>2, AdvanceIs
  <2> QED BY <2>3 DEF InStep
<1> HIDE DEF V
<1>5. Loop(c) \in V[1..n]
  BY <1>1, <1>3, <1>4, LoopRuns
<1>6. 1..n \in SUBSET (1..n)
  OBVIOUS
<1> QED BY <1>5, <1>6 DEF V

-----------------------------------------------------------------------------
(* The invariant.                                                          *)

States  == Unfinished \cup {"new", "done", "aborted", "gone"}
Entries == [req : Reqs, from : Nat, to : Nat, table : [1..Groups -> Seq(Usable)]]
Queued(st) == {r \in Reqs : st[r] \in Unfinished}

\* The requests are in the queues that their status says, and one that has not
\* arrived holds nothing.
Placed(c, st) ==
  /\ Orderly(c, Queued(st))
  /\ Elements(c.running) = {r \in Reqs : st[r] = "running"}
  /\ Elements(c.waiting) = {r \in Reqs : st[r] \in {"waiting", "preempted"}}
  /\ \A r \in Reqs : st[r] = "new" => Idle(c, r)

\* The steps in flight are at most Depth.
InFlight(s, e) == /\ s \in Seq(Seq(Entries)) /\ e \in Seq(Seq(Entries))
                  /\ Len(s) + Len(e) <= Depth

\* The inductive invariant: tables and pool agree (Sound), queues and statuses
\* agree (Placed).
IInv ==
  /\ status \in [Reqs -> States] /\ Sound(core) /\ Placed(core, status)
  /\ InFlight(sent, executed)

\* The views that requests, free list and cache have of the blocks, of any core.
LEMMA SoundIsConsistent ==
  ASSUME Sound(core)
  PROVE  FreeListIsUnheld /\ CacheIsConsistent /\ PoolNeverFails
<1> DEFINE t == Flat(core.table)
           m == Marks(core.cached)
<1>1. Consistent(Pool, t, m)
  BY DEF Sound, Pool
<1>2. core.table \in Tables /\ core.cached \in [Reqs -> Nat]
  BY ElementsAre
<1>4. \A c \in Cells : t[c] = core.table[c[1]][c[2]]
  BY DEF Flat
<1> HIDE DEF t, m
<1>5. FreeListIsUnheld
  <2> DEFINE list == FirstBlocks(Pool.queue, FreeCount(Pool))
  <2>1. Lists(Pool.queue, Unheld(Pool), Blocks)
    BY <1>1 DEF Consistent
  <2>2. Represents(Pool.queue, list) /\ Elements(list) = Unheld(Pool) /\ list \in Seq(Blocks)
    BY <2>1, ListsAre DEF FreeCount
  <2> HIDE DEF list
  <2>3. ASSUME NEW b \in Usable
        PROVE  /\ Pool.ref[b] = Cardinality({c \in Reqs \X (1..Groups) : Holds(c[1], c[2], b)})
               /\ Contains(list, b) <=> Pool.ref[b] = 0
    <3>1. HeldIn(t, b) = {c \in Reqs \X (1..Groups) : Holds(c[1], c[2], b)}
      <4>1. ASSUME NEW c \in Cells PROVE b \in Elements(t[c]) <=> Holds(c[1], c[2], b)
        <5>1. t[c] = core.table[c[1]][c[2]]
          BY <1>4
        <5>2. PICK s \in Seq(Usable) : s = t[c]
          BY <1>1, ConsistentBlocks
        <5>3. b \in Elements(s) <=> Contains(s, b)
          BY DEF Elements, Contains
        <5> QED BY <5>1, <5>2, <5>3 DEF Holds
      <4> QED BY <4>1 DEF HeldIn, Cells
    <3>2. Pool.ref[b] = Cardinality(HeldIn(t, b))
      BY <1>1 DEF Consistent
    <3>3. Contains(list, b) <=> b \in Elements(list)
      BY <2>2 DEF Elements, Contains
    <3>4. b \in Unheld(Pool) <=> Pool.ref[b] = 0
      BY DEF Unheld
    <3> QED BY <2>2, <3>1, <3>2, <3>3, <3>4
  <2> QED BY <2>2, <2>3 DEF FreeListIsUnheld, list
<1>6. CacheIsConsistent
  <2>1. /\ Pool.cached \in Caches(Blocks, Keys) /\ CacheAgrees(Pool.hash, Pool.cached, Blocks)
    BY <1>1, PoolParts DEF Consistent
  <2>2. \A k \in DOMAIN Pool.cached : Pool.cached[k] \in Seq(Blocks)
    BY <2>1, CacheParts
  <2>3. \A k \in DOMAIN Pool.cached : \A b : Contains(Pool.cached[k], b) <=> b \in Elements(Pool.cached[k])
    BY <2>2 DEF Elements, Contains
  <2>4. /\ \A b \in Blocks : Pool.hash[b] # NoKey => /\ Pool.hash[b] \in DOMAIN Pool.cached
                                                     /\ b \in Elements(Pool.cached[Pool.hash[b]])
        /\ \A k \in DOMAIN Pool.cached : \A b \in Elements(Pool.cached[k]) : Pool.hash[b] = k
    BY <2>1 DEF CacheAgrees
  <2>5. Blocks = Usable \cup {NullBlock}
    BY SizesAre
  <2> QED BY <2>3, <2>4, <2>5 DEF CacheIsConsistent
<1>7. PoolNeverFails
  BY <1>1 DEF Consistent, PoolNeverFails
<1> QED BY <1>5, <1>6, <1>7

\* The invariant implies the property.
LEMMA InvIsConsistent ==
  ASSUME IInv
  PROVE  PoolIsConsistent
<1>1. /\ status \in [Reqs -> States] /\ Sound(core) /\ Placed(core, status)
      /\ InFlight(sent, executed)
  BY DEF IInv
<1>2. /\ core.running \in Seq(Reqs) /\ core.waiting \in Seq(Reqs) /\ core.computed \in [Reqs -> Nat]
      /\ core.cached \in [Reqs -> Nat] /\ core.table \in Tables
  BY <1>1, ElementsAre
<1>3. \A s \in Seq(Reqs) : Range(s) = Elements(s)
  BY DEF Range, Elements
<1>4. ASSUME NEW r \in Reqs
      PROVE  /\ core.computed[r] \in 0..Need(r)
             /\ core.cached[r] <= Len(core.table[r][1])
             /\ \A g \in 1..Groups : Range(core.table[r][g]) \subseteq Usable
  <2>1. core.computed[r] \in 0..Need(r)
    <3>1. Need(r) \in Nat /\ core.computed[r] \in Nat
      BY <1>2, Sizes DEF Need
    <3>2. core.computed[r] <= Need(r)
      BY <1>1 DEF Placed, Orderly
    <3> QED BY <3>1, <3>2
  <2>2. 1 \in 1..Groups
    BY SizesAre
  <2>3. core.cached[r] <= Len(core.table[r][1])
    BY <1>1, <2>2 DEF Sound
  <2>4. ASSUME NEW g \in 1..Groups PROVE Range(core.table[r][g]) \subseteq Usable
    <3>1. PICK s \in Seq(Usable) : s = core.table[r][g]
      BY <1>2 DEF Tables
    <3>2. DOMAIN s = 1..Len(s) /\ \A i \in 1..Len(s) : s[i] \in Usable
      OBVIOUS
    <3>3. Range(s) \subseteq Usable
      BY <3>2 DEF Range
    <3> QED BY <3>1, <3>3
  <2> QED BY <2>1, <2>3, <2>4
<1>5. TypeOK
  <2>1. Range(core.running) = {r \in Reqs : status[r] = "running"}
    BY <1>1, <1>2, <1>3 DEF Placed
  <2>2. Range(core.waiting) = {r \in Reqs : status[r] \in {"waiting", "preempted"}}
    BY <1>1, <1>2, <1>3 DEF Placed
  <2>3. Pool.ref[NullBlock] = 0
    BY <1>1 DEF Sound, Consistent, Pool
  <2>4. Len(sent) + Len(executed) <= Depth
    BY <1>1 DEF InFlight
  <2> QED BY <1>1, <1>4, <2>1, <2>2, <2>3, <2>4 DEF TypeOK, States
<1> QED BY <1>1, <1>5, SoundIsConsistent DEF PoolIsConsistent

-----------------------------------------------------------------------------
(* The steps of the specification.                                         *)

\* The queues and the tokens change.
Reordered(c, computed, a, b, e, d) ==
  /\ Sound(d) /\ d.table = c.table /\ d.cached = c.cached /\ d.computed = computed
  /\ d.running = a /\ d.waiting = b /\ d.arrived = e

LEMMA ReorderedIs ==
  ASSUME NEW c, Sound(c), NEW d, NEW computed \in [Reqs -> Nat], NEW a \in Seq(Reqs),
         NEW b \in Seq(Reqs), NEW e \in Seq(Reqs),
         d = [c EXCEPT !.computed = computed, !.running = a, !.waiting = b, !.arrived = e]
  PROVE  Reordered(c, computed, a, b, e, d)
<1>1. c \in Cores
  BY DEF Sound
<1>2. /\ CoreOf(c, c.pool, c.computed, c.table, c.cached, c.running, c.waiting, c.arrived)
      /\ c.pool \in Pools(Blocks, Keys) /\ c.table \in Tables /\ c.cached \in [Reqs -> Nat]
  BY <1>1, CoreParts
<1>3. CoreOf(d, c.pool, computed, c.table, c.cached, a, b, e)
  BY <1>2 DEF CoreOf
<1>4. CoreHas(d, c.pool, computed, c.table, c.cached, a, b, e)
  BY <1>2, <1>3, PartsCore
<1> QED BY <1>4 DEF Reordered, Sound, CoreHas

\* A new pool, and no tables.
LEMMA NewPoolHolds ==
  ASSUME NEW table, NEW cached, table = [r \in Reqs |-> NoBlocks], cached = [r \in Reqs |-> 0]
  PROVE  /\ table \in Tables /\ cached \in [Reqs -> Nat]
         /\ Consistent(NewPool(NumBlocks), Flat(table), Marks(cached))
<1> DEFINE p == NewPool(NumBlocks)
           t == Flat(table)
           m == Marks(cached)
<1>1. NoBlocks \in [1..Groups -> Seq(Usable)] /\ \A g \in 1..Groups : NoBlocks[g] = <<>>
  BY DEF NoBlocks
<1>2. table \in Tables /\ cached \in [Reqs -> Nat]
  BY <1>1 DEF Tables
<1>3. t \in [Cells -> Seq(Usable)] /\ m \in [Cells -> SUBSET Nat]
  BY <1>2, FlatIs
<1>4. \A c \in Cells : t[c] = << >>
  <2>1. \A c \in Cells : t[c] = table[c[1]][c[2]]
    BY DEF Flat
  <2>2. \A c \in Cells : c[1] \in Reqs /\ c[2] \in 1..Groups
    BY DEF Cells
  <2> HIDE DEF t
  <2> QED BY <1>1, <2>1, <2>2
<1> HIDE DEF t, m
<1>5. NewPoolOf(p, NumBlocks, Keys)
  BY SizesAre, NewPoolIs
<1> HIDE DEF p
<1>6. /\ p \in Pools(Blocks, Keys) /\ Lists(p.queue, Usable, Blocks) /\ p.failed = FALSE
      /\ \A b \in Blocks : p.ref[b] = 0 /\ p.hash[b] = NoKey
  BY <1>5 DEF NewPoolOf, Blocks, Usable
<1>7. \A b \in Usable : b \in Blocks
  BY SizesAre
<1>8. Unheld(p) = Usable
  BY <1>6, <1>7 DEF Unheld
<1>9. \A c \in Cells : Elements(t[c]) = {} /\ Len(t[c]) = 0 /\ Distinct(t[c])
  BY <1>4 DEF Elements, Distinct
<1>10. \A b \in Usable : p.ref[b] = Cardinality(HeldIn(t, b))
  <2>1. \A b : HeldIn(t, b) = {}
    BY <1>9 DEF HeldIn
  <2> QED BY <1>6, <1>7, <2>1, FS_EmptySet
<1>11. \A c \in Cells : \A i \in 1..Len(t[c]) : p.hash[t[c][i]] # NoKey <=> i \in m[c]
  <2>1. \A c \in Cells : 1..Len(t[c]) = {}
    BY <1>9
  <2> QED BY <2>1
<1>12. \A c, d \in Cells : \A b \in Usable :
         c # d /\ b \in Elements(t[c]) /\ b \in Elements(t[d]) => p.hash[b] # NoKey
  BY <1>9
<1>13. p.ref[NullBlock] = 0 /\ p.hash[NullBlock] = NoKey
  BY <1>6, SizesAre
<1>14. Consistent(p, t, m)
  BY <1>3, <1>6, <1>8, <1>9, <1>10, <1>11, <1>12, <1>13 DEF Consistent
<1> QED BY <1>2, <1>14 DEF p, t, m

\* The invariant holds at first.
LEMMA InvInitially ==
  ASSUME Init
  PROVE  IInv
<1> DEFINE table == [r \in Reqs |-> NoBlocks]
           zeros == [r \in Reqs |-> 0]
<1>1. /\ table \in Tables /\ zeros \in [Reqs -> Nat]
      /\ Consistent(NewPool(NumBlocks), Flat(table), Marks(zeros))
  BY NewPoolHolds
<1>2. CoreOf(core, NewPool(NumBlocks), zeros, table, zeros, <<>>, <<>>, <<>>)
  BY DEF Init, CoreOf
<1>3. \A r \in Reqs : table[r] = NoBlocks /\ zeros[r] = 0
  OBVIOUS
<1> HIDE DEF table, zeros
<1>4. NewPool(NumBlocks) \in Pools(Blocks, Keys)
  BY <1>1 DEF Consistent
<1>5. PICK none \in Seq(Reqs) : none = << >>
  <2>1. << >> \in Seq(Reqs)
    OBVIOUS
  <2> QED BY <2>1
<1>6. CoreHas(core, NewPool(NumBlocks), zeros, table, zeros, none, none, none)
  BY <1>1, <1>2, <1>4, <1>5, PartsCore
<1>7. /\ core \in Cores /\ core.pool = NewPool(NumBlocks) /\ core.computed = zeros
      /\ core.table = table /\ core.cached = zeros /\ core.running = << >>
      /\ core.waiting = << >> /\ core.arrived = << >>
  BY <1>5, <1>6 DEF CoreHas
<1>8. Sound(core)
  <2>1. \A g \in 1..Groups : Len(NoBlocks[g]) = 0
    BY DEF NoBlocks
  <2>2. \A r \in Reqs, g \in 1..Groups : core.cached[r] <= Len(core.table[r][g])
    BY <1>3, <1>7, <2>1
  <2> QED BY <1>1, <1>7, <2>2 DEF Sound
<1>9. status = [r \in Reqs |-> "new"]
  BY DEF Init
<1>10. Placed(core, status)
  <2>1. Queued(status) = {}
    BY <1>9 DEF Queued, Unfinished
  <2>2. Elements(<< >>) = {} /\ Distinct(<< >>)
    BY DEF Elements, Distinct
  <2>3. \A r \in Reqs : core.computed[r] <= Need(r) /\ Idle(core, r)
    <3>1. \A r \in Reqs : Need(r) \in Nat
      BY Sizes DEF Need
    <3> QED BY <1>3, <1>7, <3>1 DEF Idle
  <2>4. Orderly(core, {})
    BY <1>7, <2>2, <2>3 DEF Orderly
  <2>5. /\ {r \in Reqs : status[r] = "running"} = {}
        /\ {r \in Reqs : status[r] \in {"waiting", "preempted"}} = {}
    BY <1>9
  <2> QED BY <1>7, <2>1, <2>2, <2>3, <2>4, <2>5 DEF Placed
<1>11. InFlight(sent, executed)
  BY Sizes DEF Init, InFlight
<1>12. status \in [Reqs -> States]
  BY <1>9 DEF States
<1> QED BY <1>8, <1>10, <1>11, <1>12 DEF IInv

\* The worker executes a step: it fills blocks and changes none of the scheduler.
LEMMA ExecuteKeeps ==
  ASSUME IInv, Execute
  PROVE  IInv'
<1>1. core' = core /\ status' = status
  BY DEF Execute
<1>2. PICK s \in Seq(Seq(Entries)), e \in Seq(Seq(Entries)) :
        s = sent /\ e = executed /\ s # << >>
  BY DEF IInv, InFlight, Execute
<1>3. Len(s) + Len(e) <= Depth
  BY <1>2 DEF IInv, InFlight
<1>4. /\ Tail(s) \in Seq(Seq(Entries)) /\ Append(e, Head(s)) \in Seq(Seq(Entries))
      /\ Len(Tail(s)) = Len(s) - 1 /\ Len(Append(e, Head(s))) = Len(e) + 1
  BY <1>2
<1>5. Len(s) \in Nat /\ Len(e) \in Nat /\ Depth \in Nat
  BY Sizes
<1>6. InFlight(Tail(s), Append(e, Head(s)))
  BY <1>3, <1>4, <1>5 DEF InFlight
<1>7. InFlight(sent', executed')
  BY <1>2, <1>6 DEF Execute
<1> QED BY <1>1, <1>7 DEF IInv

\* A request arrives.
LEMMA ArriveKeeps ==
  ASSUME IInv, NEW r \in Reqs, Arrive(r)
  PROVE  IInv'
<1> DEFINE b == Append(core.waiting, r)
           e == Append(core.arrived, r)
<1>1. /\ status \in [Reqs -> States] /\ Sound(core) /\ Placed(core, status)
      /\ InFlight(sent, executed)
  BY DEF IInv
<1>2. /\ core.running \in Seq(Reqs) /\ core.waiting \in Seq(Reqs) /\ core.arrived \in Seq(Reqs)
      /\ core.computed \in [Reqs -> Nat]
  BY <1>1, ElementsAre
<1>3. core' = [core EXCEPT !.computed = core.computed, !.running = core.running, !.waiting = b, !.arrived = e]
  <2>1. core' = [core EXCEPT !.waiting = b, !.arrived = e]
    BY DEF Arrive
  <2>2. CoreOf(core, core.pool, core.computed, core.table, core.cached, core.running,
               core.waiting, core.arrived)
    BY <1>1, CoreParts DEF Sound
  <2> HIDE DEF b, e
  <2> QED BY <2>1, <2>2 DEF CoreOf
<1>4. Appended(Reqs, core.waiting, r, b) /\ Appended(Reqs, core.arrived, r, e)
  BY <1>2, AppendIs
<1> HIDE DEF b, e
<1>5. /\ b \in Seq(Reqs) /\ Elements(b) = Elements(core.waiting) \cup {r}
      /\ Distinct(core.waiting) /\ r \notin Elements(core.waiting) => Distinct(b)
      /\ e \in Seq(Reqs) /\ Elements(e) = Elements(core.arrived) \cup {r}
  BY <1>4 DEF Appended
<1>6. Reordered(core, core.computed, core.running, b, e, core')
  BY <1>1, <1>2, <1>3, <1>5, ReorderedIs
<1>7. /\ Sound(core') /\ core'.table = core.table /\ core'.cached = core.cached
      /\ core'.computed = core.computed /\ core'.running = core.running
      /\ core'.waiting = b /\ core'.arrived = e
  BY <1>6 DEF Reordered
<1>8. /\ status[r] = "new" /\ status' = [status EXCEPT ![r] = "waiting"]
      /\ sent' = sent /\ executed' = executed
  BY DEF Arrive
<1>9. /\ status' \in [Reqs -> States] /\ status'[r] = "waiting"
      /\ \A x \in Reqs : x # r => status'[x] = status[x]
  BY <1>1, <1>8 DEF States, Unfinished
<1>10. Placed(core', status')
  <2>1. /\ Orderly(core, Queued(status))
        /\ Elements(core.running) = {x \in Reqs : status[x] = "running"}
        /\ Elements(core.waiting) = {x \in Reqs : status[x] \in {"waiting", "preempted"}}
        /\ \A x \in Reqs : status[x] = "new" => Idle(core, x)
    BY <1>1 DEF Placed
  <2>2. Queued(status') = Queued(status) \cup {r}
    BY <1>9 DEF Queued, Unfinished
  <2>3. /\ Elements(core.running) = {x \in Reqs : status'[x] = "running"}
        /\ Elements(b) = {x \in Reqs : status'[x] \in {"waiting", "preempted"}}
    BY <1>5, <1>8, <1>9, <2>1
  <2>4. \A x \in Reqs : Idle(core, x) <=> Idle(core', x)
    BY <1>7 DEF Idle
  <2>5. \A x \in Reqs : status'[x] = "new" => Idle(core', x)
    BY <1>8, <1>9, <2>1, <2>4
  <2>6. Orderly(core', Queued(status'))
    <3>1. Distinct(core.running) /\ Distinct(b)
      BY <1>5, <1>8, <2>1 DEF Orderly
    <3>2. Elements(core.running) \cap Elements(b) = {}
      BY <1>8, <2>1, <2>3
    <3>3. Elements(core.running) \cup Elements(b) = Queued(status')
      BY <1>5, <2>1, <2>2 DEF Orderly
    <3>4. Queued(status') \subseteq Elements(e)
      BY <1>5, <2>1, <2>2 DEF Orderly
    <3>5. \A x \in Elements(b) : Idle(core', x)
      <4>1. \A x \in Elements(core.waiting) : x \in Reqs /\ Idle(core, x)
        BY <2>1 DEF Orderly
      <4> QED BY <1>5, <1>8, <2>1, <2>4, <4>1
    <3>6. \A x \in Reqs : core.computed[x] <= Need(x)
      BY <2>1 DEF Orderly
    <3> QED BY <1>7, <3>1, <3>2, <3>3, <3>4, <3>5, <3>6 DEF Orderly
  <2> QED BY <1>7, <2>3, <2>5, <2>6 DEF Placed
<1> QED BY <1>1, <1>7, <1>8, <1>9, <1>10 DEF IInv

\* Requests leave the queues, and their statuses say so.
LEMMA PlacedLess ==
  ASSUME NEW c, NEW st, Sound(c), Placed(c, st), NEW a, NEW b, NEW d, NEW sd,
         Reordered(c, c.computed, a, b, c.arrived, d),
         Elements(a) = {r \in Reqs : sd[r] = "running"},
         Elements(b) = {r \in Reqs : sd[r] \in {"waiting", "preempted"}},
         Elements(a) \subseteq Elements(c.running), Elements(b) \subseteq Elements(c.waiting),
         \A r \in Reqs : sd[r] = "new" => st[r] = "new",
         Distinct(c.running) => Distinct(a), Distinct(c.waiting) => Distinct(b)
  PROVE  Placed(d, sd)
<1>1. /\ d.table = c.table /\ d.cached = c.cached /\ d.computed = c.computed
      /\ d.running = a /\ d.waiting = b /\ d.arrived = c.arrived
  BY DEF Reordered
<1>2. /\ Orderly(c, Queued(st)) /\ \A r \in Reqs : st[r] = "new" => Idle(c, r)
  BY DEF Placed
<1>3. \A r : Idle(c, r) <=> Idle(d, r)
  BY <1>1 DEF Idle
<1>4. Queued(sd) = Elements(a) \cup Elements(b)
  BY DEF Queued, Unfinished
<1>5. /\ Distinct(c.running) /\ Distinct(c.waiting)
      /\ Elements(c.running) \cap Elements(c.waiting) = {}
      /\ Elements(c.running) \cup Elements(c.waiting) \subseteq Elements(c.arrived)
      /\ \A r \in Elements(c.waiting) : Idle(c, r)
      /\ \A r \in Reqs : c.computed[r] <= Need(r)
  BY <1>2 DEF Orderly
<1>6. Orderly(d, Queued(sd))
  <2>1. Elements(a) \cap Elements(b) = {}
    BY <1>5
  <2>2. Queued(sd) \subseteq Elements(c.arrived)
    BY <1>4, <1>5
  <2>3. \A r \in Elements(b) : Idle(d, r)
    BY <1>3, <1>5
  <2> QED BY <1>1, <1>4, <1>5, <2>1, <2>2, <2>3 DEF Orderly
<1> QED BY <1>1, <1>2, <1>3, <1>6 DEF Placed

\* A running request is aborted; it keeps its blocks until its rows are copied.
LEMMA AbortKeeps ==
  ASSUME IInv, NEW r \in Reqs, Abort(r)
  PROVE  IInv'
<1> DEFINE a == Only(core.running, Reqs \ {r})
<1>1. /\ status \in [Reqs -> States] /\ Sound(core) /\ Placed(core, status)
      /\ InFlight(sent, executed)
  BY DEF IInv
<1>2. /\ core.running \in Seq(Reqs) /\ core.waiting \in Seq(Reqs) /\ core.arrived \in Seq(Reqs)
      /\ core.computed \in [Reqs -> Nat] /\ Elements(core.running) \subseteq Reqs
  BY <1>1, ElementsAre
<1>3. /\ a \in Seq(Reqs) /\ Elements(a) = Elements(core.running) \cap (Reqs \ {r})
      /\ Distinct(core.running) => Distinct(a)
  BY <1>2, OnlyIs
<1>4. core' = [core EXCEPT !.computed = core.computed, !.running = a, !.waiting = core.waiting,
                           !.arrived = core.arrived]
  <2>1. core' = [core EXCEPT !.running = a]
    BY DEF Abort
  <2>2. CoreOf(core, core.pool, core.computed, core.table, core.cached, core.running,
               core.waiting, core.arrived)
    BY <1>1, CoreParts DEF Sound
  <2> HIDE DEF a
  <2> QED BY <2>1, <2>2 DEF CoreOf
<1> HIDE DEF a
<1>5. Reordered(core, core.computed, a, core.waiting, core.arrived, core')
  BY <1>1, <1>2, <1>3, <1>4, ReorderedIs
<1>6. /\ status[r] = "running" /\ status' = [status EXCEPT ![r] = "aborted"]
      /\ sent' = sent /\ executed' = executed
  BY DEF Abort
<1>7. /\ status' \in [Reqs -> States] /\ status'[r] = "aborted"
      /\ \A x \in Reqs : x # r => status'[x] = status[x]
  BY <1>1, <1>6 DEF States
<1>8. Placed(core', status')
  <2>1. /\ Elements(core.running) = {x \in Reqs : status[x] = "running"}
        /\ Elements(core.waiting) = {x \in Reqs : status[x] \in {"waiting", "preempted"}}
    BY <1>1 DEF Placed
  <2>2. /\ Elements(a) = {x \in Reqs : status'[x] = "running"}
        /\ Elements(core.waiting) = {x \in Reqs : status'[x] \in {"waiting", "preempted"}}
    BY <1>2, <1>3, <1>6, <1>7, <2>1
  <2>3. Elements(a) \subseteq Elements(core.running)
    BY <1>3
  <2>4. \A x \in Reqs : status'[x] = "new" => status[x] = "new"
    BY <1>7
  <2>5. Distinct(core.running) => Distinct(a)
    BY <1>3
  <2>6. Elements(core.waiting) \subseteq Elements(core.waiting) /\ (Distinct(core.waiting) => Distinct(core.waiting))
    OBVIOUS
  <2> QED BY <1>1, <1>5, <2>2, <2>3, <2>4, <2>5, <2>6, PlacedLess
<1>9. Sound(core')
  BY <1>5 DEF Reordered
<1> QED BY <1>1, <1>6, <1>7, <1>8, <1>9 DEF IInv

\* The output of a step ends requests.
LEMMA ProcessKeeps ==
  ASSUME IInv, Process
  PROVE  IInv'
<1> DEFINE over == {e.req : e \in {e \in Range(executed[1]) :
                       e.to = Need(e.req) /\ status[e.req] \in Unfinished}}
           a == Only(core.running, Reqs \ over)
           b == Only(core.waiting, Reqs \ over)
<1>1. /\ status \in [Reqs -> States] /\ Sound(core) /\ Placed(core, status)
      /\ InFlight(sent, executed)
  BY DEF IInv
<1>2. /\ core.running \in Seq(Reqs) /\ core.waiting \in Seq(Reqs) /\ core.arrived \in Seq(Reqs)
      /\ core.computed \in [Reqs -> Nat] /\ Elements(core.running) \subseteq Reqs
      /\ Elements(core.waiting) \subseteq Reqs
  BY <1>1, ElementsAre
<1>3. /\ a \in Seq(Reqs) /\ Elements(a) = Elements(core.running) \cap (Reqs \ over)
      /\ Distinct(core.running) => Distinct(a)
      /\ b \in Seq(Reqs) /\ Elements(b) = Elements(core.waiting) \cap (Reqs \ over)
      /\ Distinct(core.waiting) => Distinct(b)
  <2> HIDE DEF over
  <2> QED BY <1>2, OnlyIs
<1>4. \A x \in over : status[x] \in Unfinished
  OBVIOUS
<1>5. /\ status' = [x \in Reqs |-> IF x \in over THEN "done" ELSE status[x]]
      /\ core' = [core EXCEPT !.running = a, !.waiting = b]
      /\ sent' = sent /\ executed' = Tail(executed) /\ executed # << >>
  BY DEF Process
<1> HIDE DEF over, a, b
<1>6. core' = [core EXCEPT !.computed = core.computed, !.running = a, !.waiting = b,
                           !.arrived = core.arrived]
  <2>1. CoreOf(core, core.pool, core.computed, core.table, core.cached, core.running,
               core.waiting, core.arrived)
    BY <1>1, CoreParts DEF Sound
  <2> QED BY <1>5, <2>1 DEF CoreOf
<1>7. Reordered(core, core.computed, a, b, core.arrived, core')
  BY <1>1, <1>2, <1>3, <1>6, ReorderedIs
<1>8. \A x \in Reqs : status'[x] = IF x \in over THEN "done" ELSE status[x]
  BY <1>5
<1>9. status' \in [Reqs -> States]
  BY <1>1, <1>5, <1>8 DEF States
<1>10. Placed(core', status')
  <2>1. /\ Elements(core.running) = {x \in Reqs : status[x] = "running"}
        /\ Elements(core.waiting) = {x \in Reqs : status[x] \in {"waiting", "preempted"}}
    BY <1>1 DEF Placed
  <2>2. /\ Elements(a) = {x \in Reqs : status'[x] = "running"}
        /\ Elements(b) = {x \in Reqs : status'[x] \in {"waiting", "preempted"}}
    BY <1>3, <1>8, <2>1
  <2>3. Elements(a) \subseteq Elements(core.running) /\ Elements(b) \subseteq Elements(core.waiting)
    BY <1>3
  <2>4. \A x \in Reqs : status'[x] = "new" => status[x] = "new"
    BY <1>8
  <2>5. (Distinct(core.running) => Distinct(a)) /\ (Distinct(core.waiting) => Distinct(b))
    BY <1>3
  <2> QED BY <1>1, <1>7, <2>2, <2>3, <2>4, <2>5, PlacedLess
<1>11. InFlight(sent', executed')
  <2>1. PICK s \in Seq(Seq(Entries)), e \in Seq(Seq(Entries)) :
          s = sent /\ e = executed /\ e # << >> /\ Len(s) + Len(e) <= Depth
    BY <1>1, <1>5 DEF InFlight
  <2>2. Tail(e) \in Seq(Seq(Entries)) /\ Len(Tail(e)) = Len(e) - 1
    BY <2>1
  <2>3. Len(s) \in Nat /\ Len(e) \in Nat /\ Depth \in Nat
    BY Sizes
  <2>4. InFlight(s, Tail(e))
    BY <2>1, <2>2, <2>3 DEF InFlight
  <2> QED BY <1>5, <2>1, <2>4
<1>12. Sound(core')
  BY <1>7 DEF Reordered
<1> QED BY <1>9, <1>10, <1>11, <1>12 DEF IInv

\* The rows of a finished request are copied, and its blocks freed.
LEMMA ReleaseKeeps ==
  ASSUME IInv, NEW r \in Reqs, Release(r)
  PROVE  IInv'
<1>1. /\ status \in [Reqs -> States] /\ Sound(core) /\ Placed(core, status)
      /\ InFlight(sent, executed)
  BY DEF IInv
<1>2. /\ core.running \in Seq(Reqs) /\ core.waiting \in Seq(Reqs)
      /\ core.table \in Tables /\ core.cached \in [Reqs -> Nat]
      /\ Elements(core.waiting) \subseteq Reqs
  BY <1>1, ElementsAre
<1>3. Freed(core, r, core')
  BY <1>1, FreeIs DEF Release
<1>4. /\ Sound(core') /\ Alike(core, core')
      /\ core'.table = [core.table EXCEPT ![r] = NoBlocks] /\ core'.cached = [core.cached EXCEPT ![r] = 0]
  BY <1>3 DEF Freed
<1>5. /\ status[r] \in {"done", "aborted"} /\ status' = [status EXCEPT ![r] = "gone"]
      /\ sent' = sent /\ executed' = executed
  BY DEF Release, Copied
<1>6. /\ status' \in [Reqs -> States] /\ status'[r] = "gone"
      /\ \A x \in Reqs : x # r => status'[x] = status[x]
  BY <1>1, <1>5 DEF States
<1>7. /\ core'.computed = core.computed /\ core'.running = core.running
      /\ core'.waiting = core.waiting /\ core'.arrived = core.arrived
  BY <1>4 DEF Alike
<1>8. \A x \in Reqs : x # r => core'.table[x] = core.table[x] /\ core'.cached[x] = core.cached[x]
  BY <1>2, <1>4 DEF Tables
<1>9. \A x \in Reqs : x # r /\ Idle(core, x) => Idle(core', x)
  BY <1>7, <1>8 DEF Idle
<1>10. Placed(core', status')
  <2>1. /\ Orderly(core, Queued(status))
        /\ Elements(core.running) = {x \in Reqs : status[x] = "running"}
        /\ Elements(core.waiting) = {x \in Reqs : status[x] \in {"waiting", "preempted"}}
        /\ \A x \in Reqs : status[x] = "new" => Idle(core, x)
    BY <1>1 DEF Placed
  <2>2. Queued(status') = Queued(status)
    BY <1>5, <1>6 DEF Queued, Unfinished
  <2>3. /\ Elements(core'.running) = {x \in Reqs : status'[x] = "running"}
        /\ Elements(core'.waiting) = {x \in Reqs : status'[x] \in {"waiting", "preempted"}}
    BY <1>5, <1>6, <1>7, <2>1
  <2>4. \A x \in Reqs : status'[x] = "new" => Idle(core', x)
    BY <1>6, <1>9, <2>1
  <2>5. \A x \in Elements(core.waiting) : Idle(core', x)
    <3>1. \A x \in Elements(core.waiting) : x \in Reqs /\ x # r /\ Idle(core, x)
      BY <1>5, <2>1 DEF Orderly
    <3> QED BY <1>9, <3>1
  <2>6. Orderly(core', Queued(status'))
    BY <1>7, <2>1, <2>2, <2>5 DEF Orderly
  <2> QED BY <2>3, <2>4, <2>6 DEF Placed
<1> QED BY <1>1, <1>4, <1>5, <1>6, <1>10 DEF IInv

\* The prefix cache is reset, if no block is in use.
LEMMA ResetKeeps ==
  ASSUME IInv, ResetPrefixCache
  PROVE  IInv'
<1> DEFINE p == core.pool
           t == Flat(core.table)
           m == Marks(core.cached)
<1>1. /\ status \in [Reqs -> States] /\ Sound(core) /\ Placed(core, status)
      /\ InFlight(sent, executed)
  BY DEF IInv
<1>2. Consistent(p, t, m)
  BY <1>1 DEF Sound
<1>3. /\ CanReset(p) /\ core' = [core EXCEPT !.pool = ResetPool(p)] /\ status' = status
      /\ sent' = sent /\ executed' = executed
  BY DEF ResetPrefixCache
<1> HIDE DEF p, t, m
<1>4. \A b \in Usable : p.ref[b] = 0
  <2>1. Lists(p.queue, Unheld(p), Blocks) /\ p.ref \in [Blocks -> Int]
    BY <1>2, ConsistentBlocks DEF Consistent
  <2>2. PICK n \in Nat : n = Cardinality(Unheld(p)) /\ n = p.queue.size
    BY <2>1, ListsAre
  <2>3. PICK k \in Nat \ {0} : k = NumBlocks
    BY SizesAre
  <2>4. IsFiniteSet(Blocks) /\ Cardinality(Blocks) = k
    <3>1. 0 \in Int /\ k - 1 \in Int /\ (k - 1) - 0 + 1 = k /\ 0 <= k - 1
      OBVIOUS
    <3>2. IsFiniteSet(0..(k - 1)) /\ Cardinality(0..(k - 1)) = k
      BY <3>1, FS_Interval
    <3> QED BY <2>3, <3>2 DEF Blocks
  <2>5. n = k - 1
    <3>1. DOMAIN p.ref = Blocks
      BY <2>1
    <3>2. Cardinality(Blocks) - p.queue.size = 1
      BY <1>3, <3>1 DEF CanReset, FreeCount
    <3> QED BY <2>2, <2>4, <3>2
  <2>6. IsFiniteSet(Usable) /\ Cardinality(Usable) = k - 1
    <3>1. Usable = Blocks \ {NullBlock} /\ NullBlock \in Blocks
      BY SizesAre
    <3>2. IsFiniteSet(Blocks \ {NullBlock}) /\ Cardinality(Blocks \ {NullBlock}) = Cardinality(Blocks) - 1
      BY <2>4, <3>1, FS_RemoveElement
    <3> QED BY <2>4, <3>1, <3>2
  <2>7. Unheld(p) \subseteq Usable
    BY DEF Unheld
  <2>8. Unheld(p) = Usable
    BY <2>2, <2>5, <2>6, <2>7, FS_Subset
  <2> QED BY <2>8 DEF Unheld
<1>5. \A c \in Cells : t[c] = << >>
  <2>1. SUFFICES ASSUME NEW c \in Cells PROVE t[c] = << >>
    OBVIOUS
  <2>2. /\ t[c] \in Seq(Usable) /\ Elements(t[c]) \subseteq Usable
        /\ \A b \in Elements(t[c]) : p.ref[b] >= 1
    BY <1>2, ConsistentBlocks
  <2>3. Elements(t[c]) = {}
    BY <1>4, <2>2
  <2>4. PICK s \in Seq(Usable) : s = t[c] /\ Elements(s) = {}
    BY <2>2, <2>3
  <2>5. Len(s) = 0
    <3>1. Len(s) \in Nat /\ (Len(s) # 0 => 1 \in 1..Len(s))
      OBVIOUS
    <3> QED BY <2>4, <3>1 DEF Elements
  <2> QED BY <2>4, <2>5
<1>6. Consistent(ResetPool(p), t, m)
  BY <1>2, <1>5, CellsReset
<1>7. /\ Sound(core') /\ core'.table = core.table /\ core'.cached = core.cached /\ Alike(core, core')
  <2>1. /\ CoreOf(core, p, core.computed, core.table, core.cached, core.running,
                  core.waiting, core.arrived)
        /\ core.computed \in [Reqs -> Nat] /\ core.table \in Tables
        /\ core.cached \in [Reqs -> Nat] /\ core.running \in Seq(Reqs) /\ core.waiting \in Seq(Reqs)
        /\ core.arrived \in Seq(Reqs)
    BY <1>1, CoreParts DEF Sound, p
  <2>2. PICK q : q = ResetPool(p)
    OBVIOUS
  <2>3. CoreOf(core', q, core.computed, core.table, core.cached, core.running,
               core.waiting, core.arrived)
    BY <1>3, <2>1, <2>2 DEF CoreOf
  <2>4. q \in Pools(Blocks, Keys)
    BY <1>6, <2>2 DEF Consistent
  <2>5. CoreHas(core', q, core.computed, core.table, core.cached, core.running,
                core.waiting, core.arrived)
    BY <2>1, <2>3, <2>4, PartsCore
  <2> QED BY <1>1, <1>6, <2>2, <2>5 DEF CoreHas, Sound, Alike, t, m
<1>8. Placed(core', status')
  <2>1. \A x \in Reqs : Idle(core', x) <=> Idle(core, x)
    BY <1>7 DEF Idle, Alike
  <2>2. Elements(core.waiting) \subseteq Reqs
    BY <1>1, ElementsAre
  <2>3. Orderly(core', Queued(status))
    BY <1>1, <1>7, <2>1, <2>2 DEF Placed, Orderly, Alike
  <2> QED BY <1>1, <1>3, <1>7, <2>1, <2>3 DEF Placed, Alike
<1> QED BY <1>1, <1>3, <1>7, <1>8 DEF IInv

\* One call of schedule().
LEMMA ScheduleKeeps ==
  ASSUME IInv, Schedule
  PROVE  IInv'
<1> DEFINE Q == Queued(status)
           s == Scheduled
           c == s.core
           added(r) == TokensOf(s.plan, r)
           computed == [r \in Reqs |-> c.computed[r] + added(r)]
           entries == [i \in DOMAIN s.plan |-> Entry(c, s.plan[i])]
<1>1. /\ status \in [Reqs -> States] /\ Sound(core) /\ Placed(core, status)
      /\ InFlight(sent, executed)
  BY DEF IInv
<1>2. InStep(core, Q, s)
  BY <1>1, LoopUnfolds, ScheduledIs DEF Placed
<1>3. /\ core' = [c EXCEPT !.computed = [r \in Reqs |-> c.computed[r] + added(r)]]
      /\ sent' = IF s.plan = <<>> THEN sent ELSE Append(sent, entries)
      /\ status' = [r \in Reqs |->
           CASE Contains(c.running, r) -> "running"
             [] status[r] = "running" /\ Contains(c.waiting, r) -> "preempted"
             [] OTHER -> status[r]]
      /\ executed' = executed /\ Len(sent) + Len(executed) < Depth
  <2>2. core' = [c EXCEPT !.computed = [r \in Reqs |-> c.computed[r] + added(r)]]
    BY DEF Schedule, TokensOf
  <2>3. sent' = IF s.plan = <<>> THEN sent ELSE Append(sent, entries)
    BY DEF Schedule
  <2>4. status' = [r \in Reqs |->
           CASE Contains(c.running, r) -> "running"
             [] status[r] = "running" /\ Contains(c.waiting, r) -> "preempted"
             [] OTHER -> status[r]]
    BY DEF Schedule
  <2>5. executed' = executed /\ Len(sent) + Len(executed) < Depth
    BY DEF Schedule, CanSchedule
  <2> QED BY <2>2, <2>3, <2>4, <2>5
<1> HIDE DEF s, Q
<1>4. /\ s \in Steps /\ Sound(c) /\ Orderly(c, Q) /\ Kept(core, c, Q) /\ Fits(s.plan, c, s.next)
  BY <1>2 DEF InStep
<1> HIDE DEF c
<1>5. /\ c.running \in Seq(Reqs) /\ c.waiting \in Seq(Reqs) /\ c.arrived \in Seq(Reqs)
      /\ c.computed \in [Reqs -> Nat] /\ Elements(c.running) \subseteq Reqs
      /\ Elements(c.waiting) \subseteq Reqs
  BY <1>4, ElementsAre
<1>6. /\ OneEach(s.plan)
      /\ \A e \in Elements(s.plan) :
           e.req \in Elements(c.running) /\ c.computed[e.req] + e.n <= Need(e.req)
  BY <1>4 DEF Fits
<1>7. \A r \in Reqs : added(r) \in Nat
  BY <1>6, TokensAre
<1>8. \A r \in Reqs : r \notin Elements(c.running) => added(r) = 0
  BY <1>6, TokensAre
<1>9. \A r \in Reqs : c.computed[r] + added(r) <= Need(r)
  <2>1. SUFFICES ASSUME NEW r \in Reqs PROVE c.computed[r] + added(r) <= Need(r)
    OBVIOUS
  <2>2. CASE \E e \in Elements(s.plan) : e.req = r
    <3>1. PICK e \in Elements(s.plan) : e.req = r
      BY <2>2
    <3>2. added(r) = e.n
      BY <1>6, <3>1, TokensAre
    <3> QED BY <1>6, <3>1, <3>2
  <2>3. CASE \A e \in Elements(s.plan) : e.req # r
    <3>1. added(r) = 0
      BY <1>6, <2>3, TokensAre
    <3>2. c.computed[r] <= Need(r) /\ c.computed[r] \in Nat
      BY <1>4, <1>5 DEF Orderly
    <3> QED BY <3>1, <3>2
  <2> QED BY <2>2, <2>3
<1> HIDE DEF added
<1>10. computed \in [Reqs -> Nat] /\ \A r \in Reqs : computed[r] = c.computed[r] + added(r)
  BY <1>5, <1>7
<1>11. core' = [c EXCEPT !.computed = computed, !.running = c.running, !.waiting = c.waiting,
                         !.arrived = c.arrived]
  <2>1. core' = [c EXCEPT !.computed = computed]
    BY <1>3
  <2>2. CoreOf(c, c.pool, c.computed, c.table, c.cached, c.running, c.waiting, c.arrived)
    BY <1>4, CoreParts DEF Sound
  <2> HIDE DEF computed
  <2> QED BY <2>1, <2>2 DEF CoreOf
<1> HIDE DEF computed
<1>12. Reordered(c, computed, c.running, c.waiting, c.arrived, core')
  BY <1>4, <1>5, <1>10, <1>11, ReorderedIs
<1>13. /\ Sound(core') /\ core'.table = c.table /\ core'.cached = c.cached
       /\ core'.computed = computed /\ core'.running = c.running /\ core'.waiting = c.waiting
       /\ core'.arrived = c.arrived
  BY <1>12 DEF Reordered
<1>14. \A r \in Reqs : r \notin Elements(c.running) /\ Idle(c, r) => Idle(core', r)
  BY <1>5, <1>8, <1>10, <1>13 DEF Idle
<1>16. /\ Elements(c.running) \cap Elements(c.waiting) = {}
       /\ Elements(c.running) \cup Elements(c.waiting) = Q
  BY <1>4 DEF Orderly
<1>15. \A r \in Reqs :
         /\ r \in Elements(c.running) => status'[r] = "running"
         /\ r \notin Elements(c.running) /\ status[r] = "running" /\ r \in Elements(c.waiting) =>
              status'[r] = "preempted"
         /\ r \notin Elements(c.running) /\ ~(status[r] = "running" /\ r \in Elements(c.waiting)) =>
              status'[r] = status[r]
  <2>1. \A r : /\ Contains(c.running, r) <=> r \in Elements(c.running)
               /\ Contains(c.waiting, r) <=> r \in Elements(c.waiting)
    BY DEF Contains, Elements
  <2>3. SUFFICES ASSUME NEW r \in Reqs
        PROVE  /\ r \in Elements(c.running) => status'[r] = "running"
               /\ r \notin Elements(c.running) /\ status[r] = "running" /\ r \in Elements(c.waiting) =>
                    status'[r] = "preempted"
               /\ r \notin Elements(c.running) /\ ~(status[r] = "running" /\ r \in Elements(c.waiting)) =>
                    status'[r] = status[r]
    OBVIOUS
  <2>4. CASE r \in Elements(c.running)
    <3>1. Contains(c.running, r) /\ ~Contains(c.waiting, r)
      BY <1>16, <2>1, <2>4
    <3>2. status'[r] = "running"
      BY <1>3, <3>1
    <3> QED BY <2>4, <3>2
  <2>5. CASE r \notin Elements(c.running) /\ status[r] = "running" /\ r \in Elements(c.waiting)
    <3>1. ~Contains(c.running, r) /\ Contains(c.waiting, r)
      BY <2>1, <2>5
    <3>2. status'[r] = "preempted"
      BY <1>3, <2>5, <3>1
    <3> QED BY <2>5, <3>2
  <2>6. CASE r \notin Elements(c.running) /\ ~(status[r] = "running" /\ r \in Elements(c.waiting))
    <3>1. ~Contains(c.running, r) /\ ~(status[r] = "running" /\ Contains(c.waiting, r))
      BY <2>1, <2>6
    <3>2. status'[r] = status[r]
      BY <1>3, <3>1
    <3> QED BY <2>6, <3>2
  <2> QED BY <2>4, <2>5, <2>6
<1>17. \A r \in Reqs : r \in Q <=> status[r] \in {"waiting", "running", "preempted"}
  BY DEF Q, Queued, Unfinished
<1>18. status' \in [Reqs -> States]
  <2>1. \A r \in Reqs : status'[r] \in States
    BY <1>1, <1>15 DEF States, Unfinished
  <2> QED BY <1>3, <2>1
<1>19. \A r \in Reqs : /\ status'[r] = "running" <=> r \in Elements(c.running)
                       /\ status'[r] \in {"waiting", "preempted"} <=> r \in Elements(c.waiting)
  <2>1. SUFFICES ASSUME NEW r \in Reqs
                 PROVE  /\ status'[r] = "running" <=> r \in Elements(c.running)
                        /\ status'[r] \in {"waiting", "preempted"} <=> r \in Elements(c.waiting)
    OBVIOUS
  <2>2. CASE r \in Elements(c.running)
    BY <1>15, <1>16, <2>2
  <2>3. CASE r \notin Elements(c.running) /\ r \in Elements(c.waiting)
    <3>1. status[r] \in {"waiting", "running", "preempted"}
      BY <1>16, <1>17, <2>3
    <3> QED BY <1>15, <2>3, <3>1
  <2>4. CASE r \notin Elements(c.running) /\ r \notin Elements(c.waiting)
    <3>1. status[r] \notin {"waiting", "running", "preempted"}
      BY <1>16, <1>17, <2>4
    <3>2. status'[r] = status[r]
      BY <1>15, <2>4
    <3> QED BY <2>4, <3>1, <3>2
  <2> QED BY <2>2, <2>3, <2>4
<1>20. /\ Elements(c.running) = {r \in Reqs : status'[r] = "running"}
       /\ Elements(c.waiting) = {r \in Reqs : status'[r] \in {"waiting", "preempted"}}
  BY <1>5, <1>19
<1>21. Queued(status') = Q
  BY <1>16, <1>20 DEF Queued, Unfinished
<1>22. \A r \in Reqs : status'[r] = "new" => Idle(core', r)
  <2>1. SUFFICES ASSUME NEW r \in Reqs, status'[r] = "new" PROVE Idle(core', r)
    OBVIOUS
  <2>2. r \notin Elements(c.running) /\ r \notin Elements(c.waiting)
    BY <1>19, <2>1
  <2>3. status[r] = "new" /\ r \notin Q
    BY <1>15, <1>16, <2>1, <2>2
  <2>4. Idle(core, r)
    BY <1>1, <2>3 DEF Placed
  <2>5. Idle(c, r)
    BY <1>4, <2>3, <2>4 DEF Kept, Idle
  <2> QED BY <1>14, <2>2, <2>5
<1>23. Placed(core', status')
  <2>1. \A r \in Elements(c.waiting) : Idle(core', r)
    <3>1. \A r \in Elements(c.waiting) : r \in Reqs /\ r \notin Elements(c.running) /\ Idle(c, r)
      BY <1>4, <1>5, <1>16 DEF Orderly
    <3> QED BY <1>14, <3>1
  <2>2. \A r \in Reqs : core'.computed[r] <= Need(r)
    BY <1>9, <1>10, <1>13
  <2>3. Orderly(core', Q)
    BY <1>4, <1>13, <2>1, <2>2 DEF Orderly
  <2> QED BY <1>13, <1>20, <1>21, <1>22, <2>3 DEF Placed
<1>24. InFlight(sent', executed')
  <2>1. PICK t \in Seq(Seq(Entries)), e \in Seq(Seq(Entries)) : t = sent /\ e = executed
    BY <1>1 DEF InFlight
  <2>2. Len(t) + Len(e) < Depth
    BY <1>3, <2>1
  <2>3. Len(t) \in Nat /\ Len(e) \in Nat /\ Depth \in Nat
    BY Sizes
  <2>4. CASE s.plan = << >>
    <3>1. sent' = t /\ executed' = e
      BY <1>3, <2>1, <2>4
    <3> QED BY <2>2, <2>3, <3>1 DEF InFlight
  <2>5. CASE s.plan # << >>
    <3>1. entries \in Seq(Entries)
      <4>1. PICK n \in Nat : n = Len(s.plan) /\ DOMAIN s.plan = 1..n
        <5>1. PICK plan \in Seq(Scheduling) : plan = s.plan
          BY <1>6 DEF OneEach
        <5>2. Len(plan) \in Nat /\ DOMAIN plan = 1..Len(plan)
          OBVIOUS
        <5> QED BY <5>1, <5>2
      <4>2. \A i \in 1..n : s.plan[i] \in Scheduling
        BY <1>6, <4>1 DEF OneEach
      <4>3. c.table \in Tables
        BY <1>4, ElementsAre
      <4>4. ASSUME NEW e2 \in Scheduling PROVE Entry(c, e2) \in Entries
        <5>1. e2.req \in Reqs /\ e2.n \in Nat
          BY DEF Scheduling
        <5>2. c.table[e2.req] \in [1..Groups -> Seq(Usable)]
          BY <4>3, <5>1 DEF Tables
        <5>3. PICK k \in Nat : k = c.computed[e2.req]
          BY <1>5, <5>1
        <5>4. k + e2.n \in Nat
          BY <5>1
        <5> QED BY <5>1, <5>2, <5>3, <5>4 DEF Entry, Entries
      <4>5. entries = [i \in 1..n |-> Entry(c, s.plan[i])]
        BY <4>1
      <4>6. \A i \in 1..n : Entry(c, s.plan[i]) \in Entries
        BY <4>2, <4>4
      <4> HIDE DEF entries
      <4>7. entries \in [1..n -> Entries]
        BY <4>5, <4>6
      <4> QED BY <4>7
    <3> HIDE DEF entries
    <3>2. Append(t, entries) \in Seq(Seq(Entries)) /\ Len(Append(t, entries)) = Len(t) + 1
      BY <3>1
    <3>3. InFlight(Append(t, entries), e)
      BY <2>2, <2>3, <3>2 DEF InFlight
    <3>4. sent' = Append(t, entries) /\ executed' = e
      BY <1>3, <2>1, <2>5
    <3> QED BY <3>3, <3>4
  <2> QED BY <2>4, <2>5
<1> QED BY <1>13, <1>18, <1>23, <1>24 DEF IInv

\* Every step keeps the invariant.
LEMMA InvNext ==
  ASSUME IInv, [Next]_vars
  PROVE  IInv'
<1>1. CASE Schedule
  BY <1>1, ScheduleKeeps
<1>2. CASE Execute
  BY <1>2, ExecuteKeeps
<1>3. CASE Process
  BY <1>3, ProcessKeeps
<1>4. CASE ResetPrefixCache
  BY <1>4, ResetKeeps
<1>5. ASSUME NEW r \in Reqs, Arrive(r) PROVE IInv'
  BY <1>5, ArriveKeeps
<1>6. ASSUME NEW r \in Reqs, Abort(r) PROVE IInv'
  BY <1>6, AbortKeeps
<1>7. ASSUME NEW r \in Reqs, Release(r) PROVE IInv'
  BY <1>7, ReleaseKeeps
<1>8. CASE UNCHANGED vars
  BY <1>8 DEF IInv, vars
<1> QED BY <1>1, <1>2, <1>3, <1>4, <1>5, <1>6, <1>7, <1>8 DEF Next

\* For every set of requests, every prompt, block size, number of groups and
\* of blocks, budget, number of steps in flight and either scheduling policy,
\* the inductive invariant holds.
THEOREM CoreInvariant == Spec => []IInv
<1>1. Init => IInv
  BY InvInitially
<1>2. IInv /\ [Next]_vars => IInv'
  BY InvNext
<1> QED BY <1>1, <1>2, PTL DEF Spec

\* PoolIsConsistent of the runs, for every value of the constants: a block is
\* on the free list exactly when no request holds it, a cached block is found
\* under its own hash and nothing else is, the pool never runs out in the
\* middle of an allocation, and queues, statuses and counts agree.
THEOREM PoolStaysConsistent == Spec => []PoolIsConsistent
<1>1. IInv => PoolIsConsistent
  BY InvIsConsistent
<1> QED BY <1>1, CoreInvariant, PTL
=============================================================================
