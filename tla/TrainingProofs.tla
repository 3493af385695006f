---------------------------- MODULE TrainingProofs ----------------------------
(***************************************************************************)
(* Training with its checkpoints, for any number of epochs and of batches, *)
(* any settings, losses and number of runs, with crashes and interrupts at *)
(* every point: what a later run needs is there at every moment of a save, *)
(* a run goes on where the last save was made, the link leads to the best  *)
(* epoch, and - if the windows of the gradients fit - every batch goes     *)
(* into the weights once.                                                  *)
(***************************************************************************)
EXTENDS Training, FiniteSetTheorems, SequenceTheorems, WellFoundedInduction, TLAPS

\* A run is going on, or is being interrupted.
Live == pc \in {"batch", "endsave", "best", "interrupt"}

WeightFiles == {Absent, Partial} \cup Seq(Batches)
StateFiles  == {Absent, Partial} \cup {<<n>> : n \in 0..NumSteps}
LossFiles   == {Absent, Partial} \cup {<<l>> : l \in Losses}
MidStates   == {<<n>> : n \in 1..NumSteps}

TypedMemory ==
  /\ set \in Settings /\ run \in 0..MaxRuns
  /\ pc \in {"down", "batch", "endsave", "best", "interrupt", "finished", "failed"}
  /\ epoch \in 0..NumEpochs /\ step \in 0..NumSteps /\ skip \in 0..step
  /\ weights \in Seq(Batches) /\ grads \in Seq(Batches) /\ Len(grads) <= set.accum
  /\ bestLoss \in Losses \cup {Infinite}

TypedDisk ==
  /\ DOMAIN dirs \subseteq Epochs \cup {Interrupted}
  /\ \A d \in DOMAIN dirs :
       /\ dirs[d] \in [Files -> WeightFiles \cup StateFiles \cup LossFiles]
       /\ dirs[d].model \in WeightFiles /\ dirs[d].opt \in WeightFiles
       /\ dirs[d].sched \in WeightFiles
       /\ dirs[d].state \in StateFiles /\ dirs[d].val \in LossFiles
  /\ best \in Epochs \cup {NoLink}
  /\ DOMAIN validated \subseteq Epochs /\ \A e \in DOMAIN validated : validated[e] \in Losses
  /\ savedAt \in 0..(NumEpochs * NumSteps)

Typed == TypedMemory /\ TypedDisk

\* The gradients are those of the batches since the window began.
Window == pc = "batch" /\ (step - skip) % set.accum # 0 => Len(grads) = (step - skip) % set.accum

\* No directory is ahead of the run.
Ahead == Live => epoch < NumEpochs /\ \A d \in Numbered : d <= epoch

\* Only runs that save inside of epochs leave a position there.
NoPosition ==
  set.best \/ set.interval = 0 => \A d \in Numbered : dirs[d].state \notin MidStates

-----------------------------------------------------------------------------
(* The save in progress: what is left of its plan, and what is on the disk *)
(* after the first n operations of it.                                     *)

Rest(full, n) == SubSeq(full, n + 1, Len(full))

\* The files of a checkpoint, written one after the other.
Filled(n) ==
  /\ n >= 2 => epoch \in DOMAIN dirs /\ dirs[epoch].model = weights
  /\ n >= 4 => dirs[epoch].opt = weights
  /\ n >= 6 => dirs[epoch].sched = weights
Complete == Filled(6) /\ dirs[epoch].state = <<0>>

InSave(local) ==
  \E n \in 0..8 : /\ plan = Rest(SaveAt(local, weights), n) /\ Filled(n)
                  /\ n >= 8 => dirs[epoch].state = <<local>>
InReplace ==
  \E n \in 0..11 : /\ plan = Rest(ReplaceBest(bestLoss), n) /\ Filled(n)
                   /\ n >= 9 => dirs[epoch].val = <<bestLoss>>
                   /\ n >= 11 => best = epoch
InUpdate ==
  \E n \in 0..3 : /\ plan = Rest(UpdateBest(bestLoss), n) /\ Complete
                  /\ n >= 2 => dirs[epoch].val = <<bestLoss>>

Planned ==
  /\ plan # <<>> => Live
  /\ pc = "batch" /\ plan # <<>> =>
       InSave(step) /\ ~set.best /\ set.interval > 0 /\ step > 0 /\ step % set.interval = 0
  /\ pc = "endsave" /\ plan # <<>> => InSave(0) /\ SavesEpoch
  /\ pc = "endsave" /\ plan = <<>> /\ SavesEpoch => Complete
  /\ pc = "best" /\ plan # <<>> =>
       bestLoss \in Losses /\ IF set.best THEN InReplace ELSE InUpdate
  /\ pc = "interrupt" /\ plan # <<>> =>
       \E n \in 0..5 : plan = Rest(SaveCheckpoint(Interrupted, weights), n)

\* A checkpoint is being written, and not complete.
Saving == plan # <<>> /\ (pc \in {"batch", "endsave"} \/ (pc = "best" /\ set.best /\ Len(plan) >= 6))

\* The link leads to a whole checkpoint of an epoch that is over, and never to
\* the directory a save is writing to.
Linked ==
  best # NoLink =>
    /\ best \in Numbered /\ IsWhole(best) /\ dirs[best].state \notin MidStates
    /\ Live => best <= epoch
    /\ best = epoch => /\ pc \notin {"batch", "endsave"}
                       /\ pc = "best" /\ plan # <<>> => set.best /\ Len(plan) <= 1

\* There is a whole checkpoint that the save in progress does not write to.
Kept ==
  set.interval = 0 /\ savedAt > 0 =>
    \E d \in Numbered :
      /\ IsWhole(d)
      /\ Saving \/ pc = "batch" \/ (pc = "endsave" /\ set.best) => d < epoch

-----------------------------------------------------------------------------
(* Without crashes inside of saves.                                        *)

\* The directory a run would resume from was written by the last save.
Newest(p) == p \in Numbered /\ \A d \in Numbered : d <= p
Position(p) == IF dirs[p].state \in MidStates THEN p * NumSteps + dirs[p].state[1]
                                              ELSE (p + 1) * NumSteps
Restorable ==
  ~set.torn /\ ~Saving =>
    /\ Numbered = {} => savedAt = 0
    /\ \A p \in Epochs : Newest(p) => IsWhole(p) /\ savedAt = Position(p)

\* The link leads to the lowest loss, except while it is being moved.
Moving == pc = "best" /\ plan # <<>>
Lowest ==
  ~set.torn =>
    /\ best # NoLink => best \in DOMAIN validated /\ dirs[best].val = <<validated[best]>>
    /\ ~Moving => /\ (best = NoLink) = (DOMAIN validated = {})
                  /\ \A e \in DOMAIN validated : validated[best] <= validated[e]
                  /\ Live => bestLoss = IF best = NoLink THEN Infinite ELSE validated[best]
    /\ Moving => /\ epoch \in DOMAIN validated /\ validated[epoch] = bestLoss
                 /\ \A e \in DOMAIN validated : bestLoss <= validated[e]

\* The windows of the gradients divide an epoch and the interval of the
\* checkpoints in it.
Fits ==
  \A s \in Settings : ~s.best /\ s.interval > 0 =>
    s.interval % s.accum = 0 /\ NumSteps % s.accum = 0

\* The first n batches, once and in order.
FirstBatches(n) == [i \in 1..n |-> i]

\* A window begins at this position of an epoch.
Aligned(n) == n = 0 \/ (n % set.accum = 0 /\ NumSteps % set.accum = 0)

\* Between windows the weights have seen every batch so far, and within one
\* the gradients have seen the others.
Between == (step - skip) % set.accum = 0 \/ step - skip = NumSteps
Once ==
  ~set.torn /\ Fits =>
    /\ Live => Aligned(skip)
    /\ pc = "batch" =>
         (IF Between THEN weights ELSE weights \o grads) = FirstBatches(epoch * NumSteps + step)
    /\ pc \in {"endsave", "best"} => weights = FirstBatches((epoch + 1) * NumSteps)
    /\ ~Saving => \A p \in Epochs : Newest(p) =>
         /\ dirs[p].model = FirstBatches(savedAt)
         /\ dirs[p].state \in MidStates => Aligned(dirs[p].state[1])

IInv ==
  /\ Typed /\ Window /\ Ahead /\ NoPosition /\ Planned /\ Linked /\ Kept
  /\ Restorable /\ Lowest /\ Once

-----------------------------------------------------------------------------
(* Arithmetic.                                                             *)

\* A number that is a multiple of another has no remainder, and none else.
LEMMA ModRange ==
  ASSUME NEW a \in Nat \ {0}, NEW n \in Nat
  PROVE  n % a \in 0..(a - 1) /\ n \div a \in Nat /\ n = (a * (n \div a)) + (n % a)
OBVIOUS

LEMMA ModZero ==
  ASSUME NEW a \in Nat \ {0}, NEW k \in Nat
  PROVE  (a * k) % a = 0
OBVIOUS

\* A multiple of a factor is none of the numbers between two others.
LEMMA NoMultiple ==
  ASSUME NEW a \in Nat \ {0}, NEW d \in Int, a * d < a, 0 - a < a * d
  PROVE  d = 0
<1>1. a * d \in Int
  OBVIOUS
<1>2. CASE d >= 1
  <2>1. a * d >= a
    BY <1>2
  <2> QED BY <1>1, <2>1
<1>3. CASE d <= -1
  <2>1. a * d <= 0 - a
    BY <1>3
  <2> QED BY <1>1, <2>1
<1> QED BY <1>2, <1>3

\* The remainder is the only number below the divisor that leaves a multiple.
LEMMA ModIs ==
  ASSUME NEW a \in Nat \ {0}, NEW n \in Nat, NEW q \in Int, NEW r \in 0..(a - 1),
         n = (a * q) + r
  PROVE  n % a = r
<1> DEFINE p == n \div a
           s == n % a
<1>1. p \in Int /\ s \in 0..(a - 1) /\ n = (a * p) + s
  <2>1. s \in 0..(a - 1) /\ p \in Nat /\ n = (a * p) + s
    BY Zenon, ModRange
  <2> HIDE DEF p, s
  <2> QED BY <2>1
<1> SUFFICES s = r
  OBVIOUS
<1> HIDE DEF p, s
<1>2. a * (q - p) = (a * q) - (a * p) /\ a * q \in Int /\ a * p \in Int
  BY <1>1
<1>3. a * (q - p) = s - r
  BY <1>1, <1>2
<1>4. a * (q - p) < a /\ 0 - a < a * (q - p)
  BY <1>1, <1>3
<1>5. q - p = 0
  BY <1>1, <1>4, NoMultiple
<1> QED BY <1>1, <1>2, <1>3, <1>5

\* One more.
LEMMA ModStep ==
  ASSUME NEW a \in Nat \ {0}, NEW n \in Nat
  PROVE  (n + 1) % a = IF n % a = a - 1 THEN 0 ELSE (n % a) + 1
<1> DEFINE q == n \div a
           r == n % a
<1>1. q \in Int /\ r \in 0..(a - 1) /\ n = (a * q) + r
  BY ModRange
<1> HIDE DEF q, r
<1>2. CASE r = a - 1
  <2>1. a * (q + 1) = (a * q) + a /\ a * q \in Int
    BY <1>1
  <2>2. n + 1 = (a * (q + 1)) + 0 /\ 0 \in 0..(a - 1) /\ q + 1 \in Int /\ n + 1 \in Nat
    BY <1>1, <1>2, <2>1
  <2>3. (n + 1) % a = 0
    BY <2>2, ModIs
  <2> QED BY <1>2, <2>3 DEF r
<1>3. CASE r # a - 1
  <2>1. a * q \in Int
    BY <1>1
  <2>2. n + 1 = (a * q) + (r + 1) /\ r + 1 \in 0..(a - 1) /\ n + 1 \in Nat
    BY <1>1, <1>3, <2>1
  <2>3. (n + 1) % a = r + 1
    BY <1>1, <2>2, ModIs
  <2> QED BY <1>3, <2>3 DEF r
<1> QED BY <1>2, <1>3

\* Multiples of the same number are multiples of it apart, and a multiple of a
\* multiple is one.
LEMMA ModMinus ==
  ASSUME NEW a \in Nat \ {0}, NEW m \in Nat, NEW n \in Nat, n <= m, m % a = 0, n % a = 0
  PROVE  (m - n) % a = 0
<1> DEFINE p == m \div a
           q == n \div a
<1>1. p \in Int /\ q \in Int /\ m = a * p /\ n = a * q
  BY ModRange
<1> HIDE DEF p, q
<1>2. a * (p - q) = (a * p) - (a * q) /\ a * p \in Int /\ a * q \in Int /\ p - q \in Int
  BY <1>1
<1>3. m - n = (a * (p - q)) + 0 /\ 0 \in 0..(a - 1) /\ m - n \in Nat
  BY <1>1, <1>2
<1> QED BY <1>2, <1>3, ModIs

LEMMA ModChain ==
  ASSUME NEW a \in Nat \ {0}, NEW b \in Nat \ {0}, NEW n \in Nat, n % b = 0, b % a = 0
  PROVE  n % a = 0
<1> DEFINE p == n \div b
           q == b \div a
<1>1. p \in Int /\ q \in Int /\ n = b * p /\ b = a * q
  BY ModRange
<1> HIDE DEF p, q
<1>2. (a * q) * p = a * (q * p) /\ q * p \in Int
  BY <1>1
<1>3. n = (a * (q * p)) + 0 /\ 0 \in 0..(a - 1)
  BY <1>1, <1>2
<1> QED BY <1>2, <1>3, ModIs

\* A set of numbers that is not empty has a least one; one that has an upper
\* bound has a greatest one.
LEMMA LeastNumber ==
  ASSUME NEW T \in SUBSET Nat, T # {}
  PROVE  \E x \in T : \A y \in T : x <= y
<1> DEFINE R == {ss \in Nat \X Nat : ss[1] < ss[2]}
<1>1. IsWellFoundedOn(R, Nat)
  BY NatLessThanWellFounded DEF OpToRel
<1>2. PICK x \in T : \A y \in T : <<y, x>> \notin R
  <2> HIDE DEF R
  <2> QED BY <1>1, WFMin
<1>3. \A y \in T : ~(y < x)
  BY <1>2
<1> QED BY <1>3

LEMMA GreatestNumber ==
  ASSUME NEW T \in SUBSET Nat, T # {}, NEW b \in Nat, \A x \in T : x <= b
  PROVE  \E x \in T : \A y \in T : y <= x
<1> DEFINE U == {b - x : x \in T}
<1>1. U \subseteq Nat /\ U # {}
  <2>1. \A x \in T : b - x \in Nat
    <3> SUFFICES ASSUME NEW x \in T PROVE b - x \in Nat
      OBVIOUS
    <3>1. x \in Nat /\ x <= b
      OBVIOUS
    <3> QED BY <3>1
  <2> QED BY <2>1
<1>2. PICK u \in U : \A v \in U : u <= v
  <2> HIDE DEF U
  <2> QED BY <1>1, LeastNumber
<1>3. PICK x \in T : u = b - x
  OBVIOUS
<1>4. \A y \in T : b - x <= b - y
  BY <1>2, <1>3
<1>5. \A y \in T : y <= x
  BY <1>4
<1> QED BY <1>5

\* A finite set of numbers has an upper bound.
LEMMA FiniteIsBounded ==
  ASSUME NEW T \in SUBSET Nat, IsFiniteSet(T)
  PROVE  \E b \in Nat : \A x \in T : x <= b
<1> DEFINE R   == StrictSubsetOrdering(T)
           S   == FiniteSubsetsOf(T)
           Bad == {U \in S : ~ \E b \in Nat : \A x \in U : x <= b}
<1>1. IsWellFoundedOn(R, S)
  BY FS_StrictSubsetOrderingWellFounded
<1>2. SUFFICES ASSUME Bad # {} PROVE FALSE
  BY DEF FiniteSubsetsOf
<1>3. PICK U \in Bad : \A V \in Bad : <<V, U>> \notin R
  <2>1. Bad \subseteq S
    OBVIOUS
  <2> HIDE DEF R, S, Bad
  <2> QED BY <1>1, <1>2, <2>1, WFMin
<1>4. U \subseteq T /\ IsFiniteSet(U) /\ ~ \E b \in Nat : \A x \in U : x <= b
  BY <1>3 DEF FiniteSubsetsOf
<1>5. PICK z \in U : TRUE
  <2>1. U # {}
    <3> SUFFICES ASSUME U = {} PROVE FALSE
      OBVIOUS
    <3>1. 0 \in Nat /\ \A x \in U : x <= 0
      OBVIOUS
    <3> QED BY <1>4, <3>1
  <2> QED BY <2>1
<1>6. U \ {z} \in S /\ <<U \ {z}, U>> \in R
  BY <1>4, <1>5, FS_Subset DEF FiniteSubsetsOf, StrictSubsetOrdering
<1>7. U \ {z} \notin Bad
  BY <1>3, <1>6
<1>8. PICK b \in Nat : \A x \in U \ {z} : x <= b
  BY <1>6, <1>7
<1>9. z \in Nat
  BY <1>4, <1>5
<1>10. b + z \in Nat /\ \A x \in U : x <= b + z
  <2> SUFFICES ASSUME NEW x \in U PROVE x <= b + z
    BY <1>9
  <2>1. x \in Nat
    BY <1>4
  <2> QED BY <1>8, <1>9, <2>1
<1> QED BY <1>4, <1>10

LEMMA LossesAreFinite ==
  Infinite \in Nat /\ \A l \in Losses : l \in Nat /\ l < Infinite
<1>1. Losses \subseteq Nat /\ Losses # {} /\ IsFiniteSet(Losses)
  BY SettingsAreLegal
<1>2. PICK b \in Nat : \A x \in Losses : x <= b
  BY <1>1, FiniteIsBounded
<1>3. \E m \in Losses : \A l \in Losses : l <= m
  BY <1>1, <1>2, GreatestNumber
<1> DEFINE m == CHOOSE m \in Losses : \A l \in Losses : l <= m
<1>4. m \in Losses /\ \A l \in Losses : l <= m
  BY <1>3
<1>5. Infinite = 1 + m
  BY DEF Infinite
<1> HIDE DEF m
<1> QED BY <1>1, <1>4, <1>5

-----------------------------------------------------------------------------
(* What the plans consist of.                                              *)

Ops == [op : {"write"}, dir : Int, file : Files, to : Seq(Int)]
       \cup [op : {"saved"}, at : Int] \cup [op : {"link"}, to : Int]
       \cup [op : {"cleanup"}, keep : Int]

Put(d, f, content) == [op |-> "write", dir |-> d, file |-> f, to |-> content]

\* A sequence of n operations, and one that is two others in a row.
Table(s, n) == s \in Seq(Ops) /\ Len(s) = n
Joins(u, s, m, t, n) == Table(s, m) /\ Table(t, n) /\ u = s \o t

\* One operation after the other.
LEMMA RestStep ==
  ASSUME NEW full, NEW m \in Nat, Table(full, m), NEW n \in 0..(m - 1)
  PROVE  /\ Rest(full, n) # <<>> /\ Head(Rest(full, n)) = full[n + 1]
         /\ Tail(Rest(full, n)) = Rest(full, n + 1)
         /\ Len(Rest(full, n)) = m - n
<1>1. full \in Seq(Ops) /\ Len(full) = m
  BY DEF Table
<1>2. n + 1 \in 1..m /\ m \in (n + 1)..m
  OBVIOUS
<1>3. /\ Head(SubSeq(full, n + 1, m)) = full[n + 1]
      /\ Tail(SubSeq(full, n + 1, m)) = SubSeq(full, n + 1 + 1, m)
  BY <1>1, <1>2, HeadTailOfSubSeq
<1>4. \A i \in (n + 1)..m : full[i] \in Ops
  BY <1>1, <1>2, ElementOfSeq
<1>5. Len(SubSeq(full, n + 1, m)) = m - (n + 1) + 1
  BY <1>2, <1>4, SubSeqProperties
<1>6. SubSeq(full, n + 1, m) # <<>>
  <2> SUFFICES ASSUME SubSeq(full, n + 1, m) = <<>> PROVE FALSE
    OBVIOUS
  <2> DEFINE k == Len(SubSeq(full, n + 1, m))
  <2>1. k = 0
    BY Len(<<>>) = 0
  <2>2. k = m - (n + 1) + 1
    BY <1>5
  <2> HIDE DEF k
  <2> QED BY <1>2, <2>1, <2>2
<1> QED BY <1>1, <1>3, <1>5, <1>6 DEF Rest

\* All of it, and nothing of it.
LEMMA RestEnds ==
  ASSUME NEW full, NEW m \in Nat, Table(full, m)
  PROVE  Rest(full, 0) = full /\ Rest(full, m) = <<>>
<1>1. full \in Seq(Ops) /\ Len(full) = m
  BY DEF Table
<1>2. SubSeq(full, 0 + 1, m) = full
  BY <1>1, SubSeqFull
<1>3. SubSeq(full, m + 1, m) = <<>>
  BY <1>1, SubSeqEmpty
<1> QED BY <1>1, <1>2, <1>3 DEF Rest

LEMMA Joined ==
  ASSUME NEW u, NEW s, NEW t, NEW m, NEW n, m \in Nat, n \in Nat, Joins(u, s, m, t, n)
  PROVE  /\ Table(u, m + n)
         /\ \A i \in Nat : 1 <= i /\ i <= m => u[i] = s[i]
         /\ \A i \in Nat : m < i /\ i <= m + n => u[i] = t[i - m]
<1>1. s \in Seq(Ops) /\ t \in Seq(Ops) /\ Len(s) = m /\ Len(t) = n /\ u = s \o t
  BY DEF Joins, Table
<1>2. /\ s \o t \in Seq(Ops) /\ Len(s \o t) = Len(s) + Len(t)
      /\ \A i \in 1 .. Len(s) + Len(t) : (s \o t)[i] = IF i <= Len(s) THEN s[i] ELSE t[i - Len(s)]
  BY <1>1, ConcatProperties
<1>3. /\ u \in Seq(Ops) /\ Len(u) = m + n
      /\ \A i \in 1 .. m + n : u[i] = IF i <= m THEN s[i] ELSE t[i - m]
  BY <1>1, <1>2
<1>4. \A i \in Nat : 1 <= i /\ i <= m => i \in 1 .. m + n
  OBVIOUS
<1>5. \A i \in Nat : m < i /\ i <= m + n => i \in 1 .. m + n /\ ~(i <= m)
  OBVIOUS
<1> QED BY <1>3, <1>4, <1>5 DEF Table

\* The second part of it alone.
LEMMA JoinedTail ==
  ASSUME NEW u, NEW s, NEW t, NEW m, NEW n, m \in Nat, n \in Nat, Joins(u, s, m, t, n)
  PROVE  \A i \in Nat : m < i /\ i <= m + n => u[i] = t[i - m]
BY Joined

\* A write: the file is cut short, then it is there.
LEMMA WriteIs ==
  ASSUME NEW d \in Int, NEW f \in Files, NEW content \in Seq(Int)
  PROVE  LET s == Write(d, f, content)
         IN  Table(s, 2) /\ s[1] = Put(d, f, Partial) /\ s[2] = Put(d, f, content)
<1>1. Partial \in Seq(Int)
  BY DEF Partial
<1>2. Put(d, f, content) \in Ops /\ Put(d, f, Partial) \in Ops
  BY <1>1 DEF Put, Ops
<1>3. Write(d, f, content) = <<Put(d, f, Partial), Put(d, f, content)>>
  BY DEF Write, Put
<1> QED BY <1>2, <1>3 DEF Table

LEMMA FilesAre == "model" \in Files /\ "opt" \in Files /\ "sched" \in Files
                  /\ "state" \in Files /\ "val" \in Files
BY DEF Files

\* A checkpoint: its three files.
LEMMA SaveCheckpointIs ==
  ASSUME NEW d \in Int, NEW w \in Seq(Int)
  PROVE  LET s == SaveCheckpoint(d, w)
         IN  /\ Table(s, 6)
             /\ s[1] = Put(d, "model", Partial) /\ s[2] = Put(d, "model", w)
             /\ s[3] = Put(d, "opt", Partial) /\ s[4] = Put(d, "opt", w)
             /\ s[5] = Put(d, "sched", Partial) /\ s[6] = Put(d, "sched", w)
<1> DEFINE a  == Write(d, "model", w)
           b  == Write(d, "opt", w)
           c  == Write(d, "sched", w)
           ab == a \o b
           u  == ab \o c
<1>1. /\ Table(a, 2) /\ a[1] = Put(d, "model", Partial) /\ a[2] = Put(d, "model", w)
      /\ Table(b, 2) /\ b[1] = Put(d, "opt", Partial) /\ b[2] = Put(d, "opt", w)
      /\ Table(c, 2) /\ c[1] = Put(d, "sched", Partial) /\ c[2] = Put(d, "sched", w)
  BY WriteIs, FilesAre
<1>2. SaveCheckpoint(d, w) = u
  BY DEF SaveCheckpoint
<1> HIDE DEF a, b, c
<1>3. Joins(ab, a, 2, b, 2)
  BY <1>1 DEF Joins
<1> HIDE DEF ab
<1>4. /\ Table(ab, 4) /\ ab[1] = a[1] /\ ab[2] = a[2] /\ ab[3] = b[1] /\ ab[4] = b[2]
  BY <1>3, Joined
<1>5. Joins(u, ab, 4, c, 2)
  BY <1>1, <1>4 DEF Joins
<1> HIDE DEF u
<1>6. /\ Table(u, 6) /\ u[1] = ab[1] /\ u[2] = ab[2] /\ u[3] = ab[3] /\ u[4] = ab[4]
      /\ u[5] = c[1] /\ u[6] = c[2]
  BY <1>5, Joined
<1> QED BY <1>1, <1>2, <1>4, <1>6

\* A checkpoint inside or at the end of an epoch: the position comes last.
LEMMA SaveAtIs ==
  ASSUME NEW local \in Nat, NEW w \in Seq(Int), epoch \in Nat
  PROVE  LET s == SaveAt(local, w)
         IN  /\ Table(s, 9)
             /\ s[1] = Put(epoch, "model", Partial) /\ s[2] = Put(epoch, "model", w)
             /\ s[3] = Put(epoch, "opt", Partial) /\ s[4] = Put(epoch, "opt", w)
             /\ s[5] = Put(epoch, "sched", Partial) /\ s[6] = Put(epoch, "sched", w)
             /\ s[7] = Put(epoch, "state", Partial) /\ s[8] = Put(epoch, "state", <<local>>)
             /\ s[9] = [op |-> "saved",
                        at |-> epoch * NumSteps + IF local = 0 THEN NumSteps ELSE local]
<1> DEFINE a  == SaveCheckpoint(epoch, w)
           p  == <<local>>
           b  == Write(epoch, "state", p)
           o  == [op |-> "saved", at |-> epoch * NumSteps + IF local = 0 THEN NumSteps ELSE local]
           c  == <<o>>
           ab == a \o b
           u  == ab \o c
<1>1. /\ Table(a, 6) /\ a[1] = Put(epoch, "model", Partial) /\ a[2] = Put(epoch, "model", w)
      /\ a[3] = Put(epoch, "opt", Partial) /\ a[4] = Put(epoch, "opt", w)
      /\ a[5] = Put(epoch, "sched", Partial) /\ a[6] = Put(epoch, "sched", w)
  BY SaveCheckpointIs
<1>2. Table(b, 2) /\ b[1] = Put(epoch, "state", Partial) /\ b[2] = Put(epoch, "state", p)
  <2>1. p \in Seq(Int)
    OBVIOUS
  <2> HIDE DEF p
  <2> QED BY <2>1, WriteIs, FilesAre
<1>3. Table(c, 1) /\ c[1] = o
  <2>1. NumSteps \in Nat
    BY SettingsAreLegal
  <2>2. epoch * NumSteps \in Int
    BY <2>1
  <2>3. epoch * NumSteps + (IF local = 0 THEN NumSteps ELSE local) \in Int
    BY <2>1, <2>2
  <2>4. o \in Ops
    BY <2>3 DEF Ops
  <2> HIDE DEF o
  <2> QED BY <2>4 DEF Table
<1>4. SaveAt(local, w) = u
  BY DEF SaveAt
<1> HIDE DEF a, b, c
<1>5. Joins(ab, a, 6, b, 2)
  BY <1>1, <1>2 DEF Joins
<1> HIDE DEF ab
<1>6. /\ Table(ab, 8) /\ ab[1] = a[1] /\ ab[2] = a[2] /\ ab[3] = a[3] /\ ab[4] = a[4]
      /\ ab[5] = a[5] /\ ab[6] = a[6] /\ ab[7] = b[1] /\ ab[8] = b[2]
  BY <1>5, Joined
<1>7. Joins(u, ab, 8, c, 1)
  BY <1>3, <1>6 DEF Joins
<1> HIDE DEF u, o, p
<1>8. /\ Table(u, 9) /\ u[1] = ab[1] /\ u[2] = ab[2] /\ u[3] = ab[3] /\ u[4] = ab[4]
      /\ u[5] = ab[5] /\ u[6] = ab[6] /\ u[7] = ab[7] /\ u[8] = ab[8] /\ u[9] = c[1]
  <2>1. Table(u, 9) /\ u[9] = c[1]
    BY <1>7, Joined
  <2> QED BY <1>7, <2>1, Joined
<1>9. /\ Table(u, 9)
      /\ u[1] = Put(epoch, "model", Partial) /\ u[2] = Put(epoch, "model", w)
      /\ u[3] = Put(epoch, "opt", Partial) /\ u[4] = Put(epoch, "opt", w)
      /\ u[5] = Put(epoch, "sched", Partial) /\ u[6] = Put(epoch, "sched", w)
      /\ u[7] = Put(epoch, "state", Partial) /\ u[8] = Put(epoch, "state", p) /\ u[9] = o
  BY <1>1, <1>2, <1>3, <1>6, <1>8
<1> QED BY <1>4, <1>9 DEF o, p

\* A better epoch: its loss, then the link.
LEMMA UpdateBestIs ==
  ASSUME NEW loss \in Nat, epoch \in Nat
  PROVE  LET s == UpdateBest(loss)
         IN  /\ Table(s, 4)
             /\ s[1] = Put(epoch, "val", Partial) /\ s[2] = Put(epoch, "val", <<loss>>)
             /\ s[3] = [op |-> "link", to |-> NoLink] /\ s[4] = [op |-> "link", to |-> epoch]
<1> DEFINE p == <<loss>>
           a == Write(epoch, "val", p)
           x == [op |-> "link", to |-> NoLink]
           y == [op |-> "link", to |-> epoch]
           b == <<x, y>>
           u == a \o b
<1>1. Table(a, 2) /\ a[1] = Put(epoch, "val", Partial) /\ a[2] = Put(epoch, "val", p)
  <2>1. p \in Seq(Int)
    OBVIOUS
  <2>2. epoch \in Int
    OBVIOUS
  <2> HIDE DEF p
  <2> QED BY Zenon, <2>1, <2>2, WriteIs, FilesAre
<1>2. Table(b, 2) /\ b[1] = x /\ b[2] = y
  <2>1. x \in Ops /\ y \in Ops
    BY DEF Ops, NoLink
  <2> HIDE DEF x, y
  <2> QED BY <2>1 DEF Table
<1>3. UpdateBest(loss) = u
  BY DEF UpdateBest
<1> HIDE DEF a, b, x, y, p
<1>4. Joins(u, a, 2, b, 2)
  BY <1>1, <1>2 DEF Joins
<1> HIDE DEF u
<1>5. Table(u, 4) /\ u[1] = a[1] /\ u[2] = a[2] /\ u[3] = b[1] /\ u[4] = b[2]
  BY <1>4, Joined
<1>6. Table(u, 4) /\ u[1] = Put(epoch, "val", Partial) /\ u[2] = Put(epoch, "val", p) /\ u[3] = x /\ u[4] = y
  BY <1>1, <1>2, <1>5
<1> QED BY <1>3, <1>6 DEF p, x, y

\* The checkpoint of a better epoch, its loss and the link, and the cleanup.
LEMMA ReplaceBestIs ==
  ASSUME NEW loss \in Nat, epoch \in Nat, weights \in Seq(Int)
  PROVE  LET s == ReplaceBest(loss)
         IN  /\ Table(s, 12)
             /\ s[1] = Put(epoch, "model", Partial) /\ s[2] = Put(epoch, "model", weights)
             /\ s[3] = Put(epoch, "opt", Partial) /\ s[4] = Put(epoch, "opt", weights)
             /\ s[5] = Put(epoch, "sched", Partial) /\ s[6] = Put(epoch, "sched", weights)
             /\ s[7] = [op |-> "saved", at |-> (epoch + 1) * NumSteps]
             /\ s[8] = Put(epoch, "val", Partial) /\ s[9] = Put(epoch, "val", <<loss>>)
             /\ s[10] = [op |-> "link", to |-> NoLink] /\ s[11] = [op |-> "link", to |-> epoch]
             /\ s[12] = [op |-> "cleanup", keep |-> epoch]
<1> DEFINE a   == SaveCheckpoint(epoch, weights)
           x   == [op |-> "saved", at |-> (epoch + 1) * NumSteps]
           b   == <<x>>
           c   == UpdateBest(loss)
           y   == [op |-> "cleanup", keep |-> epoch]
           d   == <<y>>
           p   == <<loss>>
           v   == [op |-> "link", to |-> NoLink]
           w   == [op |-> "link", to |-> epoch]
           ab  == a \o b
           abc == ab \o c
           u   == abc \o d
<1>1. /\ Table(a, 6) /\ a[1] = Put(epoch, "model", Partial) /\ a[2] = Put(epoch, "model", weights)
      /\ a[3] = Put(epoch, "opt", Partial) /\ a[4] = Put(epoch, "opt", weights)
      /\ a[5] = Put(epoch, "sched", Partial) /\ a[6] = Put(epoch, "sched", weights)
  BY SaveCheckpointIs
<1>2. Table(b, 1) /\ b[1] = x
  <2>1. (epoch + 1) * NumSteps \in Int
    BY SettingsAreLegal
  <2>2. x \in Ops
    BY <2>1 DEF Ops
  <2> HIDE DEF x
  <2> QED BY <2>2 DEF Table
<1>3. /\ Table(c, 4)
      /\ c[1] = Put(epoch, "val", Partial) /\ c[2] = Put(epoch, "val", p) /\ c[3] = v /\ c[4] = w
  BY UpdateBestIs
<1>4. Table(d, 1) /\ d[1] = y
  <2>1. y \in Ops
    BY DEF Ops
  <2> HIDE DEF y
  <2> QED BY <2>1 DEF Table
<1>5. ReplaceBest(loss) = u
  BY DEF ReplaceBest, SaveBest, Cleanup
<1> HIDE DEF a, b, c, d, x, y, p, v, w
<1>6. Joins(ab, a, 6, b, 1)
  BY <1>1, <1>2 DEF Joins
<1> HIDE DEF ab
<1>7. /\ Table(ab, 7) /\ ab[1] = a[1] /\ ab[2] = a[2] /\ ab[3] = a[3] /\ ab[4] = a[4]
      /\ ab[5] = a[5] /\ ab[6] = a[6] /\ ab[7] = b[1]
  <2>1. Table(ab, 7) /\ ab[7] = b[1]
    BY <1>6, Joined
  <2> QED BY <1>6, <2>1, Joined
<1>8. Joins(abc, ab, 7, c, 4)
  BY <1>3, <1>7 DEF Joins
<1> HIDE DEF abc
<1>9. /\ Table(abc, 11) /\ abc[1] = ab[1] /\ abc[2] = ab[2] /\ abc[3] = ab[3] /\ abc[4] = ab[4]
      /\ abc[5] = ab[5] /\ abc[6] = ab[6] /\ abc[7] = ab[7]
      /\ abc[8] = c[1] /\ abc[9] = c[2] /\ abc[10] = c[3] /\ abc[11] = c[4]
  <2>1. Table(abc, 11)
    BY <1>8, Joined
  <2>2. \A i \in Nat : 1 <= i /\ i <= 7 => abc[i] = ab[i]
    BY <1>8, Joined
  <2>3. \A i \in Nat : 7 < i /\ i <= 11 => abc[i] = c[i - 7]
    BY <1>8, JoinedTail
  <2>4. abc[8] = c[8 - 7] /\ abc[9] = c[9 - 7] /\ abc[10] = c[10 - 7] /\ abc[11] = c[11 - 7]
    <3>1. 8 \in Nat /\ 9 \in Nat /\ 10 \in Nat /\ 11 \in Nat
      OBVIOUS
    <3>2. 7 < 8 /\ 7 < 9 /\ 7 < 10 /\ 7 < 11 /\ 8 <= 11 /\ 9 <= 11 /\ 10 <= 11 /\ 11 <= 11
      OBVIOUS
    <3> QED BY Zenon, <2>3, <3>1, <3>2
  <2>5. 8 - 7 = 1 /\ 9 - 7 = 2 /\ 10 - 7 = 3 /\ 11 - 7 = 4
    OBVIOUS
  <2> QED BY <2>1, <2>2, <2>4, <2>5
<1>10. Joins(u, abc, 11, d, 1)
  BY <1>4, <1>9 DEF Joins
<1> HIDE DEF u
<1>11. /\ Table(u, 12) /\ u[1] = abc[1] /\ u[2] = abc[2] /\ u[3] = abc[3] /\ u[4] = abc[4]
       /\ u[5] = abc[5] /\ u[6] = abc[6] /\ u[7] = abc[7] /\ u[8] = abc[8] /\ u[9] = abc[9]
       /\ u[10] = abc[10] /\ u[11] = abc[11] /\ u[12] = d[1]
  <2>1. Table(u, 12) /\ u[12] = d[1]
    BY <1>10, Joined
  <2> QED BY <1>10, <2>1, Joined
<1>12. /\ u[1] = Put(epoch, "model", Partial) /\ u[2] = Put(epoch, "model", weights)
       /\ u[3] = Put(epoch, "opt", Partial) /\ u[4] = Put(epoch, "opt", weights)
       /\ u[5] = Put(epoch, "sched", Partial) /\ u[6] = Put(epoch, "sched", weights)
       /\ u[7] = x
  BY <1>1, <1>2, <1>7, <1>9, <1>11
<1>13. /\ u[8] = Put(epoch, "val", Partial) /\ u[9] = Put(epoch, "val", p)
       /\ u[10] = v /\ u[11] = w /\ u[12] = y
  BY <1>3, <1>4, <1>9, <1>11
<1> QED BY <1>5, <1>11, <1>12, <1>13 DEF x, y, p, v, w

-----------------------------------------------------------------------------
(* Facts about every state.                                                *)

LEMMA Legal ==
  ASSUME Typed
  PROVE  /\ NumEpochs \in Nat /\ NumEpochs > 0 /\ NumSteps \in Nat /\ NumSteps > 0
         /\ set \in Settings /\ set.accum \in Nat \ {0} /\ set.interval \in 0..NumSteps
         /\ set.freq \in Nat \ {0} /\ set.best \in BOOLEAN /\ set.torn \in BOOLEAN
         /\ epoch \in Nat /\ step \in Nat /\ skip \in Nat /\ skip <= step /\ step <= NumSteps
         /\ Epochs \subseteq Nat /\ NoLink \notin Nat /\ Interrupted \notin Epochs
         /\ weights \in Seq(Int)
<1>1. /\ NumEpochs \in Nat /\ NumEpochs > 0 /\ NumSteps \in Nat /\ NumSteps > 0
      /\ Settings \subseteq [accum : Nat \ {0}, interval : 0..NumSteps,
                             freq : Nat \ {0}, best : BOOLEAN, torn : BOOLEAN]
  BY SettingsAreLegal
<1>2. /\ set \in Settings
      /\ epoch \in 0..NumEpochs /\ step \in 0..NumSteps /\ skip \in 0..step /\ weights \in Seq(Batches)
  BY DEF Typed, TypedMemory
<1>3. set \in [accum : Nat \ {0}, interval : 0..NumSteps, freq : Nat \ {0}, best : BOOLEAN, torn : BOOLEAN]
  BY <1>1, <1>2
<1>4. Epochs \subseteq Nat /\ NoLink \notin Nat /\ Interrupted \notin Epochs
  BY <1>1 DEF Epochs, NoLink, Interrupted
<1>5. weights \in Seq(Int)
  <2>1. \A b \in Batches : b \in Int
    BY DEF Batches
  <2>2. Len(weights) \in Nat /\ weights = [i \in 1..Len(weights) |-> weights[i]]
    BY <1>2
  <2>3. \A i \in 1..Len(weights) : weights[i] \in Int
    BY <1>2, <2>1
  <2> QED BY <2>2, <2>3
<1> QED BY <1>1, <1>2, <1>3, <1>4, <1>5

\* A file that is cut short or missing is like no other.
LEMMA ContentsDiffer ==
  /\ Absent # Partial /\ Absent \notin Seq(Batches) /\ Partial \notin Seq(Batches)
  /\ Absent \notin MidStates /\ Partial \notin MidStates
  /\ \A n \in Nat : <<n>> \in MidStates <=> n \in 1..NumSteps
<1>1. NumEpochs * NumSteps \in Nat /\ NumSteps \in Nat
  BY SettingsAreLegal
<1>2. \A w \in Seq(Batches) : Len(w) = 1 => w[1] \in Batches
  OBVIOUS
<1>3. \A b \in Batches : b > 0
  BY <1>1 DEF Batches
<1>4. Absent \notin Seq(Batches)
  <2>1. Len(Absent) = 1 /\ Absent[1] = -1
    BY DEF Absent
  <2> QED BY <1>2, <1>3, <2>1
<1>5. Partial \notin Seq(Batches)
  <2>1. Len(Partial) = 1 /\ Partial[1] = -2
    BY DEF Partial
  <2> QED BY <1>2, <1>3, <2>1
<1>6. Absent # Partial /\ Absent \notin MidStates /\ Partial \notin MidStates
  BY <1>1 DEF Absent, Partial, MidStates
<1>7. \A n \in Nat : <<n>> \in MidStates <=> n \in 1..NumSteps
  <2> SUFFICES ASSUME NEW n \in Nat, NEW m \in 1..NumSteps, <<n>> = <<m>> PROVE n = m
    BY DEF MidStates
  <2>1. <<n>>[1] = <<m>>[1]
    OBVIOUS
  <2> QED BY <2>1
<1> QED BY <1>4, <1>5, <1>6, <1>7

AnyFile == WeightFiles \cup StateFiles \cup LossFiles
FitsFile(f, c) == \/ f \in {"model", "opt", "sched"} /\ c \in WeightFiles
                  \/ f = "state" /\ c \in StateFiles
                  \/ f = "val" /\ c \in LossFiles

\* Every file of a directory, one that is not there included.
LEMMA DirTyped ==
  ASSUME Typed, NEW d
  PROVE  Dir(d) \in [Files -> AnyFile] /\ \A f \in Files : FitsFile(f, Dir(d)[f])
<1>1. CASE d \in DOMAIN dirs
  <2>1. /\ dirs[d] \in [Files -> AnyFile]
        /\ dirs[d]["model"] \in WeightFiles /\ dirs[d]["opt"] \in WeightFiles
        /\ dirs[d]["sched"] \in WeightFiles
        /\ dirs[d]["state"] \in StateFiles /\ dirs[d]["val"] \in LossFiles
    BY <1>1 DEF Typed, TypedDisk, AnyFile
  <2>2. Dir(d) = dirs[d]
    BY <1>1 DEF Dir
  <2> QED BY <2>1, <2>2 DEF Files, FitsFile
<1>2. CASE d \notin DOMAIN dirs
  <2>1. Dir(d) = EmptyDir
    BY <1>2 DEF Dir
  <2>2. Absent \in WeightFiles /\ Absent \in StateFiles /\ Absent \in LossFiles
    BY DEF WeightFiles, StateFiles, LossFiles
  <2>3. EmptyDir \in [Files -> AnyFile] /\ \A f \in Files : EmptyDir[f] = Absent
    BY <2>2 DEF EmptyDir, AnyFile
  <2>4. \A f \in Files : FitsFile(f, Absent)
    BY <2>2 DEF Files, FitsFile
  <2> QED BY <2>1, <2>3, <2>4
<1> QED BY <1>1, <1>2

\* The step writes c to file f of checkpoint d.
Writes(d, f, c) ==
  /\ d \in Epochs \cup {Interrupted} /\ f \in Files /\ FitsFile(f, c)
  /\ dirs' = With(dirs, d, [Dir(d) EXCEPT ![f] = c])
  /\ UNCHANGED <<best, savedAt, validated>>

\* What a write does to the disk.
Wrote(d, f, c) ==
  /\ TypedDisk'
  /\ DOMAIN dirs' = DOMAIN dirs \cup {d}
  /\ \A x \in DOMAIN dirs : x # d => dirs'[x] = dirs[x]
  /\ dirs'[d][f] = c /\ \A g \in Files : g # f => dirs'[d][g] = Dir(d)[g]

LEMMA Written ==
  ASSUME Typed, NEW d, NEW f, NEW c, Writes(d, f, c)
  PROVE  Wrote(d, f, c)
<1> DEFINE new == [Dir(d) EXCEPT ![f] = c]
<1> USE DEF Writes
<1>1. Dir(d) \in [Files -> AnyFile] /\ \A g \in Files : FitsFile(g, Dir(d)[g])
  BY DirTyped
<1>2. c \in AnyFile
  BY DEF FitsFile, AnyFile
<1>3. /\ new \in [Files -> AnyFile] /\ new[f] = c
      /\ \A g \in Files : g # f => new[g] = Dir(d)[g]
  BY <1>1, <1>2
<1> HIDE DEF new
<1>4. \A g \in Files : FitsFile(g, new[g])
  BY <1>1, <1>3
<1>5. /\ DOMAIN dirs' = DOMAIN dirs \cup {d} /\ dirs'[d] = new
      /\ \A x \in DOMAIN dirs : x # d => dirs'[x] = dirs[x]
  BY DEF With, new
<1>6. /\ new.model \in WeightFiles /\ new.opt \in WeightFiles /\ new.sched \in WeightFiles
      /\ new.state \in StateFiles /\ new.val \in LossFiles
  <2>1. FitsFile("model", new.model) /\ FitsFile("opt", new.opt) /\ FitsFile("sched", new.sched)
        /\ FitsFile("state", new.state) /\ FitsFile("val", new.val)
    BY <1>4 DEF Files
  <2> QED BY <2>1 DEF FitsFile
<1>7. \A x \in DOMAIN dirs' :
        /\ dirs'[x] \in [Files -> WeightFiles \cup StateFiles \cup LossFiles]
        /\ dirs'[x].model \in WeightFiles /\ dirs'[x].opt \in WeightFiles
        /\ dirs'[x].sched \in WeightFiles
        /\ dirs'[x].state \in StateFiles /\ dirs'[x].val \in LossFiles
  <2> SUFFICES ASSUME NEW x \in DOMAIN dirs'
               PROVE  /\ dirs'[x] \in [Files -> WeightFiles \cup StateFiles \cup LossFiles]
                      /\ dirs'[x].model \in WeightFiles /\ dirs'[x].opt \in WeightFiles
                      /\ dirs'[x].sched \in WeightFiles
                      /\ dirs'[x].state \in StateFiles /\ dirs'[x].val \in LossFiles
    OBVIOUS
  <2>1. CASE x = d
    BY <1>3, <1>5, <1>6, <2>1 DEF AnyFile
  <2>2. CASE x # d
    <3>1. x \in DOMAIN dirs /\ dirs'[x] = dirs[x]
      BY <1>5, <2>2
    <3> QED BY <3>1 DEF Typed, TypedDisk
  <2> QED BY <2>1, <2>2
<1>8. DOMAIN dirs' \subseteq Epochs \cup {Interrupted}
  BY <1>5 DEF Typed, TypedDisk
<1>9. TypedDisk'
  BY <1>7, <1>8 DEF Typed, TypedDisk
<1> QED BY <1>3, <1>5, <1>9 DEF Wrote
-----------------------------------------------------------------------------
(* The initial state, and steps that change nothing on the disk.           *)

LEMMA NoBatches == FirstBatches(0) = <<>>
BY DEF FirstBatches

LEMMA InitIsGood == Init => IInv
<1> SUFFICES ASSUME Init PROVE IInv
  OBVIOUS
<1>1. Typed
  <2>1. NumEpochs \in Nat \ {0} /\ NumSteps \in Nat \ {0} /\ MaxRuns \in Nat
    BY SettingsAreLegal
  <2>2. set \in Settings /\ set.accum \in Nat
    BY SettingsAreLegal DEF Init
  <2>3. NumEpochs * NumSteps \in Nat
    BY <2>1
  <2>4. TypedMemory
    BY <2>1, <2>2 DEF Init, TypedMemory
  <2>5. TypedDisk
    BY <2>1, <2>3 DEF Init, TypedDisk
  <2> QED BY <2>4, <2>5 DEF Typed
<1>2. pc = "down" /\ plan = <<>> /\ best = NoLink /\ DOMAIN dirs = {} /\ DOMAIN validated = {} /\ savedAt = 0
  BY DEF Init
<1>3. ~Live /\ Numbered = {} /\ ~Saving /\ ~Moving
  BY <1>2 DEF Live, Numbered, Saving, Moving
<1>4. Window /\ Ahead /\ NoPosition /\ Planned
  BY <1>2, <1>3 DEF Window, Ahead, NoPosition, Planned
<1>5. Linked /\ Kept
  BY <1>2 DEF Linked, Kept
<1>6. Restorable
  BY <1>2, <1>3 DEF Restorable, Newest
<1>7. Lowest
  BY <1>2, <1>3 DEF Lowest
<1>8. Once
  BY <1>2, <1>3 DEF Once, Newest
<1> QED BY <1>1, <1>4, <1>5, <1>6, <1>7, <1>8 DEF IInv

LEMMA Unchanged ==
  ASSUME IInv, UNCHANGED vars
  PROVE  IInv'
<1>1. /\ set' = set /\ run' = run /\ pc' = pc /\ epoch' = epoch /\ step' = step /\ skip' = skip
      /\ weights' = weights /\ grads' = grads /\ bestLoss' = bestLoss /\ plan' = plan
      /\ dirs' = dirs /\ best' = best /\ validated' = validated /\ savedAt' = savedAt
  BY DEF vars, memory, disk
<1>2. Typed' /\ Window' /\ Ahead' /\ NoPosition'
  BY <1>1 DEF IInv, Typed, TypedMemory, TypedDisk, Window, Ahead, NoPosition, Live, Numbered
<1>3. Planned'
  <2>1. \A n \in 0..8 : Filled(n)' <=> Filled(n)
    BY <1>1 DEF Filled
  <2>2. Filled(6)' <=> Filled(6)
    BY <1>1 DEF Filled
  <2>3. InSave(0)' <=> InSave(0)
    BY <1>1 DEF InSave, Filled, SaveAt
  <2>4. InSave(step)' <=> InSave(step)
    BY <1>1 DEF InSave, Filled, SaveAt
  <2>5. InReplace' <=> InReplace
    BY <1>1 DEF InReplace, Filled, ReplaceBest, SaveBest, UpdateBest, Cleanup
  <2>6. Complete' <=> Complete
    BY <1>1 DEF Complete, Filled
  <2>7. InUpdate' <=> InUpdate
    BY <1>1, <2>6 DEF InUpdate, UpdateBest
  <2>8. (SavesEpoch' <=> SavesEpoch) /\ (Live' <=> Live)
    BY <1>1 DEF SavesEpoch, Live
  <2> QED BY <1>1, <2>3, <2>4, <2>5, <2>6, <2>7, <2>8 DEF IInv, Planned
<1>4. Linked' /\ Kept'
  BY <1>1 DEF IInv, Linked, Kept, IsWhole, Numbered, Live, Saving
<1>5. Restorable' /\ Lowest'
  BY <1>1 DEF IInv, Restorable, Lowest, Saving, Numbered, Newest, IsWhole, Position, Moving, Live
<1>6. Once'
  BY <1>1 DEF IInv, Once, Live, Aligned, Between, Saving, Newest, Numbered
<1> QED BY <1>2, <1>3, <1>4, <1>5, <1>6 DEF IInv

\* The disk in the same state: what is whole, and what is the newest.
Same == dirs' = dirs /\ best' = best /\ validated' = validated /\ savedAt' = savedAt /\ set' = set
LEMMA SameDisk ==
  ASSUME Same
  PROVE  /\ Numbered' = Numbered
         /\ \A d : IsWhole(d)' <=> IsWhole(d)
         /\ \A d : Newest(d)' <=> Newest(d)
         /\ \A d : Position(d)' = Position(d)
         /\ \A n : Aligned(n)' <=> Aligned(n)
         /\ TypedDisk => TypedDisk'
         /\ NoPosition => NoPosition'
BY DEF Same, Numbered, IsWhole, Newest, Position, Aligned, TypedDisk, NoPosition
-----------------------------------------------------------------------------
(* Signals and crashes.                                                    *)

\* A run that ends leaves the disk as it is.
LEMMA EndsWell ==
  ASSUME IInv, pc' \in {"down", "interrupt"}, plan = <<>> \/ set.torn, Same,
         run' = run, memory' = memory,
         pc' = "down" => plan' = <<>>,
         pc' = "interrupt" => plan' = SaveCheckpoint(Interrupted, weights),
         pc' = "interrupt" => Live
  PROVE  IInv'
<1>1. /\ set' = set /\ run' = run /\ epoch' = epoch /\ step' = step /\ skip' = skip
      /\ weights' = weights /\ grads' = grads /\ bestLoss' = bestLoss
      /\ dirs' = dirs /\ best' = best /\ validated' = validated /\ savedAt' = savedAt
  BY DEF memory, Same
<1>2. /\ Numbered' = Numbered /\ \A d : IsWhole(d)' <=> IsWhole(d)
      /\ \A d : Newest(d)' <=> Newest(d)
      /\ \A d : Position(d)' = Position(d)
      /\ \A n : Aligned(n)' <=> Aligned(n)
      /\ TypedDisk' /\ NoPosition'
  BY SameDisk DEF IInv, Typed
<1>3. (Live' => Live) /\ ~Saving' /\ ~Moving'
  BY DEF Live, Saving, Moving
<1>4. ~set.torn => ~Saving /\ ~Moving
  BY DEF Saving, Moving
<1>5. Typed'
  BY <1>1, <1>2 DEF IInv, Typed, TypedMemory
<1>6. Window' /\ Ahead'
  BY <1>1, <1>2, <1>3 DEF IInv, Window, Ahead
<1>7. Planned'
  <2>1. CASE pc' = "down"
    BY <2>1 DEF Planned
  <2>2. CASE pc' = "interrupt"
    <3> DEFINE full == SaveCheckpoint(Interrupted, weights)
    <3>1. weights \in Seq(Int) /\ Interrupted \in Int
      BY Legal DEF IInv, Interrupted
    <3>2. Table(full, 6)
      BY <3>1, SaveCheckpointIs
    <3>3. plan' = Rest(full, 0)
      <4> HIDE DEF full
      <4> QED BY <2>2, <3>2, RestEnds DEF full
    <3>4. \E n \in 0..5 : plan' = Rest(SaveCheckpoint(Interrupted, weights'), n)
      BY <1>1, <3>3
    <3> QED BY <2>2, <3>4 DEF Planned, Live
  <2> QED BY <2>1, <2>2
<1>8. Linked'
  BY <1>1, <1>2, <1>3 DEF IInv, Linked
<1>9. Kept'
  BY <1>1, <1>2, <1>3 DEF IInv, Kept
<1>10. Restorable'
  BY <1>1, <1>2, <1>4 DEF IInv, Restorable
<1>11. Lowest'
  BY <1>1, <1>3, <1>4 DEF IInv, Lowest
<1>12. Once'
  BY <1>1, <1>2, <1>3, <1>4 DEF IInv, Once
<1> QED BY <1>5, <1>6, <1>7, <1>8, <1>9, <1>10, <1>11, <1>12, <1>2 DEF IInv

LEMMA InterruptStep == ASSUME IInv, Interrupt PROVE IInv'
<1>1. /\ pc' = "interrupt" /\ plan' = SaveCheckpoint(Interrupted, weights)
      /\ plan = <<>> \/ set.torn
      /\ Live /\ Same /\ run' = run /\ memory' = memory
  BY DEF Interrupt, Same, Live, disk, memory
<1> QED BY <1>1, EndsWell

LEMMA StopStep == ASSUME IInv, Stop PROVE IInv'
<1>1. pc' = "down" /\ plan = <<>> /\ plan' = <<>> /\ Same /\ run' = run /\ memory' = memory
  BY DEF Stop, Same, disk, memory
<1> QED BY <1>1, EndsWell

LEMMA KillStep == ASSUME IInv, Kill PROVE IInv'
<1>1. /\ pc' = "down" /\ plan' = <<>> /\ (plan = <<>> \/ set.torn)
      /\ Same /\ run' = run /\ memory' = memory
  BY DEF Kill, Same, disk, memory
<1> QED BY <1>1, EndsWell

\* The next epoch is ahead of everything on the disk.
LEMMA NextEpochStep == ASSUME IInv, NextEpoch PROVE IInv'
<1>1. /\ set' = set /\ run' = run /\ epoch' = epoch + 1 /\ step' = 0 /\ skip' = 0
      /\ weights' = weights /\ grads' = grads /\ bestLoss' = bestLoss
      /\ dirs' = dirs /\ best' = best /\ validated' = validated /\ savedAt' = savedAt
      /\ pc = "best" /\ plan = <<>> /\ plan' = <<>>
      /\ pc' = IF epoch' = NumEpochs THEN "finished" ELSE "batch"
  BY DEF NextEpoch, disk
<1>2. /\ Numbered' = Numbered /\ \A d : IsWhole(d)' <=> IsWhole(d)
      /\ \A d : Newest(d)' <=> Newest(d)
      /\ \A d : Position(d)' = Position(d)
      /\ \A n : Aligned(n)' <=> Aligned(n)
      /\ TypedDisk' /\ NoPosition'
  BY <1>1, SameDisk DEF IInv, Typed, Same
<1>3. Live /\ ~Saving /\ ~Saving' /\ ~Moving /\ ~Moving'
  BY <1>1 DEF Live, Saving, Moving
<1>4. epoch < NumEpochs /\ \A d \in Numbered : d <= epoch
  BY <1>3 DEF IInv, Ahead
<1>5. /\ NumEpochs \in Nat /\ NumSteps \in Nat /\ epoch \in Nat /\ set.accum \in Nat \ {0}
      /\ Numbered \subseteq Nat
  BY Legal DEF IInv, Numbered
<1>6. Typed'
  <2>1. epoch' \in 0..NumEpochs
    BY <1>1, <1>4, <1>5
  <2> QED BY <1>1, <1>2, <2>1, <1>5 DEF IInv, Typed, TypedMemory
<1>7. 0 % set.accum = 0
  BY <1>5
<1>8. Window'
  BY <1>1, <1>7 DEF Window
<1>9. Ahead'
  <2>1. Live' => epoch' < NumEpochs
    BY <1>1, <1>4, <1>5 DEF Live
  <2>2. \A d \in Numbered : d <= epoch'
    BY <1>1, <1>4, <1>5
  <2> QED BY <1>2, <2>1, <2>2 DEF Ahead
<1>10. Planned'
  BY <1>1 DEF Planned
<1>11. Linked'
  <2>1. best # NoLink => best <= epoch /\ best \in Nat
    BY <1>3, <1>4, <1>5 DEF IInv, Linked
  <2>2. best # NoLink => best <= epoch' /\ best # epoch'
    BY <1>1, <1>5, <2>1
  <2> QED BY <1>1, <1>2, <2>2 DEF IInv, Linked
<1>12. Kept'
  <2>1. \A d \in Numbered : d < epoch'
    BY <1>1, <1>4, <1>5
  <2> QED BY <1>1, <1>2, <2>1 DEF IInv, Kept
<1>13. Restorable'
  BY <1>1, <1>2, <1>3 DEF IInv, Restorable
<1>14. Lowest'
  BY <1>1, <1>3 DEF IInv, Lowest
<1>15. Once'
  <2> SUFFICES ASSUME ~set.torn, Fits PROVE Once'
    BY <1>1 DEF Once, Fits
  <2>1. weights = FirstBatches((epoch + 1) * NumSteps)
    BY <1>1 DEF IInv, Once
  <2>2. Between'
    BY <1>1, <1>7 DEF Between
  <2>3. Aligned(skip')
    BY <1>1 DEF Aligned
  <2>4. (epoch + 1) * NumSteps = epoch' * NumSteps + step'
    BY <1>1, <1>5
  <2>5. weights' = FirstBatches(epoch' * NumSteps + step')
    BY <1>1, <2>1, <2>4
  <2>6. Aligned(skip)'
    BY <1>1, <2>3 DEF Aligned
  <2>7. (\A p \in Epochs : Newest(p) =>
           /\ dirs[p].model = FirstBatches(savedAt)
           /\ dirs[p].state \in MidStates => Aligned(dirs[p].state[1]))'
    BY <1>1, <1>2, <1>3 DEF IInv, Once
  <2>8. pc' \notin {"endsave", "best"}
    BY <1>1
  <2> QED BY <1>1, <2>2, <2>5, <2>6, <2>7, <2>8 DEF Once
<1> QED BY <1>2, <1>6, <1>8, <1>9, <1>10, <1>11, <1>12, <1>13, <1>14, <1>15 DEF IInv
-----------------------------------------------------------------------------
(* Starting.                                                               *)

\* If there is a checkpoint, the one with the highest number is found.
LEMMA PreviousIs ==
  ASSUME Typed, Numbered # {}
  PROVE  /\ Previous \in Numbered /\ Previous \in Epochs /\ Previous \in Nat /\ Previous < NumEpochs
         /\ \A d \in Numbered : d <= Previous
         /\ Newest(Previous)
<1>1. Numbered \in SUBSET Nat /\ Numbered \subseteq Epochs /\ NumEpochs \in Nat
  BY Legal DEF Numbered
<1>2. \A d \in Numbered : d <= NumEpochs
  BY <1>1 DEF Epochs
<1>3. \E x \in Numbered : \A y \in Numbered : y <= x
  BY <1>1, <1>2, GreatestNumber
<1>4. Previous \in Numbered /\ \A d \in Numbered : d <= Previous
  BY <1>3 DEF Previous
<1>5. Previous \in Nat /\ Previous < NumEpochs
  BY <1>1, <1>4 DEF Epochs
<1> QED BY <1>1, <1>4, <1>5 DEF Newest

LEMMA StartStep == ASSUME IInv, Start PROVE IInv'
<1>1. /\ pc \in {"down", "finished"} /\ run < MaxRuns /\ run' = run + 1 /\ grads' = <<>>
      /\ set' = set /\ plan' = plan
      /\ dirs' = dirs /\ best' = best /\ validated' = validated /\ savedAt' = savedAt
      /\ StartFresh \/ StartResumed \/ StartFails
  BY DEF Start, disk
<1>2. /\ Numbered' = Numbered /\ \A d : IsWhole(d)' <=> IsWhole(d)
      /\ \A d : Newest(d)' <=> Newest(d)
      /\ \A d : Position(d)' = Position(d)
      /\ \A n : Aligned(n)' <=> Aligned(n)
      /\ TypedDisk' /\ NoPosition'
  BY <1>1, SameDisk DEF IInv, Typed, Same
<1>3. ~Live /\ plan = <<>>
  BY <1>1 DEF IInv, Planned, Live
<1>4. ~Saving /\ ~Saving' /\ ~Moving /\ ~Moving' /\ plan' = <<>>
  BY <1>1, <1>3 DEF Saving, Moving
<1>5. /\ NumEpochs \in Nat /\ NumEpochs > 0 /\ NumSteps \in Nat /\ epoch \in Nat /\ set.accum \in Nat \ {0}
      /\ Numbered \subseteq Nat /\ Epochs \subseteq Nat
  BY Legal DEF IInv, Numbered
<1>6. /\ run' \in 0..MaxRuns /\ set' \in Settings /\ grads' \in Seq(Batches) /\ Len(grads') <= set'.accum
  <2>1. run \in 0..MaxRuns /\ MaxRuns \in Nat /\ run' \in 0..MaxRuns
    BY <1>1, SettingsAreLegal DEF IInv, Typed, TypedMemory
  <2>2. Len(<<>>) = 0 /\ <<>> \in Seq(Batches)
    OBVIOUS
  <2>3. Len(grads') <= set'.accum
    BY <1>1, <1>5, <2>2
  <2> QED BY <1>1, <2>1, <2>2, <2>3 DEF IInv, Typed, TypedMemory
<1>7. 0 % set.accum = 0
  BY <1>5
<1>8. Planned' /\ Restorable'
  <2>1. pc' # "endsave"
    BY <1>1 DEF StartFresh, StartResumed, StartFails
  <2>2. Planned'
    BY <1>4, <2>1 DEF Planned
  <2>3. Restorable'
    BY <1>1, <1>2, <1>4 DEF IInv, Restorable
  <2> QED BY <2>2, <2>3
<1>9. CASE StartFresh
  <2>1. /\ Numbered = {} /\ epoch' = 0 /\ step' = 0 /\ skip' = 0 /\ weights' = <<>>
        /\ bestLoss' = Infinite /\ pc' = "batch"
    BY <1>9 DEF StartFresh
  <2>2. best = NoLink
    BY <2>1 DEF IInv, Linked
  <2>3. Typed'
    BY <1>2, <1>5, <1>6, <2>1 DEF Typed, TypedMemory
  <2>4. Window' /\ Ahead' /\ Linked' /\ Kept'
    BY <1>1, <1>2, <1>5, <1>7, <2>1, <2>2 DEF IInv, Window, Ahead, Linked, Kept
  <2>5. Lowest'
    BY <1>1, <1>4, <2>1, <2>2 DEF IInv, Lowest
  <2>6. Once'
    <3>1. Between' /\ Aligned(skip)'
      BY <1>1, <1>7, <2>1 DEF Between, Aligned
    <3>2. epoch' * NumSteps + step' = 0
      BY <1>5, <2>1
    <3>3. weights' = FirstBatches(epoch' * NumSteps + step')
      BY <2>1, <3>2, NoBatches
    <3>4. (\A p \in Epochs : ~Newest(p))'
      BY <1>2, <2>1 DEF Newest
    <3> QED BY <2>1, <3>1, <3>3, <3>4 DEF Once
  <2> QED BY <1>2, <1>8, <2>3, <2>4, <2>5, <2>6 DEF IInv
<1>10. CASE StartFails
  <2>1. /\ pc' = "failed" /\ epoch' = epoch /\ step' = step /\ skip' = skip
        /\ weights' = weights /\ bestLoss' = bestLoss
    BY <1>10 DEF StartFails
  <2>2. ~Live'
    BY <2>1 DEF Live
  <2>3. Typed'
    BY <1>2, <1>6, <2>1 DEF IInv, Typed, TypedMemory
  <2>4. Window' /\ Ahead'
    BY <2>1, <2>2 DEF Window, Ahead
  <2>5. Linked' /\ Kept'
    BY <1>1, <1>2, <1>4, <2>1, <2>2 DEF IInv, Linked, Kept
  <2>6. Lowest' /\ Once'
    BY <1>1, <1>2, <1>4, <2>1, <2>2 DEF IInv, Lowest, Once
  <2> QED BY <1>2, <1>8, <2>3, <2>4, <2>5, <2>6 DEF IInv
<1>11. CASE StartResumed
  <2>1. /\ Numbered # {} /\ IsWhole(Previous)
        /\ epoch' = IF MidEpoch THEN Previous ELSE Previous + 1
        /\ step' = ResumeStep /\ skip' = ResumeStep
        /\ weights' = dirs[Previous].model /\ bestLoss' = RestoredLoss
        /\ pc' = IF epoch' = NumEpochs THEN "finished" ELSE "batch"
    BY <1>11 DEF StartResumed
  <2>2. /\ Previous \in Numbered /\ Previous \in Epochs /\ Previous \in Nat /\ Previous < NumEpochs
        /\ \A d \in Numbered : d <= Previous
        /\ Newest(Previous)
    BY <2>1, PreviousIs DEF IInv
  <2>3. MidEpoch <=> dirs[Previous].state \in MidStates
    BY DEF MidEpoch, MidStates
  <2>4. /\ MidEpoch => ResumeStep \in 1..NumSteps /\ dirs[Previous].state = <<ResumeStep>>
        /\ ~MidEpoch => ResumeStep = 0
    BY <2>3 DEF ResumeStep, MidStates
  <2>5. step' \in 0..NumSteps /\ skip' \in 0..step' /\ step' - skip' = 0
    BY <1>5, <2>1, <2>4
  <2>6. epoch' \in 0..NumEpochs /\ Previous <= epoch'
    BY <1>5, <2>1, <2>2
  <2>7. dirs[Previous].model \in Seq(Batches)
    BY <2>1, <2>2 DEF IInv, Typed, TypedDisk, IsWhole, WeightFiles, Numbered
  <2>8. RestoredLoss \in Losses \cup {Infinite}
    BY DEF RestoredLoss
  <2>9. Typed'
    <3>1. pc' \in {"finished", "batch"}
      BY <2>1
    <3> QED BY <1>2, <1>6, <2>1, <2>5, <2>6, <2>7, <2>8, <3>1 DEF Typed, TypedMemory
  <2>10. Window'
    BY <1>1, <1>7, <2>5 DEF Window
  <2>11. Ahead'
    <3>1. Live' => epoch' < NumEpochs
      BY <1>5, <2>1, <2>6 DEF Live
    <3>2. \A d \in Numbered : d <= epoch'
      BY <1>5, <2>2, <2>6
    <3> QED BY <1>2, <3>1, <3>2 DEF Ahead
  <2>12. Linked'
    <3> SUFFICES ASSUME best # NoLink PROVE Linked'
      BY <1>1 DEF Linked
    <3>1. best \in Numbered /\ IsWhole(best) /\ dirs[best].state \notin MidStates
      BY DEF IInv, Linked
    <3>2. best <= epoch' /\ best \in Nat /\ best < NumEpochs
      BY <1>5, <2>2, <2>6, <3>1 DEF Numbered, Epochs
    <3>3. best = epoch' => best = Previous /\ MidEpoch
      BY <2>1, <2>2, <3>1, <3>2
    <3>4. best # epoch'
      BY <2>3, <3>1, <3>3
    <3> QED BY <1>1, <1>2, <3>1, <3>2, <3>4 DEF Linked
  <2>13. Kept'
    <3> SUFFICES ASSUME set.interval = 0, savedAt > 0 PROVE Kept'
      BY <1>1 DEF Kept
    <3>1. ~MidEpoch
      BY <2>2, <2>3 DEF IInv, NoPosition
    <3>2. Previous < epoch'
      BY <2>1, <2>2, <3>1
    <3> QED BY <1>2, <1>4, <2>1, <2>2, <3>2 DEF Kept
  <2>14. Lowest'
    <3> SUFFICES ASSUME ~set.torn PROVE Lowest'
      BY <1>1 DEF Lowest
    <3>1. /\ best # NoLink => best \in DOMAIN validated /\ dirs[best].val = <<validated[best]>>
          /\ (best = NoLink) = (DOMAIN validated = {})
          /\ \A e \in DOMAIN validated : validated[best] <= validated[e]
      BY <1>4 DEF IInv, Lowest
    <3>2. bestLoss' = IF best = NoLink THEN Infinite ELSE validated[best]
      <4>1. CASE best = NoLink
        BY <2>1, <4>1 DEF RestoredLoss
      <4>2. CASE best # NoLink
        <5>1. best \in DOMAIN dirs /\ validated[best] \in Losses
          BY <3>1, <4>2 DEF IInv, Linked, Numbered, Typed, TypedDisk
        <5>2. Dir(best).val = <<validated[best]>>
          BY <3>1, <4>2, <5>1 DEF Dir
        <5>3. RestoredLoss = validated[best]
          BY <4>2, <5>1, <5>2 DEF RestoredLoss
        <5> QED BY <2>1, <4>2, <5>3
      <4> QED BY <4>1, <4>2
    <3> QED BY <1>1, <1>4, <3>1, <3>2 DEF Lowest
  <2>15. Once'
    <3> SUFFICES ASSUME ~set.torn, Fits PROVE Once'
      BY <1>1 DEF Once
    <3>1. savedAt = Position(Previous)
      BY <1>4, <2>2 DEF IInv, Restorable
    <3>2. /\ dirs[Previous].model = FirstBatches(savedAt)
          /\ dirs[Previous].state \in MidStates => Aligned(dirs[Previous].state[1])
      BY <1>4, <2>2 DEF IInv, Once
    <3>3. Between' /\ Aligned(skip')
      <4>1. Between'
        BY <1>1, <1>7, <2>5 DEF Between
      <4>2. CASE MidEpoch
        <5>1. skip' = dirs[Previous].state[1]
          BY <2>1, <4>2 DEF ResumeStep
        <5> QED BY <2>3, <3>2, <4>1, <4>2, <5>1
      <4>3. CASE ~MidEpoch
        <5>1. skip' = 0
          BY <2>1, <2>4, <4>3
        <5> QED BY <4>1, <5>1 DEF Aligned
      <4> QED BY <4>2, <4>3
    <3>4. savedAt = epoch' * NumSteps + step'
      <4>1. CASE MidEpoch
        <5>1. step' = dirs[Previous].state[1] /\ epoch' = Previous
          BY <2>1, <4>1 DEF ResumeStep
        <5> QED BY <2>3, <3>1, <4>1, <5>1 DEF Position
      <4>2. CASE ~MidEpoch
        <5>1. step' = 0 /\ epoch' = Previous + 1
          BY <2>1, <2>4, <4>2
        <5>2. savedAt = (Previous + 1) * NumSteps /\ (Previous + 1) * NumSteps \in Nat
          BY <1>5, <2>2, <2>3, <3>1, <4>2 DEF Position
        <5> QED BY <5>1, <5>2
      <4> QED BY <4>1, <4>2
    <3>5. weights' = FirstBatches(epoch' * NumSteps + step')
      BY <2>1, <3>2, <3>4
    <3>6. Aligned(skip)'
      BY <1>1, <3>3 DEF Aligned
    <3>7. (\A p \in Epochs : Newest(p) =>
             /\ dirs[p].model = FirstBatches(savedAt)
             /\ dirs[p].state \in MidStates => Aligned(dirs[p].state[1]))'
      BY <1>1, <1>2, <1>4 DEF IInv, Once
    <3>8. pc' \notin {"endsave", "best"}
      BY <2>1
    <3> QED BY <1>1, <3>3, <3>5, <3>6, <3>7, <3>8 DEF Once
  <2> QED BY <1>2, <1>8, <2>9, <2>10, <2>11, <2>12, <2>13, <2>14, <2>15 DEF IInv
<1> QED BY <1>1, <1>9, <1>10, <1>11
-----------------------------------------------------------------------------
(* Training.                                                               *)

\* One batch more.
LEMMA OneMore ==
  ASSUME NEW n \in Nat, NEW w \in Seq(Batches), NEW g \in Seq(Batches), NEW x \in Batches,
         w \o g = FirstBatches(n), x = n + 1
  PROVE  w \o Append(g, x) = FirstBatches(n + 1)
<1>1. w \o Append(g, x) = Append(w \o g, x)
  OBVIOUS
<1>2. Append(FirstBatches(n), n + 1) = FirstBatches(n + 1)
  BY DEF FirstBatches
<1> QED BY <1>1, <1>2

LEMMA NoMore ==
  ASSUME NEW w \in Seq(Batches)
  PROVE  w \o <<>> = w
OBVIOUS

\* A position in the batches of all epochs.
LEMMA Positions ==
  ASSUME Typed, epoch < NumEpochs, NEW n \in 0..NumSteps
  PROVE  /\ epoch * NumSteps \in Nat /\ (epoch + 1) * NumSteps = epoch * NumSteps + NumSteps
         /\ epoch * NumSteps + n \in 0..(NumEpochs * NumSteps)
         /\ n > 0 => epoch * NumSteps + n \in Batches
<1>1. NumEpochs \in Nat /\ NumSteps \in Nat /\ epoch \in Nat
  BY Legal
<1>2. epoch * NumSteps \in Nat /\ (epoch + 1) * NumSteps = epoch * NumSteps + NumSteps
  BY <1>1
<1>3. (epoch + 1) * NumSteps <= NumEpochs * NumSteps
  <2>1. NumEpochs - (epoch + 1) \in Nat
    BY <1>1
  <2>2. (NumEpochs - (epoch + 1)) * NumSteps \in Nat
    BY <1>1, <2>1
  <2>3. (NumEpochs - (epoch + 1)) * NumSteps = NumEpochs * NumSteps - (epoch + 1) * NumSteps
    BY <1>1
  <2>4. NumEpochs * NumSteps \in Nat /\ (epoch + 1) * NumSteps \in Nat
    BY <1>1
  <2> QED BY <2>2, <2>3, <2>4
<1>4. NumEpochs * NumSteps \in Nat
  BY <1>1
<1> DEFINE a == epoch * NumSteps
           b == (epoch + 1) * NumSteps
           c == NumEpochs * NumSteps
<1>5. a \in Nat /\ b = a + NumSteps /\ b <= c /\ c \in Nat
  BY <1>2, <1>3, <1>4
<1> HIDE DEF a, b, c
<1>6. a + n \in 0..c /\ (n > 0 => a + n \in 1..c)
  BY <1>1, <1>5
<1> QED BY <1>2, <1>6 DEF a, b, c, Batches
LEMMA BatchesAreNumbers ==
  ASSUME NEW w \in Seq(Batches)
  PROVE  w \in Seq(Int)
<1>1. \A b \in Batches : b \in Int
  BY DEF Batches
<1>2. Len(w) \in Nat /\ w = [i \in 1..Len(w) |-> w[i]]
  OBVIOUS
<1>3. \A i \in 1..Len(w) : w[i] \in Int
  BY <1>1
<1> QED BY <1>2, <1>3

\* One batch: the window it belongs to, and a save if one is due.
LEMMA TrainBatchStep == ASSUME IInv, TrainBatch PROVE IInv'
<1> DEFINE rel == step - skip + 1
           N   == epoch * NumSteps + step
<1>1. /\ pc = "batch" /\ pc' = "batch" /\ plan = <<>> /\ step < NumSteps /\ step' = step + 1
      /\ set' = set /\ run' = run /\ epoch' = epoch /\ skip' = skip /\ bestLoss' = bestLoss
      /\ dirs' = dirs /\ best' = best /\ validated' = validated /\ savedAt' = savedAt
  BY DEF TrainBatch, disk
<1>2. PICK acc : /\ acc = Append(IF WindowStart(rel) THEN <<>> ELSE grads, epoch * NumSteps + (step + 1))
                 /\ grads' = acc
                 /\ weights' = IF WindowEnd(rel) THEN weights \o acc ELSE weights
                 /\ plan' = IF SavesStep(step + 1) THEN SaveAt(step + 1, weights') ELSE <<>>
  BY DEF TrainBatch
<1>3. /\ Numbered' = Numbered /\ \A d : IsWhole(d)' <=> IsWhole(d)
      /\ \A d : Newest(d)' <=> Newest(d)
      /\ \A d : Position(d)' = Position(d)
      /\ \A n : Aligned(n)' <=> Aligned(n)
      /\ TypedDisk' /\ NoPosition'
  BY <1>1, SameDisk DEF IInv, Typed, Same
<1>4. Live /\ ~Saving /\ ~Moving /\ ~Moving' /\ Live'
  BY <1>1 DEF Live, Saving, Moving
<1>5. /\ NumEpochs \in Nat /\ NumSteps \in Nat /\ epoch \in Nat /\ set.accum \in Nat \ {0}
      /\ step \in Nat /\ skip \in Nat /\ skip <= step /\ epoch < NumEpochs
      /\ rel \in Nat /\ step - skip \in Nat
  BY <1>4, Legal DEF IInv, Ahead
<1>6. /\ weights \in Seq(Batches) /\ grads \in Seq(Batches) /\ Len(grads) <= set.accum
      /\ Len(grads) \in Nat
  BY DEF IInv, Typed, TypedMemory
<1>7. N \in Nat /\ N + 1 \in Batches /\ N + 1 = epoch * NumSteps + (step + 1)
  <2>1. step + 1 \in 0..NumSteps /\ step + 1 > 0
    BY <1>1, <1>5
  <2>2. epoch * NumSteps \in Nat /\ epoch * NumSteps + (step + 1) \in Batches
    BY <1>5, <2>1, Positions DEF IInv
  <2> QED BY <1>5, <2>2
<1> HIDE DEF N
<1>8. WindowStart(rel) <=> (step - skip) % set.accum = 0
  <2>1. rel - 1 = step - skip
    BY <1>5
  <2> QED BY <2>1 DEF WindowStart
<1>9. WindowEnd(rel) <=> Between'
  <2>1. step' - skip' = rel
    BY <1>1, <1>5
  <2> QED BY <1>1, <2>1 DEF WindowEnd, Between
<1>10. acc = Append(IF WindowStart(rel) THEN <<>> ELSE grads, N + 1)
  BY <1>2, <1>7
<1>11. rel % set.accum = IF (step - skip) % set.accum = set.accum - 1 THEN 0
                         ELSE ((step - skip) % set.accum) + 1
  BY <1>5, ModStep
<1>12. (step - skip) % set.accum \in 0..(set.accum - 1)
  BY <1>5, ModRange
<1>13. acc \in Seq(Batches) /\ Len(acc) <= set.accum /\ (rel % set.accum # 0 => Len(acc) = rel % set.accum)
  <2>1. CASE WindowStart(rel)
    <3>1. acc \in Seq(Batches) /\ Len(acc) = 1
      BY <1>7, <1>10, <2>1
    <3>2. (step - skip) % set.accum = 0
      BY <1>8, <2>1
    <3> QED BY <1>5, <1>11, <3>1, <3>2
  <2>2. CASE ~WindowStart(rel)
    <3>1. acc = Append(grads, N + 1)
      BY <1>10, <2>2
    <3>2. acc \in Seq(Batches) /\ Len(acc) = Len(grads) + 1
      BY <1>6, <1>7, <3>1
    <3>3. Len(grads) = (step - skip) % set.accum
      BY <1>1, <1>8, <2>2 DEF IInv, Window
    <3> QED BY <1>5, <1>11, <1>12, <3>2, <3>3
  <2> QED BY <2>1, <2>2
<1>14. weights' \in Seq(Batches) /\ grads' \in Seq(Batches)
  BY <1>2, <1>6, <1>13
<1>15. Typed'
  <2>1. step' \in 0..NumSteps /\ skip' \in 0..step'
    BY <1>1, <1>5
  <2> QED BY <1>1, <1>2, <1>3, <1>13, <1>14, <2>1 DEF IInv, Typed, TypedMemory
<1>16. Window'
  <2>1. step' - skip' = rel
    BY <1>1, <1>5
  <2> QED BY <1>1, <1>2, <1>13, <2>1 DEF Window
<1>17. Ahead'
  BY <1>1, <1>3, <1>4 DEF IInv, Ahead
<1>18. Planned'
  <2>1. CASE ~SavesStep(step + 1)
    BY <1>1, <1>2, <2>1 DEF Planned
  <2>2. CASE SavesStep(step + 1)
    <3>1. /\ set.interval > 0 /\ ~set.best /\ step' % set.interval = 0 /\ step' > 0
      BY <1>1, <1>5, <2>2 DEF SavesStep
    <3>2. weights' \in Seq(Int) /\ step' \in Nat
      BY <1>1, <1>5, <1>14, BatchesAreNumbers
    <3>3. PICK full : full = SaveAt(step', weights')
      OBVIOUS
    <3>4. Table(full, 9)
      BY <1>5, <3>2, <3>3, SaveAtIs
    <3>5. plan' = full
      BY <1>1, <1>2, <2>2, <3>3
    <3>6. plan' = Rest(full, 0) /\ 0 \in 0..8
      BY <3>4, <3>5, RestEnds
    <3>7. full = SaveAt(step, weights)'
      BY <1>1, <3>3 DEF SaveAt
    <3>8. Filled(0)'
      BY DEF Filled
    <3>9. InSave(step)'
      BY <3>6, <3>7, <3>8 DEF InSave
    <3> QED BY <1>1, <1>4, <3>1, <3>9 DEF Planned
  <2> QED BY <2>1, <2>2
<1>19. Linked'
  BY <1>1, <1>3, <1>4 DEF IInv, Linked
<1>20. Kept'
  BY <1>1, <1>3 DEF IInv, Kept
<1>21. Restorable'
  BY <1>1, <1>3, <1>4 DEF IInv, Restorable
<1>22. Lowest'
  BY <1>1, <1>4 DEF IInv, Lowest
<1>23. Once'
  <2> SUFFICES ASSUME ~set.torn, Fits PROVE Once'
    BY <1>1 DEF Once
  <2>1. weights \o acc = FirstBatches(N + 1)
    <3>1. (IF Between THEN weights ELSE weights \o grads) = FirstBatches(N)
      BY <1>1 DEF IInv, Once, N
    <3>2. CASE WindowStart(rel)
      <4>1. weights = FirstBatches(N)
        BY <1>8, <3>1, <3>2 DEF Between
      <4>2. weights \o <<>> = FirstBatches(N) /\ <<>> \in Seq(Batches)
        BY <1>6, <4>1, NoMore
      <4>3. acc = Append(<<>>, N + 1)
        BY <1>10, <3>2
      <4> QED BY <1>6, <1>7, <4>2, <4>3, OneMore
    <3>3. CASE ~WindowStart(rel)
      <4>1. ~Between
        BY <1>1, <1>5, <1>8, <3>3 DEF Between
      <4>2. acc = Append(grads, N + 1)
        BY <1>10, <3>3
      <4> QED BY <1>6, <1>7, <3>1, <4>1, <4>2, OneMore
    <3> QED BY <3>2, <3>3
  <2>2. (IF Between' THEN weights' ELSE weights' \o grads') = FirstBatches(N + 1)
    BY <1>2, <1>9, <2>1
  <2>3. N + 1 = epoch' * NumSteps + step'
    BY <1>1, <1>7
  <2>4. Aligned(skip)'
    BY <1>1, <1>3, <1>4 DEF IInv, Once
  <2>5. (~Saving => \A p \in Epochs : Newest(p) =>
           /\ dirs[p].model = FirstBatches(savedAt)
           /\ dirs[p].state \in MidStates => Aligned(dirs[p].state[1]))'
    BY <1>1, <1>3, <1>4 DEF IInv, Once
  <2>6. (IF Between THEN weights ELSE weights \o grads)' = FirstBatches(epoch' * NumSteps + step')
    BY <2>2, <2>3
  <2> QED BY <1>1, <2>4, <2>5, <2>6 DEF Once
<1> QED BY <1>3, <1>15, <1>16, <1>17, <1>18, <1>19, <1>20, <1>21, <1>22, <1>23 DEF IInv
\* The end of an epoch: every window is over.
LEMMA EndEpochStep == ASSUME IInv, EndEpoch PROVE IInv'
<1>1. /\ pc = "batch" /\ pc' = "endsave" /\ plan = <<>> /\ step = NumSteps
      /\ set' = set /\ run' = run /\ epoch' = epoch /\ step' = step /\ skip' = skip
      /\ weights' = weights /\ grads' = grads /\ bestLoss' = bestLoss
      /\ dirs' = dirs /\ best' = best /\ validated' = validated /\ savedAt' = savedAt
      /\ plan' = IF SavesEpoch THEN SaveAt(0, weights) ELSE <<>>
  BY DEF EndEpoch, disk, memory
<1>2. /\ Numbered' = Numbered /\ \A d : IsWhole(d)' <=> IsWhole(d)
      /\ \A d : Newest(d)' <=> Newest(d)
      /\ \A d : Position(d)' = Position(d)
      /\ \A n : Aligned(n)' <=> Aligned(n)
      /\ TypedDisk' /\ NoPosition'
  BY <1>1, SameDisk DEF IInv, Typed, Same
<1>3. Live /\ ~Saving /\ ~Moving /\ ~Moving' /\ Live'
  BY <1>1 DEF Live, Saving, Moving
<1>4. /\ NumEpochs \in Nat /\ NumSteps \in Nat /\ epoch \in Nat /\ set.accum \in Nat \ {0}
      /\ step \in Nat /\ skip \in Nat /\ skip <= step /\ epoch < NumEpochs
      /\ weights \in Seq(Int)
  BY <1>3, Legal DEF IInv, Ahead
<1>5. Typed'
  BY <1>1, <1>2 DEF IInv, Typed, TypedMemory
<1>6. Window' /\ Ahead'
  BY <1>1, <1>2, <1>3 DEF IInv, Window, Ahead
<1>7. Planned'
  <2>1. SavesEpoch' <=> SavesEpoch
    BY <1>1 DEF SavesEpoch
  <2>2. CASE ~SavesEpoch
    BY <1>1, <2>1, <2>2 DEF Planned
  <2>3. CASE SavesEpoch
    <3>1. PICK full : full = SaveAt(0, weights)
      OBVIOUS
    <3>2. Table(full, 9)
      BY <1>4, <3>1, SaveAtIs
    <3>3. plan' = Rest(full, 0) /\ 0 \in 0..8 /\ plan' # <<>>
      BY <1>1, <2>3, <3>1, <3>2, RestEnds, RestStep
    <3>4. full = SaveAt(0, weights)'
      BY <1>1, <3>1 DEF SaveAt
    <3>5. Filled(0)'
      BY DEF Filled
    <3>6. InSave(0)'
      BY <3>3, <3>4, <3>5 DEF InSave
    <3> QED BY <1>1, <1>3, <2>1, <2>3, <3>3, <3>6 DEF Planned
  <2> QED BY <2>2, <2>3
<1>8. Linked' /\ Kept'
  <2>1. Linked'
    BY <1>1, <1>2, <1>3 DEF IInv, Linked
  <2>2. Kept'
    BY <1>1, <1>2 DEF IInv, Kept
  <2> QED BY <2>1, <2>2
<1>9. Restorable'
  BY <1>1, <1>2, <1>3 DEF IInv, Restorable
<1>10. Lowest'
  BY <1>1, <1>3 DEF IInv, Lowest
<1>11. Once'
  <2> SUFFICES ASSUME ~set.torn, Fits PROVE Once'
    BY <1>1 DEF Once
  <2>1. Between
    <3>1. CASE skip = 0
      BY <1>1, <1>4, <3>1 DEF Between
    <3>2. CASE skip # 0
      <4>1. skip % set.accum = 0 /\ NumSteps % set.accum = 0
        BY <1>3, <3>2 DEF IInv, Once, Aligned
      <4>2. (NumSteps - skip) % set.accum = 0
        BY <1>1, <1>4, <4>1, ModMinus
      <4> QED BY <1>1, <4>2 DEF Between
    <3> QED BY <3>1, <3>2
  <2>2. weights = FirstBatches(epoch * NumSteps + step)
    BY <1>1, <2>1 DEF IInv, Once
  <2>3. (epoch + 1) * NumSteps = epoch * NumSteps + step
    BY <1>1, <1>4
  <2>4. weights' = FirstBatches((epoch' + 1) * NumSteps)
    BY <1>1, <2>2, <2>3
  <2>5. Aligned(skip)'
    BY <1>1, <1>2, <1>3 DEF IInv, Once
  <2>6. (~Saving => \A p \in Epochs : Newest(p) =>
           /\ dirs[p].model = FirstBatches(savedAt)
           /\ dirs[p].state \in MidStates => Aligned(dirs[p].state[1]))'
    BY <1>1, <1>2, <1>3 DEF IInv, Once
  <2> QED BY <1>1, <2>4, <2>5, <2>6 DEF Once
<1> QED BY <1>2, <1>5, <1>6, <1>7, <1>8, <1>9, <1>10, <1>11 DEF IInv

\* The validation: the link will move if the loss is lower than all before.
LEMMA ValidateStep == ASSUME IInv, Validate PROVE IInv'
<1> DEFINE candidate == set.best \/ SavesEpoch
<1>1. /\ pc = "endsave" /\ pc' = "best" /\ plan = <<>>
      /\ set' = set /\ run' = run /\ epoch' = epoch /\ step' = step /\ skip' = skip
      /\ weights' = weights /\ grads' = grads
      /\ dirs' = dirs /\ best' = best /\ savedAt' = savedAt
  BY DEF Validate, disk
<1>2. PICK loss \in Losses :
        /\ validated' = IF candidate THEN With(validated, epoch, loss) ELSE validated
        /\ bestLoss' = IF candidate /\ loss < bestLoss THEN loss ELSE bestLoss
        /\ plan' = IF ~(candidate /\ loss < bestLoss) THEN <<>>
                   ELSE IF set.best THEN ReplaceBest(loss) ELSE UpdateBest(loss)
  BY DEF Validate
<1> DEFINE better == candidate /\ loss < bestLoss
<1>3. /\ Numbered' = Numbered /\ \A d : IsWhole(d)' <=> IsWhole(d)
      /\ \A d : Newest(d)' <=> Newest(d)
      /\ \A d : Position(d)' = Position(d)
      /\ \A n : Aligned(n)' <=> Aligned(n)
      /\ NoPosition'
  BY <1>1 DEF IInv, Numbered, IsWhole, Newest, Position, Aligned, NoPosition
<1>4. Live /\ ~Saving /\ ~Moving /\ Live'
  BY <1>1 DEF Live, Saving, Moving
<1>5. /\ NumEpochs \in Nat /\ NumSteps \in Nat /\ epoch \in Nat /\ epoch < NumEpochs
      /\ weights \in Seq(Int) /\ set.best \in BOOLEAN /\ epoch \in Epochs
  <2>1. /\ NumEpochs \in Nat /\ NumSteps \in Nat /\ epoch \in Nat /\ epoch < NumEpochs
        /\ weights \in Seq(Int) /\ set.best \in BOOLEAN
    BY <1>4, Legal DEF IInv, Ahead
  <2> QED BY <2>1 DEF Epochs
<1>6. loss \in Nat /\ loss < Infinite /\ Infinite \in Nat /\ bestLoss \in Nat
  BY LossesAreFinite DEF IInv, Typed, TypedMemory
<1>7. /\ DOMAIN validated' \subseteq Epochs /\ \A e \in DOMAIN validated' : validated'[e] \in Losses
      /\ ~candidate => validated' = validated
      /\ candidate => /\ DOMAIN validated' = DOMAIN validated \cup {epoch} /\ validated'[epoch] = loss
                      /\ \A e \in DOMAIN validated : e # epoch => validated'[e] = validated[e]
  <2>1. DOMAIN validated \subseteq Epochs /\ \A e \in DOMAIN validated : validated[e] \in Losses
    BY DEF IInv, Typed, TypedDisk
  <2>2. CASE ~candidate
    BY <1>2, <2>1, <2>2
  <2>3. CASE candidate
    <3>1. validated' = With(validated, epoch, loss)
      BY <1>2, <2>3
    <3>2. /\ DOMAIN validated' = DOMAIN validated \cup {epoch} /\ validated'[epoch] = loss
          /\ \A e \in DOMAIN validated : e # epoch => validated'[e] = validated[e]
      BY <3>1 DEF With
    <3> QED BY <1>5, <2>1, <2>3, <3>2
  <2> QED BY <2>2, <2>3
<1>8. Typed'
  <2>1. bestLoss' \in Losses \cup {Infinite}
    BY <1>2 DEF IInv, Typed, TypedMemory
  <2> QED BY <1>1, <1>7, <2>1 DEF IInv, Typed, TypedMemory, TypedDisk
<1>9. Window' /\ Ahead'
  BY <1>1, <1>3, <1>4 DEF IInv, Window, Ahead
<1>10. /\ ~better => plan' = <<>> /\ bestLoss' = bestLoss
       /\ better /\ set.best => plan' = ReplaceBest(loss) /\ bestLoss' = loss
       /\ better /\ ~set.best => plan' = UpdateBest(loss) /\ bestLoss' = loss
  <2>1. ASSUME ~better PROVE plan' = <<>> /\ bestLoss' = bestLoss
    BY <1>2, <2>1
  <2>2. ASSUME better, set.best PROVE plan' = ReplaceBest(loss) /\ bestLoss' = loss
    BY <1>2, <2>2
  <2>3. ASSUME better, ~set.best PROVE plan' = UpdateBest(loss) /\ bestLoss' = loss
    BY <1>2, <2>3
  <2> HIDE DEF better
  <2> QED BY <2>1, <2>2, <2>3
<1>11. /\ better /\ set.best => /\ plan' = Rest(ReplaceBest(loss), 0) /\ plan' # <<>>
                                /\ ReplaceBest(loss) = ReplaceBest(bestLoss)'
       /\ better /\ ~set.best => /\ plan' = Rest(UpdateBest(loss), 0) /\ plan' # <<>>
                                 /\ UpdateBest(loss) = UpdateBest(bestLoss)'
  <2>1. Table(ReplaceBest(loss), 12) /\ Table(UpdateBest(loss), 4)
    BY <1>5, <1>6, ReplaceBestIs, UpdateBestIs
  <2>2. /\ Rest(ReplaceBest(loss), 0) = ReplaceBest(loss) /\ Rest(ReplaceBest(loss), 0) # <<>>
    <3>1. PICK full : full = ReplaceBest(loss)
      OBVIOUS
    <3>2. Rest(full, 0) = full /\ Rest(full, 0) # <<>>
      BY <2>1, <3>1, RestStep, RestEnds
    <3> QED BY <3>1, <3>2
  <2>3. Rest(UpdateBest(loss), 0) = UpdateBest(loss) /\ Rest(UpdateBest(loss), 0) # <<>>
    <3>1. PICK full : full = UpdateBest(loss)
      OBVIOUS
    <3>2. Rest(full, 0) = full /\ Rest(full, 0) # <<>>
      BY <2>1, <3>1, RestStep, RestEnds
    <3> QED BY <3>1, <3>2
  <2>4. bestLoss' = loss => ReplaceBest(loss) = ReplaceBest(bestLoss)'
    BY <1>1 DEF ReplaceBest, SaveBest, UpdateBest, Cleanup
  <2>5. bestLoss' = loss => UpdateBest(loss) = UpdateBest(bestLoss)'
    BY <1>1 DEF UpdateBest
  <2> HIDE DEF better
  <2> QED BY <1>10, <2>2, <2>3, <2>4, <2>5
<1>12. Planned'
  <2> HIDE DEF better
  <2>1. CASE ~better
    BY <1>1, <1>10, <2>1 DEF Planned
  <2>2. CASE better /\ set.best
    <3>1. Filled(0)'
      BY DEF Filled
    <3>2. InReplace'
      BY <1>11, <2>2, <3>1 DEF InReplace
    <3> QED BY <1>1, <1>4, <1>10, <2>2, <3>2 DEF Planned
  <2>3. CASE better /\ ~set.best
    <3>1. Complete
      BY <1>1, <2>3 DEF IInv, Planned, better
    <3>2. Complete'
      BY <1>1, <3>1 DEF Complete, Filled
    <3>3. InUpdate'
      BY <1>11, <2>3, <3>2 DEF InUpdate
    <3> QED BY <1>1, <1>4, <1>10, <2>3, <3>3 DEF Planned
  <2> QED BY <2>1, <2>2, <2>3
<1>13. best # epoch \/ best = NoLink
  BY <1>1 DEF IInv, Linked
<1>14. best # epoch
  BY <1>5, <1>13, Legal DEF IInv
<1>15. Linked'
  BY <1>1, <1>3, <1>4, <1>14 DEF IInv, Linked
<1>16. Kept'
  <2>1. Saving' => set.best
    BY <1>1 DEF Saving
  <2> QED BY <1>1, <1>3, <2>1 DEF IInv, Kept
<1>17. Restorable'
  BY <1>1, <1>3, <1>4 DEF IInv, Restorable
<1>18. Lowest'
  <2> SUFFICES ASSUME ~set.torn PROVE Lowest'
    BY <1>1 DEF Lowest
  <2>1. /\ best # NoLink => best \in DOMAIN validated /\ dirs[best].val = <<validated[best]>>
        /\ (best = NoLink) = (DOMAIN validated = {})
        /\ \A e \in DOMAIN validated : validated[best] <= validated[e]
        /\ bestLoss = IF best = NoLink THEN Infinite ELSE validated[best]
    BY <1>4 DEF IInv, Lowest
  <2>2. \A e \in DOMAIN validated : validated[e] \in Nat
    BY LossesAreFinite DEF IInv, Typed, TypedDisk
  <2>3. best # NoLink => /\ best \in DOMAIN validated'
                         /\ validated'[best] = validated[best]
                         /\ dirs'[best].val = <<validated'[best]>>
    BY <1>1, <1>7, <1>14, <2>1
  <2>4. \A e \in DOMAIN validated : bestLoss <= validated[e]
    BY <2>1
  <2>5. CASE better
    <3>1. bestLoss' = loss /\ plan' # <<>> /\ candidate
      BY <1>10, <1>11, <1>5, <2>5
    <3>2. \A e \in DOMAIN validated' : bestLoss' <= validated'[e]
      <4> SUFFICES ASSUME NEW e \in DOMAIN validated' PROVE loss <= validated'[e]
        BY <3>1
      <4>1. CASE e = epoch
        BY <1>6, <1>7, <3>1, <4>1
      <4>2. CASE e # epoch
        <5>1. e \in DOMAIN validated /\ validated'[e] = validated[e]
          BY <1>7, <3>1, <4>2
        <5> QED BY <1>6, <2>2, <2>4, <2>5, <5>1
      <4> QED BY <4>1, <4>2
    <3>3. Moving'
      BY <1>1, <3>1 DEF Moving
    <3> QED BY <1>1, <1>7, <2>3, <3>1, <3>2, <3>3 DEF Lowest
  <2>6. CASE ~better
    <3>1. bestLoss' = bestLoss /\ plan' = <<>> /\ ~Moving'
      BY <1>10, <2>6 DEF Moving
    <3>2. candidate => best # NoLink /\ bestLoss <= loss
      BY <1>6, <2>1, <2>6
    <3>3. (best = NoLink) = (DOMAIN validated' = {})
      BY <1>7, <2>1, <3>2
    <3>4. \A e \in DOMAIN validated' : validated'[best] <= validated'[e]
      <4> SUFFICES ASSUME NEW e \in DOMAIN validated' PROVE validated'[best] <= validated'[e]
        OBVIOUS
      <4>1. best # NoLink
        BY <3>3
      <4>2. CASE candidate /\ e = epoch
        BY <1>6, <1>7, <2>1, <2>3, <3>2, <4>1, <4>2
      <4>3. CASE ~(candidate /\ e = epoch)
        <5>1. e \in DOMAIN validated /\ validated'[e] = validated[e]
          BY <1>7, <4>3
        <5> QED BY <2>1, <2>3, <4>1, <5>1
      <4> QED BY <4>2, <4>3
    <3>5. bestLoss' = IF best' = NoLink THEN Infinite ELSE validated'[best']
      BY <1>1, <2>1, <2>3, <3>1
    <3> QED BY <1>1, <2>3, <3>1, <3>3, <3>4, <3>5 DEF Lowest
  <2> QED BY <2>5, <2>6
<1>19. Once'
  <2> SUFFICES ASSUME ~set.torn, Fits PROVE Once'
    BY <1>1 DEF Once
  <2>1. weights' = FirstBatches((epoch' + 1) * NumSteps)
    BY <1>1 DEF IInv, Once
  <2>2. Aligned(skip)'
    BY <1>1, <1>3, <1>4 DEF IInv, Once
  <2>3. (~Saving => \A p \in Epochs : Newest(p) =>
           /\ dirs[p].model = FirstBatches(savedAt)
           /\ dirs[p].state \in MidStates => Aligned(dirs[p].state[1]))'
    BY <1>1, <1>3, <1>4 DEF IInv, Once
  <2> QED BY <1>1, <2>1, <2>2, <2>3 DEF Once
<1> QED BY <1>3, <1>8, <1>9, <1>12, <1>15, <1>16, <1>17, <1>18, <1>19 DEF IInv
-----------------------------------------------------------------------------
(* The operations of a save.                                               *)

\* What is left alone by all of them.
Frame == /\ set' = set /\ run' = run /\ pc' = pc /\ epoch' = epoch /\ step' = step /\ skip' = skip
         /\ weights' = weights /\ grads' = grads /\ bestLoss' = bestLoss /\ validated' = validated

\* The operation at the head of the plan is the one that happens.
LEMMA OperationIs ==
  ASSUME Operation
  PROVE  /\ Frame /\ plan # <<>>
         /\ \A d, f, c : Head(plan) = Put(d, f, c) =>
              /\ dirs' = With(dirs, d, [Dir(d) EXCEPT ![f] = c])
              /\ plan' = Tail(plan) /\ best' = best /\ savedAt' = savedAt
         /\ \A x : Head(plan) = [op |-> "saved", at |-> x] =>
              savedAt' = x /\ plan' = Tail(plan) /\ best' = best /\ dirs' = dirs
         /\ \A x : Head(plan) = [op |-> "link", to |-> x] =>
              best' = x /\ plan' = Tail(plan) /\ savedAt' = savedAt /\ dirs' = dirs
         /\ \A x : Head(plan) = [op |-> "cleanup", keep |-> x] =>
              /\ best' = best /\ savedAt' = savedAt
              /\ \/ \E gone \in DOMAIN dirs \ {x} :
                      dirs' = [d \in DOMAIN dirs \ {gone} |-> dirs[d]] /\ plan' = plan
                 \/ plan' = Tail(plan) /\ dirs' = dirs
<1> PICK o : o = Head(plan)
  OBVIOUS
<1>1. /\ Frame /\ plan # <<>>
      /\ WriteFile(o) \/ SetLink(o) \/ RemoveOthers(o) \/ Saved(o)
  BY DEF Operation, Frame, memory
<1>2. ASSUME NEW d, NEW f, NEW c, o = Put(d, f, c)
      PROVE  /\ dirs' = With(dirs, d, [Dir(d) EXCEPT ![f] = c])
             /\ plan' = Tail(plan) /\ best' = best /\ savedAt' = savedAt
  <2>1. o.op = "write" /\ o.dir = d /\ o.file = f /\ o.to = c
    BY <1>2 DEF Put
  <2>2. WriteFile(o)
    BY <1>1, <2>1 DEF SetLink, RemoveOthers, Saved
  <2> QED BY <2>1, <2>2 DEF WriteFile
<1>3. ASSUME NEW x, o = [op |-> "saved", at |-> x]
      PROVE  savedAt' = x /\ plan' = Tail(plan) /\ best' = best /\ dirs' = dirs
  <2>1. o.op = "saved" /\ o.at = x
    BY <1>3
  <2>2. Saved(o)
    BY <1>1, <2>1 DEF SetLink, RemoveOthers, WriteFile
  <2> QED BY <2>1, <2>2 DEF Saved, disk
<1>4. ASSUME NEW x, o = [op |-> "link", to |-> x]
      PROVE  best' = x /\ plan' = Tail(plan) /\ savedAt' = savedAt /\ dirs' = dirs
  <2>1. o.op = "link" /\ o.to = x
    BY <1>4
  <2>2. SetLink(o)
    BY <1>1, <2>1 DEF Saved, RemoveOthers, WriteFile
  <2> QED BY <2>1, <2>2 DEF SetLink
<1>5. ASSUME NEW x, o = [op |-> "cleanup", keep |-> x]
      PROVE  /\ best' = best /\ savedAt' = savedAt
             /\ \/ \E gone \in DOMAIN dirs \ {x} :
                     dirs' = [d \in DOMAIN dirs \ {gone} |-> dirs[d]] /\ plan' = plan
                \/ plan' = Tail(plan) /\ dirs' = dirs
  <2>1. o.op = "cleanup" /\ o.keep = x
    BY <1>5
  <2>2. RemoveOthers(o)
    BY <1>1, <2>1 DEF Saved, SetLink, WriteFile
  <2> QED BY <2>1, <2>2 DEF RemoveOthers
<1> QED BY <1>1, <1>2, <1>3, <1>4, <1>5

\* After operation n + 1, a write of c to file f, the first n + 1 are done.
Fills(n, f, c) ==
  /\ (n >= 1 /\ f = "model") \/ (n >= 3 /\ f = "opt") \/ (n >= 5 /\ f = "sched") => c = weights
  /\ n = 1 => f = "model"
  /\ n = 3 => f = "opt"
  /\ n = 5 => f = "sched"

LEMMA FilledOn ==
  ASSUME Typed, epoch \in Epochs, Frame, best' = best, savedAt' = savedAt,
         NEW n \in Nat, Filled(n), NEW f \in Files, NEW c, FitsFile(f, c), Fills(n, f, c),
         dirs' = With(dirs, epoch, [Dir(epoch) EXCEPT ![f] = c])
  PROVE  Filled(n + 1)'
<1>1. /\ DOMAIN dirs' = DOMAIN dirs \cup {epoch} /\ dirs'[epoch][f] = c
      /\ \A g \in Files : g # f => dirs'[epoch][g] = Dir(epoch)[g]
  <2>1. Writes(epoch, f, c)
    BY DEF Frame, Writes
  <2>2. Wrote(epoch, f, c)
    BY <2>1, Written
  <2> QED BY <2>2 DEF Wrote
<1>2. epoch' = epoch /\ weights' = weights
  BY DEF Frame
<1>3. epoch \in DOMAIN dirs => Dir(epoch) = dirs[epoch]
  BY DEF Dir
<1>4. n >= 2 => epoch \in DOMAIN dirs /\ dirs[epoch]["model"] = weights
  BY DEF Filled
<1>5. n >= 4 => epoch \in DOMAIN dirs /\ dirs[epoch]["opt"] = weights
  BY <1>4 DEF Filled
<1>6. n >= 6 => epoch \in DOMAIN dirs /\ dirs[epoch]["sched"] = weights
  BY <1>4 DEF Filled
<1>7. n + 1 >= 2 => dirs'[epoch]["model"] = weights
  <2>1. CASE f = "model"
    BY <1>1, <2>1 DEF Fills
  <2>2. CASE f # "model"
    <3>1. n + 1 >= 2 => n >= 2
      BY <2>2 DEF Fills
    <3> QED BY <1>1, <1>3, <1>4, <2>2, <3>1, FilesAre
  <2> QED BY <2>1, <2>2
<1>8. n + 1 >= 4 => dirs'[epoch]["opt"] = weights
  <2>1. CASE f = "opt"
    BY <1>1, <2>1 DEF Fills
  <2>2. CASE f # "opt"
    <3>1. n + 1 >= 4 => n >= 4
      BY <2>2 DEF Fills
    <3> QED BY <1>1, <1>3, <1>5, <2>2, <3>1, FilesAre
  <2> QED BY <2>1, <2>2
<1>9. n + 1 >= 6 => dirs'[epoch]["sched"] = weights
  <2>1. CASE f = "sched"
    BY <1>1, <2>1 DEF Fills
  <2>2. CASE f # "sched"
    <3>1. n + 1 >= 6 => n >= 6
      BY <2>2 DEF Fills
    <3> QED BY <1>1, <1>3, <1>6, <2>2, <3>1, FilesAre
  <2> QED BY <2>1, <2>2
<1>10. epoch \in DOMAIN dirs'
  BY <1>1
<1> QED BY <1>2, <1>7, <1>8, <1>9, <1>10 DEF Filled

\* The writes of a checkpoint, one after the other.
LEMMA CheckpointHead ==
  ASSUME Typed, NEW d, NEW s, NEW n \in 0..5,
         /\ s[1] = Put(d, "model", Partial) /\ s[2] = Put(d, "model", weights)
         /\ s[3] = Put(d, "opt", Partial) /\ s[4] = Put(d, "opt", weights)
         /\ s[5] = Put(d, "sched", Partial) /\ s[6] = Put(d, "sched", weights)
  PROVE  \E f \in {"model", "opt", "sched"}, c \in {Partial, weights} :
           s[n + 1] = Put(d, f, c) /\ Fills(n, f, c) /\ FitsFile(f, c)
<1>1. Partial \in WeightFiles /\ weights \in WeightFiles
  BY DEF Typed, TypedMemory, WeightFiles
<1>2. \A f \in {"model", "opt", "sched"}, c \in {Partial, weights} : FitsFile(f, c)
  BY <1>1 DEF FitsFile
<1>3. CASE n = 0
  <2>1. s[n + 1] = Put(d, "model", Partial) /\ Fills(n, "model", Partial)
    BY <1>3 DEF Fills
  <2> QED BY <1>2, <2>1
<1>4. CASE n = 1
  <2>1. s[n + 1] = Put(d, "model", weights) /\ Fills(n, "model", weights)
    BY <1>4 DEF Fills
  <2> QED BY <1>2, <2>1
<1>5. CASE n = 2
  <2>1. s[n + 1] = Put(d, "opt", Partial) /\ Fills(n, "opt", Partial)
    BY <1>5 DEF Fills
  <2> QED BY <1>2, <2>1
<1>6. CASE n = 3
  <2>1. s[n + 1] = Put(d, "opt", weights) /\ Fills(n, "opt", weights)
    BY <1>6 DEF Fills
  <2> QED BY <1>2, <2>1
<1>7. CASE n = 4
  <2>1. s[n + 1] = Put(d, "sched", Partial) /\ Fills(n, "sched", Partial)
    BY <1>7 DEF Fills
  <2> QED BY <1>2, <2>1
<1>8. CASE n = 5
  <2>1. s[n + 1] = Put(d, "sched", weights) /\ Fills(n, "sched", weights)
    BY <1>8 DEF Fills
  <2> QED BY <1>2, <2>1
<1> QED BY <1>3, <1>4, <1>5, <1>6, <1>7, <1>8
\* Everything but the plan.
Others == /\ Typed /\ Window /\ Ahead /\ NoPosition /\ Linked /\ Kept
          /\ Restorable /\ Lowest /\ Once

\* A write to a checkpoint that is not complete: nothing else refers to it.
LEMMA CheckpointWrite ==
  ASSUME IInv, Frame, best' = best, savedAt' = savedAt, Live, epoch \in Epochs, Saving, Saving',
         NEW f \in Files, NEW c, f # "val", FitsFile(f, c),
         f = "state" /\ c \in MidStates => ~set.best /\ set.interval > 0,
         dirs' = With(dirs, epoch, [Dir(epoch) EXCEPT ![f] = c])
  PROVE  Others'
<1>1. /\ set' = set /\ run' = run /\ pc' = pc /\ epoch' = epoch /\ step' = step /\ skip' = skip
      /\ weights' = weights /\ grads' = grads /\ bestLoss' = bestLoss /\ validated' = validated
  BY DEF Frame
<1>2. /\ TypedDisk' /\ DOMAIN dirs' = DOMAIN dirs \cup {epoch}
      /\ \A x \in DOMAIN dirs : x # epoch => dirs'[x] = dirs[x]
      /\ dirs'[epoch][f] = c /\ \A g \in Files : g # f => dirs'[epoch][g] = Dir(epoch)[g]
  <2>1. Writes(epoch, f, c) /\ Typed
    BY <1>1 DEF IInv, Writes
  <2>2. Wrote(epoch, f, c)
    BY <2>1, Written
  <2> QED BY <2>2 DEF Wrote
<1>3. plan # <<>> /\ plan' # <<>> /\ (Moving' <=> Moving) /\ (Live' <=> Live)
  BY <1>1 DEF Saving, Moving, Live
<1>4. epoch \in Nat /\ NumEpochs \in Nat /\ Epochs \subseteq Nat /\ NoLink \notin Nat
  BY Legal DEF IInv
<1>5. Typed'
  BY <1>1, <1>2 DEF IInv, Typed, TypedMemory
<1>6. Window'
  BY <1>1 DEF IInv, Window
<1>7. Numbered' = Numbered \cup {epoch}
  BY <1>2 DEF Numbered
<1>8. Ahead'
  BY <1>1, <1>3, <1>4, <1>7 DEF IInv, Ahead
<1>9. NoPosition'
  <2> SUFFICES ASSUME set.best \/ set.interval = 0, NEW d \in Numbered' PROVE dirs'[d].state \notin MidStates
    BY <1>1 DEF NoPosition
  <2>1. CASE d # epoch
    BY <1>2, <1>7, <2>1 DEF IInv, NoPosition, Numbered
  <2>2. CASE d = epoch
    <3>1. CASE f = "state"
      <4>1. c \notin MidStates
        <5>1. set.best => ~(f = "state" /\ c \in MidStates)
          OBVIOUS
        <5>2. set.interval = 0 => ~(set.interval > 0)
          OBVIOUS
        <5> QED BY <3>1, <5>1, <5>2
      <4> QED BY <1>2, <2>2, <3>1, <4>1
    <3>2. CASE f # "state"
      <4>1. dirs'[epoch].state = Dir(epoch).state
        BY <1>2, <3>2, FilesAre
      <4>2. Dir(epoch).state \notin MidStates
        <5>1. CASE epoch \in DOMAIN dirs
          BY <5>1 DEF IInv, NoPosition, Numbered, Dir
        <5>2. CASE epoch \notin DOMAIN dirs
          <6>1. Dir(epoch).state = Absent
            BY <5>2, FilesAre DEF Dir, EmptyDir
          <6> QED BY <6>1, ContentsDiffer
        <5> QED BY <5>1, <5>2
      <4> QED BY <2>2, <4>1, <4>2
    <3> QED BY <3>1, <3>2
  <2> QED BY <2>1, <2>2
<1>10. best # NoLink => /\ best \in Numbered /\ IsWhole(best) /\ dirs[best].state \notin MidStates
                        /\ best <= epoch /\ best # epoch
  <2>1. best # NoLink => /\ best \in Numbered /\ IsWhole(best) /\ dirs[best].state \notin MidStates
                         /\ best <= epoch
    BY DEF IInv, Linked
  <2>2. best # NoLink /\ best = epoch => /\ pc \notin {"batch", "endsave"}
                                         /\ pc = "best" /\ plan # <<>> => set.best /\ Len(plan) <= 1
    BY DEF IInv, Linked
  <2>3. best # NoLink => best # epoch
    BY <2>2 DEF Saving
  <2> QED BY <2>1, <2>3
<1>11. best # NoLink => dirs'[best] = dirs[best]
  BY <1>2, <1>10 DEF Numbered
<1>12. Linked'
  <2> SUFFICES ASSUME best # NoLink PROVE Linked'
    BY DEF Linked
  <2>1. IsWhole(best)'
    BY <1>10, <1>11 DEF IsWhole
  <2> QED BY <1>1, <1>3, <1>7, <1>10, <1>11, <2>1 DEF Linked
<1>13. Kept'
  <2> SUFFICES ASSUME set.interval = 0, savedAt > 0 PROVE Kept'
    BY <1>1 DEF Kept
  <2>1. PICK d \in Numbered : IsWhole(d) /\ d < epoch
    BY DEF IInv, Kept
  <2>2. d # epoch /\ d \in DOMAIN dirs
    BY <1>4, <2>1 DEF Numbered
  <2>3. IsWhole(d)'
    BY <1>2, <2>1, <2>2 DEF IsWhole
  <2> QED BY <1>1, <1>7, <2>1, <2>3 DEF Kept
<1>14. Restorable'
  BY DEF Restorable
<1>15. Lowest'
  BY <1>1, <1>3, <1>11 DEF IInv, Lowest
<1>16. Once'
  <2> SUFFICES ASSUME ~set.torn, Fits PROVE Once'
    BY <1>1 DEF Once
  <2>1. (Live => Aligned(skip))'
    BY <1>1, <1>3 DEF IInv, Once, Aligned
  <2>2. (pc = "batch" =>
          (IF Between THEN weights ELSE weights \o grads) = FirstBatches(epoch * NumSteps + step))'
    BY <1>1 DEF IInv, Once, Between
  <2>3. (pc \in {"endsave", "best"} => weights = FirstBatches((epoch + 1) * NumSteps))'
    BY <1>1 DEF IInv, Once
  <2> QED BY <2>1, <2>2, <2>3 DEF Once
<1> QED BY <1>5, <1>6, <1>8, <1>9, <1>12, <1>13, <1>14, <1>15, <1>16 DEF Others

\* What the runs after this one and the link need, if the checkpoints on the
\* disk stay as they are but for their losses.
LEMMA SameCheckpoints ==
  ASSUME IInv, Frame, savedAt' = savedAt, TypedDisk', Numbered' = Numbered, ~Saving, ~Saving',
         \A d \in Numbered : /\ dirs'[d].model = dirs[d].model /\ dirs'[d].opt = dirs[d].opt
                             /\ dirs'[d].sched = dirs[d].sched /\ dirs'[d].state = dirs[d].state
  PROVE  /\ Typed' /\ Window' /\ Ahead' /\ NoPosition' /\ Kept' /\ Restorable' /\ Once'
         /\ \A d \in Numbered : IsWhole(d)' <=> IsWhole(d)
<1>1. /\ set' = set /\ run' = run /\ pc' = pc /\ epoch' = epoch /\ step' = step /\ skip' = skip
      /\ weights' = weights /\ grads' = grads /\ bestLoss' = bestLoss /\ validated' = validated
  BY DEF Frame
<1>2. \A d \in Numbered : IsWhole(d)' <=> IsWhole(d)
  BY DEF IsWhole
<1>3. \A d : Newest(d)' <=> Newest(d)
  BY DEF Newest
<1>4. \A d \in Numbered : Position(d)' = Position(d)
  BY DEF Position
<1>5. Live' <=> Live
  BY <1>1 DEF Live
<1>6. Typed' /\ Window' /\ Ahead' /\ NoPosition'
  BY <1>1, <1>5 DEF IInv, Typed, TypedMemory, Window, Ahead, NoPosition
<1>7. Kept'
  BY <1>1, <1>2 DEF IInv, Kept
<1>8. Restorable'
  BY <1>1, <1>2, <1>3, <1>4 DEF IInv, Restorable, Newest
<1>9. Once'
  <2> SUFFICES ASSUME ~set.torn, Fits PROVE Once'
    BY <1>1 DEF Once
  <2>1. (Live => Aligned(skip))'
    BY <1>1, <1>5 DEF IInv, Once, Aligned
  <2>2. (pc = "batch" =>
          (IF Between THEN weights ELSE weights \o grads) = FirstBatches(epoch * NumSteps + step))'
    BY <1>1 DEF IInv, Once, Between
  <2>3. (pc \in {"endsave", "best"} => weights = FirstBatches((epoch + 1) * NumSteps))'
    BY <1>1 DEF IInv, Once
  <2>4. \A n : Aligned(n)' <=> Aligned(n)
    BY <1>1 DEF Aligned
  <2>5. (\A p \in Epochs : Newest(p) =>
           /\ dirs[p].model = FirstBatches(savedAt)
           /\ dirs[p].state \in MidStates => Aligned(dirs[p].state[1]))'
    BY <1>3, <2>4 DEF IInv, Once, Newest
  <2> QED BY <2>1, <2>2, <2>3, <2>5 DEF Once
<1> QED BY <1>2, <1>6, <1>7, <1>8, <1>9
\* The loss of an epoch is written: the link does not lead there yet.
LEMMA LossWrite ==
  ASSUME IInv, Frame, best' = best, savedAt' = savedAt, pc = "best", plan # <<>>, plan' # <<>>,
         ~Saving, ~Saving', epoch \in Numbered, best # epoch, NEW c \in LossFiles,
         dirs' = With(dirs, epoch, [Dir(epoch) EXCEPT !["val"] = c])
  PROVE  Others'
<1>1. /\ set' = set /\ run' = run /\ pc' = pc /\ epoch' = epoch /\ step' = step /\ skip' = skip
      /\ weights' = weights /\ grads' = grads /\ bestLoss' = bestLoss /\ validated' = validated
  BY DEF Frame
<1>2. /\ TypedDisk' /\ DOMAIN dirs' = DOMAIN dirs \cup {epoch}
      /\ \A x \in DOMAIN dirs : x # epoch => dirs'[x] = dirs[x]
      /\ \A g \in Files : g # "val" => dirs'[epoch][g] = Dir(epoch)[g]
  <2>1. epoch \in Epochs \cup {Interrupted} /\ Typed /\ FitsFile("val", c)
    BY DEF IInv, Numbered, FitsFile
  <2>2. Writes(epoch, "val", c)
    BY <1>1, <2>1, FilesAre DEF Writes
  <2>3. Wrote(epoch, "val", c)
    BY <2>1, <2>2, Written
  <2> QED BY <2>3 DEF Wrote
<1>3. Numbered' = Numbered /\ Dir(epoch) = dirs[epoch]
  BY <1>2 DEF Numbered, Dir
<1>4. \A d \in Numbered : /\ dirs'[d].model = dirs[d].model /\ dirs'[d].opt = dirs[d].opt
                          /\ dirs'[d].sched = dirs[d].sched /\ dirs'[d].state = dirs[d].state
  <2> SUFFICES ASSUME NEW d \in Numbered
               PROVE  /\ dirs'[d].model = dirs[d].model /\ dirs'[d].opt = dirs[d].opt
                      /\ dirs'[d].sched = dirs[d].sched /\ dirs'[d].state = dirs[d].state
    OBVIOUS
  <2>1. CASE d = epoch
    BY <1>2, <1>3, <2>1, FilesAre
  <2>2. CASE d # epoch
    BY <1>2, <2>2 DEF Numbered
  <2> QED BY <2>1, <2>2
<1>5. /\ Typed' /\ Window' /\ Ahead' /\ NoPosition' /\ Kept' /\ Restorable' /\ Once'
      /\ \A d \in Numbered : IsWhole(d)' <=> IsWhole(d)
  BY <1>2, <1>3, <1>4, SameCheckpoints
<1>6. Moving /\ Moving' /\ Live /\ Live'
  BY <1>1 DEF Moving, Live
<1>7. best # NoLink => /\ best \in Numbered /\ IsWhole(best) /\ dirs[best].state \notin MidStates
                       /\ best <= epoch /\ dirs'[best] = dirs[best]
  BY <1>2, <1>6 DEF IInv, Linked, Numbered
<1>8. Linked'
  BY <1>1, <1>3, <1>4, <1>5, <1>7 DEF Linked
<1>9. Lowest'
  BY <1>1, <1>6, <1>7 DEF IInv, Lowest
<1> QED BY <1>5, <1>8, <1>9 DEF Others

\* The save of an interrupt writes to a directory of its own.
LEMMA InterruptedWrite ==
  ASSUME IInv, Frame, best' = best, savedAt' = savedAt, pc = "interrupt",
         NEW f \in Files, NEW c, FitsFile(f, c),
         dirs' = With(dirs, Interrupted, [Dir(Interrupted) EXCEPT ![f] = c])
  PROVE  Others'
<1>1. /\ set' = set /\ run' = run /\ pc' = pc /\ epoch' = epoch /\ step' = step /\ skip' = skip
      /\ weights' = weights /\ grads' = grads /\ bestLoss' = bestLoss /\ validated' = validated
  BY DEF Frame
<1>2. /\ TypedDisk' /\ DOMAIN dirs' = DOMAIN dirs \cup {Interrupted}
      /\ \A x \in DOMAIN dirs : x # Interrupted => dirs'[x] = dirs[x]
  <2>1. Writes(Interrupted, f, c) /\ Typed
    BY <1>1 DEF IInv, Writes
  <2>2. Wrote(Interrupted, f, c)
    BY <2>1, Written
  <2> QED BY <2>2 DEF Wrote
<1>3. Interrupted \notin Epochs
  BY Legal DEF IInv
<1>4. Numbered' = Numbered /\ \A d \in Numbered : dirs'[d] = dirs[d]
  BY <1>2, <1>3 DEF Numbered
<1>5. ~Saving /\ ~Saving' /\ ~Moving /\ ~Moving' /\ Live /\ Live'
  BY <1>1 DEF Saving, Moving, Live
<1>6. /\ Typed' /\ Window' /\ Ahead' /\ NoPosition' /\ Kept' /\ Restorable' /\ Once'
      /\ \A d \in Numbered : IsWhole(d)' <=> IsWhole(d)
  BY <1>2, <1>4, <1>5, SameCheckpoints
<1>7. best # NoLink => /\ best \in Numbered /\ IsWhole(best) /\ dirs[best].state \notin MidStates
                       /\ best <= epoch /\ dirs'[best] = dirs[best]
  BY <1>4, <1>5 DEF IInv, Linked
<1>8. Linked'
  BY <1>1, <1>4, <1>6, <1>7 DEF Linked
<1>9. Lowest'
  BY <1>1, <1>5, <1>7 DEF IInv, Lowest
<1> QED BY <1>6, <1>8, <1>9 DEF Others

\* A save that is complete is the newest checkpoint.
LEMMA CompletesSave ==
  ASSUME IInv, Frame, dirs' = dirs, best' = best, Live, Saving, ~Saving',
         epoch \in Numbered, IsWhole(epoch),
         pc = "batch" => set.interval > 0, pc = "endsave" => ~set.best, pc = "best" => plan' # <<>>,
         savedAt' = Position(epoch), savedAt' \in 0..(NumEpochs * NumSteps),
         ~set.torn /\ Fits =>
           /\ dirs[epoch].model = FirstBatches(savedAt')
           /\ dirs[epoch].state \in MidStates => Aligned(dirs[epoch].state[1])
  PROVE  Others'
<1>1. /\ set' = set /\ run' = run /\ pc' = pc /\ epoch' = epoch /\ step' = step /\ skip' = skip
      /\ weights' = weights /\ grads' = grads /\ bestLoss' = bestLoss /\ validated' = validated
  BY DEF Frame
<1>2. /\ Numbered' = Numbered /\ \A d : IsWhole(d)' <=> IsWhole(d)
      /\ \A d : Newest(d)' <=> Newest(d)
      /\ \A d : Position(d)' = Position(d)
      /\ \A n : Aligned(n)' <=> Aligned(n)
      /\ NoPosition'
  BY <1>1 DEF IInv, Numbered, IsWhole, Newest, Position, Aligned, NoPosition
<1>3. (Live' <=> Live) /\ (Moving' <=> Moving) /\ plan # <<>>
  BY <1>1 DEF Live, Moving, Saving
<1>4. epoch \in Nat /\ Numbered \subseteq Nat /\ NumEpochs \in Nat /\ epoch \in Epochs
  BY Legal DEF IInv, Numbered
<1>5. \A p \in Epochs : Newest(p) => p = epoch
  <2> SUFFICES ASSUME NEW p \in Epochs, Newest(p) PROVE p = epoch
    OBVIOUS
  <2>1. p \in Numbered /\ epoch <= p
    BY DEF Newest
  <2>2. p <= epoch
    BY <2>1 DEF IInv, Ahead
  <2> QED BY <1>4, <2>1, <2>2
<1>6. Typed' /\ Window' /\ Ahead'
  BY <1>1, <1>2, <1>3 DEF IInv, Typed, TypedMemory, TypedDisk, Window, Ahead
<1>7. Linked'
  <2> SUFFICES ASSUME best # NoLink PROVE Linked'
    BY DEF Linked
  <2>1. /\ best \in Numbered /\ IsWhole(best) /\ dirs[best].state \notin MidStates /\ best <= epoch
    BY DEF IInv, Linked
  <2>2. best = epoch => /\ pc \notin {"batch", "endsave"}
                        /\ pc = "best" /\ plan # <<>> => set.best /\ Len(plan) <= 1
    BY DEF IInv, Linked
  <2>3. best # epoch
    BY <2>2 DEF Saving
  <2> QED BY <1>1, <1>2, <2>1, <2>3 DEF Linked
<1>8. Kept'
  <2> SUFFICES ASSUME set.interval = 0 PROVE Kept'
    BY <1>1 DEF Kept
  <2>1. pc # "batch"
    OBVIOUS
  <2>2. ~(pc = "endsave" /\ set.best)
    OBVIOUS
  <2> QED BY <1>1, <1>2, <2>1, <2>2 DEF Kept
<1>9. Restorable'
  BY <1>2, <1>5 DEF Restorable
<1>10. Lowest'
  BY <1>1, <1>3 DEF IInv, Lowest
<1>11. Once'
  <2> SUFFICES ASSUME ~set.torn, Fits PROVE Once'
    BY <1>1 DEF Once
  <2>1. (Live => Aligned(skip))'
    BY <1>1, <1>2, <1>3 DEF IInv, Once
  <2>2. (pc = "batch" =>
          (IF Between THEN weights ELSE weights \o grads) = FirstBatches(epoch * NumSteps + step))'
    BY <1>1 DEF IInv, Once, Between
  <2>3. (pc \in {"endsave", "best"} => weights = FirstBatches((epoch + 1) * NumSteps))'
    BY <1>1 DEF IInv, Once
  <2>4. (\A p \in Epochs : Newest(p) =>
           /\ dirs[p].model = FirstBatches(savedAt)
           /\ dirs[p].state \in MidStates => Aligned(dirs[p].state[1]))'
    BY <1>2, <1>5
  <2> QED BY <2>1, <2>2, <2>3, <2>4 DEF Once
<1> QED BY <1>2, <1>6, <1>7, <1>8, <1>9, <1>10, <1>11 DEF Others
\* The link is removed, before it is made anew.
LEMMA LinkRemoved ==
  ASSUME IInv, Frame, dirs' = dirs, best' = NoLink, savedAt' = savedAt, pc = "best",
         plan # <<>>, plan' # <<>>, ~Saving, ~Saving'
  PROVE  Others'
<1>1. pc' = pc /\ Numbered' = Numbered /\ TypedDisk'
  BY DEF Frame, Numbered, IInv, Typed, TypedDisk
<1>2. Typed' /\ Window' /\ Ahead' /\ NoPosition' /\ Kept' /\ Restorable' /\ Once'
  BY <1>1, SameCheckpoints
<1>3. Linked'
  BY DEF Linked
<1>4. Moving /\ Moving'
  BY <1>1 DEF Moving
<1>5. Lowest'
  BY <1>4 DEF IInv, Lowest, Frame
<1> QED BY <1>2, <1>3, <1>5 DEF Others

\* The link leads to the epoch that was validated last.
LEMMA LinkMade ==
  ASSUME IInv, Frame, dirs' = dirs, best' = epoch, savedAt' = savedAt, pc = "best",
         plan # <<>>, ~Saving, ~Saving', plan' # <<>> => set.best /\ Len(plan') <= 1,
         epoch \in Numbered, IsWhole(epoch), dirs[epoch].state \notin MidStates,
         dirs[epoch].val = <<bestLoss>>
  PROVE  Others'
<1>1. /\ set' = set /\ pc' = pc /\ epoch' = epoch /\ bestLoss' = bestLoss /\ validated' = validated
  BY DEF Frame
<1>2. /\ Numbered' = Numbered /\ epoch \in Epochs /\ epoch # NoLink /\ epoch <= epoch
  BY Legal DEF Numbered, IInv
<1>3. TypedDisk'
  BY <1>1, <1>2 DEF IInv, Typed, TypedDisk
<1>4. /\ Typed' /\ Window' /\ Ahead' /\ NoPosition' /\ Kept' /\ Restorable' /\ Once'
      /\ \A d \in Numbered : IsWhole(d)' <=> IsWhole(d)
  BY <1>2, <1>3, SameCheckpoints
<1>5. IsWhole(best)'
  BY DEF IsWhole
<1>6. Linked'
  BY <1>1, <1>2, <1>5 DEF Linked
<1>7. Moving
  BY DEF Moving
<1>8. Lowest'
  <2> SUFFICES ASSUME ~set.torn PROVE Lowest'
    BY <1>1 DEF Lowest
  <2>1. /\ epoch \in DOMAIN validated /\ validated[epoch] = bestLoss
        /\ \A e \in DOMAIN validated : bestLoss <= validated[e]
    BY <1>7 DEF IInv, Lowest
  <2>2. best' \in DOMAIN validated' /\ dirs'[best'].val = <<validated'[best']>>
    BY <1>1, <2>1
  <2>3. (best' = NoLink) = (DOMAIN validated' = {})
    BY <1>1, <1>2, <2>1
  <2>4. \A e \in DOMAIN validated' : validated'[best'] <= validated'[e]
    BY <1>1, <2>1
  <2>5. bestLoss' = IF best' = NoLink THEN Infinite ELSE validated'[best']
    BY <1>1, <1>2, <2>1
  <2>6. epoch' \in DOMAIN validated' /\ validated'[epoch'] = bestLoss'
    BY <1>1, <2>1
  <2>7. \A e \in DOMAIN validated' : bestLoss' <= validated'[e]
    BY <1>1, <2>1
  <2> QED BY <2>2, <2>3, <2>4, <2>5, <2>6, <2>7 DEF Lowest
<1> QED BY <1>4, <1>6, <1>8 DEF Others

\* Another checkpoint than the one the link leads to is deleted.
LEMMA OtherDeleted ==
  ASSUME IInv, Frame, best' = best, savedAt' = savedAt, plan' = plan, pc = "best", plan # <<>>, ~Saving,
         best = epoch, epoch \in Numbered, NEW gone \in DOMAIN dirs, gone # epoch,
         dirs' = [d \in DOMAIN dirs \ {gone} |-> dirs[d]]
  PROVE  Others'
<1>1. /\ set' = set /\ run' = run /\ pc' = pc /\ epoch' = epoch /\ step' = step /\ skip' = skip
      /\ weights' = weights /\ grads' = grads /\ bestLoss' = bestLoss /\ validated' = validated
  BY DEF Frame
<1>2. /\ DOMAIN dirs' = DOMAIN dirs \ {gone}
      /\ \A d \in DOMAIN dirs' : d \in DOMAIN dirs /\ dirs'[d] = dirs[d]
  OBVIOUS
<1>3. /\ Numbered' = Numbered \ {gone} /\ epoch \in Numbered' /\ epoch \in DOMAIN dirs'
      /\ dirs'[epoch] = dirs[epoch]
  BY <1>2 DEF Numbered
<1>4. Live /\ Live' /\ Moving /\ Moving' /\ ~Saving'
  BY <1>1 DEF Live, Moving, Saving
<1>5. /\ epoch \in Nat /\ epoch \in Epochs /\ epoch # NoLink /\ Numbered \subseteq Nat
      /\ \A d \in Numbered : d <= epoch
  BY <1>4, Legal DEF Numbered, IInv, Ahead
<1>6. TypedDisk'
  <2>1. /\ DOMAIN dirs' \subseteq Epochs \cup {Interrupted}
        /\ \A d \in DOMAIN dirs' :
             /\ dirs'[d] \in [Files -> WeightFiles \cup StateFiles \cup LossFiles]
             /\ dirs'[d].model \in WeightFiles /\ dirs'[d].opt \in WeightFiles
             /\ dirs'[d].sched \in WeightFiles
             /\ dirs'[d].state \in StateFiles /\ dirs'[d].val \in LossFiles
    BY <1>2 DEF IInv, Typed, TypedDisk
  <2> QED BY <1>1, <2>1 DEF IInv, Typed, TypedDisk
<1>7. Typed' /\ Window' /\ Ahead'
  BY <1>1, <1>3, <1>4, <1>6 DEF IInv, Typed, TypedMemory, Window, Ahead
<1>8. NoPosition'
  BY <1>1, <1>2 DEF IInv, NoPosition, Numbered
<1>9. IsWhole(epoch) /\ dirs[epoch].state \notin MidStates /\ set.best /\ Len(plan) <= 1
  BY <1>5 DEF IInv, Linked
<1>10. IsWhole(epoch)'
  BY <1>1, <1>3, <1>9 DEF IsWhole
<1>11. Linked'
  <2>1. IsWhole(best)'
    BY <1>1, <1>3, <1>9 DEF IsWhole
  <2> QED BY <1>1, <1>3, <1>5, <1>9, <2>1 DEF Linked
<1>12. Kept'
  <2>1. pc' \notin {"batch", "endsave"}
    BY <1>1
  <2>2. \E d \in Numbered' : IsWhole(d)'
    BY <1>1, <1>3, <1>10
  <2> QED BY <1>4, <2>1, <2>2 DEF Kept
<1>13. \A p \in Epochs : Newest(p)' => p = epoch /\ Newest(p)
  <2> SUFFICES ASSUME NEW p \in Epochs, Newest(p)' PROVE p = epoch /\ Newest(p)
    OBVIOUS
  <2>1. p \in Numbered /\ epoch <= p
    BY <1>3 DEF Newest
  <2>2. p \in Nat /\ epoch \in Nat /\ p <= epoch
    BY <1>5, <2>1
  <2>3. p = epoch
    BY <2>1, <2>2
  <2> QED BY <1>5, <2>3, <2>1 DEF Newest
<1>14. Restorable'
  <2> SUFFICES ASSUME ~set.torn PROVE Restorable'
    BY <1>1 DEF Restorable
  <2>1. \A p \in Epochs : Newest(p)' => IsWhole(p)' /\ savedAt' = Position(p)'
    <3> SUFFICES ASSUME NEW p \in Epochs, Newest(p)' PROVE IsWhole(p)' /\ savedAt' = Position(p)'
      OBVIOUS
    <3>1. p = epoch /\ Newest(p)
      BY <1>13
    <3>2. savedAt = Position(p)
      BY <3>1 DEF IInv, Restorable
    <3>3. Position(p)' = Position(p) /\ dirs'[p] = dirs[p]
      BY <1>3, <3>1 DEF Position
    <3>4. IsWhole(p)'
      BY <1>9, <3>1, <3>3 DEF IsWhole
    <3> QED BY <3>2, <3>3, <3>4
  <2> QED BY <1>3, <2>1 DEF Restorable
<1>15. Lowest'
  BY <1>1, <1>3, <1>4 DEF IInv, Lowest
<1>16. Once'
  <2> SUFFICES ASSUME ~set.torn, Fits PROVE Once'
    BY <1>1 DEF Once
  <2>1. (Live => Aligned(skip))'
    BY <1>1, <1>4 DEF IInv, Once, Aligned
  <2>2. (pc \in {"endsave", "best"} => weights = FirstBatches((epoch + 1) * NumSteps))'
    BY <1>1 DEF IInv, Once
  <2>3. pc' # "batch"
    BY <1>1
  <2>4. \A n : Aligned(n)' <=> Aligned(n)
    BY <1>1 DEF Aligned
  <2>5. (\A p \in Epochs : Newest(p) =>
           /\ dirs[p].model = FirstBatches(savedAt)
           /\ dirs[p].state \in MidStates => Aligned(dirs[p].state[1]))'
    BY <1>3, <1>9, <1>13, <2>4 DEF IInv, Once
  <2> QED BY <2>1, <2>2, <2>3, <2>5 DEF Once
<1> QED BY <1>7, <1>8, <1>11, <1>12, <1>14, <1>15, <1>16 DEF Others

\* Nothing is left to delete, and the save is over.
LEMMA CleanedUp ==
  ASSUME IInv, Frame, dirs' = dirs, best' = best, savedAt' = savedAt, plan' = <<>>, pc = "best",
         plan # <<>>, ~Saving, best = epoch, epoch \in Numbered
  PROVE  Others'
<1>1. /\ set' = set /\ pc' = pc /\ epoch' = epoch /\ bestLoss' = bestLoss /\ validated' = validated
  BY DEF Frame
<1>2. Numbered' = Numbered /\ TypedDisk' /\ ~Saving' /\ ~Moving' /\ Moving /\ Live
  BY <1>1 DEF Numbered, IInv, Typed, TypedDisk, Saving, Moving, Live
<1>3. /\ Typed' /\ Window' /\ Ahead' /\ NoPosition' /\ Kept' /\ Restorable' /\ Once'
      /\ \A d \in Numbered : IsWhole(d)' <=> IsWhole(d)
  BY <1>2, SameCheckpoints
<1>4. epoch # NoLink /\ epoch <= epoch
  BY Legal DEF IInv
<1>5. Linked'
  <2>1. IsWhole(best)' <=> IsWhole(best)
    BY DEF IsWhole
  <2> QED BY <1>1, <1>2, <1>4, <2>1 DEF IInv, Linked
<1>6. Lowest'
  <2> SUFFICES ASSUME ~set.torn PROVE Lowest'
    BY <1>1 DEF Lowest
  <2>1. /\ epoch \in DOMAIN validated /\ validated[epoch] = bestLoss
        /\ \A e \in DOMAIN validated : bestLoss <= validated[e]
        /\ best \in DOMAIN validated /\ dirs[best].val = <<validated[best]>>
    BY <1>2, <1>4 DEF IInv, Lowest
  <2>2. best' \in DOMAIN validated' /\ dirs'[best'].val = <<validated'[best']>>
    BY <1>1, <2>1
  <2>3. (best' = NoLink) = (DOMAIN validated' = {})
    BY <1>1, <1>4, <2>1
  <2>4. \A e \in DOMAIN validated' : validated'[best'] <= validated'[e]
    BY <1>1, <2>1
  <2>5. bestLoss' = IF best' = NoLink THEN Infinite ELSE validated'[best']
    BY <1>1, <1>4, <2>1
  <2> QED BY <1>2, <2>2, <2>3, <2>4, <2>5 DEF Lowest
<1> QED BY <1>3, <1>5, <1>6 DEF Others

\* One operation of a plan, and what is left of it.
AtStep(full, m, n) ==
  m \in Nat /\ Table(full, m) /\ n \in Nat /\ n < m /\ plan = Rest(full, n)

LEMMA Advances ==
  ASSUME NEW full, NEW m, NEW n, AtStep(full, m, n)
  PROVE  /\ Head(plan) = full[n + 1] /\ Len(plan) = m - n
         /\ Tail(plan) = Rest(full, n + 1)
         /\ n + 1 = m => Tail(plan) = <<>>
         /\ n + 1 < m => Tail(plan) # <<>> /\ Len(Tail(plan)) = m - (n + 1)
<1>0. m \in Nat /\ Table(full, m) /\ n \in Nat /\ n < m /\ plan = Rest(full, n)
  BY DEF AtStep
<1>1. /\ Head(plan) = full[n + 1] /\ Len(plan) = m - n
      /\ Tail(plan) = Rest(full, n + 1)
  <2>1. n \in 0..(m - 1)
    BY <1>0
  <2> QED BY <1>0, <2>1, RestStep
<1>2. n + 1 = m => Rest(full, n + 1) = <<>>
  BY <1>0, RestEnds
<1>3. ASSUME n + 1 < m PROVE Rest(full, n + 1) # <<>> /\ Len(Rest(full, n + 1)) = m - (n + 1)
  <2>1. n + 1 \in 0..(m - 1)
    BY <1>0, <1>3
  <2> QED BY <1>0, <2>1, RestStep
<1> QED BY <1>1, <1>2, <1>3

\* A run that goes on is in an epoch.
LEMMA InEpoch ==
  ASSUME IInv, Live
  PROVE  epoch \in Epochs /\ epoch \in Nat /\ epoch < NumEpochs
<1>1. epoch \in Nat /\ NumEpochs \in Nat /\ epoch < NumEpochs
  BY Legal DEF IInv, Ahead
<1> QED BY <1>1 DEF Epochs

\* The files of a checkpoint are all there.
LEMMA FilledIsWhole ==
  ASSUME Typed, NEW n, n \in Nat, n >= 6, Filled(n), epoch \in Epochs
  PROVE  epoch \in Numbered /\ IsWhole(epoch) /\ Filled(6) /\ dirs[epoch].model = weights
<1>1. epoch \in DOMAIN dirs /\ dirs[epoch].model = weights /\ dirs[epoch].opt = weights
      /\ dirs[epoch].sched = weights
  BY DEF Filled
<1>2. weights \in Seq(Batches)
  BY DEF Typed, TypedMemory
<1>3. weights # Absent /\ weights # Partial
  BY <1>2, ContentsDiffer
<1> QED BY <1>1, <1>3 DEF Numbered, IsWhole, Filled

\* The save inside or at the end of an epoch, one operation after the other.
LEMMA SaveAtStep ==
  ASSUME IInv, Operation, pc \in {"batch", "endsave"}, NEW local \in 0..NumSteps, InSave(local),
         pc = "batch" => local = step /\ ~set.best /\ set.interval > 0 /\ local > 0
                         /\ local % set.interval = 0,
         pc = "endsave" => local = 0 /\ SavesEpoch
  PROVE  /\ Others' /\ (plan' # <<>> => InSave(local)')
         /\ pc = "endsave" /\ plan' = <<>> => Complete'
<1> DEFINE full == SaveAt(local, weights)
           at   == epoch * NumSteps + IF local = 0 THEN NumSteps ELSE local
<1>1. Frame /\ plan # <<>> /\ Live /\ Typed /\ Saving /\ pc' = pc
  BY OperationIs DEF IInv, Live, Saving, Frame
<1>2. epoch \in Epochs /\ epoch \in Nat /\ epoch < NumEpochs /\ NumSteps \in Nat /\ local \in Nat
      /\ weights \in Seq(Int)
  BY <1>1, InEpoch, Legal
<1>3. PICK n \in 0..8 : /\ plan = Rest(full, n) /\ Filled(n)
                        /\ n >= 8 => dirs[epoch].state = <<local>>
  BY DEF InSave
<1>4. /\ Table(full, 9)
      /\ full[1] = Put(epoch, "model", Partial) /\ full[2] = Put(epoch, "model", weights)
      /\ full[3] = Put(epoch, "opt", Partial) /\ full[4] = Put(epoch, "opt", weights)
      /\ full[5] = Put(epoch, "sched", Partial) /\ full[6] = Put(epoch, "sched", weights)
      /\ full[7] = Put(epoch, "state", Partial) /\ full[8] = Put(epoch, "state", <<local>>)
      /\ full[9] = [op |-> "saved", at |-> at]
  BY <1>2, SaveAtIs
<1>5. SaveAt(local, weights)' = full
  BY <1>1 DEF Frame, SaveAt
<1> HIDE DEF full, at
<1>6. /\ Head(plan) = full[n + 1] /\ Tail(plan) = Rest(full, n + 1)
      /\ n + 1 = 9 => Tail(plan) = <<>>
      /\ n + 1 < 9 => Tail(plan) # <<>>
  <2>1. AtStep(full, 9, n)
    BY <1>3, <1>4 DEF AtStep
  <2> QED BY <2>1, Advances
<1>7. ASSUME NEW f \in Files, NEW c, f # "val", full[n + 1] = Put(epoch, f, c), FitsFile(f, c),
             Fills(n, f, c), n < 8, f = "state" /\ c \in MidStates => ~set.best /\ set.interval > 0,
             n = 7 => f = "state" /\ c = <<local>>
      PROVE  Others' /\ plan' # <<>> /\ InSave(local)'
  <2>1. /\ dirs' = With(dirs, epoch, [Dir(epoch) EXCEPT ![f] = c])
        /\ plan' = Tail(plan) /\ best' = best /\ savedAt' = savedAt
    BY <1>6, <1>7, OperationIs
  <2>2. plan' = Rest(full, n + 1) /\ plan' # <<>> /\ Saving'
    BY <1>1, <1>6, <1>7, <2>1 DEF Saving
  <2>3. Others'
    BY <1>1, <1>2, <1>7, <2>1, <2>2, CheckpointWrite
  <2>4. Filled(n + 1)'
    BY <1>1, <1>2, <1>3, <1>7, <2>1, FilledOn
  <2>5. n = 7 => dirs'[epoch].state = <<local>>
    <3>1. Writes(epoch, f, c)
      BY <1>1, <1>2, <1>7, <2>1 DEF Frame, Writes
    <3>2. Wrote(epoch, f, c)
      BY <1>1, <3>1, Written
    <3> QED BY <1>7, <3>2 DEF Wrote
  <2>6. epoch' = epoch /\ n + 1 \in 0..8 /\ (n + 1 >= 8 => n = 7)
    BY <1>1, <1>7 DEF Frame
  <2>7. InSave(local)'
    BY <1>5, <2>2, <2>4, <2>5, <2>6 DEF InSave
  <2> QED BY <2>2, <2>3, <2>7
<1>8. CASE n <= 5
  <2>1. n \in 0..5
    BY <1>8
  <2>2. PICK f \in {"model", "opt", "sched"}, c \in {Partial, weights} :
          full[n + 1] = Put(epoch, f, c) /\ Fills(n, f, c) /\ FitsFile(f, c)
    BY <1>1, <1>4, <2>1, CheckpointHead
  <2>3. f \in Files /\ f # "val" /\ f # "state" /\ n < 8 /\ n # 7
    BY <1>8, <2>2 DEF Files
  <2> QED BY <1>7, <2>2, <2>3
<1>9. CASE n = 6
  <2>1. full[n + 1] = Put(epoch, "state", Partial)
    BY <1>4, <1>9
  <2>2. FitsFile("state", Partial) /\ Fills(n, "state", Partial) /\ Partial \notin MidStates
    BY <1>9, ContentsDiffer DEF FitsFile, StateFiles, Fills
  <2> QED BY <1>7, <1>9, <2>1, <2>2, FilesAre
<1>10. CASE n = 7
  <2>1. full[n + 1] = Put(epoch, "state", <<local>>)
    BY <1>4, <1>10
  <2>2. FitsFile("state", <<local>>) /\ Fills(n, "state", <<local>>)
    BY <1>10 DEF FitsFile, StateFiles, Fills
  <2>3. <<local>> \in MidStates => ~set.best /\ set.interval > 0
    <3>1. <<local>> \in MidStates => local > 0
      BY <1>2, ContentsDiffer
    <3>2. local > 0 => pc = "batch"
      OBVIOUS
    <3> QED BY <3>1, <3>2
  <2> QED BY <1>7, <1>10, <2>1, <2>2, <2>3, FilesAre
<1>11. CASE n = 8
  <2>1. savedAt' = at /\ plan' = <<>> /\ best' = best /\ dirs' = dirs
    <3>1. Head(plan) = [op |-> "saved", at |-> at]
      BY <1>4, <1>6, <1>11
    <3>2. Tail(plan) = <<>>
      BY <1>6, <1>11
    <3>3. savedAt' = at /\ plan' = Tail(plan) /\ best' = best /\ dirs' = dirs
      BY Zenon, <3>1, OperationIs
    <3> QED BY <3>2, <3>3
  <2>2. epoch \in Numbered /\ IsWhole(epoch) /\ Filled(6) /\ dirs[epoch].model = weights
        /\ dirs[epoch].state = <<local>>
    BY <1>1, <1>2, <1>3, <1>11, FilledIsWhole
  <2>3. local > 0 <=> <<local>> \in MidStates
    BY <1>2, ContentsDiffer
  <2>4. /\ at = IF local = 0 THEN (epoch + 1) * NumSteps ELSE epoch * NumSteps + local
        /\ at \in 0..(NumEpochs * NumSteps)
    <3>1. CASE local = 0
      <4>1. NumSteps \in 0..NumSteps
        BY <1>2
      <4>2. /\ (epoch + 1) * NumSteps = epoch * NumSteps + NumSteps
            /\ epoch * NumSteps + NumSteps \in 0..(NumEpochs * NumSteps)
        BY <1>1, <1>2, <4>1, Positions
      <4> QED BY <3>1, <4>2 DEF at
    <3>2. CASE local # 0
      <4>1. epoch * NumSteps + local \in 0..(NumEpochs * NumSteps)
        BY <1>1, <1>2, Positions
      <4> QED BY <3>2, <4>1 DEF at
    <3> QED BY <3>1, <3>2
  <2>5. at = Position(epoch)
    <3>1. <<local>>[1] = local
      OBVIOUS
    <3>2. local > 0 <=> local # 0
      BY <1>2
    <3> QED BY <2>2, <2>3, <2>4, <3>1, <3>2 DEF Position
  <2>6. ASSUME ~set.torn, Fits
        PROVE  /\ dirs[epoch].model = FirstBatches(at)
               /\ dirs[epoch].state \in MidStates => Aligned(dirs[epoch].state[1])
    <3>1. CASE pc = "endsave"
      <4>1. weights = FirstBatches((epoch + 1) * NumSteps) /\ local = 0
        BY <2>6, <3>1 DEF IInv, Once
      <4>2. at = (epoch + 1) * NumSteps /\ ~(local > 0)
        BY <2>4, <4>1
      <4> QED BY <2>2, <2>3, <4>1, <4>2
    <3>2. CASE pc = "batch"
      <4>1. /\ local = step /\ local > 0 /\ step % set.interval = 0 /\ set.interval > 0 /\ ~set.best
            /\ set \in Settings /\ set.accum \in Nat \ {0} /\ set.interval \in Nat \ {0}
            /\ step \in Nat /\ skip \in Nat /\ skip <= step
        BY <1>1, <3>2, Legal
      <4>2. set.interval % set.accum = 0 /\ NumSteps % set.accum = 0
        BY <2>6, <4>1 DEF Fits
      <4>3. step % set.accum = 0
        BY <4>1, <4>2, ModChain
      <4>4. Aligned(skip)
        BY <1>1, <2>6 DEF IInv, Once
      <4>5. (step - skip) % set.accum = 0
        <5>1. CASE skip = 0
          <6>1. step - skip = step
            BY <4>1, <5>1
          <6> QED BY <4>3, <6>1
        <5>2. CASE skip # 0
          <6>1. skip % set.accum = 0
            BY <4>4, <5>2 DEF Aligned
          <6> QED BY <4>1, <4>3, <6>1, ModMinus
        <5> QED BY <5>1, <5>2
      <4>6. weights = FirstBatches(epoch * NumSteps + step)
        <5>1. Between
          BY <4>5 DEF Between
        <5> QED BY <2>6, <3>2, <5>1 DEF IInv, Once
      <4>7. at = epoch * NumSteps + step /\ <<local>>[1] = step
        BY <1>2, <2>4, <4>1
      <4>8. Aligned(step)
        BY <4>2, <4>3 DEF Aligned
      <4> QED BY <2>2, <4>6, <4>7, <4>8
    <3> QED BY <3>1, <3>2
  <2>7. ~Saving'
    BY <2>1 DEF Saving
  <2>8. Others'
    <3>1. /\ pc = "batch" => set.interval > 0
          /\ pc = "endsave" => ~set.best
          /\ pc = "best" => plan' # <<>>
      BY DEF SavesEpoch
    <3> QED BY <1>1, <2>1, <2>2, <2>4, <2>5, <2>6, <2>7, <3>1, CompletesSave
  <2>9. pc = "endsave" => Complete'
    BY <1>1, <2>1, <2>2 DEF Complete, Filled, Frame
  <2> QED BY <2>1, <2>8, <2>9
<1> QED BY <1>7, <1>8, <1>9, <1>10, <1>11

\* Writing the loss of an epoch leaves the other files of it alone.
LEMMA LossWritten ==
  ASSUME Typed, epoch \in Epochs, Frame, best' = best, savedAt' = savedAt, NEW c \in LossFiles,
         dirs' = With(dirs, epoch, [Dir(epoch) EXCEPT !["val"] = c])
  PROVE  /\ epoch \in DOMAIN dirs' /\ dirs'[epoch].val = c
         /\ epoch \in DOMAIN dirs => /\ dirs'[epoch].model = dirs[epoch].model
                                     /\ dirs'[epoch].opt = dirs[epoch].opt
                                     /\ dirs'[epoch].sched = dirs[epoch].sched
                                     /\ dirs'[epoch].state = dirs[epoch].state
<1>1. /\ DOMAIN dirs' = DOMAIN dirs \cup {epoch} /\ dirs'[epoch]["val"] = c
      /\ \A g \in Files : g # "val" => dirs'[epoch][g] = Dir(epoch)[g]
  <2>1. Writes(epoch, "val", c)
    BY FilesAre DEF Frame, FitsFile, Writes
  <2>2. Wrote(epoch, "val", c)
    BY <2>1, Written
  <2> QED BY <2>2 DEF Wrote
<1>2. epoch \in DOMAIN dirs => Dir(epoch) = dirs[epoch]
  BY DEF Dir
<1> QED BY <1>1, <1>2, FilesAre

\* The save of an epoch that is better than the only one that is kept.
LEMMA ReplaceStep ==
  ASSUME IInv, Operation, pc = "best", set.best, bestLoss \in Losses, InReplace
  PROVE  Others' /\ (plan' # <<>> => InReplace')
<1> DEFINE full == ReplaceBest(bestLoss)
<1>1. Frame /\ plan # <<>> /\ Live /\ Typed
  BY OperationIs DEF IInv, Live
<1>2. epoch \in Epochs /\ epoch \in Nat /\ epoch < NumEpochs /\ NumSteps \in Nat /\ bestLoss \in Nat
      /\ weights \in Seq(Int) /\ NoLink \notin Nat
  BY <1>1, InEpoch, Legal, SettingsAreLegal
<1>3. PICK n \in 0..11 : /\ plan = Rest(full, n) /\ Filled(n)
                         /\ n >= 9 => dirs[epoch].val = <<bestLoss>>
                         /\ n >= 11 => best = epoch
  BY DEF InReplace
<1>4. /\ Table(full, 12)
      /\ full[1] = Put(epoch, "model", Partial) /\ full[2] = Put(epoch, "model", weights)
      /\ full[3] = Put(epoch, "opt", Partial) /\ full[4] = Put(epoch, "opt", weights)
      /\ full[5] = Put(epoch, "sched", Partial) /\ full[6] = Put(epoch, "sched", weights)
      /\ full[7] = [op |-> "saved", at |-> (epoch + 1) * NumSteps]
      /\ full[8] = Put(epoch, "val", Partial) /\ full[9] = Put(epoch, "val", <<bestLoss>>)
      /\ full[10] = [op |-> "link", to |-> NoLink] /\ full[11] = [op |-> "link", to |-> epoch]
      /\ full[12] = [op |-> "cleanup", keep |-> epoch]
  BY <1>2, ReplaceBestIs
<1>5. ReplaceBest(bestLoss)' = full
  BY <1>1 DEF Frame, ReplaceBest, SaveBest, UpdateBest, Cleanup
<1> HIDE DEF full
<1>6. /\ Head(plan) = full[n + 1] /\ Len(plan) = 12 - n /\ Tail(plan) = Rest(full, n + 1)
      /\ n + 1 = 12 => Tail(plan) = <<>>
      /\ n + 1 < 12 => Tail(plan) # <<>> /\ Len(Tail(plan)) = 12 - (n + 1)
  <2>1. AtStep(full, 12, n)
    BY <1>3, <1>4 DEF AtStep
  <2> QED BY <2>1, Advances
<1>7. /\ Saving <=> n <= 6
      /\ n < 11 /\ plan' = Tail(plan) => (plan' # <<>> /\ (Saving' <=> n <= 5))
  <2>1. Saving <=> 12 - n >= 6
    BY <1>1, <1>6 DEF Saving
  <2>2. ASSUME n < 11, plan' = Tail(plan) PROVE plan' # <<>> /\ (Saving' <=> n <= 5)
    <3>1. plan' # <<>> /\ Len(plan') = 12 - (n + 1) /\ pc' = "best" /\ set'.best
      BY <1>1, <1>6, <2>2 DEF Frame
    <3>2. Saving' <=> 12 - (n + 1) >= 6
      BY <3>1 DEF Saving
    <3> QED BY <3>1, <3>2
  <2>3. 12 - n >= 6 <=> n <= 6
    OBVIOUS
  <2> QED BY <2>1, <2>2, <2>3
<1>8. epoch' = epoch /\ bestLoss' = bestLoss /\ weights' = weights
  BY <1>1 DEF Frame
<1>9. dirs[epoch].state \notin MidStates \/ epoch \notin Numbered
  BY DEF IInv, NoPosition
<1>10. n >= 6 => epoch \in Numbered /\ IsWhole(epoch) /\ Filled(6) /\ dirs[epoch].model = weights
  BY <1>1, <1>2, <1>3, FilledIsWhole
<1>11. ASSUME dirs' = dirs, n >= 6 PROVE Filled(n + 1)'
  BY <1>3, <1>8, <1>10, <1>11 DEF Filled, Numbered
<1>12. CASE n <= 5
  <2>1. n \in 0..5
    BY <1>12
  <2>2. PICK f \in {"model", "opt", "sched"}, c \in {Partial, weights} :
          full[n + 1] = Put(epoch, f, c) /\ Fills(n, f, c) /\ FitsFile(f, c)
    BY <1>1, <1>4, <2>1, CheckpointHead
  <2>3. f \in Files /\ f # "val" /\ f # "state"
    BY <2>2 DEF Files
  <2>4. /\ dirs' = With(dirs, epoch, [Dir(epoch) EXCEPT ![f] = c])
        /\ plan' = Tail(plan) /\ best' = best /\ savedAt' = savedAt
    BY <1>6, <2>2, OperationIs
  <2>5. Saving /\ Saving' /\ plan' = Rest(full, n + 1)
    BY <1>6, <1>7, <1>12, <2>4
  <2>6. Others'
    BY <1>1, <1>2, <2>2, <2>3, <2>4, <2>5, CheckpointWrite
  <2>7. Filled(n + 1)'
    BY <1>1, <1>2, <1>3, <2>2, <2>3, <2>4, FilledOn
  <2>8. n + 1 \in 0..11 /\ ~(n + 1 >= 9) /\ ~(n + 1 >= 11)
    BY <1>12
  <2> QED BY <1>5, <2>5, <2>6, <2>7, <2>8 DEF InReplace
<1>13. CASE n = 6
  <2>1. savedAt' = (epoch + 1) * NumSteps /\ plan' = Tail(plan) /\ best' = best /\ dirs' = dirs
    <3>1. Head(plan) = [op |-> "saved", at |-> (epoch + 1) * NumSteps]
      BY <1>4, <1>6, <1>13
    <3> QED BY Zenon, <3>1, OperationIs
  <2>2. Saving /\ ~Saving' /\ plan' # <<>> /\ plan' = Rest(full, n + 1)
    BY <1>6, <1>7, <1>13, <2>1
  <2>3. savedAt' = Position(epoch) /\ savedAt' \in 0..(NumEpochs * NumSteps)
    <3>1. NumSteps \in 0..NumSteps
      BY <1>2
    <3>2. /\ (epoch + 1) * NumSteps = epoch * NumSteps + NumSteps
          /\ epoch * NumSteps + NumSteps \in 0..(NumEpochs * NumSteps)
      BY <1>1, <1>2, <3>1, Positions
    <3>3. (epoch + 1) * NumSteps = Position(epoch)
      BY <1>9, <1>10, <1>13 DEF Position
    <3> QED BY <2>1, <3>2, <3>3
  <2>4. ~set.torn /\ Fits => dirs[epoch].model = FirstBatches(savedAt')
    BY <1>10, <1>13, <2>1 DEF IInv, Once
  <2>5. Others'
    BY <1>1, <1>9, <1>10, <1>13, <2>1, <2>2, <2>3, <2>4, CompletesSave
  <2>6. n + 1 \in 0..11 /\ ~(n + 1 >= 9) /\ ~(n + 1 >= 11) /\ Filled(n + 1)'
    BY <1>11, <1>13, <2>1
  <2> QED BY <1>5, <2>2, <2>5, <2>6 DEF InReplace
<1>14. CASE n \in {7, 8}
  <2>1. PICK c \in {Partial, <<bestLoss>>} : full[n + 1] = Put(epoch, "val", c)
                                             /\ (n = 8 => c = <<bestLoss>>)
    <3>1. CASE n = 7
      BY <1>4, <3>1
    <3>2. CASE n = 8
      BY <1>4, <3>2
    <3> QED BY <1>14, <3>1, <3>2
  <2>2. /\ dirs' = With(dirs, epoch, [Dir(epoch) EXCEPT !["val"] = c])
        /\ plan' = Tail(plan) /\ best' = best /\ savedAt' = savedAt
    BY <1>6, <2>1, OperationIs
  <2>3. ~Saving /\ ~Saving' /\ plan' # <<>> /\ plan' = Rest(full, n + 1) /\ n >= 6
    BY <1>6, <1>7, <1>14, <2>2
  <2>4. c \in LossFiles /\ FitsFile("val", c) /\ Fills(n, "val", c)
    BY <1>14, <2>1 DEF LossFiles, FitsFile, Fills
  <2>5. best # epoch
    <3>1. best = epoch => Len(plan) <= 1
      BY <1>1, <1>2 DEF IInv, Linked
    <3>2. ~(12 - n <= 1)
      BY <1>14
    <3> QED BY <1>6, <3>1, <3>2
  <2>6. Others'
    BY <1>1, <1>10, <2>2, <2>3, <2>4, <2>5, LossWrite
  <2>0. PICK f \in Files : f = "val"
    BY FilesAre
  <2>7. Filled(n + 1)'
    <3>1. dirs' = With(dirs, epoch, [Dir(epoch) EXCEPT ![f] = c])
      BY <2>0, <2>2
    <3>2. FitsFile(f, c) /\ Fills(n, f, c)
      BY <2>0, <2>4
    <3>3. n \in Nat /\ Filled(n)
      BY <1>3
    <3> QED BY Zenon, <1>1, <1>2, <2>2, <3>1, <3>2, <3>3, FilledOn
  <2>8. dirs'[epoch].val = c
    BY <1>1, <1>2, <2>2, <2>4, LossWritten
  <2>9. n + 1 \in 0..11 /\ (n + 1 >= 9 => n = 8) /\ ~(n + 1 >= 11)
    BY <1>14
  <2> QED BY <1>5, <1>8, <2>1, <2>3, <2>6, <2>7, <2>8, <2>9 DEF InReplace
<1>15. CASE n = 9
  <2>1. best' = NoLink /\ plan' = Tail(plan) /\ savedAt' = savedAt /\ dirs' = dirs
    <3>1. Head(plan) = [op |-> "link", to |-> NoLink]
      BY <1>4, <1>6, <1>15
    <3> QED BY Zenon, <3>1, OperationIs
  <2>2. ~Saving /\ ~Saving' /\ plan' # <<>> /\ plan' = Rest(full, n + 1)
    BY <1>6, <1>7, <1>15, <2>1
  <2>3. Others'
    BY <1>1, <2>1, <2>2, LinkRemoved
  <2>4. n + 1 \in 0..11 /\ n >= 9 /\ ~(n + 1 >= 11) /\ Filled(n + 1)'
    BY <1>11, <1>15, <2>1
  <2> QED BY <1>3, <1>5, <1>8, <2>1, <2>2, <2>3, <2>4 DEF InReplace
<1>16. CASE n = 10
  <2>1. best' = epoch /\ plan' = Tail(plan) /\ savedAt' = savedAt /\ dirs' = dirs
    <3>1. Head(plan) = [op |-> "link", to |-> epoch]
      BY <1>4, <1>6, <1>16
    <3> QED BY Zenon, <3>1, OperationIs
  <2>2. ~Saving /\ ~Saving' /\ plan' # <<>> /\ plan' = Rest(full, n + 1)
    BY <1>6, <1>7, <1>16, <2>1
  <2>3. Len(plan') <= 1
    <3>1. Len(plan') = 12 - (n + 1)
      BY <1>6, <1>16, <2>1
    <3> QED BY <1>16, <3>1
  <2>4. Others'
    BY <1>1, <1>3, <1>9, <1>10, <1>16, <2>1, <2>2, <2>3, LinkMade
  <2>5. n + 1 \in 0..11 /\ n >= 9 /\ Filled(n + 1)'
    BY <1>11, <1>16, <2>1
  <2> QED BY <1>3, <1>5, <1>8, <2>1, <2>2, <2>4, <2>5 DEF InReplace
<1>17. CASE n = 11
  <2>1. /\ best' = best /\ savedAt' = savedAt
        /\ \/ \E gone \in DOMAIN dirs \ {epoch} :
                dirs' = [d \in DOMAIN dirs \ {gone} |-> dirs[d]] /\ plan' = plan
           \/ plan' = Tail(plan) /\ dirs' = dirs
    <3>1. Head(plan) = [op |-> "cleanup", keep |-> epoch]
      BY <1>4, <1>6, <1>17
    <3> QED BY Zenon, <3>1, OperationIs
  <2>2. ~Saving /\ best = epoch /\ epoch \in Numbered /\ Tail(plan) = <<>>
    BY <1>3, <1>6, <1>7, <1>10, <1>17
  <2>3. CASE plan' = Tail(plan) /\ dirs' = dirs
    BY <1>1, <2>1, <2>2, <2>3, CleanedUp
  <2>4. ASSUME NEW gone \in DOMAIN dirs \ {epoch},
               dirs' = [d \in DOMAIN dirs \ {gone} |-> dirs[d]], plan' = plan
        PROVE  Others' /\ InReplace'
    <3>1. gone \in DOMAIN dirs /\ gone # epoch /\ epoch \in DOMAIN dirs
      BY <2>2, <2>4 DEF Numbered
    <3>2. Others'
      BY <1>1, <2>1, <2>2, <2>4, <3>1, OtherDeleted
    <3>3. epoch \in DOMAIN dirs' /\ dirs'[epoch] = dirs[epoch]
      BY <2>4, <3>1
    <3>4. Filled(n)'
      BY <1>3, <1>8, <3>3 DEF Filled
    <3>5. plan' = Rest(full, n) /\ (n >= 9 => dirs'[epoch].val = <<bestLoss>>)
          /\ (n >= 11 => best' = epoch)
      BY <1>3, <2>1, <2>4, <3>3
    <3> QED BY <1>5, <1>8, <3>2, <3>4, <3>5 DEF InReplace
  <2> QED BY <2>1, <2>3, <2>4, <2>2
<1>18. n <= 5 \/ n = 6 \/ n \in {7, 8} \/ n = 9 \/ n = 10 \/ n = 11
  OBVIOUS
<1> QED BY <1>12, <1>13, <1>14, <1>15, <1>16, <1>17, <1>18

\* The loss of an epoch that is better than the best one, and the link to it.
LEMMA UpdateStep ==
  ASSUME IInv, Operation, pc = "best", ~set.best, bestLoss \in Losses, InUpdate
  PROVE  Others' /\ (plan' # <<>> => InUpdate')
<1> DEFINE full == UpdateBest(bestLoss)
<1>1. Frame /\ plan # <<>> /\ Live /\ Typed /\ ~Saving /\ ~Saving'
  BY OperationIs DEF IInv, Live, Saving, Frame
<1>2. epoch \in Epochs /\ epoch \in Nat /\ bestLoss \in Nat /\ NoLink \notin Nat
  BY <1>1, InEpoch, Legal, SettingsAreLegal
<1>3. PICK n \in 0..3 : /\ plan = Rest(full, n) /\ Complete
                        /\ n >= 2 => dirs[epoch].val = <<bestLoss>>
  BY DEF InUpdate
<1>4. /\ Table(full, 4)
      /\ full[1] = Put(epoch, "val", Partial) /\ full[2] = Put(epoch, "val", <<bestLoss>>)
      /\ full[3] = [op |-> "link", to |-> NoLink] /\ full[4] = [op |-> "link", to |-> epoch]
  BY <1>2, UpdateBestIs
<1>5. UpdateBest(bestLoss)' = full
  BY <1>1 DEF Frame, UpdateBest
<1> HIDE DEF full
<1>6. /\ Head(plan) = full[n + 1] /\ Tail(plan) = Rest(full, n + 1)
      /\ n + 1 = 4 => Tail(plan) = <<>>
      /\ n + 1 < 4 => Tail(plan) # <<>>
  <2>1. AtStep(full, 4, n)
    BY <1>3, <1>4 DEF AtStep
  <2> QED BY <2>1, Advances
<1>7. epoch' = epoch /\ bestLoss' = bestLoss /\ weights' = weights
  BY <1>1 DEF Frame
<1>8. epoch \in Numbered /\ IsWhole(epoch) /\ dirs[epoch].state \notin MidStates
  <2>1. Filled(6) /\ dirs[epoch].state = <<0>> /\ 6 \in Nat /\ 6 >= 6
    BY <1>3 DEF Complete
  <2>2. <<0>> \notin MidStates
    BY ContentsDiffer
  <2> QED BY <1>1, <1>2, <2>1, <2>2, FilledIsWhole
<1>9. CASE n \in {0, 1}
  <2>1. PICK c \in {Partial, <<bestLoss>>} : full[n + 1] = Put(epoch, "val", c)
                                             /\ (n = 1 => c = <<bestLoss>>)
    <3>1. CASE n = 0
      BY <1>4, <3>1
    <3>2. CASE n = 1
      BY <1>4, <3>2
    <3> QED BY <1>9, <3>1, <3>2
  <2>2. /\ dirs' = With(dirs, epoch, [Dir(epoch) EXCEPT !["val"] = c])
        /\ plan' = Tail(plan) /\ best' = best /\ savedAt' = savedAt
    BY <1>6, <2>1, OperationIs
  <2>3. plan' # <<>> /\ plan' = Rest(full, n + 1) /\ n + 1 \in 0..3 /\ (n + 1 >= 2 => n = 1)
    BY <1>6, <1>9, <2>2
  <2>4. c \in LossFiles /\ FitsFile("val", c)
    BY <2>1 DEF LossFiles, FitsFile
  <2>5. best # epoch
    BY <1>1, <1>2 DEF IInv, Linked
  <2>6. Others'
    BY <1>1, <1>8, <2>2, <2>3, <2>4, <2>5, LossWrite
  <2>7. Complete'
    <3>1. epoch \in DOMAIN dirs
      BY <1>8 DEF Numbered
    <3>2. /\ epoch \in DOMAIN dirs' /\ dirs'[epoch].model = dirs[epoch].model
          /\ dirs'[epoch].opt = dirs[epoch].opt /\ dirs'[epoch].sched = dirs[epoch].sched
          /\ dirs'[epoch].state = dirs[epoch].state
      BY <1>1, <1>2, <2>2, <2>4, <3>1, LossWritten
    <3> QED BY <1>3, <1>7, <3>2 DEF Complete, Filled
  <2>8. n = 1 => dirs'[epoch].val = <<bestLoss>>
    BY <1>1, <1>2, <2>1, <2>2, <2>4, LossWritten
  <2> QED BY <1>5, <1>7, <2>3, <2>6, <2>7, <2>8 DEF InUpdate
<1>10. dirs' = dirs => Complete'
  BY <1>3, <1>7 DEF Complete, Filled
<1>11. CASE n = 2
  <2>1. best' = NoLink /\ plan' = Tail(plan) /\ savedAt' = savedAt /\ dirs' = dirs
    <3>1. Head(plan) = [op |-> "link", to |-> NoLink]
      BY <1>4, <1>6, <1>11
    <3> QED BY Zenon, <3>1, OperationIs
  <2>2. plan' # <<>> /\ plan' = Rest(full, n + 1)
    BY <1>6, <1>11, <2>1
  <2>3. Others'
    BY <1>1, <2>1, <2>2, LinkRemoved
  <2>4. n + 1 \in 0..3 /\ n >= 2
    BY <1>11
  <2> QED BY <1>3, <1>5, <1>7, <1>10, <2>1, <2>2, <2>3, <2>4 DEF InUpdate
<1>12. CASE n = 3
  <2>1. best' = epoch /\ plan' = Tail(plan) /\ savedAt' = savedAt /\ dirs' = dirs
    <3>1. Head(plan) = [op |-> "link", to |-> epoch]
      BY <1>4, <1>6, <1>12
    <3> QED BY Zenon, <3>1, OperationIs
  <2>2. plan' = <<>> /\ dirs[epoch].val = <<bestLoss>>
    BY <1>3, <1>6, <1>12, <2>1
  <2>3. Others'
    BY <1>1, <1>8, <2>1, <2>2, LinkMade
  <2> QED BY <2>2, <2>3
<1> QED BY <1>9, <1>11, <1>12

\* The save of an interrupt.
LEMMA InterruptedStep ==
  ASSUME IInv, Operation, pc = "interrupt"
  PROVE  Others' /\ (plan' # <<>> =>
           \E n \in 0..5 : plan' = Rest(SaveCheckpoint(Interrupted, weights)', n))
<1> DEFINE full == SaveCheckpoint(Interrupted, weights)
<1>1. Frame /\ plan # <<>> /\ Typed /\ weights \in Seq(Int) /\ Interrupted \in Int
  <2>1. Frame /\ plan # <<>> /\ Typed
    BY OperationIs DEF IInv
  <2> QED BY <2>1, Legal DEF Interrupted
<1>2. PICK n \in 0..5 : plan = Rest(full, n)
  BY <1>1 DEF IInv, Planned
<1>3. /\ Table(full, 6)
      /\ full[1] = Put(Interrupted, "model", Partial) /\ full[2] = Put(Interrupted, "model", weights)
      /\ full[3] = Put(Interrupted, "opt", Partial) /\ full[4] = Put(Interrupted, "opt", weights)
      /\ full[5] = Put(Interrupted, "sched", Partial) /\ full[6] = Put(Interrupted, "sched", weights)
  BY <1>1, SaveCheckpointIs
<1>4. SaveCheckpoint(Interrupted, weights)' = full
  BY <1>1 DEF Frame
<1> HIDE DEF full
<1>5. /\ Head(plan) = full[n + 1] /\ Tail(plan) = Rest(full, n + 1)
      /\ n + 1 = 6 => Tail(plan) = <<>>
  <2>1. AtStep(full, 6, n)
    BY <1>2, <1>3 DEF AtStep
  <2> QED BY <2>1, Advances
<1>6. PICK f \in {"model", "opt", "sched"}, c \in {Partial, weights} :
        full[n + 1] = Put(Interrupted, f, c) /\ FitsFile(f, c)
  BY <1>1, <1>3, CheckpointHead
<1>7. /\ dirs' = With(dirs, Interrupted, [Dir(Interrupted) EXCEPT ![f] = c])
      /\ plan' = Tail(plan) /\ best' = best /\ savedAt' = savedAt
  BY <1>5, <1>6, OperationIs
<1>8. Others'
  <2>1. f \in Files
    BY <1>6 DEF Files
  <2> QED BY <1>1, <1>6, <1>7, <2>1, InterruptedWrite
<1>9. n + 1 = 6 \/ n + 1 \in 0..5
  OBVIOUS
<1> QED BY <1>4, <1>5, <1>7, <1>8, <1>9

\* Any operation of any save.
LEMMA OperationStep == ASSUME IInv, Operation PROVE IInv'
<1>1. Frame /\ plan # <<>> /\ Typed /\ Planned /\ Live
  BY OperationIs DEF IInv, Planned
<1>2. pc' = pc /\ set' = set /\ step' = step /\ epoch' = epoch /\ bestLoss' = bestLoss /\ (Live' <=> Live)
      /\ (SavesEpoch' <=> SavesEpoch) /\ NumSteps \in Nat /\ step \in 0..NumSteps
  BY <1>1, Legal DEF Frame, Live, SavesEpoch
<1>3. CASE pc = "batch"
  <2>1. InSave(step) /\ ~set.best /\ set.interval > 0 /\ step > 0 /\ step % set.interval = 0
    BY <1>1, <1>3 DEF Planned
  <2>2. Others' /\ (plan' # <<>> => InSave(step)')
    BY <1>2, <1>3, <2>1, SaveAtStep
  <2> QED BY <1>1, <1>2, <1>3, <2>1, <2>2 DEF IInv, Others, Planned
<1>4. CASE pc = "endsave"
  <2>1. InSave(0) /\ SavesEpoch
    BY <1>1, <1>4 DEF Planned
  <2>2. 0 \in 0..NumSteps
    BY <1>2
  <2>3. Others' /\ (plan' # <<>> => InSave(0)') /\ (plan' = <<>> => Complete')
    BY <1>2, <1>4, <2>1, <2>2, SaveAtStep
  <2> QED BY <1>1, <1>2, <1>4, <2>1, <2>3 DEF IInv, Others, Planned
<1>5. CASE pc = "best"
  <2>1. bestLoss \in Losses /\ IF set.best THEN InReplace ELSE InUpdate
    BY <1>1, <1>5 DEF Planned
  <2>2. Others' /\ (plan' # <<>> => IF set.best THEN InReplace' ELSE InUpdate')
    <3>1. CASE set.best
      BY <1>5, <2>1, <3>1, ReplaceStep
    <3>2. CASE ~set.best
      BY <1>5, <2>1, <3>2, UpdateStep
    <3> QED BY <3>1, <3>2
  <2> QED BY <1>1, <1>2, <1>5, <2>1, <2>2 DEF IInv, Others, Planned
<1>6. CASE pc = "interrupt"
  <2>1. Others' /\ (plan' # <<>> =>
          \E n \in 0..5 : plan' = Rest(SaveCheckpoint(Interrupted, weights)', n))
    BY <1>6, InterruptedStep
  <2> QED BY <1>1, <1>2, <1>6, <2>1 DEF IInv, Others, Planned
<1> QED BY <1>1, <1>3, <1>4, <1>5, <1>6 DEF Live

-----------------------------------------------------------------------------
(* The theorems.                                                           *)

LEMMA NextStep ==
  ASSUME IInv, [Next]_vars PROVE IInv'
<1>1. CASE Start
  BY <1>1, StartStep
<1>2. CASE TrainBatch
  BY <1>2, TrainBatchStep
<1>3. CASE EndEpoch
  BY <1>3, EndEpochStep
<1>4. CASE Validate
  BY <1>4, ValidateStep
<1>5. CASE NextEpoch
  BY <1>5, NextEpochStep
<1>6. CASE Operation
  BY <1>6, OperationStep
<1>7. CASE Interrupt
  BY <1>7, InterruptStep
<1>8. CASE Stop
  BY <1>8, StopStep
<1>9. CASE Kill
  BY <1>9, KillStep
<1>10. CASE Over \/ UNCHANGED vars
  <2>1. UNCHANGED vars
    BY <1>10 DEF Over
  <2> QED BY <2>1, Unchanged
<1> QED BY <1>1, <1>2, <1>3, <1>4, <1>5, <1>6, <1>7, <1>8, <1>9, <1>10 DEF Next

LEMMA Invariant == Spec => []IInv
<1>1. IInv /\ [Next]_vars => IInv'
  BY NextStep
<1> QED BY <1>1, InitIsGood, PTL DEF Spec

\* Numbers are contents of files.
LEMMA FilesAreContents == WeightFiles \cup StateFiles \cup LossFiles \subseteq Content
<1>1. Absent \in Content /\ Partial \in Content
  BY DEF Content
<1>2. \A w \in Seq(Batches) : w \in Seq(Nat)
  <2> SUFFICES ASSUME NEW w \in Seq(Batches) PROVE w \in Seq(Nat)
    OBVIOUS
  <2>1. \A b \in Batches : b \in Nat
    BY DEF Batches
  <2>2. Len(w) \in Nat /\ w = [i \in 1..Len(w) |-> w[i]] /\ \A i \in 1..Len(w) : w[i] \in Batches
    OBVIOUS
  <2>3. \A i \in 1..Len(w) : w[i] \in Nat
    BY <2>1, <2>2
  <2> QED BY <2>2, <2>3
<1>3. \A n \in 0..NumSteps : <<n>> \in Seq(Nat)
  BY SettingsAreLegal
<1>4. \A l \in Losses : <<l>> \in Seq(Nat)
  BY SettingsAreLegal
<1> QED BY <1>1, <1>2, <1>3, <1>4 DEF WeightFiles, StateFiles, LossFiles, Content

\* The plan consists of operations.
LEMMA RestOps ==
  ASSUME NEW full, NEW m \in Nat, Table(full, m), NEW n \in Nat, n < m, plan = Rest(full, n)
  PROVE  \A i \in DOMAIN plan : plan[i].op \in {"write", "link", "cleanup", "saved"}
<1>1. full \in Seq(Ops) /\ Len(full) = m
  BY DEF Table
<1>2. \A i \in (n + 1)..m : full[i] \in Ops
  BY <1>1, ElementOfSeq
<1>3. plan = SubSeq(full, n + 1, m)
  BY <1>1 DEF Rest
<1>4. plan \in Seq(Ops)
  BY <1>1, <1>2, <1>3, SubSeqProperties
<1>5. \A i \in DOMAIN plan : plan[i] \in Ops
  BY <1>4
<1>6. \A o \in Ops : o.op \in {"write", "link", "cleanup", "saved"}
  BY DEF Ops
<1> QED BY <1>5, <1>6

\* A run holds only what its type allows: a directory has the files of a
\* checkpoint, a window no more batches than it accumulates, and a save consists
\* of the known operations.
THEOREM TypeCorrect == Spec => []TypeOK
<1>1. IInv => TypeOK
  <2> SUFFICES ASSUME IInv PROVE TypeOK
    OBVIOUS
  <2>1. Typed /\ Planned
    BY DEF IInv
  <2>2. \A d \in DOMAIN dirs : dirs[d] \in [Files -> Content]
    BY <2>1, FilesAreContents DEF Typed, TypedDisk
  <2>3. \A i \in DOMAIN plan : plan[i].op \in {"write", "link", "cleanup", "saved"}
    <3>1. CASE plan = <<>>
      BY <3>1
    <3>2. CASE plan # <<>>
      <4>1. Live
        BY <2>1, <3>2 DEF Planned
      <4>2. epoch \in Nat /\ weights \in Seq(Int) /\ Interrupted \in Int /\ step \in Nat
        BY <2>1, Legal DEF Interrupted
      <4>3. ASSUME NEW local \in Nat, InSave(local)
            PROVE  \A i \in DOMAIN plan : plan[i].op \in {"write", "link", "cleanup", "saved"}
        <5>1. PICK n \in 0..8 : plan = Rest(SaveAt(local, weights), n)
          BY <4>3 DEF InSave
        <5>2. Table(SaveAt(local, weights), 9)
          BY <4>2, SaveAtIs
        <5> QED BY <5>1, <5>2, RestOps
      <4>4. CASE pc = "batch"
        BY <2>1, <3>2, <4>2, <4>3, <4>4 DEF Planned
      <4>5. CASE pc = "endsave"
        BY <2>1, <3>2, <4>3, <4>5 DEF Planned
      <4>6. CASE pc = "best"
        <5>1. bestLoss \in Losses /\ bestLoss \in Nat /\ IF set.best THEN InReplace ELSE InUpdate
          BY <2>1, <3>2, <4>6, SettingsAreLegal DEF Planned
        <5>2. CASE set.best
          <6>1. PICK n \in 0..11 : plan = Rest(ReplaceBest(bestLoss), n)
            BY <5>1, <5>2 DEF InReplace
          <6>2. Table(ReplaceBest(bestLoss), 12)
            BY <4>2, <5>1, ReplaceBestIs
          <6> QED BY <6>1, <6>2, RestOps
        <5>3. CASE ~set.best
          <6>1. PICK n \in 0..3 : plan = Rest(UpdateBest(bestLoss), n)
            BY <5>1, <5>3 DEF InUpdate
          <6>2. Table(UpdateBest(bestLoss), 4)
            BY <4>2, <5>1, UpdateBestIs
          <6> QED BY <6>1, <6>2, RestOps
        <5> QED BY <5>2, <5>3
      <4>7. CASE pc = "interrupt"
        <5>1. PICK n \in 0..5 : plan = Rest(SaveCheckpoint(Interrupted, weights), n)
          BY <2>1, <3>2, <4>7 DEF Planned
        <5>2. Table(SaveCheckpoint(Interrupted, weights), 6)
          BY <4>2, SaveCheckpointIs
        <5> QED BY <5>1, <5>2, RestOps
      <4> QED BY <4>1, <4>4, <4>5, <4>6, <4>7 DEF Live
    <3> QED BY <3>1, <3>2
  <2> QED BY <2>1, <2>2, <2>3 DEF Typed, TypedMemory, TypedDisk, TypeOK
<1> QED BY <1>1, Invariant, PTL

\* If the windows of the gradients divide an epoch and the interval between the
\* checkpoints in it, every batch goes into the weights once and in order, however
\* often training is stopped between saves and resumed (train_epoch,
\* _prepare_resume_skip, maybe_save_checkpoint).
THEOREM EveryBatchOnce == Fits /\ Spec => []TrainedOnce
<1> SUFFICES ASSUME Fits PROVE Spec => []TrainedOnce
  OBVIOUS
<1>1. IInv => TrainedOnce
  BY DEF IInv, Once, FirstBatches, TrainedOnce
<1> QED BY <1>1, Invariant, PTL

\* Between saves the link leads to the epoch with the lowest loss of all that
\* could have become the best, over any number of runs (maybe_update_best,
\* load_best_val_loss).
THEOREM LinkIsBest == Spec => []BestIsLowest
<1>1. IInv => BestIsLowest
  BY DEF IInv, Lowest, Moving, BestIsLowest
<1> QED BY <1>1, Invariant, PTL

\* At every moment, also inside of a save and of the deletion of the other
\* checkpoints, the link leads to a checkpoint that can be loaded; and once one
\* was completed, there is one to resume from, if epochs are saved at their end
\* only (maybe_update_best, update_best_symlink, cleanup_keep_only_best).
THEOREM NothingIsLost == Spec => []AlwaysLoadable
<1>1. IInv => AlwaysLoadable
  <2> SUFFICES ASSUME IInv PROVE AlwaysLoadable
    OBVIOUS
  <2>1. BestIsComplete
    BY DEF IInv, Linked, BestIsComplete
  <2>2. NeverWithoutCheckpoint
    BY DEF IInv, Kept, NeverWithoutCheckpoint
  <2> QED BY <2>1, <2>2 DEF AlwaysLoadable
<1> QED BY <1>1, Invariant, PTL

\* A run starts exactly where the last save that was completed left off, and
\* where the first one began if there was none (setup_trainer,
\* _load_training_state).
THEOREM ResumesThere == Spec => ResumesWhereSaved
<1>1. IInv /\ [Next]_vars => (run' # run /\ ~set.torn => epoch' * NumSteps + step' = savedAt)
  <2> SUFFICES ASSUME IInv, [Next]_vars, run' # run, ~set.torn
               PROVE  epoch' * NumSteps + step' = savedAt
    OBVIOUS
  <2>1. Start
    BY DEF Next, vars, TrainBatch, EndEpoch, Validate, NextEpoch, Operation, Interrupt, Stop, Kill, Over
  <2>2. /\ pc \in {"down", "finished"} /\ plan = <<>> /\ ~Saving /\ Typed /\ Restorable
        /\ NumSteps \in Nat /\ NumSteps > 0
        /\ StartFresh \/ StartResumed \/ StartFails
    <3>1. pc \in {"down", "finished"} /\ (StartFresh \/ StartResumed \/ StartFails)
      BY <2>1 DEF Start
    <3>2. plan = <<>> /\ Typed /\ Restorable
      BY <3>1 DEF IInv, Planned, Live
    <3> QED BY <3>1, <3>2, Legal DEF Saving
  <2>3. CASE Numbered = {}
    <3>1. savedAt = 0 /\ StartFresh
      BY <2>2, <2>3 DEF Restorable, StartResumed, StartFails
    <3>2. epoch' = 0 /\ step' = 0
      BY <3>1 DEF StartFresh
    <3> QED BY <2>2, <3>1, <3>2
  <2>4. CASE Numbered # {}
    <3>1. /\ Previous \in Epochs /\ Previous \in Nat /\ Previous \in Numbered /\ Newest(Previous)
      BY <2>2, <2>4, PreviousIs
    <3>2. IsWhole(Previous) /\ savedAt = Position(Previous)
      BY <2>2, <3>1 DEF Restorable
    <3>3. StartResumed
      BY <2>2, <2>4, <3>2 DEF StartFresh, StartFails
    <3>4. /\ epoch' = (IF MidEpoch THEN Previous ELSE Previous + 1)
          /\ step' = (IF MidEpoch THEN dirs[Previous].state[1] ELSE 0)
      BY <3>3 DEF StartResumed, ResumeStep
    <3>5. MidEpoch <=> dirs[Previous].state \in MidStates
      BY DEF MidEpoch, MidStates
    <3>6. CASE MidEpoch
      BY <3>2, <3>4, <3>5, <3>6 DEF Position
    <3>7. CASE ~MidEpoch
      <4>1. epoch' = Previous + 1 /\ step' = 0 /\ savedAt = (Previous + 1) * NumSteps
        BY <3>2, <3>4, <3>5, <3>7 DEF Position
      <4>2. (Previous + 1) * NumSteps \in Nat
        BY <2>2, <3>1
      <4> QED BY <4>1, <4>2
    <3> QED BY <3>6, <3>7
  <2> QED BY <2>3, <2>4
<1> QED BY <1>1, Invariant, PTL DEF Spec, ResumesWhereSaved
=============================================================================
