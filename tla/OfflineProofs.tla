---------------------------- MODULE OfflineProofs ----------------------------
(***************************************************************************)
(* Off-line generation loses no sample, moves only finished files, and     *)
(* reports success only for a run whose samples are all accounted for, for *)
(* any number of samples, workers and runs and any queue and semaphores,   *)
(* however often the process is killed in between.                         *)
(***************************************************************************)
EXTENDS OfflineGeneration, FiniteSetTheorems, SequenceTheorems, TLAPS

Places == {"get", "sem", "gen", "lock", "wsem", "move", "check"} \cup Ended

TypedMain ==
  /\ run \in 0..MaxRuns /\ set \in Settings
  /\ main \in {"feed", "sentinels", "gather", "done", "raised", "killed"}
  /\ todo \in Seq(Samples) /\ queue \in Seq(Samples \cup {Sentinel})
  /\ Len(queue) <= QueueSize /\ left \in 0..Cardinality(Workers)
  /\ main = "sentinels" => left > 0

TypedWorkers ==
  /\ pc \in [Workers -> Places] /\ item \in [Workers -> Samples \cup {0}]
  /\ \A w \in Workers : (item[w] = 0) <=> (pc[w] \in Ended \cup {"get"})

TypedFiles ==
  /\ out \in [Samples -> {"none", "writing", "good", "bad", "missing"}]
  /\ moving \subseteq Samples /\ cancel \in BOOLEAN
  /\ consecutive \in 0..Threshold /\ skipped \subseteq batch
  /\ batch \subseteq Samples
  /\ file \in [Samples -> {"absent", "partial", "good", "bad"}]

Typed == TypedMain /\ TypedWorkers /\ TypedFiles

\* The semaphores keep their sizes.
Bounded == Inside({"gen"}) <= Concurrency /\ Inside({"move", "check"}) <= Concurrency

\* A sample is in one place only, and only a sample of this run is.
Once ==
  /\ \A j, k \in DOMAIN todo : todo[j] = todo[k] => j = k
  /\ \A j, k \in DOMAIN queue : queue[j] = queue[k] /\ queue[j] # Sentinel => j = k
  /\ \A v, w \in Workers : item[v] = item[w] /\ item[v] # 0 => v = w
Apart ==
  \A i \in Samples :
    /\ ~(Waiting(i) /\ Queued(i)) /\ ~(Waiting(i) /\ Held(i)) /\ ~(Queued(i) /\ Held(i))
    /\ Waiting(i) \/ Queued(i) \/ Held(i) => i \in batch

\* What is not moved yet has no file; what is being moved is not saved.
Untouched(i) == file[i] = "absent" /\ i \notin moving
BeforeMove   == {"sem", "gen", "lock", "wsem"}
Fresh ==
  /\ \A i \in Samples : Waiting(i) \/ Queued(i) => Untouched(i) /\ i \notin skipped
  /\ \A w \in Workers : pc[w] \in BeforeMove => Untouched(item[w])
  /\ \A i \in moving : file[i] \in {"absent", "partial"}

\* The sentinels come last: a worker returns only once no sample is left.
SampleQueued == \E k \in DOMAIN queue : queue[k] # Sentinel
LastOut ==
  /\ \A j, k \in DOMAIN queue : j < k /\ queue[j] = Sentinel => queue[k] = Sentinel
  /\ main = "feed" => \A k \in DOMAIN queue : queue[k] # Sentinel
  /\ main = "sentinels" \/ (main = "gather" /\ ~cancel) => todo = <<>>
  /\ Running /\ (\E w \in Workers : pc[w] = "returned") => ~SampleQueued /\ main # "feed"

\* A run is cancelled by a worker that died, and by nothing else.
Stop ==
  main # "killed" =>
    /\ cancel => \E w \in Workers : pc[w] = "dead"
    /\ \A w \in Workers : pc[w] = "cancelled" => cancel

\* No sample of a run that goes on is lost.
SavedFiles == IF set.validate THEN {"good"} ELSE {"good", "bad"}
Accounted ==
  Running /\ ~cancel =>
    \A i \in batch : Waiting(i) \/ Queued(i) \/ Held(i) \/ i \in skipped
                     \/ file[i] \in SavedFiles

IInv ==
  /\ Typed /\ Bounded /\ Once /\ Apart /\ Fresh /\ MovesFinishedFiles /\ LastOut /\ Stop
  /\ Accounted /\ DoneIsAccounted

-----------------------------------------------------------------------------
(* Lemmas on the helpers.                                                  *)

\* A semaphore that no worker enters holds no more workers than before.
LEMMA NobodyEnters ==
  ASSUME NEW places, \A w \in Workers : pc'[w] \in places => pc[w] \in places
  PROVE  Inside(places)' <= Inside(places) /\ Inside(places) \in Nat /\ Inside(places)' \in Nat
<1> DEFINE before == {w \in Workers : pc[w] \in places}
           after  == {w \in Workers : pc'[w] \in places}
<1>1. IsFiniteSet(before) /\ after \subseteq before
  BY Sizes, FS_Subset
<1> HIDE DEF before, after
<1>2. Cardinality(after) <= Cardinality(before) /\ IsFiniteSet(after)
  BY <1>1, FS_Subset
<1>3. Cardinality(after) \in Nat /\ Cardinality(before) \in Nat
  BY <1>1, <1>2, FS_CardinalityType
<1> QED BY <1>2, <1>3 DEF Inside, before, after

\* One worker that enters adds one.
LEMMA OneEnters ==
  ASSUME NEW places, NEW w \in Workers, NEW loc, pc' = [pc EXCEPT ![w] = loc],
         pc \in [Workers -> Places]
  PROVE  /\ Inside(places)' <= Inside(places) + 1
         /\ Inside(places) \in Nat /\ Inside(places)' \in Nat
<1> DEFINE before == {v \in Workers : pc[v] \in places}
           after  == {v \in Workers : pc'[v] \in places}
<1>1. IsFiniteSet(before) /\ after \subseteq before \cup {w}
  BY Sizes, FS_Subset
<1> HIDE DEF before, after
<1>2. /\ IsFiniteSet(before \cup {w})
      /\ Cardinality(before \cup {w}) <= Cardinality(before) + 1
      /\ Cardinality(before) \in Nat
  <2>1. Cardinality(before) \in Nat
    BY <1>1, FS_CardinalityType
  <2>2. IsFiniteSet(before \cup {w})
    BY <1>1, FS_AddElement
  <2>3. \/ Cardinality(before \cup {w}) = Cardinality(before)
        \/ Cardinality(before \cup {w}) = Cardinality(before) + 1
    BY <1>1, FS_AddElement
  <2> QED BY <2>1, <2>2, <2>3
<1>3. Cardinality(after) <= Cardinality(before \cup {w})
  BY <1>1, <1>2, FS_Subset
<1>4. Cardinality(after) \in Nat /\ Cardinality(before \cup {w}) \in Nat
  BY <1>1, <1>2, FS_Subset, FS_CardinalityType
<1>5. Cardinality(after) <= Cardinality(before) + 1
  BY <1>2, <1>3, <1>4
<1> QED BY <1>2, <1>4, <1>5 DEF Inside, before, after

\* The samples to process are in the list once each, and all of them are.
LEMMA ListIsWhole ==
  ASSUME NEW files, NEW s \in ToProcess(files)
  PROVE  /\ s \in Seq(Samples)
         /\ \A k \in DOMAIN s : s[k] \in Missing(files)
         /\ \A j, k \in DOMAIN s : s[j] = s[k] => j = k
         /\ \A i \in Missing(files) : \E k \in DOMAIN s : s[k] = i
<1> DEFINE M == Missing(files)
           n == Cardinality(M)
<1>1. M \subseteq Samples /\ IsFiniteSet(M) /\ n \in Nat
  <2>1. IsFiniteSet(Samples)
    BY Sizes, FS_Interval DEF Samples
  <2>2. M \subseteq Samples
    BY DEF Missing
  <2> QED BY <2>1, <2>2, FS_Subset, FS_CardinalityType
<1>2. /\ s \in [1 .. n -> M]
      /\ \A j, k \in 1 .. n : j < k => s[j] < s[k]
  BY DEF ToProcess
<1>3. \A k \in 1 .. n : s[k] \in Int
  BY <1>1, <1>2 DEF Samples
<1>4. \A j, k \in 1 .. n : s[j] = s[k] => j = k
  <2> HIDE DEF M, n
  <2> SUFFICES ASSUME NEW j \in 1 .. n, NEW k \in 1 .. n, s[j] = s[k] PROVE j = k
    OBVIOUS
  <2>1. j \in Int /\ k \in Int /\ s[j] \in Int /\ s[k] \in Int
    BY <1>1, <1>3
  <2>2. ~(j < k) /\ ~(k < j)
    BY <1>2, <2>1
  <2> QED BY <2>1, <2>2
<1>5. \A i \in M : \E k \in 1 .. n : s[k] = i
  <2> HIDE DEF M, n
  <2> DEFINE C == 1 .. n
  <2>1. IsFiniteSet(C) /\ Cardinality(C) = n
    BY <1>1, FS_Interval
  <2>2. s \in Injection(C, M)
    BY <1>2, <1>4 DEF Injection, IsInjective
  <2>3. n = Cardinality(M)
    BY DEF n
  <2>4. s \in Surjection(C, M)
    <3> HIDE DEF C
    <3> QED BY <1>1, <2>1, <2>2, <2>3, FS_Injection
  <2> QED BY <2>4 DEF Surjection
<1>6. s \in Seq(Samples)
  <2> HIDE DEF M, n
  <2> QED BY <1>1, <1>2
<1> QED BY <1>2, <1>4, <1>5, <1>6

\* The initial states satisfy the invariant.
LEMMA InitInv == Init => IInv
<1> SUFFICES ASSUME Init PROVE IInv
  OBVIOUS
<1> USE DEF Init
<1>1. Typed
  <2>1. Cardinality(Workers) \in Nat
    BY Sizes, FS_CardinalityType
  <2>2. todo \in Seq(Samples) /\ queue \in Seq(Samples \cup {Sentinel}) /\ Len(queue) = 0
    OBVIOUS
  <2>3. TypedMain
    BY <2>1, <2>2, Sizes DEF TypedMain
  <2>4. TypedWorkers
    BY DEF TypedWorkers, Places, Ended
  <2>5. TypedFiles
    <3>1. consecutive \in 0..Threshold
      BY Sizes
    <3>2. cancel \in BOOLEAN
      OBVIOUS
    <3> QED BY <3>1, <3>2 DEF TypedFiles
  <2> QED BY <2>3, <2>4, <2>5 DEF Typed
<1>2. Bounded
  <2> DEFINE gen  == {w \in Workers : pc[w] \in {"gen"}}
             move == {w \in Workers : pc[w] \in {"move", "check"}}
  <2>1. gen = {} /\ move = {}
    OBVIOUS
  <2> HIDE DEF gen, move
  <2>2. Cardinality(gen) = 0 /\ Cardinality(move) = 0
    BY <2>1, FS_EmptySet
  <2> QED BY <2>2, Sizes DEF Bounded, Inside, gen, move
<1>3. DOMAIN todo = {} /\ DOMAIN queue = {}
  OBVIOUS
<1>4. \A i : ~Waiting(i) /\ ~Queued(i)
  BY <1>3 DEF Waiting, Queued
<1>5. \A i \in Samples : ~Held(i)
  BY DEF Held, Samples
<1>6. Once /\ Apart
  BY <1>3, <1>4, <1>5 DEF Once, Apart
<1>7. Fresh /\ MovesFinishedFiles
  BY <1>4 DEF Fresh, BeforeMove, MovesFinishedFiles
<1>8. LastOut /\ Stop
  BY <1>3 DEF LastOut, Stop, Running
<1>9. Accounted /\ DoneIsAccounted
  BY DEF Accounted, DoneIsAccounted, Running
<1> QED BY <1>1, <1>2, <1>6, <1>7, <1>8, <1>9 DEF IInv

-----------------------------------------------------------------------------
(* What a step keeps that leaves the samples where they are, or lets some  *)
(* of the workers' go.                                                     *)

\* The lists are as they were.
LEMMA ListsKept ==
  ASSUME UNCHANGED <<todo, queue>>, NEW i
  PROVE  (Waiting(i)' <=> Waiting(i)) /\ (Queued(i)' <=> Queued(i))
BY DEF Waiting, Queued

\* A step that only lets workers drop their samples puts none in two places.
LEMMA OnlyReleases ==
  ASSUME IInv, UNCHANGED <<todo, queue, batch>>,
         \A w \in Workers : item'[w] = item[w] \/ item'[w] = 0
  PROVE  Once' /\ Apart' /\ \A i \in Samples : Held(i)' => Held(i)
<1>1. \A i \in Samples : Held(i)' => Held(i)
  BY DEF Held, Samples
<1>2. Once'
  BY DEF IInv, Once
<1>3. Apart'
  BY <1>1, ListsKept DEF IInv, Apart
<1> QED BY <1>1, <1>2, <1>3

\* Samples that are not moved yet stay fresh when the files are not touched.
LEMMA FreshKept ==
  ASSUME IInv, UNCHANGED <<todo, queue, file, moving, skipped>>,
         \A w \in Workers : pc'[w] \in BeforeMove =>
           pc[w] \in BeforeMove /\ item'[w] = item[w]
  PROVE  Fresh'
<1>1. \A i \in Samples : (Waiting(i) \/ Queued(i))' => Untouched(i)' /\ i \notin skipped'
  BY ListsKept DEF IInv, Fresh, Untouched
<1>2. \A w \in Workers : pc'[w] \in BeforeMove => file'[item'[w]] = "absent" /\ item'[w] \notin moving'
  BY DEF IInv, Fresh, Untouched
<1> QED BY <1>1, <1>2 DEF IInv, Fresh, Untouched, BeforeMove

\* The order in the queue, when nobody puts, gets or returns.
LEMMA LastOutKept ==
  ASSUME IInv, UNCHANGED <<todo, queue, main>>, cancel => cancel',
         \A w \in Workers : pc'[w] = "returned" => pc[w] = "returned"
  PROVE  LastOut'
<1>1. LastOut
  BY DEF IInv
<1> QED BY <1>1 DEF LastOut, SampleQueued, Running

\* Who stopped the run, when nobody dies and nobody is cancelled.
LEMMA StopKept ==
  ASSUME IInv, UNCHANGED <<main, cancel>>,
         \A w \in Workers : (pc[w] = "dead" => pc'[w] = "dead")
                            /\ (pc'[w] = "cancelled" => pc[w] = "cancelled")
  PROVE  Stop'
<1>1. Stop
  BY DEF IInv
<1> QED BY <1>1 DEF Stop

\* The account of the samples, when only one of them changes its state.
LEMMA AccountKept ==
  ASSUME IInv, UNCHANGED <<todo, queue, main, set, batch>>, cancel => cancel',
         \A i \in Samples : i \in skipped \/ file[i] \in SavedFiles =>
                            i \in skipped' \/ file'[i] \in SavedFiles,
         \A i \in Samples : Held(i) /\ ~(i \in skipped' \/ file'[i] \in SavedFiles) => Held(i)'
  PROVE  Accounted'
<1>1. Accounted /\ batch \subseteq Samples /\ SavedFiles' = SavedFiles
  BY DEF IInv, Typed, TypedFiles, SavedFiles
<1> SUFFICES ASSUME Running', ~cancel', NEW i \in batch'
             PROVE  Waiting(i)' \/ Queued(i)' \/ Held(i)' \/ i \in skipped'
                    \/ file'[i] \in SavedFiles'
  BY Zenon DEF Accounted
<1>2. Running /\ ~cancel /\ i \in batch /\ i \in Samples
  BY <1>1 DEF Running
<1>3. Waiting(i) \/ Queued(i) \/ Held(i) \/ i \in skipped \/ file[i] \in SavedFiles
  BY <1>1, <1>2 DEF Accounted
<1> QED BY <1>1, <1>2, <1>3, ListsKept

-----------------------------------------------------------------------------
(* The steps of a worker.                                                  *)

\* A worker that goes on with its sample.
LEMMA GoesOnKeeps ==
  ASSUME IInv, NEW w \in Workers, NEW from \in {"sem", "gen", "lock", "move"},
         NEW to \in {"gen", "lock", "wsem", "check"}, GoesOn(w, from, to),
         to \in BeforeMove => from \in BeforeMove
  PROVE  /\ TypedMain' /\ TypedWorkers' /\ Once' /\ Apart' /\ Fresh' /\ LastOut' /\ Stop'
         /\ Accounted' /\ DoneIsAccounted'
<1>1. /\ Running /\ pc[w] = from /\ pc' = [pc EXCEPT ![w] = to]
      /\ UNCHANGED <<run, set, main, todo, queue, left, item, moving, cancel, consecutive,
                     skipped, batch, file>>
  BY DEF GoesOn, At, Goto
<1>2. /\ TypedMain /\ TypedWorkers /\ pc \in [Workers -> Places]
      /\ item \in [Workers -> Samples \cup {0}]
      /\ \A v \in Workers : (item[v] = 0) <=> (pc[v] \in Ended \cup {"get"})
  BY DEF IInv, Typed, TypedWorkers
<1>3. \A v \in Workers : pc'[v] = IF v = w THEN to ELSE pc[v]
  BY <1>1, <1>2
<1>4. TypedMain'
  BY <1>1, <1>2 DEF TypedMain
<1>5. TypedWorkers'
  <2>1. pc' \in [Workers -> Places]
    BY <1>1, <1>2 DEF Places
  <2>2. \A v \in Workers : (item'[v] = 0) <=> (pc'[v] \in Ended \cup {"get"})
    BY <1>1, <1>2, <1>3 DEF Ended
  <2> QED BY <1>1, <1>2, <2>1, <2>2 DEF TypedWorkers
<1>6. Once' /\ Apart' /\ \A i \in Samples : Held(i)' <=> Held(i)
  <2>1. Once' /\ Apart'
    BY <1>1, OnlyReleases
  <2> QED BY <1>1, <2>1 DEF Held
<1>7. Fresh'
  BY <1>1, <1>3, FreshKept
<1>8. LastOut'
  BY <1>1, <1>3, LastOutKept
<1>9. Stop'
  BY <1>1, <1>3, StopKept
<1>10. Accounted'
  BY <1>1, <1>6, AccountKept
<1>11. DoneIsAccounted'
  BY <1>1 DEF DoneIsAccounted, Running
<1> QED BY <1>4, <1>5, <1>6, <1>7, <1>8, <1>9, <1>10, <1>11

\* What the invariant says of the types, and of a worker at work: it has a
\* sample, nobody else has it, and it is neither in a list nor saved.
LEMMA TypesOf ==
  ASSUME IInv
  PROVE  /\ TypedMain /\ TypedWorkers /\ TypedFiles
         /\ pc \in [Workers -> Places] /\ item \in [Workers -> Samples \cup {0}]
         /\ file \in [Samples -> {"absent", "partial", "good", "bad"}]
         /\ out \in [Samples -> {"none", "writing", "good", "bad", "missing"}]
         /\ \A v \in Workers : (item[v] = 0) <=> (pc[v] \in Ended \cup {"get"})
BY DEF IInv, Typed, TypedWorkers, TypedFiles

LEMMA AtWork ==
  ASSUME IInv, NEW w \in Workers, pc[w] \notin Ended \cup {"get"}
  PROVE  /\ item[w] \in Samples /\ item[w] # 0 /\ Held(item[w]) /\ item[w] \in batch
         /\ ~Waiting(item[w]) /\ ~Queued(item[w])
         /\ \A v \in Workers : item[v] = item[w] => v = w
<1>1. item[w] \in Samples /\ item[w] # 0
  BY TypesOf
<1>2. Held(item[w])
  BY DEF Held
<1>3. Apart /\ Once
  BY DEF IInv
<1>4. \A v \in Workers : item[v] = item[w] => v = w
  BY <1>1, <1>3 DEF Once
<1> QED BY <1>1, <1>2, <1>3, <1>4 DEF Apart

\* A worker enters the semaphore of the requests while there is room.
LEMMA EnterGenerateKeeps ==
  ASSUME IInv, NEW w \in Workers, EnterGenerate(w)
  PROVE  IInv'
<1>1. GoesOn(w, "sem", "gen") /\ UNCHANGED out /\ Inside({"gen"}) < Concurrency
  BY DEF EnterGenerate
<1>2. /\ pc[w] = "sem" /\ pc' = [pc EXCEPT ![w] = "gen"]
      /\ UNCHANGED <<item, moving, cancel, consecutive, skipped, batch, file>>
  BY <1>1 DEF GoesOn, At, Goto
<1>3. \A v \in Workers : pc'[v] = IF v = w THEN "gen" ELSE pc[v]
  BY <1>2, TypesOf
<1>4. Typed'
  <2>1. TypedMain' /\ TypedWorkers'
    BY <1>1, GoesOnKeeps DEF BeforeMove
  <2>2. TypedFiles'
    BY <1>1, <1>2, TypesOf DEF TypedFiles
  <2> QED BY <2>1, <2>2 DEF Typed
<1>5. Bounded'
  <2>1. Inside({"gen"})' <= Concurrency
    <3>1. Inside({"gen"})' <= Inside({"gen"}) + 1 /\ Inside({"gen"}) \in Nat /\ Inside({"gen"})' \in Nat
      BY <1>2, TypesOf, OneEnters
    <3> QED BY <1>1, <3>1, Sizes
  <2>2. Inside({"move", "check"})' <= Concurrency
    <3>1. \A v \in Workers : pc'[v] \in {"move", "check"} => pc[v] \in {"move", "check"}
      BY <1>3
    <3>2. /\ Inside({"move", "check"})' <= Inside({"move", "check"})
          /\ Inside({"move", "check"}) \in Nat /\ Inside({"move", "check"})' \in Nat
      BY <3>1, NobodyEnters
    <3> QED BY <3>2, Sizes DEF IInv, Bounded
  <2> QED BY <2>1, <2>2 DEF Bounded
<1>6. MovesFinishedFiles'
  BY <1>1, <1>2, <1>3 DEF IInv, MovesFinishedFiles
<1> QED BY <1>1, <1>4, <1>5, <1>6, GoesOnKeeps DEF IInv, BeforeMove

\* Nobody enters a semaphore in a step whose workers stay in it, or leave.
LEMMA BoundedKept ==
  ASSUME IInv,
         \A v \in Workers : pc'[v] = "gen" => pc[v] = "gen",
         \A v \in Workers : pc'[v] \in {"move", "check"} => pc[v] \in {"move", "check"}
  PROVE  Bounded'
<1>1. \A v \in Workers : pc'[v] \in {"gen"} => pc[v] \in {"gen"}
  OBVIOUS
<1>2. /\ Inside({"gen"})' <= Inside({"gen"})
      /\ Inside({"gen"}) \in Nat /\ Inside({"gen"})' \in Nat
  BY <1>1, NobodyEnters
<1>3. /\ Inside({"move", "check"})' <= Inside({"move", "check"})
      /\ Inside({"move", "check"}) \in Nat /\ Inside({"move", "check"})' \in Nat
  BY NobodyEnters
<1>4. Inside({"gen"})' <= Concurrency
  BY <1>2, Sizes DEF IInv, Bounded
<1>5. Inside({"move", "check"})' <= Concurrency
  BY <1>3, Sizes DEF IInv, Bounded
<1> QED BY <1>4, <1>5 DEF Bounded

\* A worker that goes on, but for the first semaphore.
LEMMA GoesOnIsSafe ==
  ASSUME IInv, NEW w \in Workers, NEW from \in {"gen", "lock", "move"},
         NEW to \in {"lock", "wsem", "check"}, GoesOn(w, from, to),
         to \in BeforeMove => from \in BeforeMove, to = "check" => from = "move",
         out' \in [Samples -> {"none", "writing", "good", "bad", "missing"}],
         MovesFinishedFiles'
  PROVE  IInv'
<1>1. /\ pc[w] = from /\ pc' = [pc EXCEPT ![w] = to]
      /\ UNCHANGED <<moving, cancel, consecutive, skipped, batch, file>>
  BY DEF GoesOn, At, Goto
<1>2. \A v \in Workers : pc'[v] = IF v = w THEN to ELSE pc[v]
  BY <1>1, TypesOf
<1>3. Bounded'
  BY <1>1, <1>2, BoundedKept
<1>4. TypedFiles'
  BY <1>1, TypesOf DEF TypedFiles
<1> QED BY <1>3, <1>4, GoesOnKeeps DEF IInv, Typed

\* The server has answered: it is writing the file, and the worker waits.
LEMMA GeneratedKeeps ==
  ASSUME IInv, NEW w \in Workers, Generated(w)
  PROVE  IInv'
<1>1. GoesOn(w, "gen", "lock") /\ out' = [out EXCEPT ![item[w]] = "writing"]
  BY DEF Generated
<1>2. pc[w] = "gen" /\ pc' = [pc EXCEPT ![w] = "lock"] /\ UNCHANGED item
  BY <1>1 DEF GoesOn, At, Goto
<1>3. item[w] \in Samples /\ \A v \in Workers : item[v] = item[w] => v = w
  BY <1>2, AtWork DEF Ended
<1>4. MovesFinishedFiles'
  <2> SUFFICES ASSUME NEW v \in Workers, pc'[v] \in {"wsem", "move"}
               PROVE  out'[item'[v]] # "writing"
    BY DEF MovesFinishedFiles
  <2>1. v # w /\ pc[v] = pc'[v]
    BY <1>2, TypesOf
  <2>2. item[v] # item[w] /\ item[v] \in Samples
    BY <1>3, <2>1, AtWork DEF Ended
  <2>3. out[item[v]] # "writing"
    BY <2>1 DEF IInv, MovesFinishedFiles
  <2> QED BY <1>1, <1>2, <2>2, <2>3, TypesOf
<1>5. out' \in [Samples -> {"none", "writing", "good", "bad", "missing"}]
  BY <1>1, TypesOf
<1> QED BY <1>1, <1>4, <1>5, GoesOnIsSafe DEF BeforeMove

\* The lock was released: the server is through with the file.
LEMMA LockTakenKeeps ==
  ASSUME IInv, NEW w \in Workers, LockTaken(w)
  PROVE  IInv'
<1>1. GoesOn(w, "lock", "wsem") /\ UNCHANGED out /\ out[item[w]] # "writing"
  BY DEF LockTaken
<1>2. pc[w] = "lock" /\ pc' = [pc EXCEPT ![w] = "wsem"] /\ UNCHANGED item
  BY <1>1 DEF GoesOn, At, Goto
<1>3. MovesFinishedFiles'
  BY <1>1, <1>2, TypesOf DEF IInv, MovesFinishedFiles
<1> QED BY <1>1, <1>3, TypesOf, GoesOnIsSafe DEF BeforeMove

\* The file has arrived, and is checked.
LEMMA ToCheckKeeps ==
  ASSUME IInv, NEW w \in Workers, ToCheck(w)
  PROVE  IInv'
<1>1. GoesOn(w, "move", "check") /\ UNCHANGED out
  BY DEF ToCheck
<1>2. pc' = [pc EXCEPT ![w] = "check"] /\ UNCHANGED item
  BY <1>1 DEF GoesOn, At, Goto
<1>3. MovesFinishedFiles'
  BY <1>1, <1>2, TypesOf DEF IInv, MovesFinishedFiles
<1> QED BY <1>1, <1>3, TypesOf, GoesOnIsSafe DEF BeforeMove

\* The worker hands its file to a thread: a copy begins with a partial file.
LEMMA StartMoveKeeps ==
  ASSUME IInv, NEW w \in Workers, StartMove(w)
  PROVE  IInv'
<1>1. /\ Running /\ pc[w] = "wsem" /\ Inside({"move", "check"}) < Concurrency
      /\ pc' = [pc EXCEPT ![w] = "move"] /\ moving' = moving \cup {item[w]}
      /\ file' = CopyBegun(item[w])
      /\ UNCHANGED <<run, set, main, todo, queue, left, item, out, cancel, consecutive,
                     skipped, batch>>
  BY DEF StartMove, At, Goto
<1>2. \A v \in Workers : pc'[v] = IF v = w THEN "move" ELSE pc[v]
  BY <1>1, TypesOf
<1>3. /\ item[w] \in Samples /\ Held(item[w]) /\ ~Waiting(item[w]) /\ ~Queued(item[w])
      /\ \A v \in Workers : item[v] = item[w] => v = w
  BY <1>1, AtWork DEF Ended
<1>4. file[item[w]] = "absent"
  BY <1>1 DEF IInv, Fresh, BeforeMove, Untouched
<1>5. /\ file' \in [Samples -> {"absent", "partial", "good", "bad"}]
      /\ \A i \in Samples : i # item[w] => file'[i] = file[i]
      /\ file'[item[w]] \in {"absent", "partial"}
  BY <1>1, <1>3, <1>4, TypesOf DEF CopyBegun
<1>6. Typed'
  <2>1. TypedMain'
    BY <1>1, TypesOf DEF TypedMain
  <2>2. TypedWorkers'
    <3>1. pc' \in [Workers -> Places]
      BY <1>1, TypesOf DEF Places
    <3>2. \A v \in Workers : (item'[v] = 0) <=> (pc'[v] \in Ended \cup {"get"})
      BY <1>1, <1>2, TypesOf DEF Ended
    <3> QED BY <1>1, <3>1, <3>2, TypesOf DEF TypedWorkers
  <2>3. TypedFiles'
    BY <1>1, <1>3, <1>5, TypesOf DEF TypedFiles
  <2> QED BY <2>1, <2>2, <2>3 DEF Typed
<1>7. Bounded'
  <2>1. Inside({"move", "check"})' <= Concurrency
    <3>1. /\ Inside({"move", "check"})' <= Inside({"move", "check"}) + 1
          /\ Inside({"move", "check"}) \in Nat /\ Inside({"move", "check"})' \in Nat
      BY <1>1, TypesOf, OneEnters
    <3> QED BY <1>1, <3>1, Sizes
  <2>2. Inside({"gen"})' <= Concurrency
    <3>1. \A v \in Workers : pc'[v] \in {"gen"} => pc[v] \in {"gen"}
      BY <1>2
    <3>2. /\ Inside({"gen"})' <= Inside({"gen"})
          /\ Inside({"gen"}) \in Nat /\ Inside({"gen"})' \in Nat
      BY <3>1, NobodyEnters
    <3> QED BY <3>2, Sizes DEF IInv, Bounded
  <2> QED BY <2>1, <2>2 DEF Bounded
<1>8. Once' /\ Apart'
  BY <1>1, OnlyReleases
<1>9. Fresh'
  <2>1. \A i \in Samples : (Waiting(i) \/ Queued(i))' => Untouched(i)' /\ i \notin skipped'
    <3> SUFFICES ASSUME NEW i \in Samples, (Waiting(i) \/ Queued(i))'
                 PROVE  file'[i] = "absent" /\ i \notin moving' /\ i \notin skipped'
      BY DEF Untouched
    <3>1. Waiting(i) \/ Queued(i)
      BY <1>1, ListsKept
    <3>2. i # item[w] /\ file[i] = "absent" /\ i \notin moving /\ i \notin skipped
      BY <1>3, <3>1 DEF IInv, Fresh, Untouched
    <3> QED BY <1>1, <1>5, <3>2
  <2>2. \A v \in Workers : pc'[v] \in BeforeMove => file'[item'[v]] = "absent" /\ item'[v] \notin moving'
    <3> SUFFICES ASSUME NEW v \in Workers, pc'[v] \in BeforeMove
                 PROVE  file'[item[v]] = "absent" /\ item[v] \notin moving'
      BY <1>1
    <3>1. v # w /\ pc[v] \in BeforeMove
      BY <1>2 DEF BeforeMove
    <3>2. item[v] \in Samples /\ item[v] # item[w]
      BY <1>3, <3>1, AtWork DEF Ended, BeforeMove
    <3>3. file[item[v]] = "absent" /\ item[v] \notin moving
      BY <3>1 DEF IInv, Fresh, Untouched
    <3> QED BY <1>1, <1>5, <3>2, <3>3
  <2>3. \A i \in moving' : file'[i] \in {"absent", "partial"}
    BY <1>1, <1>5, TypesOf DEF IInv, Fresh, TypedFiles
  <2> QED BY <2>1, <2>2, <2>3 DEF Fresh, Untouched, BeforeMove
<1>10. MovesFinishedFiles'
  BY <1>1, <1>2 DEF IInv, MovesFinishedFiles
<1>11. LastOut' /\ Stop'
  BY <1>1, <1>2, LastOutKept, StopKept
<1>12. Accounted'
  <2>1. \A i \in Samples : Held(i) => Held(i)'
    BY <1>1 DEF Held
  <2>2. file[item[w]] \notin SavedFiles
    BY <1>4 DEF SavedFiles
  <2> QED BY <1>1, <1>5, <2>1, <2>2, AccountKept
<1>13. DoneIsAccounted'
  BY <1>1 DEF DoneIsAccounted, Running
<1> QED BY <1>6, <1>7, <1>8, <1>9, <1>10, <1>11, <1>12, <1>13 DEF IInv

\* A worker that lets its sample go: what of the invariant does not depend on
\* how the sample ended.
LEMMA LetGo ==
  ASSUME IInv, NEW w \in Workers, NEW to \in {"get", "dead"}, At(w, pc[w]),
         pc[w] \notin Ended, pc' = [pc EXCEPT ![w] = to], item' = [item EXCEPT ![w] = 0],
         UNCHANGED <<run, set, main, todo, queue, left, out, moving, batch, file>>
  PROVE  /\ TypedMain' /\ TypedWorkers' /\ Bounded' /\ Once' /\ Apart' /\ MovesFinishedFiles'
         /\ DoneIsAccounted'
         /\ \A v \in Workers : pc'[v] = IF v = w THEN to ELSE pc[v]
         /\ \A v \in Workers : item'[v] = IF v = w THEN 0 ELSE item[v]
<1>1. /\ \A v \in Workers : pc'[v] = IF v = w THEN to ELSE pc[v]
      /\ \A v \in Workers : item'[v] = IF v = w THEN 0 ELSE item[v]
  BY TypesOf
<1>2. TypedMain'
  BY TypesOf DEF TypedMain
<1>3. TypedWorkers'
  <2>1. pc' \in [Workers -> Places] /\ item' \in [Workers -> Samples \cup {0}]
    BY TypesOf DEF Places, Ended
  <2>2. \A v \in Workers : (item'[v] = 0) <=> (pc'[v] \in Ended \cup {"get"})
    BY <1>1, TypesOf DEF Ended
  <2> QED BY <2>1, <2>2 DEF TypedWorkers
<1>4. Bounded'
  BY <1>1, BoundedKept
<1>5. Once' /\ Apart'
  BY <1>1, OnlyReleases
<1>6. MovesFinishedFiles'
  BY <1>1 DEF IInv, MovesFinishedFiles
<1>7. DoneIsAccounted'
  BY DEF DoneIsAccounted, Running, At
<1> QED BY <1>1, <1>2, <1>3, <1>4, <1>5, <1>6, <1>7

\* A saved sample is accounted for by its file.
LEMMA SuccessKeeps ==
  ASSUME IInv, NEW w \in Workers, Success(w)
  PROVE  IInv'
<1>1. /\ IsSaved(w) /\ pc' = [pc EXCEPT ![w] = "get"] /\ item' = [item EXCEPT ![w] = 0]
      /\ consecutive' = IF set.fail THEN consecutive ELSE 0
      /\ UNCHANGED <<run, set, main, todo, queue, left, out, moving, cancel, skipped, batch, file>>
  BY DEF Success, Goto
<1>2. /\ Running /\ pc[w] \in {"move", "check"}
      /\ file[item[w]] \in SavedFiles
  BY <1>1 DEF IsSaved, Arrived, At, SavedFiles
<1>3. /\ TypedMain' /\ TypedWorkers' /\ Bounded' /\ Once' /\ Apart' /\ MovesFinishedFiles'
      /\ DoneIsAccounted'
      /\ \A v \in Workers : pc'[v] = IF v = w THEN "get" ELSE pc[v]
      /\ \A v \in Workers : item'[v] = IF v = w THEN 0 ELSE item[v]
  BY <1>1, <1>2, LetGo DEF At, Ended
<1>4. TypedFiles'
  <2>1. consecutive' \in 0..Threshold
    BY <1>1, TypesOf, Sizes DEF TypedFiles
  <2> QED BY <1>1, <2>1, TypesOf DEF TypedFiles
<1>5. Fresh'
  BY <1>1, <1>3, FreshKept DEF BeforeMove
<1>6. LastOut' /\ Stop'
  BY <1>1, <1>2, <1>3, LastOutKept, StopKept
<1>7. Accounted'
  <2>1. \A i \in Samples : Held(i) /\ file[i] \notin SavedFiles => Held(i)'
    <3> SUFFICES ASSUME NEW i \in Samples, NEW v \in Workers, item[v] = i, file[i] \notin SavedFiles
                 PROVE  Held(i)'
      BY DEF Held
    <3> QED BY <1>2, <1>3 DEF Held
  <2> QED BY <1>1, <2>1, AccountKept
<1> QED BY <1>3, <1>4, <1>5, <1>6, <1>7 DEF IInv, Typed

\* A sample given up is listed; at the threshold the worker dies and the event
\* is set.
LEMMA SkipKeeps ==
  ASSUME IInv, NEW w \in Workers, Skip(w)
  PROVE  IInv'
<1>1. PICK to \in {"get", "dead"} :
        /\ pc' = [pc EXCEPT ![w] = to] /\ item' = [item EXCEPT ![w] = 0]
        /\ cancel' = (cancel \/ to = "dead")
        /\ skipped' = skipped \cup {item[w]}
        /\ consecutive' = IF consecutive < Threshold THEN consecutive + 1 ELSE Threshold
        /\ UNCHANGED <<run, set, main, todo, queue, left, out, moving, batch, file>>
  BY TypesOf DEF Skip, Goto, Listed, TypedFiles
<1>2. Running /\ pc[w] \in {"gen", "lock", "move", "check"}
  BY DEF Skip, MayFail, At
<1>3. /\ TypedMain' /\ TypedWorkers' /\ Bounded' /\ Once' /\ Apart' /\ MovesFinishedFiles'
      /\ DoneIsAccounted'
      /\ \A v \in Workers : pc'[v] = IF v = w THEN to ELSE pc[v]
      /\ \A v \in Workers : item'[v] = IF v = w THEN 0 ELSE item[v]
  BY <1>1, <1>2, LetGo DEF At, Ended
<1>4. item[w] \in Samples /\ item[w] \in batch /\ ~Waiting(item[w]) /\ ~Queued(item[w])
  BY <1>2, AtWork DEF Ended
<1>5. TypedFiles'
  <2>1. consecutive' \in 0..Threshold
    BY <1>1, TypesOf, Sizes DEF TypedFiles
  <2>2. cancel' \in BOOLEAN
    BY <1>1
  <2> QED BY <1>1, <1>4, <2>1, <2>2, TypesOf DEF TypedFiles
<1>6. Fresh'
  <2>1. \A i \in Samples : (Waiting(i) \/ Queued(i))' => Untouched(i)' /\ i \notin skipped'
    BY <1>1, <1>4, ListsKept DEF IInv, Fresh, Untouched
  <2>2. \A v \in Workers : pc'[v] \in BeforeMove => file'[item'[v]] = "absent" /\ item'[v] \notin moving'
    BY <1>1, <1>3 DEF IInv, Fresh, Untouched, BeforeMove
  <2>3. \A i \in moving' : file'[i] \in {"absent", "partial"}
    BY <1>1 DEF IInv, Fresh
  <2> QED BY <2>1, <2>2, <2>3 DEF Fresh, Untouched, BeforeMove
<1>7. LastOut'
  BY <1>1, <1>3, LastOutKept
<1>8. Stop'
  BY <1>1, <1>2, <1>3 DEF IInv, Stop, Running
<1>9. Accounted'
  <2>1. \A i \in Samples : Held(i) /\ i \notin skipped' => Held(i)'
    <3> SUFFICES ASSUME NEW i \in Samples, NEW v \in Workers, item[v] = i, i \notin skipped'
                 PROVE  Held(i)'
      BY DEF Held
    <3> QED BY <1>1, <1>3 DEF Held
  <2> QED BY <1>1, <2>1, AccountKept
<1> QED BY <1>3, <1>5, <1>6, <1>7, <1>8, <1>9 DEF IInv, Typed

\* The process is gone, by itself or from outside.
LEMMA DieKeeps ==
  ASSUME IInv, Die
  PROVE  IInv'
<1>1. /\ main' = "killed" /\ moving' = {} /\ item' = [v \in Workers |-> 0]
      /\ pc' = [v \in Workers |-> "cancelled"]
      /\ UNCHANGED <<run, set, todo, queue, left, out, cancel, consecutive, skipped, batch, file>>
  BY DEF Die
<1>2. Typed'
  <2>1. TypedMain'
    BY <1>1, TypesOf DEF TypedMain
  <2>2. TypedWorkers'
    BY <1>1 DEF TypedWorkers, Places, Ended
  <2>3. TypedFiles'
    BY <1>1, TypesOf DEF TypedFiles
  <2> QED BY <2>1, <2>2, <2>3 DEF Typed
<1>3. Bounded'
  BY <1>1, BoundedKept
<1>4. Once' /\ Apart'
  BY <1>1, OnlyReleases
<1>5. Fresh'
  <2>1. \A i \in Samples : (Waiting(i) \/ Queued(i))' => Untouched(i)' /\ i \notin skipped'
    BY <1>1, ListsKept DEF IInv, Fresh, Untouched
  <2> QED BY <1>1, <2>1 DEF Fresh, BeforeMove
<1>6. MovesFinishedFiles'
  BY <1>1 DEF MovesFinishedFiles
<1>7. LastOut'
  BY <1>1 DEF IInv, LastOut, Running
<1>8. Stop' /\ Accounted' /\ DoneIsAccounted'
  BY <1>1 DEF Stop, Accounted, Running, DoneIsAccounted
<1> QED BY <1>2, <1>3, <1>4, <1>5, <1>6, <1>7, <1>8 DEF IInv

\* A worker takes the head of the queue: a sample, or the sentinel that ends it.
LEMMA GetKeeps ==
  ASSUME IInv, NEW w \in Workers, Get(w)
  PROVE  IInv'
<1>1. /\ Running /\ pc[w] = "get" /\ queue # <<>> /\ queue' = Tail(queue)
      /\ UNCHANGED <<run, set, main, todo, left, out, moving, cancel, consecutive, skipped,
                     batch, file>>
  BY DEF Get, At
<1>2. /\ queue \in Seq(Samples \cup {Sentinel}) /\ Len(queue) \in Nat /\ Len(queue) <= QueueSize
      /\ todo \in Seq(Samples) /\ item[w] = 0
  BY <1>1, TypesOf DEF TypedMain
<1>3. /\ queue' \in Seq(Samples \cup {Sentinel}) /\ Len(queue') = Len(queue) - 1
      /\ \A k \in 1 .. Len(queue') : k + 1 \in 1 .. Len(queue) /\ queue'[k] = queue[k + 1]
      /\ Len(queue) > 0 /\ Head(queue) = queue[1] /\ 1 \in 1 .. Len(queue)
      /\ queue[1] \in Samples \cup {Sentinel}
  BY <1>1, <1>2
<1>4. DOMAIN queue = 1 .. Len(queue) /\ DOMAIN queue' = 1 .. Len(queue')
  BY <1>2, <1>3
<1>20. PICK h \in Samples \cup {Sentinel} : h = queue[1]
  BY <1>3
<1> USE <1>20
<1>5. \A i : Queued(i)' => Queued(i)
  BY <1>3, <1>4 DEF Queued
<1>6. \A i : Waiting(i)' <=> Waiting(i)
  BY <1>1 DEF Waiting
<1>7. \A i : Queued(i) => Queued(i)' \/ i = h
  <2> SUFFICES ASSUME NEW i, NEW k \in 1 .. Len(queue), queue[k] = i, i # h PROVE Queued(i)'
    BY <1>4 DEF Queued
  <2>1. k - 1 \in 1 .. Len(queue') /\ k - 1 + 1 = k
    BY <1>2, <1>3
  <2>2. queue'[k - 1] = i
    BY <1>3, <2>1
  <2> QED BY <1>4, <2>1, <2>2 DEF Queued
<1>8. h # Sentinel => ~Queued(h)'
  <2> SUFFICES ASSUME h # Sentinel, NEW k \in 1 .. Len(queue'), queue'[k] = h PROVE FALSE
    BY <1>4 DEF Queued
  <2>1. k + 1 \in 1 .. Len(queue) /\ queue[k + 1] = h /\ k + 1 # 1
    BY <1>2, <1>3
  <2> QED BY <1>3, <1>4, <2>1 DEF IInv, Once
<1>9. Queued(h)
  BY <1>3, <1>4 DEF Queued
<1>10. /\ \A j, k \in DOMAIN queue' : queue'[j] = queue'[k] /\ queue'[j] # Sentinel => j = k
       /\ \A j, k \in DOMAIN queue' : j < k /\ queue'[j] = Sentinel => queue'[k] = Sentinel
  <2> SUFFICES ASSUME NEW j \in 1 .. Len(queue'), NEW k \in 1 .. Len(queue')
               PROVE  /\ queue'[j] = queue'[k] /\ queue'[j] # Sentinel => j = k
                      /\ j < k /\ queue'[j] = Sentinel => queue'[k] = Sentinel
    BY <1>4
  <2>1. /\ j + 1 \in DOMAIN queue /\ queue'[j] = queue[j + 1]
        /\ k + 1 \in DOMAIN queue /\ queue'[k] = queue[k + 1]
    BY <1>3, <1>4
  <2>2. queue[j + 1] = queue[k + 1] /\ queue[j + 1] # Sentinel => j + 1 = k + 1
    BY <2>1 DEF IInv, Once
  <2>3. j + 1 < k + 1 /\ queue[j + 1] = Sentinel => queue[k + 1] = Sentinel
    BY <2>1 DEF IInv, LastOut
  <2> QED BY <2>1, <2>2, <2>3
<1>11. /\ TypedMain' /\ TypedFiles'
  BY <1>1, <1>2, <1>3, Sizes, TypesOf DEF TypedMain, TypedFiles
<1>12. main = "feed" => \A k \in DOMAIN queue' : queue'[k] # Sentinel
  BY <1>3, <1>4 DEF IInv, LastOut
<1>13. SampleQueued' => SampleQueued
  BY <1>3, <1>4 DEF SampleQueued
<1>14. DoneIsAccounted'
  BY <1>1 DEF DoneIsAccounted, Running
<1>15. CASE h = Sentinel
  <2>1. pc' = [pc EXCEPT ![w] = "returned"] /\ UNCHANGED item
    BY <1>3, <1>15 DEF Get, Goto
  <2>2. \A v \in Workers : pc'[v] = IF v = w THEN "returned" ELSE pc[v]
    BY <2>1, TypesOf
  <2>3. \A i : Held(i)' <=> Held(i)
    BY <2>1 DEF Held
  <2>4. TypedWorkers'
    <3>1. pc' \in [Workers -> Places]
      BY <2>1, TypesOf DEF Places, Ended
    <3>2. \A v \in Workers : (item'[v] = 0) <=> (pc'[v] \in Ended \cup {"get"})
      BY <1>1, <2>1, <2>2, TypesOf DEF Ended
    <3> QED BY <2>1, <3>1, <3>2, TypesOf DEF TypedWorkers
  <2>5. Bounded'
    BY <2>2, BoundedKept
  <2>6. Once' /\ Apart'
    BY <1>1, <1>5, <1>6, <1>10, <2>1, <2>3 DEF IInv, Once, Apart
  <2>7. Fresh'
    <3>1. \A i \in Samples : (Waiting(i) \/ Queued(i))' => Untouched(i)' /\ i \notin skipped'
      BY <1>1, <1>5, <1>6 DEF IInv, Fresh, Untouched
    <3>2. \A v \in Workers : pc'[v] \in BeforeMove => file'[item'[v]] = "absent" /\ item'[v] \notin moving'
      BY <1>1, <2>1, <2>2 DEF IInv, Fresh, Untouched, BeforeMove
    <3> QED BY <1>1, <3>1, <3>2 DEF IInv, Fresh, Untouched, BeforeMove
  <2>8. MovesFinishedFiles'
    BY <1>1, <2>1, <2>2 DEF IInv, MovesFinishedFiles
  <2>9. LastOut'
    <3>1. ~SampleQueued
      <4> SUFFICES ASSUME NEW k \in DOMAIN queue PROVE queue[k] = Sentinel
        BY DEF SampleQueued
      <4>1. k = 1 \/ 1 < k
        BY <1>4
      <4> QED BY <1>3, <1>4, <1>15, <4>1 DEF IInv, LastOut
    <3>2. main # "feed"
      BY <1>3, <1>4, <1>15 DEF IInv, LastOut
    <3>3. main' = "sentinels" \/ (main' = "gather" /\ ~cancel') => todo' = <<>>
      BY <1>1 DEF IInv, LastOut
    <3> QED BY <1>1, <1>10, <1>13, <3>1, <3>2, <3>3 DEF LastOut
  <2>10. Stop'
    BY <1>1, <2>2, StopKept
  <2>11. Accounted'
    <3>1. \A i \in Samples : i # Sentinel
      BY DEF Samples, Sentinel
    <3>2. batch \subseteq Samples
      BY TypesOf DEF TypedFiles
    <3> SUFFICES ASSUME Running, ~cancel, NEW i \in batch
                 PROVE  Waiting(i)' \/ Queued(i)' \/ Held(i)' \/ i \in skipped \/ file[i] \in SavedFiles
      BY <1>1 DEF Accounted, Running, SavedFiles
    <3>3. Waiting(i) \/ Queued(i) \/ Held(i) \/ i \in skipped \/ file[i] \in SavedFiles
      BY DEF IInv, Accounted
    <3> QED BY <1>6, <1>7, <1>15, <2>3, <3>1, <3>2, <3>3
  <2> QED BY <1>11, <1>14, <2>4, <2>5, <2>6, <2>7, <2>8, <2>9, <2>10, <2>11 DEF IInv, Typed
<1>16. LastOut' \/ h = Sentinel
  <2> SUFFICES ASSUME h # Sentinel PROVE LastOut'
    OBVIOUS
  <2>1. \A v \in Workers : pc'[v] = "returned" => pc[v] = "returned"
    BY <1>1, <1>3, TypesOf DEF Get, Goto
  <2> QED BY <1>1, <1>10, <1>12, <1>13, <2>1 DEF IInv, LastOut, Running
<1>17. CASE h # Sentinel /\ cancel
  <2>1. UNCHANGED <<pc, item>>
    BY <1>3, <1>17 DEF Get
  <2>2. \A i : Held(i)' <=> Held(i)
    BY <2>1 DEF Held
  <2>3. TypedWorkers' /\ Bounded' /\ MovesFinishedFiles' /\ Stop'
    BY <1>1, <2>1, TypesOf, BoundedKept, StopKept DEF IInv, TypedWorkers, MovesFinishedFiles
  <2>4. Once' /\ Apart'
    BY <1>1, <1>5, <1>6, <1>10, <2>1, <2>2 DEF IInv, Once, Apart
  <2>5. Fresh'
    <3>1. \A i \in Samples : (Waiting(i) \/ Queued(i))' => Untouched(i)' /\ i \notin skipped'
      BY <1>1, <1>5, <1>6 DEF IInv, Fresh, Untouched
    <3> QED BY <1>1, <2>1, <3>1 DEF IInv, Fresh, Untouched, BeforeMove
  <2>6. Accounted'
    BY <1>1, <1>17 DEF Accounted
  <2> QED BY <1>11, <1>14, <1>16, <1>17, <2>3, <2>4, <2>5, <2>6 DEF IInv, Typed
<1>18. CASE h # Sentinel /\ ~cancel
  <2>1. pc' = [pc EXCEPT ![w] = "sem"] /\ item' = [item EXCEPT ![w] = h]
    BY <1>3, <1>18 DEF Get, Goto
  <2>2. /\ \A v \in Workers : pc'[v] = IF v = w THEN "sem" ELSE pc[v]
        /\ \A v \in Workers : item'[v] = IF v = w THEN h ELSE item[v]
    BY <2>1, TypesOf
  <2>3. h \in Samples /\ h # 0
    BY <1>3, <1>18 DEF Samples, Sentinel
  <2>4. h \in batch /\ ~Waiting(h) /\ ~Held(h) /\ Untouched(h)
    BY <1>9, <2>3 DEF IInv, Apart, Fresh
  <2>5. \A i \in Samples : (Held(i)' => Held(i) \/ i = h) /\ (Held(i) => Held(i)')
    BY <1>2, <2>2 DEF Held, Samples
  <2>6. TypedWorkers'
    <3>1. pc' \in [Workers -> Places] /\ item' \in [Workers -> Samples \cup {0}]
      BY <2>1, <2>3, TypesOf DEF Places
    <3>2. \A v \in Workers : (item'[v] = 0) <=> (pc'[v] \in Ended \cup {"get"})
      BY <2>2, <2>3, TypesOf DEF Ended
    <3> QED BY <3>1, <3>2 DEF TypedWorkers
  <2>7. Bounded' /\ MovesFinishedFiles' /\ Stop'
    <3>1. MovesFinishedFiles'
      BY <1>1, <2>2 DEF IInv, MovesFinishedFiles
    <3>2. Stop'
      BY <1>1, <2>2, StopKept
    <3> QED BY <2>2, <3>1, <3>2, BoundedKept
  <2>8. Once'
    <3>1. \A v \in Workers : item[v] # h
      BY <2>4 DEF Held
    <3>2. \A u, v \in Workers : item'[u] = item'[v] /\ item'[u] # 0 => u = v
      BY <2>2, <3>1 DEF IInv, Once
    <3> QED BY <1>1, <1>10, <3>2 DEF IInv, Once
  <2>9. Apart'
    <3> SUFFICES ASSUME NEW i \in Samples
                 PROVE  /\ ~(Waiting(i)' /\ Queued(i)') /\ ~(Waiting(i)' /\ Held(i)')
                        /\ ~(Queued(i)' /\ Held(i)')
                        /\ Waiting(i)' \/ Queued(i)' \/ Held(i)' => i \in batch
      BY <1>1 DEF Apart
    <3> QED BY <1>5, <1>6, <1>8, <1>18, <2>4, <2>5 DEF IInv, Apart
  <2>10. Fresh'
    <3>1. \A i \in Samples : (Waiting(i) \/ Queued(i))' => Untouched(i)' /\ i \notin skipped'
      BY <1>1, <1>5, <1>6 DEF IInv, Fresh, Untouched
    <3>2. \A v \in Workers : pc'[v] \in BeforeMove => file'[item'[v]] = "absent" /\ item'[v] \notin moving'
      BY <1>1, <2>2, <2>4 DEF IInv, Fresh, Untouched, BeforeMove
    <3> QED BY <1>1, <3>1, <3>2 DEF IInv, Fresh, Untouched, BeforeMove
  <2>11. Accounted'
    <3>1. batch \subseteq Samples /\ Held(h)'
      BY <2>2, TypesOf DEF TypedFiles, Held
    <3> SUFFICES ASSUME Running, ~cancel, NEW i \in batch
                 PROVE  Waiting(i)' \/ Queued(i)' \/ Held(i)' \/ i \in skipped \/ file[i] \in SavedFiles
      BY <1>1 DEF Accounted, Running, SavedFiles
    <3>2. Waiting(i) \/ Queued(i) \/ Held(i) \/ i \in skipped \/ file[i] \in SavedFiles
      BY DEF IInv, Accounted
    <3> QED BY <1>6, <1>7, <2>5, <3>1, <3>2
  <2> QED BY <1>11, <1>14, <1>16, <1>18, <2>6, <2>7, <2>8, <2>9, <2>10, <2>11 DEF IInv, Typed
<1> QED BY <1>15, <1>17, <1>18

-----------------------------------------------------------------------------
(* The steps of the threads and of the server.                             *)

\* A move that ends leaves a whole file, or what was there.
LEMMA MoveEndsKeeps ==
  ASSUME IInv, NEW m \in Samples, MoveEnds(m)
  PROVE  IInv'
<1>1. /\ m \in moving /\ moving' = moving \ {m}
      /\ file' \in [Samples -> {"absent", "partial", "good", "bad"}]
      /\ \A i \in Samples : i # m => file'[i] = file[i]
      /\ UNCHANGED <<run, set, main, todo, queue, left, pc, item, out, cancel, consecutive,
                     skipped, batch>>
  BY TypesOf DEF MoveEnds
<1>2. file[m] \in {"absent", "partial"} /\ ~Waiting(m) /\ ~Queued(m)
  BY <1>1 DEF IInv, Fresh, Untouched
<1>3. Typed'
  BY <1>1, TypesOf DEF Typed, TypedMain, TypedWorkers, TypedFiles
<1>4. Bounded' /\ MovesFinishedFiles' /\ LastOut' /\ Stop'
  BY <1>1, BoundedKept, LastOutKept, StopKept DEF IInv, MovesFinishedFiles
<1>5. Once' /\ Apart'
  BY <1>1, OnlyReleases
<1>6. Fresh'
  <2>1. \A i \in Samples : (Waiting(i) \/ Queued(i))' => Untouched(i)' /\ i \notin skipped'
    <3> SUFFICES ASSUME NEW i \in Samples, (Waiting(i) \/ Queued(i))'
                 PROVE  file'[i] = "absent" /\ i \notin moving' /\ i \notin skipped'
      BY DEF Untouched
    <3>1. Waiting(i) \/ Queued(i)
      BY <1>1, ListsKept
    <3> QED BY <1>1, <1>2, <3>1 DEF IInv, Fresh, Untouched
  <2>2. \A v \in Workers : pc'[v] \in BeforeMove => file'[item'[v]] = "absent" /\ item'[v] \notin moving'
    <3> SUFFICES ASSUME NEW v \in Workers, pc[v] \in BeforeMove
                 PROVE  file'[item[v]] = "absent" /\ item[v] \notin moving'
      BY <1>1
    <3>1. item[v] \in Samples /\ file[item[v]] = "absent" /\ item[v] \notin moving
      BY AtWork DEF IInv, Fresh, Untouched, BeforeMove, Ended
    <3> QED BY <1>1, <3>1
  <2>3. \A i \in moving' : file'[i] \in {"absent", "partial"}
    BY <1>1, TypesOf DEF IInv, Fresh, TypedFiles
  <2> QED BY <2>1, <2>2, <2>3 DEF Fresh, Untouched, BeforeMove
<1>7. \A i \in Samples : file[i] \in SavedFiles => file'[i] \in SavedFiles
  <2>1. file[m] \notin SavedFiles
    BY <1>2 DEF SavedFiles
  <2> QED BY <1>1, <2>1
<1>8. Accounted'
  <2>1. \A i : Held(i)' <=> Held(i)
    BY <1>1 DEF Held
  <2> QED BY <1>1, <1>7, <2>1, AccountKept
<1>9. DoneIsAccounted'
  <2>1. batch \subseteq Samples
    BY TypesOf DEF TypedFiles
  <2> QED BY <1>1, <1>7, <2>1 DEF IInv, DoneIsAccounted, SavedFiles
<1> QED BY <1>3, <1>4, <1>5, <1>6, <1>8, <1>9 DEF IInv

\* The server is through with a file.
LEMMA ServerWritesKeeps ==
  ASSUME IInv, NEW s \in Samples, ServerWrites(s)
  PROVE  IInv'
<1>1. PICK how \in {"good", "bad", "missing"} :
        /\ out' = [out EXCEPT ![s] = how]
        /\ UNCHANGED <<run, set, main, todo, queue, left, pc, item, moving, cancel, consecutive,
                       skipped, batch, file>>
  BY DEF ServerWrites
<1>2. Typed'
  <2>1. out' \in [Samples -> {"none", "writing", "good", "bad", "missing"}]
    BY <1>1, TypesOf
  <2>2. TypedMain' /\ TypedWorkers'
    BY <1>1, TypesOf DEF TypedMain, TypedWorkers
  <2>3. TypedFiles'
    BY <1>1, <2>1, TypesOf DEF TypedFiles
  <2> QED BY <2>2, <2>3 DEF Typed
<1>3. MovesFinishedFiles'
  <2> SUFFICES ASSUME NEW v \in Workers, pc[v] \in {"wsem", "move"} PROVE out'[item[v]] # "writing"
    BY <1>1 DEF MovesFinishedFiles
  <2>1. item[v] \in Samples /\ out[item[v]] # "writing"
    BY AtWork DEF IInv, MovesFinishedFiles, Ended
  <2> QED BY <1>1, <2>1, TypesOf
<1>4. Bounded' /\ LastOut' /\ Stop'
  BY <1>1, BoundedKept, LastOutKept, StopKept
<1>5. Once' /\ Apart' /\ Fresh'
  BY <1>1, OnlyReleases, FreshKept
<1>6. Accounted'
  <2>1. \A i : Held(i)' <=> Held(i)
    BY <1>1 DEF Held
  <2> QED BY <1>1, <2>1, AccountKept
<1>7. DoneIsAccounted'
  BY <1>1 DEF IInv, DoneIsAccounted
<1> QED BY <1>2, <1>3, <1>4, <1>5, <1>6, <1>7 DEF IInv

-----------------------------------------------------------------------------
(* The steps of the main coroutine.                                        *)

\* The script is started, on what an earlier run has left behind.
LEMMA StartKeeps ==
  ASSUME IInv, Start
  PROVE  IInv'
<1>1. /\ moving = {} /\ run < MaxRuns /\ run' = run + 1 /\ set' \in Settings /\ main' = "feed"
      /\ queue' = <<>> /\ left' = 0
      /\ pc' = [w \in Workers |-> "get"] /\ item' = [w \in Workers |-> 0]
      /\ out' = [i \in Samples |-> "none"] /\ cancel' = FALSE /\ consecutive' = 0
      /\ skipped' = {} /\ batch' = Missing(file) /\ UNCHANGED <<moving, file>>
  BY DEF Start
<1>2. PICK s \in ToProcess(file) : todo' = s
  BY DEF Start
<1>3. /\ s \in Seq(Samples)
      /\ \A k \in DOMAIN s : s[k] \in Missing(file)
      /\ \A j, k \in DOMAIN s : s[j] = s[k] => j = k
      /\ \A i \in Missing(file) : \E k \in DOMAIN s : s[k] = i
  BY ListIsWhole
<1>4. DOMAIN queue' = {} /\ Len(queue') = 0 /\ queue' \in Seq(Samples \cup {Sentinel})
  BY <1>1
<1>5. \A i : ~Queued(i)'
  BY <1>4 DEF Queued
<1>6. \A i \in Samples : ~Held(i)'
  BY <1>1 DEF Held, Samples
<1>7. \A i : Waiting(i)' <=> i \in Missing(file)
  BY <1>2, <1>3 DEF Waiting
<1>8. \A i \in Samples : i \in Missing(file) <=> file[i] = "absent"
  BY DEF Missing, Existing
<1>9. Typed'
  <2>1. run' \in 0..MaxRuns /\ left' \in 0..Cardinality(Workers) /\ Len(queue') <= QueueSize
    <3>1. Cardinality(Workers) \in Nat
      BY Sizes, FS_CardinalityType
    <3> QED BY <1>1, <1>4, <3>1, Sizes, TypesOf DEF TypedMain
  <2>2. TypedMain'
    BY <1>1, <1>2, <1>3, <1>4, <2>1 DEF TypedMain
  <2>3. TypedWorkers'
    BY <1>1 DEF TypedWorkers, Places, Ended
  <2>4. TypedFiles'
    <3>1. consecutive' \in 0..Threshold /\ batch' \subseteq Samples
      BY <1>1, Sizes DEF Missing
    <3>2. cancel' \in BOOLEAN /\ skipped' \subseteq batch'
      BY <1>1
    <3> QED BY <1>1, <3>1, <3>2, TypesOf DEF TypedFiles
  <2> QED BY <2>2, <2>3, <2>4 DEF Typed
<1>10. Bounded'
  BY <1>1, BoundedKept
<1>11. Once'
  BY <1>1, <1>2, <1>3, <1>4 DEF Once
<1>12. Apart'
  BY <1>1, <1>5, <1>6, <1>7 DEF Apart
<1>13. Fresh'
  BY <1>1, <1>5, <1>7, <1>8 DEF Fresh, Untouched, BeforeMove
<1>14. MovesFinishedFiles'
  BY <1>1 DEF MovesFinishedFiles
<1>15. LastOut' /\ Stop'
  BY <1>1, <1>4 DEF LastOut, Stop
<1>16. Accounted' /\ DoneIsAccounted'
  BY <1>1, <1>7 DEF Accounted, DoneIsAccounted
<1> QED BY <1>9, <1>10, <1>11, <1>12, <1>13, <1>14, <1>15, <1>16 DEF IInv

\* The feeder is stopped by the event, and cancels the workers.
LEMMA StopFeedingKeeps ==
  ASSUME IInv, StopFeeding
  PROVE  IInv'
<1>1. /\ main = "feed" /\ cancel /\ main' = "gather"
      /\ pc' = [w \in Workers |-> IF pc[w] \in Ended THEN pc[w] ELSE "cancelled"]
      /\ item' = [w \in Workers |-> 0]
      /\ UNCHANGED <<run, set, todo, queue, left, out, moving, cancel, consecutive, skipped,
                     batch, file>>
  BY DEF StopFeeding
<1>2. \A v \in Workers : /\ pc'[v] \in Ended
                         /\ pc[v] \in Ended => pc'[v] = pc[v]
                         /\ pc[v] \notin Ended => pc'[v] = "cancelled"
  BY <1>1 DEF Ended
<1>3. Typed'
  <2>1. TypedMain'
    BY <1>1, TypesOf DEF TypedMain
  <2>2. TypedWorkers'
    <3>1. pc' \in [Workers -> Places] /\ item' \in [Workers -> Samples \cup {0}]
      BY <1>1, TypesOf DEF Places, Ended
    <3> QED BY <1>1, <1>2, <3>1 DEF TypedWorkers
  <2>3. TypedFiles'
    BY <1>1, TypesOf DEF TypedFiles
  <2> QED BY <2>1, <2>2, <2>3 DEF Typed
<1>4. Bounded'
  BY <1>2, BoundedKept DEF Ended
<1>5. Once' /\ Apart'
  BY <1>1, OnlyReleases
<1>6. Fresh'
  BY <1>1, <1>2, FreshKept DEF BeforeMove, Ended
<1>7. MovesFinishedFiles'
  BY <1>2 DEF MovesFinishedFiles, Ended
<1>8. LastOut'
  BY <1>1, <1>2 DEF IInv, LastOut, Running, Ended
<1>9. Stop'
  BY <1>1, <1>2 DEF IInv, Stop, Ended
<1>10. Accounted' /\ DoneIsAccounted'
  BY <1>1 DEF Accounted, DoneIsAccounted
<1> QED BY <1>3, <1>4, <1>5, <1>6, <1>7, <1>8, <1>9, <1>10 DEF IInv

\* The workers have ended: the run is done, or raises what one of them raised.
LEMMA GatherKeeps ==
  ASSUME IInv, Gather
  PROVE  IInv'
<1>1. /\ main = "gather" /\ \A w \in Workers : pc[w] \in Ended
      /\ main' = Outcome
      /\ UNCHANGED <<run, set, todo, queue, left, pc, item, out, moving, cancel, consecutive,
                     skipped, batch, file>>
  BY DEF Gather
<1>2. main' \in {"raised", "done"}
  BY <1>1 DEF Outcome
<1>3. Typed'
  BY <1>1, <1>2, TypesOf DEF Typed, TypedMain, TypedWorkers, TypedFiles
<1>4. Bounded' /\ Once' /\ Apart' /\ Fresh' /\ MovesFinishedFiles'
  BY <1>1, BoundedKept, OnlyReleases, FreshKept DEF IInv, MovesFinishedFiles
<1>5. LastOut'
  BY <1>1, <1>2 DEF IInv, LastOut, Running
<1>6. Stop'
  BY <1>1, <1>2 DEF IInv, Stop
<1>7. Accounted'
  BY <1>2 DEF Accounted, Running
<1>8. DoneIsAccounted'
  <2> SUFFICES ASSUME main' = "done"
               PROVE  ~cancel /\ \A i \in batch \ skipped : file[i] \in SavedFiles
    BY <1>1 DEF DoneIsAccounted, SavedFiles
  <2>1. \A w \in Workers : pc[w] # "dead"
    BY <1>1 DEF Outcome
  <2>2. ~cancel
    BY <1>1, <2>1 DEF IInv, Stop
  <2>3. \A w \in Workers : pc[w] = "returned"
    BY <1>1, <2>1, <2>2 DEF IInv, Stop, Ended
  <2>4. \E w \in Workers : pc[w] = "returned"
    BY <2>3, Sizes
  <2>5. ~SampleQueued /\ todo = <<>>
    BY <1>1, <2>2, <2>4 DEF IInv, LastOut, Running
  <2>6. \A i \in Samples : ~Waiting(i) /\ ~Queued(i) /\ ~Held(i)
    <3>1. \A i \in Samples : i # Sentinel /\ i # 0
      BY DEF Samples, Sentinel
    <3>2. \A w \in Workers : item[w] = 0
      BY <1>1, TypesOf
    <3>3. DOMAIN todo = {}
      BY <2>5
    <3> QED BY <2>5, <3>1, <3>2, <3>3 DEF Waiting, Queued, Held, SampleQueued
  <2>7. batch \subseteq Samples
    BY TypesOf DEF TypedFiles
  <2> QED BY <1>1, <2>2, <2>6, <2>7 DEF IInv, Accounted, Running
<1> QED BY <1>3, <1>4, <1>5, <1>6, <1>7, <1>8 DEF IInv

\* A sentinel goes to the end of the queue.
LEMMA PutSentinelKeeps ==
  ASSUME IInv, PutSentinel
  PROVE  IInv'
<1>1. /\ main = "sentinels" /\ Room > 0 /\ queue' = Append(queue, Sentinel) /\ left' = left - 1
      /\ main' = IF left = 1 THEN "gather" ELSE main
      /\ UNCHANGED <<run, set, todo, pc, item, out, moving, cancel, consecutive, skipped,
                     batch, file>>
  BY DEF PutSentinel
<1>2. /\ queue \in Seq(Samples \cup {Sentinel}) /\ Len(queue) \in Nat /\ Len(queue) <= QueueSize
      /\ left \in 0..Cardinality(Workers) /\ left > 0
  BY <1>1, TypesOf DEF TypedMain
<1>3. Sentinel \in Samples \cup {Sentinel}
  OBVIOUS
<1>4. /\ queue' \in Seq(Samples \cup {Sentinel}) /\ Len(queue') = Len(queue) + 1
      /\ \A k \in 1 .. Len(queue) : queue'[k] = queue[k]
      /\ queue'[Len(queue) + 1] = Sentinel
      /\ DOMAIN queue = 1 .. Len(queue) /\ DOMAIN queue' = 1 .. Len(queue) + 1
  BY <1>1, <1>2, <1>3, AppendProperties
<1>5. \A i \in Samples : i # Sentinel
  BY DEF Samples, Sentinel
<1>6. \A k \in DOMAIN queue' : \/ k = Len(queue) + 1 /\ queue'[k] = Sentinel
                               \/ k \in DOMAIN queue /\ queue'[k] = queue[k]
  BY <1>2, <1>4
<1>7. \A i \in Samples : (Queued(i)' <=> Queued(i)) /\ (Waiting(i)' <=> Waiting(i)) /\ (Held(i)' <=> Held(i))
  <2>1. \A i \in Samples : Queued(i)' => Queued(i)
    BY <1>5, <1>6 DEF Queued
  <2>2. \A i \in Samples : Queued(i) => Queued(i)'
    BY <1>2, <1>4 DEF Queued
  <2> QED BY <1>1, <2>1, <2>2 DEF Waiting, Held
<1>8. Typed'
  <2>1. Len(queue') <= QueueSize
    BY <1>1, <1>2, <1>4, Sizes DEF Room
  <2>2. left' \in 0..Cardinality(Workers) /\ (main' = "sentinels" => left' > 0)
    <3>1. Cardinality(Workers) \in Nat
      BY Sizes, FS_CardinalityType
    <3> QED BY <1>1, <1>2, <3>1
  <2>3. TypedMain'
    BY <1>1, <1>4, <2>1, <2>2, TypesOf DEF TypedMain
  <2>4. TypedWorkers' /\ TypedFiles'
    BY <1>1, TypesOf DEF TypedWorkers, TypedFiles
  <2> QED BY <2>3, <2>4 DEF Typed
<1>9. Bounded' /\ MovesFinishedFiles'
  BY <1>1, BoundedKept DEF IInv, MovesFinishedFiles
<1>10. Once'
  <2>1. \A j, k \in DOMAIN queue' : queue'[j] = queue'[k] /\ queue'[j] # Sentinel => j = k
    BY <1>6 DEF IInv, Once
  <2> QED BY <1>1, <2>1 DEF IInv, Once
<1>11. Apart'
  BY <1>1, <1>7 DEF IInv, Apart
<1>12. Fresh'
  <2>1. \A i \in Samples : (Waiting(i) \/ Queued(i))' => Untouched(i)' /\ i \notin skipped'
    BY <1>1, <1>7 DEF IInv, Fresh, Untouched
  <2> QED BY <1>1, <2>1 DEF IInv, Fresh, Untouched, BeforeMove
<1>13. LastOut'
  <2>1. \A j, k \in DOMAIN queue' : j < k /\ queue'[j] = Sentinel => queue'[k] = Sentinel
    <3> SUFFICES ASSUME NEW j \in DOMAIN queue', NEW k \in DOMAIN queue', j < k,
                        queue'[j] = Sentinel
                 PROVE  queue'[k] = Sentinel
      OBVIOUS
    <3>1. CASE k = Len(queue) + 1
      BY <1>4, <3>1
    <3>2. CASE k # Len(queue) + 1
      <4>1. j \in DOMAIN queue /\ k \in DOMAIN queue
        BY <1>2, <1>4, <3>2
      <4>2. queue'[j] = queue[j] /\ queue'[k] = queue[k]
        BY <1>4, <4>1
      <4> QED BY <4>1, <4>2 DEF IInv, LastOut
    <3> QED BY <3>1, <3>2
  <2>2. main' # "feed" /\ todo' = <<>>
    BY <1>1 DEF IInv, LastOut
  <2>3. SampleQueued' => SampleQueued
    BY <1>6 DEF SampleQueued
  <2> QED BY <1>1, <2>1, <2>2, <2>3 DEF IInv, LastOut, Running
<1>14. Stop'
  BY <1>1 DEF IInv, Stop
<1>15. Accounted'
  <2>1. batch \subseteq Samples
    BY TypesOf DEF TypedFiles
  <2> QED BY <1>1, <1>7, <2>1 DEF IInv, Accounted, Running, SavedFiles
<1>16. DoneIsAccounted'
  BY <1>1 DEF DoneIsAccounted
<1> QED BY <1>8, <1>9, <1>10, <1>11, <1>12, <1>13, <1>14, <1>15, <1>16 DEF IInv

\* The feeder moves the first samples of its list to the end of the queue.
LEMMA FeedKeeps ==
  ASSUME IInv, Feed
  PROVE  IInv'
<1>1. PICK n \in Int :
        /\ n = IF Len(todo) <= Room THEN Len(todo) ELSE Room
        /\ main = "feed" /\ ~cancel /\ n > 0
        /\ queue' = queue \o SubSeq(todo, 1, n)
        /\ todo' = SubSeq(todo, n + 1, Len(todo))
        /\ IF n = Len(todo) THEN main' = "sentinels" /\ left' = Cardinality(Workers)
                            ELSE UNCHANGED <<main, left>>
        /\ UNCHANGED <<run, set, pc, item, out, moving, cancel, consecutive, skipped, batch, file>>
  <2>1. Len(todo) \in Nat /\ Len(queue) \in Nat
    BY TypesOf DEF TypedMain
  <2> DEFINE n == IF Len(todo) <= Room THEN Len(todo) ELSE Room
  <2>2. n \in Int
    BY <2>1, Sizes DEF Room
  <2> QED BY <2>2 DEF Feed
<1>24. /\ main = "feed" /\ ~cancel /\ n > 0
       /\ queue' = queue \o SubSeq(todo, 1, n) /\ todo' = SubSeq(todo, n + 1, Len(todo))
  BY <1>1
<1>25. \/ n = Len(todo) /\ main' = "sentinels" /\ left' = Cardinality(Workers)
       \/ n # Len(todo) /\ main' = main /\ left' = left
  BY <1>1
<1> DEFINE q == Len(queue)
<1>2. /\ queue \in Seq(Samples \cup {Sentinel}) /\ q \in Nat /\ q <= QueueSize
      /\ todo \in Seq(Samples) /\ Len(todo) \in Nat /\ n <= Len(todo) /\ n <= QueueSize - q /\ n \in Nat
      /\ DOMAIN todo = 1 .. Len(todo) /\ DOMAIN queue = 1 .. q
      /\ \A k \in 1 .. Len(todo) : todo[k] \in Samples
      /\ Cardinality(Workers) \in Nat \ {0}
  <2>1. queue \in Seq(Samples \cup {Sentinel}) /\ q \in Nat /\ q <= QueueSize
        /\ todo \in Seq(Samples) /\ Len(todo) \in Nat
    BY TypesOf DEF TypedMain
  <2>2. n <= Len(todo) /\ n <= QueueSize - q /\ n \in Nat
    BY <1>1, <2>1, Sizes DEF Room
  <2>3. Cardinality(Workers) \in Nat \ {0}
    BY Sizes, FS_CardinalityType, FS_EmptySet
  <2>4. \A k \in 1 .. Len(todo) : todo[k] \in Samples
    BY <2>1, ElementOfSeq
  <2> QED BY <2>1, <2>2, <2>3, <2>4
<1>3. /\ SubSeq(todo, 1, n) \in Seq(Samples) /\ Len(SubSeq(todo, 1, n)) = n
      /\ \A k \in 1 .. n : SubSeq(todo, 1, n)[k] = todo[k]
  <2>1. 1 \in Int /\ n \in Int /\ \A k \in 1 .. n : todo[k] \in Samples
    <3>1. \A k \in 1 .. n : k \in 1 .. Len(todo)
      BY <1>2
    <3> QED BY <1>2, <3>1
  <2>2. /\ SubSeq(todo, 1, n) \in Seq(Samples)
        /\ Len(SubSeq(todo, 1, n)) = IF 1 <= n THEN n - 1 + 1 ELSE 0
        /\ \A k \in 1 .. n - 1 + 1 : SubSeq(todo, 1, n)[k] = todo[1 + k - 1]
    BY <2>1, SubSeqProperties
  <2> QED BY <1>24, <1>2, <2>2
<1>4. /\ todo' \in Seq(Samples) /\ Len(todo') = Len(todo) - n
      /\ \A k \in 1 .. Len(todo) - n : todo'[k] = todo[n + k]
  <2>1. \A k \in n + 1 .. Len(todo) : todo[k] \in Samples
    <3>1. \A k \in n + 1 .. Len(todo) : k \in 1 .. Len(todo)
      BY <1>2
    <3> QED BY <1>2, <3>1
  <2>2. n + 1 \in Int /\ Len(todo) \in Int
    BY <1>2
  <2>3. /\ SubSeq(todo, n + 1, Len(todo)) \in Seq(Samples)
        /\ Len(SubSeq(todo, n + 1, Len(todo))) = IF n + 1 <= Len(todo) THEN Len(todo) - (n + 1) + 1 ELSE 0
        /\ \A k \in 1 .. Len(todo) - (n + 1) + 1 :
             SubSeq(todo, n + 1, Len(todo))[k] = todo[n + 1 + k - 1]
    BY <2>1, <2>2, SubSeqProperties
  <2>4. Len(todo') = Len(todo) - n
    <3>1. CASE n + 1 <= Len(todo)
      <4>1. Len(todo') = Len(todo) - (n + 1) + 1
        BY <1>24, <2>3, <3>1
      <4> QED BY <1>2, <4>1
    <3>2. CASE ~(n + 1 <= Len(todo))
      <4>1. Len(todo') = 0
        BY <1>24, <2>3, <3>2
      <4>2. n \in Nat /\ Len(todo) \in Nat /\ n <= Len(todo)
        BY <1>2
      <4>3. Len(todo) = n
        BY <3>2, <4>2
      <4> QED BY <4>1, <4>2, <4>3
    <3> QED BY <3>1, <3>2
  <2>5. \A k \in 1 .. Len(todo) - n : todo'[k] = todo[n + k]
    <3>1. \A k \in 1 .. Len(todo) - n : k \in 1 .. Len(todo) - (n + 1) + 1 /\ n + 1 + k - 1 = n + k
      BY <1>2
    <3> QED BY <1>24, <2>3, <3>1
  <2> QED BY <1>24, <2>3, <2>4, <2>5
<1>5. /\ queue' \in Seq(Samples \cup {Sentinel}) /\ Len(queue') = q + n
      /\ \A k \in 1 .. q : queue'[k] = queue[k]
      /\ \A k \in 1 .. n : queue'[q + k] = todo[k]
  <2> DEFINE S == Samples \cup {Sentinel}
             t == SubSeq(todo, 1, n)
  <2>1. t \in Seq(S)
    BY <1>3
  <2> HIDE DEF t
  <2>2. /\ queue \o t \in Seq(S) /\ Len(queue \o t) = q + Len(t)
        /\ \A i \in 1 .. q + Len(t) : (queue \o t)[i] = IF i <= q THEN queue[i] ELSE t[i - q]
    BY <1>2, <2>1, ConcatProperties
  <2>3. Len(t) = n /\ \A k \in 1 .. n : t[k] = todo[k]
    BY <1>3 DEF t
  <2>4. queue' = queue \o t
    BY <1>1 DEF t
  <2> HIDE DEF S
  <2>5. \A k \in 1 .. n : queue'[q + k] = t[k]
    BY <1>2, <2>2, <2>3, <2>4
  <2>6. \A k \in 1 .. q : queue'[k] = queue[k]
    BY <1>2, <2>2, <2>3, <2>4
  <2> QED BY <2>2, <2>3, <2>4, <2>5, <2>6 DEF S
<1>6. DOMAIN todo' = 1 .. Len(todo) - n /\ DOMAIN queue' = 1 .. q + n
  <2>1. DOMAIN todo' = 1 .. Len(todo') /\ DOMAIN queue' = 1 .. Len(queue')
    BY <1>4, <1>5, LenProperties
  <2> QED BY <1>4, <1>5, <2>1
<1> HIDE DEF q
<1>7. \A k \in DOMAIN queue' : \/ k \in DOMAIN queue /\ queue'[k] = queue[k]
                               \/ k > q /\ k \notin DOMAIN queue /\ k - q \in DOMAIN todo /\ queue'[k] = todo[k - q] /\ k - q <= n
  <2> SUFFICES ASSUME NEW k \in 1 .. q + n, k > q
               PROVE  k \notin DOMAIN queue /\ k - q \in 1 .. Len(todo) /\ queue'[k] = todo[k - q] /\ k - q <= n
    BY <1>2, <1>5, <1>6
  <2>1. k - q \in 1 .. n /\ q + (k - q) = k
    BY <1>2
  <2> QED BY <1>2, <1>5, <2>1
<1>8. \A k \in DOMAIN todo' : n + k \in DOMAIN todo /\ todo'[k] = todo[n + k] /\ k > 0
  BY <1>2, <1>4, <1>6
<1>9. \A i : Waiting(i)' => Waiting(i)
  BY <1>8 DEF Waiting
<1>10. \A i : Queued(i)' => Queued(i) \/ Waiting(i)
  BY <1>7 DEF Waiting, Queued
<1>11. \A i : Queued(i) => Queued(i)'
  <2>1. \A k \in DOMAIN queue : k \in DOMAIN queue' /\ queue'[k] = queue[k]
    BY <1>2, <1>5, <1>6
  <2> QED BY <2>1 DEF Queued
<1>12. \A i : Waiting(i) => Waiting(i)' \/ Queued(i)'
  <2> SUFFICES ASSUME NEW i, NEW k \in DOMAIN todo, todo[k] = i
               PROVE  Waiting(i)' \/ Queued(i)'
    BY DEF Waiting
  <2>1. CASE k <= n
    <3>1. k \in 1 .. n /\ q + k \in DOMAIN queue'
      BY <1>2, <1>6, <2>1
    <3> QED BY <1>5, <3>1 DEF Queued
  <2>2. CASE k > n
    <3>1. k - n \in 1 .. Len(todo) - n /\ n + (k - n) = k
      BY <1>2, <2>2
    <3> QED BY <1>4, <1>6, <3>1 DEF Waiting
  <2> QED BY <1>2, <2>1, <2>2
<1>13. \A i : ~(Waiting(i)' /\ Queued(i)' /\ ~Queued(i))
  <2> SUFFICES ASSUME NEW i, NEW j \in DOMAIN todo', NEW k \in DOMAIN queue',
                      todo'[j] = i, queue'[k] = i, ~Queued(i)
               PROVE  FALSE
    BY DEF Waiting, Queued
  <2>3. k \notin DOMAIN queue
    BY <1>2, <1>7 DEF Queued
  <2>1. n + j \in DOMAIN todo /\ k - q \in DOMAIN todo /\ todo[n + j] = todo[k - q]
        /\ j > 0 /\ k - q <= n
    BY <1>7, <1>8, <2>3
  <2>2. n + j = k - q
    BY <2>1 DEF IInv, Once
  <2> QED BY <1>2, <1>6, <2>1, <2>2
<1>14. Typed'
  <2>1. Len(queue') <= QueueSize
    BY <1>2, <1>5, Sizes
  <2>2. left' \in 0..Cardinality(Workers) /\ (main' = "sentinels" => left' > 0)
    <3>1. left \in 0..Cardinality(Workers)
      BY TypesOf DEF TypedMain
    <3>2. CASE left' = Cardinality(Workers)
      BY <1>2, <3>2
    <3>3. CASE main' = main /\ left' = left
      BY <1>24, <3>1, <3>3
    <3> QED BY <1>25, <3>2, <3>3
  <2>3. main' \in {"feed", "sentinels"}
    BY <1>1
  <2>4. TypedMain'
    BY <1>1, <1>4, <1>5, <2>1, <2>2, <2>3, TypesOf DEF TypedMain
  <2>5. TypedWorkers' /\ TypedFiles'
    BY <1>1, TypesOf DEF TypedWorkers, TypedFiles
  <2> QED BY <2>4, <2>5 DEF Typed
<1>15. Bounded' /\ MovesFinishedFiles'
  BY <1>1, BoundedKept DEF IInv, MovesFinishedFiles
<1>16. \A i : Held(i)' <=> Held(i)
  BY <1>1 DEF Held
<1>17. Once'
  <2>1. \A j, k \in DOMAIN todo' : todo'[j] = todo'[k] => j = k
    <3> SUFFICES ASSUME NEW j \in DOMAIN todo', NEW k \in DOMAIN todo', todo'[j] = todo'[k]
                 PROVE  j = k
      OBVIOUS
    <3>1. n + j = n + k
      BY <1>8 DEF IInv, Once
    <3> QED BY <1>2, <1>6, <3>1
  <2>2. \A j, k \in DOMAIN queue' : queue'[j] = queue'[k] /\ queue'[j] # Sentinel => j = k
    <3> SUFFICES ASSUME NEW j \in DOMAIN queue', NEW k \in DOMAIN queue',
                        queue'[j] = queue'[k], queue'[j] # Sentinel
                 PROVE  j = k
      OBVIOUS
    <3>1. CASE j \in DOMAIN queue /\ k \in DOMAIN queue
      BY <1>5, <1>2, <3>1 DEF IInv, Once
    <3>2. CASE j \notin DOMAIN queue /\ k \notin DOMAIN queue
      <4>1. j - q = k - q
        BY <1>7, <3>2 DEF IInv, Once
      <4> QED BY <1>2, <1>6, <4>1
    <3>3. \A a \in DOMAIN queue, b \in DOMAIN todo : queue[a] # todo[b]
      <4> SUFFICES ASSUME NEW a \in DOMAIN queue, NEW b \in DOMAIN todo, queue[a] = todo[b]
                   PROVE  FALSE
        OBVIOUS
      <4>1. todo[b] \in Samples
        BY <1>2
      <4>2. Queued(todo[b]) /\ Waiting(todo[b])
        BY DEF Queued, Waiting
      <4> QED BY <4>1, <4>2 DEF IInv, Apart
    <3> QED BY <1>7, <3>1, <3>2, <3>3
  <2> QED BY <1>1, <2>1, <2>2 DEF IInv, Once
<1>18. Apart'
  <2> SUFFICES ASSUME NEW i \in Samples
               PROVE  /\ ~(Waiting(i)' /\ Queued(i)') /\ ~(Waiting(i)' /\ Held(i)')
                      /\ ~(Queued(i)' /\ Held(i)')
                      /\ Waiting(i)' \/ Queued(i)' \/ Held(i)' => i \in batch
    BY <1>1 DEF Apart
  <2> QED BY <1>9, <1>10, <1>13, <1>16 DEF IInv, Apart
<1>19. Fresh'
  <2>1. \A i \in Samples : (Waiting(i) \/ Queued(i))' => Untouched(i)' /\ i \notin skipped'
    BY <1>1, <1>9, <1>10 DEF IInv, Fresh, Untouched
  <2> QED BY <1>1, <2>1 DEF IInv, Fresh, Untouched, BeforeMove
<1>20. LastOut'
  <2>1. \A k \in DOMAIN queue' : queue'[k] # Sentinel
    <3>1. \A k \in DOMAIN queue : queue[k] # Sentinel
      BY <1>1 DEF IInv, LastOut
    <3>2. \A k \in DOMAIN todo : todo[k] # Sentinel
      BY <1>2 DEF Samples, Sentinel
    <3> QED BY <1>7, <3>1, <3>2
  <2>2. main' = "sentinels" => todo' = <<>>
    <3> SUFFICES ASSUME main' = "sentinels" PROVE todo' = <<>>
      OBVIOUS
    <3>1. n = Len(todo)
      BY <1>24, <1>25
    <3>2. Len(todo') = 0
      BY <1>2, <1>4, <3>1
    <3> QED BY <1>4, <3>2, EmptySeq
  <2>3. main' # "gather" /\ \A w \in Workers : pc'[w] # "returned"
    BY <1>1 DEF IInv, LastOut, Running
  <2> QED BY <2>1, <2>2, <2>3 DEF LastOut
<1>21. Stop'
  BY <1>1 DEF IInv, Stop
<1>22. Accounted'
  <2> SUFFICES ASSUME NEW i \in batch
               PROVE  Waiting(i)' \/ Queued(i)' \/ Held(i)' \/ i \in skipped \/ file[i] \in SavedFiles
    BY <1>1 DEF Accounted, SavedFiles
  <2>1. Waiting(i) \/ Queued(i) \/ Held(i) \/ i \in skipped \/ file[i] \in SavedFiles
    BY <1>1 DEF IInv, Accounted, Running
  <2> QED BY <1>11, <1>12, <1>16, <2>1
<1>23. DoneIsAccounted'
  BY <1>1 DEF DoneIsAccounted
<1> QED BY <1>14, <1>15, <1>17, <1>18, <1>19, <1>20, <1>21, <1>22, <1>23 DEF IInv

-----------------------------------------------------------------------------
(* The theorems.                                                           *)

\* Every step of the script, of its threads and of the server keeps the
\* invariant.
LEMMA NextInv == IInv /\ [Next]_vars => IInv'
<1> SUFFICES ASSUME IInv, [Next]_vars PROVE IInv'
  OBVIOUS
<1>1. CASE Start
  BY <1>1, StartKeeps
<1>2. CASE Main
  BY <1>2, FeedKeeps, StopFeedingKeeps, PutSentinelKeeps, GatherKeeps DEF Main
<1>3. ASSUME NEW w \in Workers, Worker(w)
      PROVE  IInv'
  <2>1. CASE Get(w) \/ EnterGenerate(w) \/ Generated(w) \/ LockTaken(w)
    BY <2>1, GetKeeps, EnterGenerateKeeps, GeneratedKeeps, LockTakenKeeps
  <2>2. CASE StartMove(w) \/ ToCheck(w) \/ Success(w) \/ Skip(w)
    BY <2>2, StartMoveKeeps, ToCheckKeeps, SuccessKeeps, SkipKeeps
  <2>3. CASE Exit(w)
    BY <2>3, DieKeeps DEF Exit
  <2> QED BY <1>3, <2>1, <2>2, <2>3 DEF Worker
<1>4. ASSUME NEW i \in Samples, MoveEnds(i) \/ ServerWrites(i)
      PROVE  IInv'
  BY <1>4, MoveEndsKeeps, ServerWritesKeeps
<1>5. CASE Kill
  BY <1>5, DieKeeps DEF Kill
<1>6. CASE UNCHANGED vars
  <2>1. UNCHANGED <<run, set, main, todo, queue, left, pc, item, out, moving, cancel, consecutive,
                    skipped, batch, file>>
    BY <1>6 DEF vars
  <2>2. Typed'
    BY <2>1, TypesOf DEF Typed, TypedMain, TypedWorkers, TypedFiles
  <2>3. Bounded' /\ Once' /\ Apart' /\ Fresh' /\ LastOut' /\ Stop'
    BY <2>1, BoundedKept, OnlyReleases, FreshKept, LastOutKept, StopKept
  <2>4. Accounted'
    <3>1. \A i : Held(i)' <=> Held(i)
      BY <2>1 DEF Held
    <3> QED BY <2>1, <3>1, AccountKept
  <2>5. MovesFinishedFiles' /\ DoneIsAccounted'
    BY <2>1 DEF IInv, MovesFinishedFiles, DoneIsAccounted
  <2> QED BY <2>2, <2>3, <2>4, <2>5 DEF IInv
<1>7. CASE Stopped
  BY <1>6, <1>7 DEF Stopped
<1> QED BY <1>1, <1>2, <1>3, <1>4, <1>5, <1>6, <1>7 DEF Next

\* The invariant holds in every state of every run of the script.
LEMMA Invariant == Spec => []IInv
BY InitInv, NextInv, PTL DEF Spec

\* Types are kept, no semaphore holds more workers than its size and the queue
\* no more items than its own.
THEOREM TypeCorrect == Spec => []TypeOK
<1>1. IInv => TypeOK
  BY DEF IInv, Typed, TypedMain, TypedWorkers, TypedFiles, Bounded, TypeOK, Places
<1> QED BY <1>1, Invariant, PTL

\* No sample of a run is in two places or with two workers, and as long as the
\* run is not being stopped none is lost between the list, the queue, the
\* workers and the files.
THEOREM SamplesConserved == Spec => []ConservesSamples
<1>1. IInv => ConservesSamples
  <2> SUFFICES ASSUME IInv, Running, NEW i \in batch
               PROVE  /\ ~(Waiting(i) /\ Queued(i)) /\ ~(Waiting(i) /\ Held(i))
                      /\ ~(Queued(i) /\ Held(i)) /\ ~(Settled(i) /\ (Waiting(i) \/ Queued(i)))
                      /\ \A v, w \in Workers : item[v] = i /\ item[w] = i => v = w
                      /\ ~cancel => Waiting(i) \/ Queued(i) \/ Held(i) \/ Settled(i)
    BY DEF ConservesSamples
  <2>1. i \in Samples /\ i # 0
    BY TypesOf DEF TypedFiles, Samples
  <2>2. ~(Waiting(i) /\ Queued(i)) /\ ~(Waiting(i) /\ Held(i)) /\ ~(Queued(i) /\ Held(i))
    BY <2>1 DEF IInv, Apart
  <2>3. ~(Settled(i) /\ (Waiting(i) \/ Queued(i)))
    BY <2>1 DEF IInv, Fresh, Untouched, Settled
  <2>4. \A v, w \in Workers : item[v] = i /\ item[w] = i => v = w
    BY <2>1 DEF IInv, Once
  <2>5. ~cancel => Waiting(i) \/ Queued(i) \/ Held(i) \/ Settled(i)
    <3>1. file[i] \in SavedFiles => file[i] # "absent"
      BY DEF SavedFiles
    <3> QED BY <3>1 DEF IInv, Accounted, Settled
  <2> QED BY <2>2, <2>3, <2>4, <2>5
<1> QED BY <1>1, Invariant, PTL

\* A run that reports success was not stopped, and has a file of every sample
\* that it does not list as skipped, a good one if it checked them.
THEOREM SuccessIsAccounted == Spec => []DoneIsAccounted
<1>1. IInv => DoneIsAccounted
  BY DEF IInv
<1> QED BY <1>1, Invariant, PTL

\* No file is moved while the server writes it.
THEOREM OnlyFinishedMoved == Spec => []MovesFinishedFiles
<1>1. IInv => MovesFinishedFiles
  BY DEF IInv
<1> QED BY <1>1, Invariant, PTL

\* A good file is never written again, neither by a thread of this run nor
\* after the script was killed and started again.
THEOREM SavedIsKept == Spec => KeepsSaved
<1>1. IInv /\ [Next]_vars => [\A i \in Samples : file[i] = "good" => file'[i] = "good"]_vars
  <2> SUFFICES ASSUME IInv, Next, NEW i \in Samples, file[i] = "good" PROVE file'[i] = "good"
    BY DEF vars
  <2>1. CASE UNCHANGED file
    BY <2>1
  <2>2. ASSUME NEW w \in Workers, StartMove(w) PROVE file'[i] = "good"
    <3>1. pc[w] = "wsem" /\ file' = CopyBegun(item[w])
      BY <2>2 DEF StartMove, At
    <3>2. file[item[w]] = "absent"
      BY <3>1 DEF IInv, Fresh, BeforeMove, Untouched
    <3> QED BY <3>1, <3>2, TypesOf DEF CopyBegun
  <2>3. ASSUME NEW m \in Samples, MoveEnds(m) PROVE file'[i] = "good"
    <3>1. file[m] # "good"
      BY <2>3 DEF IInv, Fresh, MoveEnds
    <3> QED BY <2>3, <3>1, TypesOf DEF MoveEnds
  <2>4. CASE Start
    BY <2>1, <2>4 DEF Start
  <2>5. CASE Main
    BY <2>1, <2>5 DEF Main, Feed, StopFeeding, PutSentinel, Gather
  <2>6. ASSUME NEW w \in Workers, Worker(w) PROVE file'[i] = "good"
    BY <2>1, <2>2, <2>6 DEF Worker, Get, EnterGenerate, Generated, LockTaken, ToCheck, GoesOn,
                            Success, Skip, Exit, Die
  <2>7. ASSUME NEW s \in Samples, ServerWrites(s) PROVE file'[i] = "good"
    BY <2>1, <2>7 DEF ServerWrites
  <2>8. CASE Kill
    BY <2>1, <2>8 DEF Kill, Die
  <2>9. CASE Stopped
    BY <2>1, <2>9 DEF Stopped, vars
  <2> QED BY <2>3, <2>4, <2>5, <2>6, <2>7, <2>8, <2>9 DEF Next
<1> QED BY <1>1, Invariant, PTL DEF Spec, KeepsSaved
=============================================================================
