-------------------------- MODULE OfflineGeneration --------------------------
(***************************************************************************)
(* Offline generation of the training data                                 *)
(* (speculators scripts/data_generation_offline.py, with                   *)
(* data_generation/offline.py and vllm_client.py).                         *)
(*                                                                         *)
(* One coroutine feeds the samples that have no file yet into a bounded    *)
(* queue; workers take them, ask the server for hidden states, wait for    *)
(* the server's lock, and move the file to its place.  Enough consecutive  *)
(* failures set an event that stops the run; otherwise one sentinel per    *)
(* worker ends it.  The process may be killed and started again: a sample  *)
(* whose file exists is not generated again.                               *)
(*                                                                         *)
(* Everything runs on one event loop: an action is the code between two    *)
(* awaits.  Only file moves run on other threads.                          *)
(***************************************************************************)
EXTENDS Integers, Sequences, FiniteSets

CONSTANTS
  NumSamples,      \* samples of the dataset, 1..NumSamples
  Workers,         \* 2 * args.concurrency tasks
  Concurrency,     \* args.concurrency: the size of both semaphores
  QueueSize,       \* args.concurrency * 4
  Threshold,       \* args.max_consecutive_errors
  Settings,        \* [validate, fail : BOOLEAN]: --validate-outputs and
                   \* --fail-on-error
  SameFilesystem,  \* whether a move is a rename
  MaxRuns          \* bound: how often the script is started

ASSUME Sizes ==
  /\ NumSamples \in Nat /\ Concurrency \in Nat \ {0} /\ QueueSize \in Nat \ {0}
  /\ Threshold \in Nat \ {0} /\ MaxRuns \in Nat
  /\ IsFiniteSet(Workers) /\ Workers # {}
  /\ Settings \subseteq [validate : BOOLEAN, fail : BOOLEAN]
  /\ SameFilesystem \in BOOLEAN

VARIABLES
  run,          \* how often the script was started
  set,          \* the settings of this run
  main,         \* "feed" "sentinels" "gather" "done" "raised" "killed"
  todo,         \* to_process, as far as it is not in the queue yet
  queue,        \* the asyncio.Queue: samples and sentinels
  left,         \* sentinels still to put
  pc,           \* worker -> "get" "sem" "gen" "lock" "wsem" "move" "check"
                \*           "returned" "dead" "cancelled"
  item,         \* worker -> its sample, 0 for none
  out,          \* sample -> the server's file: "none" "writing" "good" "bad"
                \*           "missing"
  moving,       \* samples a thread is moving to their place
  cancel,       \* cancel_event
  consecutive,  \* _FailureTracker._consecutive, up to Threshold
  skipped,      \* skipped_indices
  batch,        \* history: to_process of this run
  file          \* sample -> hs_<i>.safetensors: "absent" "partial" "good" "bad"

vars == <<run, set, main, todo, queue, left, pc, item, out, moving, cancel,
          consecutive, skipped, batch, file>>

Samples  == 1..NumSamples
Sentinel == 0
Ended    == {"returned", "dead", "cancelled"}
Running  == main \in {"feed", "sentinels", "gather"}

\* Mutant: what is on disk is not looked at.
NothingExists(files) == {}

\* get_existing_hidden_state_indices, and the samples a run has to process, in
\* the order of their indices: the set has this one sequence.
Existing(files)  == {i \in Samples : files[i] # "absent"}
Missing(files)   == Samples \ Existing(files)
ToProcess(files) ==
  {s \in [1..Cardinality(Missing(files)) -> Missing(files)] :
     \A j, k \in DOMAIN s : j < k => s[j] < s[k]}

Init ==
  /\ run = 0 /\ set \in Settings /\ main = "done"
  /\ todo = <<>> /\ queue = <<>> /\ left = 0
  /\ pc = [w \in Workers |-> "returned"] /\ item = [w \in Workers |-> 0]
  /\ out = [i \in Samples |-> "none"] /\ moving = {}
  /\ cancel = FALSE /\ consecutive = 0 /\ skipped = {} /\ batch = {}
  /\ file = [i \in Samples |-> "absent"]

\* The script is started: with nothing to process it returns at once.
Start ==
  /\ run < MaxRuns /\ ~Running /\ moving = {}
  /\ Missing(file) # {}
  /\ run' = run + 1 /\ set' \in Settings
  /\ main' = "feed" /\ todo' \in ToProcess(file) /\ queue' = <<>> /\ left' = 0
  /\ pc' = [w \in Workers |-> "get"] /\ item' = [w \in Workers |-> 0]
  /\ out' = [i \in Samples |-> "none"]
  /\ cancel' = FALSE /\ consecutive' = 0 /\ skipped' = {}
  /\ batch' = Missing(file)
  /\ UNCHANGED <<moving, file>>

-----------------------------------------------------------------------------
(* The main coroutine.                                                     *)

Room == QueueSize - Len(queue)

\* Puts what there is room for; with nothing left, _shutdown_workers looks at
\* the cancel event without an await in between.
Feed ==
  LET n == IF Len(todo) <= Room THEN Len(todo) ELSE Room
  IN  /\ main = "feed" /\ ~cancel /\ n > 0
      /\ queue' = queue \o SubSeq(todo, 1, n)
      /\ todo' = SubSeq(todo, n + 1, Len(todo))
      /\ IF n = Len(todo) THEN main' = "sentinels" /\ left' = Cardinality(Workers)
                          ELSE UNCHANGED <<main, left>>
      /\ UNCHANGED <<run, set, pc, item, out, moving, cancel, consecutive,
                     skipped, batch, file>>

\* Mutant: the feeder gives up without telling the workers.
StopFeedingOnly ==
  /\ main = "feed" /\ cancel
  /\ main' = "gather"
  /\ UNCHANGED <<run, set, todo, queue, left, pc, item, out, moving, cancel,
                 consecutive, skipped, batch, file>>

\* The feeder wakes up to the cancel event; the workers that still run are
\* cancelled, a thread that moves a file is not.
StopFeeding ==
  /\ main = "feed" /\ cancel
  /\ main' = "gather"
  /\ pc' = [w \in Workers |-> IF pc[w] \in Ended THEN pc[w] ELSE "cancelled"]
  /\ item' = [w \in Workers |-> 0]
  /\ UNCHANGED <<run, set, todo, queue, left, out, moving, cancel, consecutive,
                 skipped, batch, file>>

PutSentinel ==
  /\ main = "sentinels" /\ Room > 0
  /\ queue' = Append(queue, Sentinel)
  /\ left' = left - 1
  /\ main' = IF left = 1 THEN "gather" ELSE main
  /\ UNCHANGED <<run, set, todo, pc, item, out, moving, cancel, consecutive,
                 skipped, batch, file>>

Outcome == IF \E w \in Workers : pc[w] = "dead" THEN "raised" ELSE "done"

\* The results are in, the first exception of a worker is raised.  The event
\* loop closes when its threads are through.
Gather ==
  /\ main = "gather" /\ \A w \in Workers : pc[w] \in Ended
  /\ moving = {}
  /\ main' = Outcome
  /\ UNCHANGED <<run, set, todo, queue, left, pc, item, out, moving, cancel,
                 consecutive, skipped, batch, file>>

Main == Feed \/ StopFeeding \/ PutSentinel \/ Gather

-----------------------------------------------------------------------------
(* A worker.                                                               *)

At(w, loc) == Running /\ pc[w] = loc
Goto(w, loc) == pc' = [pc EXCEPT ![w] = loc]

Get(w) ==
  /\ At(w, "get") /\ queue # <<>>
  /\ queue' = Tail(queue)
  /\ IF Head(queue) = Sentinel
     THEN Goto(w, "returned") /\ UNCHANGED item
     ELSE IF cancel THEN UNCHANGED <<pc, item>>
     ELSE Goto(w, "sem") /\ item' = [item EXCEPT ![w] = Head(queue)]
  /\ UNCHANGED <<run, set, main, todo, left, out, moving, cancel, consecutive,
                 skipped, batch, file>>

\* Workers inside a semaphore that is held at the given places.
Inside(places) == Cardinality({w \in Workers : pc[w] \in places})

GoesOn(w, from, to) ==
  /\ At(w, from) /\ Goto(w, to)
  /\ UNCHANGED <<run, set, main, todo, queue, left, item, moving, cancel,
                 consecutive, skipped, batch, file>>

\* Mutant: the semaphore is not taken.
EnterUnbounded(w) == GoesOn(w, "sem", "gen") /\ UNCHANGED out

EnterGenerate(w) ==
  /\ Inside({"gen"}) < Concurrency
  /\ GoesOn(w, "sem", "gen") /\ UNCHANGED out

\* The server answers with a path, whose file it is still writing.
Generated(w) ==
  /\ GoesOn(w, "gen", "lock")
  /\ out' = [out EXCEPT ![item[w]] = "writing"]

\* Mutant: the lock is not waited for.
LockIgnored(w) == GoesOn(w, "lock", "wsem") /\ UNCHANGED out

\* The server has released the lock.
LockTaken(w) ==
  /\ At(w, "lock") /\ out[item[w]] # "writing"
  /\ GoesOn(w, "lock", "wsem") /\ UNCHANGED out

\* A rename takes no time; a copy leaves a partial file while it runs.
CopyBegun(i) == IF SameFilesystem \/ out[i] = "missing" THEN file
                ELSE [file EXCEPT ![i] = "partial"]

StartMove(w) ==
  /\ At(w, "wsem") /\ Inside({"move", "check"}) < Concurrency
  /\ Goto(w, "move") /\ moving' = moving \cup {item[w]}
  /\ file' = CopyBegun(item[w])
  /\ UNCHANGED <<run, set, main, todo, queue, left, item, out, cancel,
                 consecutive, skipped, batch>>

\* The thread is through, also when its worker is gone.  Nothing arrives of a
\* file the server never wrote, or of a copy that ran out of space.
MoveEnds(i) ==
  /\ i \in moving
  /\ moving' = moving \ {i}
  /\ \/ /\ out[i] # "missing"
        /\ file' = [file EXCEPT ![i] = IF out[i] = "good" THEN "good" ELSE "bad"]
     \/ /\ out[i] = "missing" \/ ~SameFilesystem
        /\ UNCHANGED file
  /\ UNCHANGED <<run, set, main, todo, queue, left, pc, item, out, cancel,
                 consecutive, skipped, batch>>

Arrived(w) == At(w, "move") /\ item[w] \notin moving
              /\ file[item[w]] \in {"good", "bad"}

ToCheck(w) ==
  /\ Arrived(w) /\ set.validate
  /\ GoesOn(w, "move", "check") /\ UNCHANGED out

\* Mutant: the outcome of the check is not looked at.
CheckIgnored(w) == \/ Arrived(w) /\ ~set.validate
                   \/ At(w, "check")

\* A file whose tokens or rows are wrong is only found by the check.
IsSaved(w) == \/ Arrived(w) /\ ~set.validate
              \/ At(w, "check") /\ file[item[w]] = "good"

Success(w) ==
  /\ IsSaved(w)
  /\ Goto(w, "get") /\ item' = [item EXCEPT ![w] = 0]
  /\ consecutive' = IF set.fail THEN consecutive ELSE 0
  /\ UNCHANGED <<run, set, main, todo, queue, left, out, moving, cancel, skipped,
                 batch, file>>

\* The requests of every attempt failed, the lock was not released in time, the
\* move failed, or the check did: the file that was checked stays in place.
MayFail(w) ==
  \/ At(w, "gen")
  \/ At(w, "lock") /\ out[item[w]] = "writing"
  \/ At(w, "move") /\ item[w] \notin moving /\ ~Arrived(w)
  \/ At(w, "check") /\ file[item[w]] # "good"

\* Mutant: only a sample that reaches the threshold is listed.
ListedIfFatal(w) == IF consecutive + 1 >= Threshold THEN skipped \cup {item[w]}
                                                     ELSE skipped

Listed(w) == skipped \cup {item[w]}

Skip(w) ==
  /\ MayFail(w) /\ ~set.fail
  /\ item' = [item EXCEPT ![w] = 0]
  /\ skipped' = Listed(w)
  /\ consecutive' = IF consecutive < Threshold THEN consecutive + 1 ELSE Threshold
  /\ IF consecutive + 1 >= Threshold THEN Goto(w, "dead") /\ cancel' = TRUE
                                     ELSE Goto(w, "get") /\ UNCHANGED cancel
  /\ UNCHANGED <<run, set, main, todo, queue, left, out, moving, batch, file>>

\* The process is gone: what a thread was copying stays as it is.
Die ==
  /\ main' = "killed" /\ moving' = {} /\ item' = [w \in Workers |-> 0]
  /\ pc' = [w \in Workers |-> "cancelled"]
  /\ UNCHANGED <<run, set, todo, queue, left, out, cancel, consecutive, skipped,
                 batch, file>>

\* --fail-on-error: os._exit.
Exit(w) == MayFail(w) /\ set.fail /\ Die

Worker(w) ==
  \/ Get(w) \/ EnterGenerate(w) \/ Generated(w) \/ LockTaken(w) \/ StartMove(w)
  \/ ToCheck(w) \/ Success(w) \/ Skip(w) \/ Exit(w)

-----------------------------------------------------------------------------
(* The environment.                                                        *)

\* The server finishes writing a file and releases its lock, also if the
\* write failed: there may be no file, or one that does not load or match.
ServerWrites(i) ==
  /\ out[i] = "writing"
  /\ \E how \in {"good", "bad", "missing"} : out' = [out EXCEPT ![i] = how]
  /\ UNCHANGED <<run, set, main, todo, queue, left, pc, item, moving, cancel,
                 consecutive, skipped, batch, file>>

Kill == Running /\ Die

Stopped == ~Running /\ (run = MaxRuns \/ Missing(file) = {}) /\ UNCHANGED vars

Next ==
  \/ Start \/ Main \/ (\E w \in Workers : Worker(w))
  \/ (\E i \in Samples : MoveEnds(i) \/ ServerWrites(i))
  \/ Kill \/ Stopped

Spec == Init /\ [][Next]_vars

\* The loop runs every task that is ready, threads finish, the server goes on.
Fairness ==
  /\ WF_vars(Main) /\ \A w \in Workers : WF_vars(Worker(w))
  /\ \A i \in Samples : WF_vars(MoveEnds(i)) /\ WF_vars(ServerWrites(i))
FairSpec == Spec /\ Fairness

-----------------------------------------------------------------------------
(* Properties.                                                             *)

\* Types; the semaphores and the queue keep their sizes.
TypeOK ==
  /\ run \in 0..MaxRuns /\ set \in Settings
  /\ main \in {"feed", "sentinels", "gather", "done", "raised", "killed"}
  /\ todo \in Seq(Samples) /\ queue \in Seq(Samples \cup {Sentinel})
  /\ Len(queue) <= QueueSize /\ left \in 0..Cardinality(Workers)
  /\ pc \in [Workers -> {"get", "sem", "gen", "lock", "wsem", "move", "check"}
                        \cup Ended]
  /\ item \in [Workers -> Samples \cup {0}]
  /\ \A w \in Workers : (item[w] = 0) <=> (pc[w] \in Ended \cup {"get"})
  /\ Inside({"gen"}) <= Concurrency /\ Inside({"move", "check"}) <= Concurrency
  /\ out \in [Samples -> {"none", "writing", "good", "bad", "missing"}]
  /\ moving \subseteq Samples /\ cancel \in BOOLEAN
  /\ consecutive \in 0..Threshold /\ skipped \subseteq batch
  /\ batch \subseteq Samples
  /\ file \in [Samples -> {"absent", "partial", "good", "bad"}]

\* A sample of the run is never in two places: waiting, queued, with one
\* worker, or settled; and none is lost unless the run is being stopped.
Waiting(i)  == \E k \in DOMAIN todo : todo[k] = i
Queued(i)   == \E k \in DOMAIN queue : queue[k] = i
Held(i)     == \E w \in Workers : item[w] = i
Settled(i)  == ~Held(i) /\ (i \in skipped \/ file[i] # "absent")
ConservesSamples ==
  Running =>
    \A i \in batch :
      /\ ~(Waiting(i) /\ Queued(i)) /\ ~(Waiting(i) /\ Held(i))
      /\ ~(Queued(i) /\ Held(i)) /\ ~(Settled(i) /\ (Waiting(i) \/ Queued(i)))
      /\ \A v, w \in Workers : item[v] = i /\ item[w] = i => v = w
      /\ ~cancel => Waiting(i) \/ Queued(i) \/ Held(i) \/ Settled(i)

\* A run that reports success was not stopped by the failure tracker, however
\* the workers that were in flight ended, and it has a file for every sample it
\* does not list as skipped, a good one if it checked them.
DoneIsAccounted ==
  main = "done" =>
    /\ ~cancel
    /\ \A i \in batch \ skipped :
         file[i] \in IF set.validate THEN {"good"} ELSE {"good", "bad"}

\* The server's file is not moved away while the server writes it.
MovesFinishedFiles ==
  \A w \in Workers : pc[w] \in {"wsem", "move"} => out[item[w]] # "writing"

\* A good file is never touched again, by this run or by a later one.
KeepsSaved ==
  [][\A i \in Samples : file[i] = "good" => file'[i] = "good"]_vars

\* A run comes to an end, unless every worker died of a failure while the main
\* coroutine was putting sentinels.
RunEnds ==
  Running ~> \/ ~Running
             \/ main = "sentinels" /\ \A w \in Workers : pc[w] = "dead"

\* The comment on _shutdown_workers: no deadlock on sentinel puts.
SentinelsFit ==
  main = "sentinels" => Room > 0 \/ \E w \in Workers : pc[w] \notin Ended

\* Automatic resumption skips the samples that were completed, only those.
ResumesAfterCompleted ==
  main = "feed" => \A i \in Samples \ batch : file[i] = "good"
=============================================================================
