------------------------- MODULE DistributedTraining -------------------------
(***************************************************************************)
(* One epoch of training on several ranks, and Ctrl+C during it            *)
(* (speculators train/trainer.py run_training, checkpointer.py             *)
(* DistributedCheckpointer, graceful_shutdown.py), with sharded weights.   *)
(*                                                                         *)
(* The ranks meet in collective operations only: the n-th call of a rank   *)
(* is matched with the n-th calls of the others.  A rank that gets a       *)
(* signal leaves its program between any two of its steps and saves a      *)
(* checkpoint, which is a collective operation again.                      *)
(***************************************************************************)
EXTENDS BatchSampler

CONSTANTS
  Datasets,   \* the shuffled lengths to consider
  MaxPresses  \* bound: how often Ctrl+C is pressed

ASSUME DatasetsAreLegal ==
  /\ Datasets \subseteq Seq(Nat \ {0}) /\ MaxPresses \in Nat

VARIABLES
  lengths,     \* the data set of this run; <<>> once the batches are counted
  batches,     \* rank -> its batches; <<>> once they are counted
  program,     \* rank -> what is left of its program
  calls,       \* rank -> its collective calls, [kind, steps] (history)
  done,        \* number of collective operations that are complete
  steps,       \* rank -> optimizer steps of its shard of the weights
  status,      \* rank -> "loading" "training" "caught" "saving" "ended"
               \*         "killed" (by a signal) "exited" (by the watchdog)
  handler,     \* rank -> "none" "graceful" "default"
  holding,     \* rank -> it is in the handler and holds its lock
  stuck,       \* rank -> it waits for a lock that it holds itself
  interrupted, \* rank -> _interrupted
  timer,       \* rank -> the watchdog is running
  pending,     \* rank -> a signal waits for the interpreter
  presses,     \* how often Ctrl+C was pressed
  resent,      \* rank -> torchrun has passed on the last Ctrl+C
  disk         \* checkpoint -> steps of every shard in it

share   == <<lengths, batches>>
machine == <<program, calls, done, steps, disk>>
signals == <<handler, holding, stuck, interrupted, timer, pending, presses, resent>>
vars    == <<share, machine, status, signals>>

Collective == {"batch", "barrier", "gather"}
Absent     == <<>>

\* DistributedCheckpointer.save_checkpoint: the shards are gathered (those of
\* the weights and of the optimizer in one call here), rank 0 writes, all wait.
SaveCheckpoint(label) ==
  <<"gather">> \o <<label>> \o <<"barrier">>

Repeat(s, n) == FlattenSeq([i \in 1..n |-> s])

\* Mutant: a rank that is through with its batches saves at once.
RunTrainingUnsynchronised(n) ==
  Repeat(<<"batch", "update">>, n) \o SaveCheckpoint("epoch")
  \o <<"barrier", "barrier", "barrier">>

\* train_epoch and the rest of the loop of run_training, for n batches.
RunTraining(n) ==
  Repeat(<<"batch", "update">>, n) \o <<"barrier">> \o SaveCheckpoint("epoch")
  \o <<"barrier", "barrier", "barrier">>

Init ==
  /\ lengths \in Datasets
  /\ batches = [r \in Ranks |-> AssignToPackedBatches(lengths, r)]
  /\ program = [r \in Ranks |-> <<>>] /\ calls = [r \in Ranks |-> <<>>] /\ done = 0
  /\ steps = [r \in Ranks |-> 0]
  /\ status = [r \in Ranks |-> "loading"]
  /\ handler = [r \in Ranks |-> "none"] /\ holding = [r \in Ranks |-> FALSE]
  /\ stuck = [r \in Ranks |-> FALSE] /\ interrupted = [r \in Ranks |-> FALSE]
  /\ timer = [r \in Ranks |-> FALSE] /\ pending = [r \in Ranks |-> FALSE]
  /\ presses = 0 /\ resent = [r \in Ranks |-> TRUE]
  /\ disk = [c \in {"epoch", "interrupted"} |-> Absent]

Alive(r) == status[r] \in {"training", "caught", "saving"}

\* The main thread is in its program, not in the handler.
Runs(r) == status[r] \in {"training", "saving"} /\ ~holding[r]

\* Barriers and gathers wait; the batches only queue work for the device.
Waits(r) ==
  /\ calls[r] # <<>> /\ Last(calls[r]).kind # "batch"
  /\ done < Len(calls[r])

-----------------------------------------------------------------------------
(* The program of a rank.                                                  *)

\* run_training is called, with the handler installed, on all ranks.
Start ==
  /\ \A r \in Ranks : status[r] = "loading"
  /\ program' = [r \in Ranks |-> RunTraining(Len(batches[r]))]
  /\ status' = [r \in Ranks |-> "training"]
  /\ handler' = [r \in Ranks |-> "graceful"]
  /\ lengths' = <<>> /\ batches' = [r \in Ranks |-> <<>>]
  /\ UNCHANGED <<calls, done, steps, disk, holding, stuck, interrupted, timer, pending,
                 presses, resent>>

\* The rank is at this operation of its program, and may go past it.
Takes(r, op) ==
  /\ Runs(r) /\ ~Waits(r)
  /\ program[r] # <<>> /\ Head(program[r]) = op
  /\ program' = [program EXCEPT ![r] = Tail(@)]
  /\ UNCHANGED <<share, done, status, signals>>

Call(r) ==
  \E kind \in Collective :
    /\ Takes(r, kind)
    /\ calls' = [calls EXCEPT ![r] = Append(@, [kind |-> kind, steps |-> steps[r]])]
    /\ UNCHANGED <<steps, disk>>

\* The n-th calls of all ranks are made and are of the same kind.
Complete ==
  /\ \A r \in Ranks : status[r] \notin {"killed", "exited"} /\ Len(calls[r]) > done
  /\ \A r, s \in Ranks : calls[r][done + 1].kind = calls[s][done + 1].kind
  /\ done' = done + 1
  /\ UNCHANGED <<share, program, calls, steps, disk, status, signals>>

OptimizerStep(r) ==
  /\ Takes(r, "update")
  /\ steps' = [steps EXCEPT ![r] = @ + 1]
  /\ UNCHANGED <<calls, disk>>

\* Rank 0 writes what was gathered in its last call.
WriteCheckpoint(r) ==
  \E label \in {"epoch", "interrupted"} :
    /\ Takes(r, label)
    /\ disk' = IF r = 0
               THEN [disk EXCEPT ![label] = [s \in Ranks |-> calls[s][Len(calls[0])].steps]]
               ELSE disk
    /\ UNCHANGED <<calls, steps>>

\* run_training returns, or the wrapper after its save; the timer is cancelled.
Return(r) ==
  /\ Runs(r) /\ ~Waits(r) /\ program[r] = <<>>
  /\ status' = [status EXCEPT ![r] = "ended"]
  /\ timer' = [timer EXCEPT ![r] = FALSE]
  /\ UNCHANGED <<share, machine, handler, holding, stuck, interrupted, pending, presses, resent>>

-----------------------------------------------------------------------------
(* Signals.                                                                *)

\* Ctrl+C reaches the whole process group; the earlier one was passed on.
Press ==
  /\ presses < MaxPresses /\ \A r \in Ranks : status[r] # "loading"
  /\ \E r \in Ranks : Alive(r)
  /\ presses' = presses + 1
  /\ pending' = [r \in Ranks |-> pending[r] \/ Alive(r)]
  /\ resent' = [r \in Ranks |-> FALSE]
  /\ UNCHANGED <<share, machine, status, handler, holding, stuck, interrupted, timer>>

\* torchrun passes it on to every child once more.
Resend(r) ==
  /\ ~resent[r]
  /\ resent' = [resent EXCEPT ![r] = TRUE]
  /\ pending' = [pending EXCEPT ![r] = @ \/ Alive(r)]
  /\ UNCHANGED <<share, machine, status, handler, holding, stuck, interrupted, timer, presses>>

\* The interpreter runs _handler, which takes its lock.  A signal that comes
\* while the handler runs starts it again on top of itself.
Deliver(r) ==
  /\ Alive(r) /\ pending[r] /\ handler[r] = "graceful" /\ ~stuck[r]
  /\ pending' = [pending EXCEPT ![r] = FALSE]
  /\ stuck' = [stuck EXCEPT ![r] = holding[r]]
  /\ holding' = [holding EXCEPT ![r] = TRUE]
  /\ UNCHANGED <<share, machine, status, handler, interrupted, timer, presses, resent>>

\* The handlers from before are back: the process ends.
DeliverDefault(r) ==
  /\ Alive(r) /\ pending[r] /\ handler[r] = "default"
  /\ pending' = [pending EXCEPT ![r] = FALSE]
  /\ status' = [status EXCEPT ![r] = "killed"]
  /\ timer' = [timer EXCEPT ![r] = FALSE]
  /\ UNCHANGED <<share, machine, handler, holding, stuck, interrupted, presses, resent>>

\* The end of _handler: the first time TrainingInterruptedError unwinds to the
\* wrapper, afterwards the program goes on where it was.
Handle(r) ==
  /\ holding[r] /\ ~stuck[r]
  /\ holding' = [holding EXCEPT ![r] = FALSE]
  /\ interrupted' = [interrupted EXCEPT ![r] = TRUE]
  /\ status' = IF interrupted[r] THEN status ELSE [status EXCEPT ![r] = "caught"]
  /\ UNCHANGED <<share, machine, handler, stuck, timer, pending, presses, resent>>

\* Mutant: the save comes without the watchdog.
CatchWithoutTimer(r) ==
  /\ status[r] = "caught" /\ ~holding[r]
  /\ status' = [status EXCEPT ![r] = "saving"]
  /\ handler' = [handler EXCEPT ![r] = "default"]
  /\ program' = [program EXCEPT ![r] = SaveCheckpoint("interrupted")]
  /\ UNCHANGED <<share, calls, done, steps, disk, timer, holding, stuck, interrupted, pending,
                 presses, resent>>

\* The wrapper's except clause: handlers are restored, the watchdog starts,
\* and what is left of the program is given up for the save.
Catch(r) ==
  /\ status[r] = "caught" /\ ~holding[r]
  /\ status' = [status EXCEPT ![r] = "saving"]
  /\ handler' = [handler EXCEPT ![r] = "default"]
  /\ timer' = [timer EXCEPT ![r] = TRUE]
  /\ program' = [program EXCEPT ![r] = SaveCheckpoint("interrupted")]
  /\ UNCHANGED <<share, calls, done, steps, disk, holding, stuck, interrupted, pending,
                 presses, resent>>

\* _watchdog: os._exit(1)
Watchdog(r) ==
  /\ timer[r] /\ status[r] = "saving"
  /\ timer' = [timer EXCEPT ![r] = FALSE]
  /\ status' = [status EXCEPT ![r] = "exited"]
  /\ UNCHANGED <<share, machine, handler, holding, stuck, interrupted, pending, presses, resent>>

Next == \/ Start \/ Complete \/ Press
        \/ \E r \in Ranks :
             \/ Call(r) \/ OptimizerStep(r) \/ WriteCheckpoint(r) \/ Return(r)
             \/ Resend(r) \/ Deliver(r) \/ DeliverDefault(r) \/ Handle(r) \/ Catch(r)
             \/ Watchdog(r)

\* A rank goes on unless it waits, a handler runs to its end, and the timer
\* fires.  Whether a signal gets through to a rank that waits in a collective
\* operation is left open, and nobody needs to press Ctrl+C.
Fairness ==
  /\ WF_vars(Start) /\ WF_vars(Complete)
  /\ \A r \in Ranks :
       /\ WF_vars(Call(r) \/ OptimizerStep(r) \/ WriteCheckpoint(r) \/ Return(r))
       /\ WF_vars(Handle(r)) /\ WF_vars(Catch(r)) /\ WF_vars(Watchdog(r))

Spec     == Init /\ [][Next]_vars
FairSpec == Spec /\ Fairness

-----------------------------------------------------------------------------
(* Properties                                                              *)

\* The variables have their types; a rank in its handler is alive, and one
\* whose watchdog runs is saving.
TypeOK ==
  /\ lengths \in Datasets \cup {<<>>}
  /\ \A r \in Ranks :
       /\ Range(calls[r]) \subseteq [kind : Collective, steps : Nat]
       /\ status[r] \in {"loading", "training", "caught", "saving", "ended",
                      "killed", "exited"}
       /\ handler[r] \in {"none", "graceful", "default"}
       /\ stuck[r] => holding[r]
       /\ holding[r] => Alive(r)
       /\ timer[r] => status[r] = "saving" /\ handler[r] = "default"
  /\ done \in Nat /\ presses \in 0..MaxPresses

\* The samples of a batch, as places in the data set.
Sum(batch) == FoldSeq(LAMBDA i, t : Truncated(lengths)[i] + t, 0, batch)

\* The ranks' batches fit together, although every rank computed its own:
\* the same number on every rank, none of them missing or empty, none longer
\* than a batch may be, no sample twice, and fewer samples dropped than there
\* are ranks (_assign_to_packed_batches).
SharesFitTogether ==
  lengths # <<>> =>
    LET all   == [r \in Ranks |-> FlattenSeq(batches[r])]
        count == FoldFunction(LAMBDA s, n : Len(s) + n, 0, all)
    IN  /\ \A r, s \in Ranks : Len(batches[r]) = Len(batches[s])
        /\ \A r \in Ranks : \A i \in DOMAIN batches[r] :
             batches[r][i] \notin {NoBatch, <<>>} /\ Sum(batches[r][i]) <= MaxLen
        /\ UNION {Range(all[r]) : r \in Ranks} = 1..count
        /\ Len(lengths) - count < Replicas

\* The checkpoint of an epoch holds every shard after the epoch's last step,
\* also if some ranks were interrupted and gathered for a checkpoint of their
\* own (run_training's barriers, save_checkpoint).
EpochIsWhole ==
  disk["epoch"] # Absent =>
    \A r, s \in Ranks : disk["epoch"][r] = disk["epoch"][s] /\ disk["epoch"][r] = steps[r]

\* Saves are whole, and the ranks and their handlers in order.
Safe == TypeOK /\ EpochIsWhole

\* What the module's text says of the signals torchrun sends again after one
\* Ctrl+C: they are ignored, so that the rank goes on to save.
ResendsAreIgnored ==
  presses = 1 => \A r \in Ranks : ~stuck[r] /\ status[r] # "killed"

\* Without Ctrl+C every rank comes to the end of the epoch: no rank makes a
\* collective call that another one does not make.
EpochEnds == [](presses = 0) => <>(\A r \in Ranks : status[r] = "ended")

\* A rank that was interrupted ends, whatever the others do: it does not wait
\* for ever in a collective save that they never join (the watchdog).
InterruptedEnds ==
  \A r \in Ranks :
    status[r] = "caught" /\ ~holding[r]
      ~> status[r] \in {"ended", "killed", "exited"} \/ stuck[r]
=============================================================================
