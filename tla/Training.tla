------------------------------ MODULE Training ------------------------------
(***************************************************************************)
(* Training of the draft model with its checkpoints (speculators           *)
(* train/trainer.py, checkpointer.py, graceful_shutdown.py and the fast    *)
(* skip of distributed_batch_sampler.py).                                  *)
(*                                                                         *)
(* A run trains the epochs one after the other, accumulates the gradients  *)
(* of several batches before it takes an optimizer step, saves checkpoints *)
(* inside and at the end of epochs, and keeps a link to the best one.  It  *)
(* may be killed or interrupted at any point; the next run resumes from    *)
(* the checkpoint with the highest number.                                 *)
(*                                                                         *)
(* The weights of the model are the sequence of the batches that went into *)
(* its optimizer steps; batch n of epoch e (from 0) is e * NumSteps + n.   *)
(* Ranks run in lock step and rank 0 alone writes: one process stands for  *)
(* all of them.                                                            *)
(***************************************************************************)
EXTENDS Integers, Sequences, FiniteSets

CONSTANTS
  NumEpochs,  \* config.num_epochs
  NumSteps,   \* batches of an epoch
  Settings,   \* the command lines to consider, see SettingsAreLegal
  Losses,     \* values of the validation loss
  MaxRuns     \* bound: how often training is started

\* accum: grad_accum_steps; interval: step_interval, 0 for a checkpoint_freq of
\* at least 1, which is then `freq`; best: save_best; torn: whether the process
\* may die between the first and the last write of a save.
ASSUME SettingsAreLegal ==
  /\ NumEpochs \in Nat \ {0} /\ NumSteps \in Nat \ {0} /\ MaxRuns \in Nat
  /\ Losses \subseteq Nat /\ Losses # {} /\ IsFiniteSet(Losses)
  /\ Settings \subseteq [accum : Nat \ {0}, interval : 0..NumSteps,
                         freq : Nat \ {0}, best : BOOLEAN, torn : BOOLEAN]

VARIABLES
  set,        \* the settings of all the runs
  run,        \* how often training was started
  pc,         \* "down" "batch" "endsave" "best" "interrupt" "finished" "failed"
  epoch,      \* the epoch being trained
  step,       \* local_step: batches of the epoch that are over
  skip,       \* skip_steps: those of them an earlier run has trained
  weights,    \* batches that went into optimizer steps
  grads,      \* batches whose gradients are accumulated
  bestLoss,   \* best_val_loss, Infinite if there is none
  plan,       \* what is left of the save in progress, a sequence of operations
  dirs,       \* checkpoint directory -> file -> content
  best,       \* target of checkpoint_best, NoLink if there is none
  validated,  \* history: loss of every epoch that could become the best
  savedAt     \* history: position of the last save that was completed

memory == <<epoch, step, skip, weights, grads, bestLoss>>
disk   == <<dirs, best>>
vars   == <<set, run, pc, memory, plan, disk, validated, savedAt>>

Epochs      == 0..(NumEpochs - 1)
Interrupted == NumEpochs        \* the directory "interrupted"
Infinite    == 1 + CHOOSE m \in Losses : \A l \in Losses : l <= m
NoLink      == -1
Absent      == <<-1>>
Partial     == <<-2>>
Files       == {"model", "opt", "sched", "state", "val"}
EmptyDir    == [f \in Files |-> Absent]
Batches     == 1..(NumEpochs * NumSteps)
With(f, x, v) == [k \in DOMAIN f \cup {x} |-> IF k = x THEN v ELSE f[k]]
Dir(d)      == IF d \in DOMAIN dirs THEN dirs[d] ELSE EmptyDir

Init ==
  /\ set \in Settings /\ run = 0 /\ pc = "down"
  /\ epoch = 0 /\ step = 0 /\ skip = 0 /\ weights = <<>> /\ grads = <<>>
  /\ bestLoss = Infinite /\ plan = <<>>
  /\ dirs = [d \in {} |-> EmptyDir] /\ best = NoLink
  /\ validated = [e \in {} |-> 0] /\ savedAt = 0

-----------------------------------------------------------------------------
(* Saving.  A plan is the sequence of the operations on the checkpoint     *)
(* directory that one save consists of.  A file's content is a sequence.   *)

\* A write truncates the file, then fills it.
Write(d, f, content) ==
  <<[op |-> "write", dir |-> d, file |-> f, to |-> Partial],
    [op |-> "write", dir |-> d, file |-> f, to |-> content]>>

\* save_checkpoint and save_scheduler_state_dict.
SaveCheckpoint(d, w) ==
  Write(d, "model", w) \o Write(d, "opt", w) \o Write(d, "sched", w)

\* maybe_save_checkpoint: the position in the epoch, 0 for its end, comes last.
SaveAt(local, w) ==
  SaveCheckpoint(epoch, w) \o Write(epoch, "state", <<local>>)
  \o <<[op |-> "saved",
        at |-> epoch * NumSteps + IF local = 0 THEN NumSteps ELSE local]>>

\* An epoch is left to maybe_update_best, or to the next multiple of the
\* frequency.
SavesEpoch == ~set.best /\ (set.interval > 0 \/ epoch = 0 \/ (epoch + 1) % set.freq = 0)

\* save_val_metrics and update_best_symlink.
UpdateBest(loss) ==
  Write(epoch, "val", <<loss>>) \o <<[op |-> "link", to |-> NoLink],
                                     [op |-> "link", to |-> epoch]>>

SaveBest == SaveCheckpoint(epoch, weights)
            \o <<[op |-> "saved", at |-> (epoch + 1) * NumSteps]>>
Cleanup  == <<[op |-> "cleanup", keep |-> epoch]>>

\* Mutant: the link is set before the save.
LinkFirst(loss) == UpdateBest(loss) \o SaveBest \o Cleanup

\* --save-best: the checkpoint of a better epoch replaces all others.
ReplaceBest(loss) == SaveBest \o UpdateBest(loss) \o Cleanup

WriteFile(o) ==
  /\ o.op = "write"
  /\ dirs' = With(dirs, o.dir, [Dir(o.dir) EXCEPT ![o.file] = o.to])
  /\ plan' = Tail(plan) /\ UNCHANGED <<best, savedAt>>

SetLink(o) ==
  /\ o.op = "link"
  /\ best' = o.to /\ plan' = Tail(plan) /\ UNCHANGED <<dirs, savedAt>>

\* cleanup_keep_only_best, one directory at a time.
RemoveOthers(o) ==
  LET others == DOMAIN dirs \ {o.keep}
  IN  /\ o.op = "cleanup"
      /\ \/ \E gone \in others :
              dirs' = [d \in DOMAIN dirs \ {gone} |-> dirs[d]] /\ UNCHANGED plan
         \/ others = {} /\ plan' = Tail(plan) /\ UNCHANGED dirs
      /\ UNCHANGED <<best, savedAt>>

Saved(o) ==
  /\ o.op = "saved"
  /\ savedAt' = o.at /\ plan' = Tail(plan) /\ UNCHANGED disk

Operation ==
  /\ plan # <<>>
  /\ LET o == Head(plan) IN WriteFile(o) \/ SetLink(o) \/ RemoveOthers(o) \/ Saved(o)
  /\ UNCHANGED <<set, run, pc, memory, validated>>

-----------------------------------------------------------------------------
(* Starting a run.                                                         *)

\* _get_previous_epoch: the directory "interrupted" and links do not count.
Numbered == DOMAIN dirs \cap Epochs
Previous == CHOOSE e \in Numbered : \A d \in Numbered : d <= e

\* What loading reads without a fallback; a missing scheduler is left out.
IsWhole(d) == /\ {dirs[d].model, dirs[d].opt} \cap {Absent, Partial} = {}
              /\ dirs[d].sched # Partial

\* Mutant: a resumed epoch starts from its first batch.
StartOfEpoch == 0

\* A state that is missing or cut short counts as the end of the epoch.
MidEpoch   == dirs[Previous].state \in {<<n>> : n \in 1..NumSteps}
ResumeStep == IF MidEpoch THEN dirs[Previous].state[1] ELSE 0

\* Mutant: the loss of the best checkpoint is forgotten.
ForgottenLoss == Infinite

\* load_best_val_loss
RestoredLoss ==
  IF best # NoLink /\ Dir(best).val \in {<<l>> : l \in Losses}
  THEN Dir(best).val[1] ELSE Infinite

StartFresh ==
  /\ Numbered = {}
  /\ epoch' = 0 /\ step' = 0 /\ skip' = 0 /\ weights' = <<>> /\ bestLoss' = Infinite
  /\ pc' = "batch"

StartResumed ==
  /\ Numbered # {} /\ IsWhole(Previous)
  /\ epoch' = IF MidEpoch THEN Previous ELSE Previous + 1
  /\ step' = ResumeStep /\ skip' = ResumeStep
  /\ weights' = dirs[Previous].model /\ bestLoss' = RestoredLoss
  /\ pc' = IF epoch' = NumEpochs THEN "finished" ELSE "batch"

\* Loading the checkpoint raises.
StartFails ==
  /\ Numbered # {} /\ ~IsWhole(Previous)
  /\ pc' = "failed" /\ UNCHANGED <<epoch, step, skip, weights, bestLoss>>

Start ==
  /\ pc \in {"down", "finished"} /\ run < MaxRuns
  /\ run' = run + 1 /\ grads' = <<>>
  /\ StartFresh \/ StartResumed \/ StartFails
  /\ UNCHANGED <<set, plan, disk, validated, savedAt>>

-----------------------------------------------------------------------------
(* Training.                                                               *)

\* Mutant: the start of a window as the docstring warns not to write it.
WindowStartModulo(rel) == rel % set.accum = 1

\* Mutant: the trailing window of an epoch is dropped.
WindowEndUnflushed(rel) == rel % set.accum = 0

\* _accum_window_bounds; the caller passes the position in the batches that
\* this run trains.
WindowStart(rel) == (rel - 1) % set.accum = 0
WindowEnd(rel)   == rel % set.accum = 0 \/ rel = NumSteps

\* No save back to back with the one at the end of the epoch.
SavesStep(local) == /\ set.interval > 0 /\ ~set.best
                    /\ local % set.interval = 0
                    /\ 4 * (NumSteps - local) >= set.interval

\* One batch: backward, an optimizer step at the end of a window, and a
\* checkpoint if one is due.  Gradients are zeroed when the next window starts.
TrainBatch ==
  LET rel   == step - skip + 1
      local == step + 1
      acc   == Append(IF WindowStart(rel) THEN <<>> ELSE grads, epoch * NumSteps + local)
  IN  /\ pc = "batch" /\ plan = <<>> /\ step < NumSteps
      /\ grads' = acc
      /\ weights' = IF WindowEnd(rel) THEN weights \o acc ELSE weights
      /\ step' = local
      /\ plan' = IF SavesStep(local) THEN SaveAt(local, weights') ELSE <<>>
      /\ UNCHANGED <<set, run, pc, epoch, skip, bestLoss, disk, validated, savedAt>>

EndEpoch ==
  /\ pc = "batch" /\ plan = <<>> /\ step = NumSteps
  /\ pc' = "endsave"
  /\ plan' = IF SavesEpoch THEN SaveAt(0, weights) ELSE <<>>
  /\ UNCHANGED <<set, run, memory, disk, validated, savedAt>>

\* val_epoch and maybe_update_best.
Validate ==
  /\ pc = "endsave" /\ plan = <<>>
  /\ pc' = "best"
  /\ \E loss \in Losses :
       LET candidate == set.best \/ SavesEpoch
           better    == candidate /\ loss < bestLoss
       IN  /\ validated' = IF candidate THEN With(validated, epoch, loss) ELSE validated
           /\ bestLoss' = IF better THEN loss ELSE bestLoss
           /\ plan' = IF ~better THEN <<>>
                      ELSE IF set.best THEN ReplaceBest(loss) ELSE UpdateBest(loss)
  /\ UNCHANGED <<set, run, epoch, step, skip, weights, grads, disk, savedAt>>

NextEpoch ==
  /\ pc = "best" /\ plan = <<>>
  /\ epoch' = epoch + 1
  /\ pc' = IF epoch' = NumEpochs THEN "finished" ELSE "batch"
  /\ step' = 0 /\ skip' = 0
  /\ UNCHANGED <<set, run, weights, grads, bestLoss, plan, disk, validated, savedAt>>

-----------------------------------------------------------------------------
(* Signals and crashes.                                                    *)

\* TrainingInterruptedError leaves run_training, and a save if one is going
\* on; then the weights are saved under "interrupted", without a state.
Interrupt ==
  /\ pc \in {"batch", "endsave", "best"} /\ (plan = <<>> \/ set.torn)
  /\ pc' = "interrupt" /\ plan' = SaveCheckpoint(Interrupted, weights)
  /\ UNCHANGED <<set, run, memory, disk, validated, savedAt>>

Stop == /\ pc = "interrupt" /\ plan = <<>>
        /\ pc' = "down"
        /\ UNCHANGED <<set, run, memory, plan, disk, validated, savedAt>>

\* A crash, a second signal, or the watchdog of the interrupt's save.
Kill ==
  /\ pc \in {"batch", "endsave", "best", "interrupt"} /\ (plan = <<>> \/ set.torn)
  /\ pc' = "down" /\ plan' = <<>>
  /\ UNCHANGED <<set, run, memory, disk, validated, savedAt>>

Over == /\ pc = "failed" \/ (pc \in {"down", "finished"} /\ run = MaxRuns)
        /\ UNCHANGED vars

Next == \/ Start \/ TrainBatch \/ EndEpoch \/ Validate \/ NextEpoch
        \/ Operation \/ Interrupt \/ Stop \/ Kill \/ Over

Spec == Init /\ [][Next]_vars

-----------------------------------------------------------------------------
(* Properties                                                              *)

Content == {Absent, Partial} \cup Seq(Nat)

\* The variables have their types.  A window never holds more batches than it
\* accumulates, so gradients are zeroed in time also if accum is 1.
TypeOK ==
  /\ set \in Settings /\ run \in 0..MaxRuns
  /\ pc \in {"down", "batch", "endsave", "best", "interrupt", "finished", "failed"}
  /\ epoch \in 0..NumEpochs /\ step \in 0..NumSteps /\ skip \in 0..step
  /\ weights \in Seq(Batches) /\ grads \in Seq(Batches) /\ Len(grads) <= set.accum
  /\ bestLoss \in Losses \cup {Infinite}
  /\ DOMAIN dirs \subseteq Epochs \cup {Interrupted}
  /\ \A d \in DOMAIN dirs : dirs[d] \in [Files -> Content]
  /\ best \in Epochs \cup {NoLink}
  /\ \A i \in DOMAIN plan : plan[i].op \in {"write", "link", "cleanup", "saved"}
  /\ DOMAIN validated \subseteq Epochs /\ savedAt \in 0..(NumEpochs * NumSteps)

\* The end of an epoch: every batch so far went into the weights once and in
\* order, also across restarts (train_epoch, _prepare_resume_skip and the
\* checkpoint it resumes from).  It needs windows that divide an epoch and the
\* interval of the checkpoints in it, and saves that are not cut short.
TrainedOnce ==
  ~set.torn /\ pc = "endsave" => weights = [i \in 1..((epoch + 1) * NumSteps) |-> i]

\* checkpoint_best always leads to a checkpoint that can be loaded, wherever
\* the process dies (maybe_update_best, update_best_symlink).
BestIsComplete == best # NoLink => best \in Numbered /\ IsWhole(best)

\* Between saves checkpoint_best leads to the epoch with the lowest loss of all
\* that were saved and validated, in this run or an earlier one
\* (maybe_update_best, load_best_val_loss).
BestIsLowest ==
  ~set.torn /\ plan = <<>> =>
    /\ (best = NoLink) = (DOMAIN validated = {})
    /\ \A e \in DOMAIN validated : validated[best] <= validated[e]

\* Without checkpoints inside of epochs, a directory is never written twice in
\* a way that leaves nothing to resume from: once a checkpoint was completed, one
\* that can be loaded exists, wherever the process dies (maybe_update_best,
\* cleanup_keep_only_best).
NeverWithoutCheckpoint ==
  set.interval = 0 /\ savedAt > 0 => \E d \in Numbered : IsWhole(d)

\* What a later run or a user needs is there at every moment of a save.
AlwaysLoadable == BestIsComplete /\ NeverWithoutCheckpoint

\* A run goes on exactly where the last completed save was made
\* (setup_trainer, _load_training_state).
ResumesWhereSaved ==
  [][run' # run /\ ~set.torn => epoch' * NumSteps + step' = savedAt]_vars

\* The promise of _accum_window_bounds: the last batches of an epoch are
\* flushed into the weights, instead of dropped.
EpochIsFlushed ==
  pc = "endsave" => \E i \in 1..Len(weights) : weights[i] = (epoch + 1) * NumSteps
=============================================================================
