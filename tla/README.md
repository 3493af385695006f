# A verification development for dream-aifd

dream-aifd trains draft models for speculative decoding. A vLLM server runs a
target model over the training prompts and writes the hidden states of some of
its layers to files; a script collects the files; a trainer learns the draft
model from them. The project's own addition (AIFD) selects one more layer for
every prompt by the entropy of its attention, and appends it as one more channel.

This directory holds TLA+ models of the parts of that path in which order, state
and failure matter, the TLC configurations that check them, and proofs for TLAPS.

## 1. Inventory

| part | state | operations | interacts with | what makes it correct |
| --- | --- | --- | --- | --- |
| AIFD layer selection (`aifd.py`) | `_STATE`: candidates, outputs and entropies of the forward, segment lengths, `emitted`; `_DBG` counters | `enable_aifd`, `_attn_hook`, `note_layer_and_maybe_emit`, `_select_layers`, `reset` | called by the layer loop of `qwen2.py`; feeds the proposer's buffer | one channel more on every path; it comes last; it holds the layer with the smallest score of this forward |
| hidden-states connector (`example_hidden_states_connector.py`) | scheduler side: file names, pending saves; worker side: copy events, accumulated ids, lock descriptors, futures | `build_connector_meta`, `request_finished`, `wait_for_save`, `get_finished`, `_submit_async_write`, `_write_tensors`; the client's `load_hidden_states` | scheduler, worker, copy stream, writer threads, clients through files and `flock` | blocks are kept until copied and then released; a file has the rows of its request, all of them; a path is under a lock until the file is there |
| engine core and scheduler | requests, block tables, free blocks, steps in flight | `add_request`, `schedule`, `update_from_output`, `finish_requests`, `_free_blocks` | calls the connector; batch queue to the worker | survives every abort; no block is lost or shared |
| offline generation (`data_generation_offline.py`, `offline.py`, `vllm_client.py`) | queue, two semaphores, cancel event, failure count, skipped list; the files | feeder, workers, shutdown, resumption | server (HTTP, lock files), disk | no sample is lost or done twice; success means accounted for; the run ends |
| trainer (`trainer.py`, `checkpointer.py`, `graceful_shutdown.py`) | epoch, step, gradients, best loss; checkpoint directories, link to the best | `train_epoch`, `maybe_save_checkpoint`, `maybe_update_best`, `setup_trainer`, signal handler | sampler, disk | every batch is trained once across restarts; the best checkpoint is the best and can be loaded |
| message queue (`shm_broadcast.py`) | ring of chunks with a written flag and a flag per reader, two sockets, `shutting_down` | `acquire_write`, `acquire_read`, `enqueue`, `dequeue`, `notify`, `wait`, `shutdown` | executor and workers, across processes, without a lock | every reader gets every message, whole and in order; an idle reader is woken; a reader can be shut down |
| multiprocess executor (`multiproc_executor.py`) | futures in flight, response queues, `is_failed`; worker side: pending outputs | `collective_rpc`, `FutureWrapper.result`, `worker_busy_loop`, `async_output_busy_loop`, `monitor_workers`, `shutdown` | engine's loop, message queues, monitor thread | a result is the workers' answer to this call; failures surface; waiting ends when a worker dies |
| KV cache manager and block pool (`v1/core`) | reference counts, linked free list, hashes, map of cached blocks, tables of the requests | `get_computed_blocks`, `allocate_slots`, `free`, `reset_prefix_cache` | scheduler; the worker fills the blocks later | the four views of a block agree; a hit holds the request's own prefix; eviction order |
| batch sampler (`distributed_batch_sampler.py`) | cached batches of an epoch | packing of lengths, slice at a resumed step | trainer, all ranks, which do not talk | same number of batches on every rank, every sample at most once |
| ranks and signals (`trainer.py`, `checkpointer.py`, `graceful_shutdown.py`) | collective calls, signal handlers, watchdog | `run_training`, sharded `save_checkpoint`, `_handler`, `with_graceful_shutdown` | one another by collective operations; torchrun | the epoch ends; its checkpoint is whole; an interrupted rank ends |
| data set and on-line generation | cached files, client | `__getitem__`, `_maybe_generate_hs` | server, loader processes | a sample is the prompt's own, or is left out |
| response regeneration | rows done, error file | asynchronous workers, `--resume` | server, output file | a conversation is written once, whole |
| draft models, conversion, preparation, evaluation | none that outlives a call | tensor and text transformations | | arithmetic |
| rest of vLLM and vLLM-Ascend | | | | not particular to this project |

The behaviours that are hard here: steps overlap (asynchronous scheduling keeps two
in flight, and the scheduler's view runs ahead of the worker's); blocks are
released by a poll, a step or more after the request ended; one process hands out a
path that another one locks and a third one reads; hooks may fail one by one and
are swallowed; one event loop runs a feeder, workers and their cancellation
while threads go on; and a trainer may die between any two writes. Below the
connector, a queue in shared memory has no lock and relies on the order of
stores; replies carry no call number while several calls are in flight; blocks are
cached under a prefix before they are computed; and ranks match their collective
operations by order only, also when some of them were interrupted.
`PROJECT.json` lists each of these as a hazard, with its line and the properties
that are about it.

## 2. Modules

| module | models | checked by |
| --- | --- | --- |
| `AifdHook` | one server's layer selection, over forward passes | `MCAifdHook` |
| `AifdHookProofs` | theorems about `AifdHook` | tlapm |
| `MessageQueueProofs`, `HiddenStatesProofs`, `OfflineProofs`, `TrainingProofs`, `ExecutorProofs`, `DistributedTrainingProofs`, `PrefixCacheProofs` | theorems about `MessageQueue`, `HiddenStatesConnector`, `OfflineGeneration`, `Training`, `Executor`, `DistributedTraining` with `BatchSampler`, and `PrefixCache` with `BlockPool` and `FreeBlockQueue` | tlapm |
| `HandOff` | what the connector promises, without queues, copies, threads and locks | refined by `HiddenStatesConnector` |
| `HiddenStatesConnector` | connector with the scheduler, the worker, the writers and clients | `MCHiddenStates` |
| `OfflineGeneration` | the generation script and its restarts | `MCOfflineGeneration` |
| `Training` | the trainer, its checkpoints and its restarts | `MCTraining` |
| `Broadcast` | what a message queue promises: every message to every reader, in order, within a window | refined by `MessageQueue`, used by `Executor` |
| `MessageQueue` | the ring in shared memory, its flags, fences and sockets | `MCMessageQueue` |
| `Executor` | remote calls of the engine on its workers, over `Broadcast` | `MCExecutor` |
| `FreeBlockQueue` | the linked list of free blocks, as operators on records | through `PrefixCache` |
| `BlockPool` | the pool and the prefix cache's map, as operators on records | through `PrefixCache` |
| `PrefixCache` | the scheduler over the pool, and the worker that fills blocks later | `MCPrefixCache` |
| `BatchSampler` | the batches of one epoch, as functions of rank and lengths | through `DistributedTraining` |
| `DistributedTraining` | the ranks of one epoch, their collective operations, signals and watchdogs | `MCDistributedTraining` |

`HiddenStatesConnector` composes scheduler side, worker side, writer threads and
clients in one module, because they share dictionaries and files. The modules
meet at the interfaces of the program: the channels that `AifdHook` hands over
become the rows of `HiddenStatesConnector`; its `client` is one worker of
`OfflineGeneration`, which sees the server as a file that is being written
under a lock; `Executor` uses the queue that `MessageQueue` is shown to implement;
the blocks that `PrefixCache` fills and releases are those the connector copies, seen
there without their prefixes; and `DistributedTraining` takes apart the ranks that
`Training` runs in lock step.

### AifdHook

The layer loop is a program counter. `LayerDone` ends a layer, `AttnHook` runs (or
skips, or fails) the attention hook of a candidate, `NoteLayer` is the call of the
collector: `NoteCandidate` keeps an output, `NoteOther` does nothing, and the last
call emits the extra channel by one of `EmitSingle` (one token), `EmitWarmup`,
`EmitWarned` (fallbacks), `EmitSelected`, or raises in `EmitRaises`. `Stack` is the
proposer's copy into its buffer. A tensor of hidden states is a function from
tokens to the pair of forward pass and layer that produced the row, so "the wrong
layer" and "a row of an earlier forward" can be told apart. The entropies are any
natural numbers of a small set; the score is that of `_select_layers` and
`_score_matrix`, which is not the one the documents define (section 3), and the
mean over a segment is replaced by the sum, which has the same minimum.

### HiddenStatesConnector and HandOff

A step of the engine is an entry of `queue`: `Schedule` builds it with the
connector's metadata (`StepOf`), the worker runs it in the order of the model
runner (`SubmitWrites` before the draft model writes its rows, the poll, then
`wait_for_save` in `EndStep`), and `ProcessOutput` finishes requests and releases
blocks. `Depth` is the number of steps that may be in flight, 2 under asynchronous
scheduling, which is the default for this method. `CopyDone` is the copy stream;
`TakeTask`, `StartWrite`, `EndWrite`, `WriteDone` and `WriteFails` a writer thread;
`OpenLock`, `SharedLock` and `Load` the client. A block holds one row per cache
group; a row is the pair of request and token index.

`HandOff` says the same in two variables: where the rows of a request are, and
what was promised to a client. The refinement `ImplementsHandOff` maps the
connector's tables, host memory and clients to them.

### OfflineGeneration

An action is the code between two awaits, as on one event loop; only the thread
that moves a file is on its own (`MoveEnds`, which goes on when its worker is
cancelled). `Feed` puts what there is room for; `StopFeeding` is the way out on
the cancel event with the cancellation of the workers; `PutSentinel` and `Gather` are
`_shutdown_workers`. A worker's places are its awaits. All attempts of a request are
one step with one outcome. `ServerWrites` is the server's end of the lock.
`Kill` and `Start` restart the script over the files that are left.

### Training

Weights are the sequence of the batches that went into optimizer steps. A save is a
`plan`, the sequence of its writes, each truncating and then filling a file; with
`torn` the process may die between any two of them. `Start` reads the directories the
way `setup_trainer` and `_get_previous_epoch` do; `TrainBatch`, `EndEpoch`,
`Validate` and `NextEpoch` are the loop; `Interrupt` is the signal handler with its
own save, `Kill` a crash. Ranks run in lock step and rank 0 writes: one process
stands for all. A scheduler and a validation set exist, training resumes by
default, and all epochs have the same number of batches (the sampler may give
them different numbers, which no property depends on).

### MessageQueue and Broadcast

A message is its number. `AcquireWrite` passes the check of `acquire_write` and hands
the writer's stores (clear the written flag, write the data, clear the reader flags one
by one) to `pending`, from which `Visible` takes them: in the order of the program, or
in any order between two fences if `Relaxed`. `Publish` waits for the fence. A reader
loads its own flag and the written flag in two steps, waits by `Spin` or `GoIdle`, copies
the chunk and marks it. A message that does not fit (`large`) leaves `Over` in the
chunk and goes through a socket. `notified` is the one notification a conflating
socket keeps. A reader calls `dequeue` for ever, also after a time-out. `WriterDies` ends the
writer's process at any point: of its stores some may still become visible, nothing else
follows. `ShutDown` and `Cancel` are the two halves of `shutdown`, which the executor calls when the
process on the other side is gone, and also when it is not.
`ImplementsBroadcast` maps the readers without time-outs to `Broadcast`, with a window of
one message more than the ring has chunks, because a large message is still in the
reader's hands when its chunk is free.

### Executor

The engine's main thread has a `place`; a step is two calls (`Schedule`, `Sample`)
whose futures wait in `batches`, a utility call is waited for at once. A call is its number, and replies
carry it although the program's do not, so that a wrong pairing can be told. `Call`
and `MakeFuture` are the two halves of `collective_rpc`, between which the monitor
thread may drop the queues. `ReadReply`, `ReadNothing` and `ReadFails` are
`get_response`; `Dequeue`, `Finish` and `EnqueueOutput` a worker and its output thread;
`Detect`, `Terminate`, `Cancel`, `Close` and `Callback` the monitor. `Together` says that a
forward pass has collective operations. `aggregated` is chosen at the start: with a KV
connector, as in the data-generation server, every rank answers and the
aggregator joins the answers; without, only the output rank does.

### FreeBlockQueue, BlockPool and PrefixCache

The first two are the data structures, as pure operators: the list by the two links of
every block, the pool as a record. `PrefixCache` is the scheduler that uses them.
`Schedule` is one whole call of `schedule()`: `Advance` is one turn of its two loops, over
the running and the waiting requests, and `Scheduled` folds it until nothing changes.
`Execute` is the worker, up to `Depth` steps behind, which writes a row per token and
group; a row names the request, group and token it was computed for. A request ends
with its first sampled token, as in data generation; `Release` copies its rows and
frees its blocks.

### BatchSampler and DistributedTraining

`AssignToPackedBatches` gives a rank's batches for an order of lengths, by the binary search
and the greedy packing of the source. `DistributedTraining` starts from any data set
of the instance and turns the batches into a `program` of every rank: forward and
backward passes (with collective operations that do not wait), optimizer steps,
barriers, gathers, the write of rank 0. The n-th calls of all ranks complete
together, if they are of one kind (`Complete`). `Press` and `Resend` are Ctrl+C and torchrun; `Deliver`
starts `_handler`, also on top of itself; `Catch` is the wrapper's except clause,
which replaces the program by a save; `Watchdog` is its timer.

## 3. Runs

| run | question | result |
| --- | --- | --- |
| `aifd_hook` | Does every forward that reaches the proposer deliver the right channels, whatever the batch is and whichever hooks fail, and is the selection right? | holds |
| `hs_async` | As the data-generation server runs it, with block reuse and failing writes: are files complete, blocks released, clients served, and is the hand-off kept? | holds |
| `hs_async_chunked` | With chunks, preemption and aborts: are blocks, rows and locks safe, does the engine go on? | holds |
| `offline` | Are samples conserved, accounted for, kept over a restart, and does the run end? | holds |
| `training` | Is every batch trained once, and the best checkpoint the best, across crashes? | holds |
| `mq` | Is a queue without a lock a broadcast, and are idle readers woken and stopped, also when the writer may die anywhere? | holds, but for one place of its death (`Stranded`) |
| `executor` | Do results belong to their calls, do failures surface, does waiting end when workers die? | holds |
| `kv` | Do the pool's views agree, are hits right and evictions in order, is every request served? | holds |
| `distributed` | Do the ranks' batches fit together, is an epoch's checkpoint whole, do ranks end, interrupted or not? | holds |
| `training_accum` | Is the last window of an epoch flushed? | refuted |
| `kv_selection` | Do all tokens of a saved request come from one selection? | refuted |
| `shutdown_resend` | Are torchrun's re-sends of a signal ignored? | refuted |

`Safe` and similar names are conjunctions of named parts, each stated with its
reason: `SelectionIsRight` of `SelectionIsMinimal` and `SelectsExactlyPrefill`;
`BlocksAreSafe` of `BlockOwnership`, `NoEarlyReuse` and `RowsAreOwn`; `AlwaysLoadable` of
`BestIsComplete` and `NeverWithoutCheckpoint`; `MessageQueue!Safe` of `ReadsNext`, `NeverTwice` and
`InOrderUnlessLost`; `Executor!Safe` of `OwnReplies` and `FailuresSurface`; `PoolIsConsistent` of
the free list, the map and the assertions; `HitsAreRight` of `ReadsOwnPrefix` and
`SavesOwnRows`.

What a refuted run says of the code:

- **Last window.** After a resumption inside an epoch the position is counted in
  the rest of the epoch and compared with the length of the whole one.
- **Selection and prefix cache.** A prompt that shares its first blocks with an earlier one
  is computed from the first other token on. The cached rows were selected by the
  entropies of the earlier request, so one sample holds rows of two layers, against
  what "sample" granularity is said to mean.
- **Re-sent signals.** The handler holds a lock that cannot be taken twice. The signal torchrun
  sends again either meets the handler, which then waits for itself, or comes after the
  default handlers are back, and ends the process in its save.

Eleven more configurations are kept beside the runs, to be run by hand; each is
refuted in seconds:

| configuration | module, property | what it shows |
| --- | --- | --- |
| `AifdHookQuiet.cfg` | `MCAifdHook`, `QuietFallbackIsDummy` | `_DBG["skip_meta"]` is never reset: after one dummy pass a real step without entropies is logged as a warm-up, at debug level (`aifd.py:393`) |
| `AifdHookScore.cfg` | `MCAifdHook`, `SelectsAsDocumented` | the layer that is selected need not have the smallest score as the documents define it (see below) |
| `AifdHookPartial.cfg` | `MCAifdHook`, `EngineSurvives` | a hook that fails is swallowed, with the message that its layer is skipped (`aifd.py:269-271`); the collector only looks whether there is any entropy at all (line 387), so the selection looks up the missing one (line 483), nothing catches the `KeyError`, and the fallback, which line 444 calls a hard contract, is not appended |
| `MessageQueueShutdown.cfg` | `MCMessageQueue`, `ShutdownStops` | a writer that died between the chunk that announces a large message and the socket that carries it (`shm_broadcast.py:748-750`) leaves its reader in a poll of that socket, which looks at neither `shutting_down` nor the cancel message (lines 800-805). `shutdown`, which the death monitor of the worker then calls, does not end it, though line 116 says that another thread "must be able to wake the reader so that it can exit" |
| `HiddenStatesPreempted.cfg` | `MCHiddenStates`, `CompleteRows` | a request preempted while its last step is in flight still finishes; its blocks are free by then, and its file has all token ids and no rows. The options of `launch_vllm.py` (no chunked prefill, one token) keep the server away from it, which `hs_async` shows |
| `HiddenStatesAbortWaiting.cfg` | `MCHiddenStates`, `EngineSurvives` | `request_finished` pops a file name that is recorded when the request is first scheduled: aborting a waiting one ends the engine core with a `KeyError` |
| `OfflineSentinels.cfg` | `MCOfflineGeneration`, `SentinelsFit` | `_shutdown_workers` looks at the cancel event once; if all workers die of the threshold after that, nobody empties the queue. It has the sizes of `--concurrency 1` |
| `OfflineResume.cfg` | `MCOfflineGeneration`, `ResumesAfterCompleted` | a file that failed its check stays in place, and the next run takes it for done |
| `ExecutorStale.cfg` | `MCExecutor`, `EachWorkersReply` | the first failed reply ends the reading; the replies of the other ranks stay and answer the next call, which `collective_rpc` promises "each worker's" results of |
| `PrefixCachePriority.cfg` | `MCPrefixCache`, `ReadsOwnPrefix` | under priority scheduling the victim may have been scheduled in the same step: its blocks stay cached and were never computed |
| `MessageQueueRelaxed.cfg` | `MCMessageQueue`, `ReadsNext` | the written flag goes down without a fence before the reader flags are cleared: a processor with weak ordering may show a reader the second store first. On x86, whose stores keep their order, `mq` holds |

**The score of a layer.** README.md (lines 18-19), the head of `aifd.py` (lines 9-10) and section 2 of
`docs/AIFD_vllm_改动说明.md` define the score of a request by `C_l`, the mean entropy of its tokens:
`score_l = C_l + |C_l - C_(l-1)|`. The code takes the mean of `He + |difference of He|` over the tokens
(`aifd.py:503` and 513), as the text of `_select_layers` says (lines 466-467). A mean of absolute
values is not the absolute value of a mean: with the entropies (0, 0), (0, 1) and (1, 0) of
two tokens in three candidates, the code selects the second and the definition the third.
`SelectionIsRight` is about the code's score. `SelectsAsDocumentedUnlessCancelled`, in the same run,
says where the two agree: for "token" granularity, and for a request in which
no candidate's differences against the one before it have both signs. `AifdHookScore.cfg`
shows that without this condition they do not.

Two more disagreements were found with the same modules and have no run of
their own: a candidate equal to the number of layers leaves no call to append the
channel, and an out-of-range candidate disables the
selection but not its channel (give `Configs` such a candidate). With two cache
groups the scheduler side saves the blocks of the first group (`Groups = 2`,
`HiddenGroup = 2`).

### Bounds

- `aifd_hook`: five layers, up to three candidates, two requests of up to two
  tokens, two forwards. Three candidates give the score a predecessor and the first
  one none; auxiliary layers lie before, among and after the candidates; two
  forwards show what is left of the first; a decode threshold of 1 with prompts of
  2 tokens stands for the back end's 2 with longer ones. Bound: `MaxForwards`.
- `hs_async`: two requests over two blocks in one step, so that a block is used again while
  the first copy is going on; one writer, so that a task waits behind another.
  `hs_async_chunked`: requests of two tokens over three blocks, so that the second
  one must preempt. Every request arrives once.
- `offline`: three samples, two workers, one slot per semaphore and in the queue: the
  feeder, the sentinels and the semaphores all have to wait, and two failures in a
  row reach the threshold. Bound: `MaxRuns = 2`. The queue is smaller than the
  program's (four per concurrency) so that it is full with few samples;
  `OfflineSentinels.cfg` has the real ratio.
- `training`: two epochs of four batches, three runs: a run may resume from a
  checkpoint inside an epoch that a resumed run made. Windows of 1, 2 and 3, the
  last one cut short by the epoch. Bound: `MaxRuns = 3`.

- `mq`: two chunks and three messages, so that the writer waits and comes round the ring; one of
  them may be too large; one reader has time-outs, one is shut down, one is remote, and the writer may die anywhere. Bound: `MaxMessages`.
- `executor`: two workers, two batches in flight (`max_concurrent_batches` under asynchronous
  scheduling), four steps or three and a utility call, one fault. Seven chunks are the fewest
  with which `ViewsStable` holds (two per batch and three more: the batch that is collected
  and a utility call), the program has ten. Bounds: `MaxCalls`, `MaxUtilities`, `MaxFaults`.
- `kv`: seven blocks for prompts that need ten in two groups, so that requests wait,
  preempt and evict; one prompt is a prefix of another, one shares nothing.
- `distributed`: two ranks, every data set of up to six samples of lengths 1, 2, 3 and 5
  with batches of 4, the longest truncated; one Ctrl+C, which torchrun passes on. Bound: `MaxPresses`.

Symmetry is used for requests and blocks in one safety run only; they are
compared for equality and never ordered. TLC checks deadlock in every run but two: each
module has an explicit stuttering action for the states in which the program is
rightly at its end. In `PrefixCache` all requests are over in the end, and in
`DistributedTraining` all ranks are, or wait for one that is not there; these two say
`CHECK_DEADLOCK FALSE`, and `Served`, `EpochEnds` and `InterruptedEnds` say what must not stop.

### Where the properties stop

- `EngineSurvives` excludes waiting requests (`AbortsFrom`), which
  `HiddenStatesAbortWaiting.cfg` is about.
- `TrainedOnce`, `BestIsLowest` and `ResumesWhereSaved` are about deaths between
  saves. `TrainedOnce` further has windows that divide the epoch and the interval,
  or no checkpoints inside epochs: otherwise it is false, as `training_accum` shows
  (a window that a checkpoint cuts loses its gradients, too).
  `BestIsComplete` and `NeverWithoutCheckpoint` hold wherever the process dies.
- `NeverWithoutCheckpoint` is for checkpoints at the end of epochs. Inside an epoch
  the same directory is written again in place, and a crash while the first one is
  replaced leaves nothing to load.
- `RunEnds` excepts the state that `OfflineSentinels.cfg` reaches.
- `Executor!Safe` excludes the calls after one that ended with replies left in the queues
  (`Spoiled`): after a deadline, and after the failure of one of several ranks. For steps the engine goes
  down then; for utility calls it does not, see `ExecutorStale.cfg`. `ViewsStable` is for as
  long as no call was spoiled.
- `InOrderUnlessLost` is about readers that have left nothing in their socket: a time-out on the
  socket shifts the large messages against the small ones from then on.
- `Delivered` is about a writer that lives. One that dies between marking a chunk and notifying leaves
  an idle reader asleep, which only its shutdown wakes. `ShutdownEnds` excepts `Stranded`, the state
  that `MessageQueueShutdown.cfg` reaches.
- `WaitsEnd` is about workers whose replies are enqueued in one step. A worker that dies between the
  mark of a large reply and its socket leaves the engine in the same poll, up to the
  call's deadline if it has one; the composition does not show this.
- `ChannelContract` is stated where the proposer stacks, which `EmitRaises` never reaches
  (`AifdHookPartial.cfg`).
- `EpochIsWhole` is about the checkpoint of the epoch. The interrupted one may hold shards
  of different steps, because an interrupted rank's gather matches the next gather of the others.
- `InterruptedEnds` ends in a lock that a rank holds itself where `shutdown_resend` finds it.

### Fairness

Six runs have liveness properties; all of it is weak fairness.

- `HiddenStatesConnector!Fairness` lets the engine's loop, the worker, the copy stream, the
  writers and the clients that have a path go on: the loop runs as long as
  `has_finished_requests` or requests remain, a copy and a thread end, and a client in
  `load_hidden_states` blocks only on the lock. Arrivals and aborts are not fair.
- `OfflineGeneration!Fairness` lets the event loop run every task that is ready, threads
  end, and the server finish its files; `Start` and `Kill` are not fair.
- `MessageQueue!Fairness`: while its process lives the writer goes on once it may and its stores
  become visible; `alive` guards each of its steps, so a dead writer owes nothing. Readers call
  `dequeue` for ever, and a `shutdown` that has begun ends. The writer's death is neither fair nor
  excluded; nor are messages, time-outs and the choice between spinning and idling.
- `Executor!Fairness`: the main thread, the monitor, the workers and their threads run on while
  they can. Deadlines, faults and new work are not fair.
- `PrefixCache!Fairness`: the engine's loop calls `schedule()` while it can do something, the worker
  executes, outputs are processed and copies end. Arrivals, aborts and resets are not fair.
- `DistributedTraining!Fairness`: a rank goes on unless it waits, a complete collective operation
  returns, a handler runs to its end and a timer fires. Ctrl+C is not fair, nor is the delivery of a
  signal to a rank that waits.

## 4. Proofs

A theorem is proved for every value of the constants that the `ASSUME`s of its module
allow: any number of readers, requests, blocks, workers, epochs, restarts, and any batch.
The runs check the same definitions on small instances. Each proof module names its
inductive invariant `IInv` (in `AifdHookProofs` the theorem `Invariance`), proves that
every action preserves it, one lemma per action, and derives the theorems from it.

| theorem | module proved about | states | under |
| --- | --- | --- | --- |
| `TypeCorrect` | `AifdHook` | `TypeOK` | |
| `ChannelContractHolds`, `AifdChannelLastHolds` | `AifdHook` | every stack fits the buffer and the engine survives; the selected channel comes last | `CandidatesInside`, `FaultsUniform` |
| `SelectsRightly` | `AifdHook` | `SelectionIsRight`: exactly pure prefill is selected from, and every token gets a row with the smallest score, as the code defines it | `CandidatesInside`, `FaultsUniform` |
| `QueueIsSafe` | `MessageQueue` | `Safe` | `~Relaxed` |
| `QueueBroadcasts` | `MessageQueue` | `ImplementsBroadcast`: the ring refines `Broadcast` | `~Relaxed` |
| `TypeCorrect`, `LocksGuard` | `HiddenStatesConnector` | `TypeOK`, `LockGuardsPath` | |
| `BlocksNotReused` | `HiddenStatesConnector` | `BlockOwnership`, `NoEarlyReuse` | |
| `BlocksSafe` | `HiddenStatesConnector` | `BlocksAreSafe`: these two, and rows are the request's own | the saved group is that of the hidden states |
| `CoreSurvives` | `HiddenStatesConnector` | `EngineSurvives` | no abort of a waiting request |
| `RowsComplete` | `HiddenStatesConnector` | `CompleteRows` | the saved group, and no chunked prefill |
| `HandsOff` | `HiddenStatesConnector` | `ImplementsHandOff`: the connector refines `HandOff` | no chunked prefill |
| `TypeCorrect`, `SamplesConserved`, `SuccessIsAccounted`, `OnlyFinishedMoved`, `SavedIsKept` | `OfflineGeneration` | `TypeOK`, `ConservesSamples`, `DoneIsAccounted`, `MovesFinishedFiles`, `KeepsSaved` | |
| `TypeCorrect`, `LinkIsBest`, `NothingIsLost`, `ResumesThere` | `Training` | `TypeOK`, `BestIsLowest`, `AlwaysLoadable`, `ResumesWhereSaved` | |
| `EveryBatchOnce` | `Training` | `TrainedOnce` | `Fits` |
| `ResultsAreRight` | `Executor` | `Safe`: types, `OwnReplies` and `FailuresSurface` | |
| `ArgumentsLast` | `Executor` | `ViewsStable` | `2 * BatchQueue + 3 <= Chunks` |
| `SharesAlwaysFit` | `DistributedTraining`, `BatchSampler` | `SharesFitTogether` | |
| `DistributedSafe` | `DistributedTraining` | `Safe`: types and `EpochIsWhole` | |
| `PoolStaysConsistent` | `PrefixCache`, `BlockPool`, `FreeBlockQueue` | `PoolIsConsistent`: types, `FreeListIsUnheld`, `CacheIsConsistent`, `PoolNeverFails` | |
| `CoreInvariant` | `PrefixCache` | its inductive invariant | |

No condition is there for the prover's sake: without it the theorem is false, and TLC shows
how. `FaultsUniform`: `AifdHookPartial.cfg`. `CandidatesInside`, the saved group, and waiting requests:
see section 3. `~Relaxed`: `MessageQueueRelaxed.cfg`. No chunked prefill:
`HiddenStatesPreempted.cfg`, where a request ends with its rows unsaved, and then was
handed off without what `HandOff` promises. `Fits`, the windows divide the epoch and the interval
of the checkpoints in it: `training_accum`. `2 * BatchQueue + 3 <= Chunks` is the least ring for
`ViewsStable`: the run has it with equality, and with one chunk less TLC finds a view overwritten
without any fault. The code's ring has ten chunks (the default of `MessageQueue`), which is
enough for three batches in flight; one server without pipeline parallelism has two at most
(`max_concurrent_batches`). The properties with `~set.torn` in
them say so themselves, and `NothingIsLost` holds wherever the process dies.

### Why the invariants are what they are

None of the properties is inductive.

- **Layer selection.** The contract counts the channels at the end of a
  pass, so the invariant says what was appended and recorded at every point of the
  layer loop: which candidates have an output and which an entropy (`Recording`,
  `CandsBelow`, `CandsUpTo`), that the segment lengths are those of this batch or
  none, that nothing survives the reset, and that the list holds exactly the
  auxiliary layers below the loop's position, in order. Lemmas give the cardinalities
  of the growing sets. That the selection is right (`SelectionInv`) needs besides that the hooks
  recorded what they measured (`Recorded`); that lengths are got back from their
  running sums and every token is in one segment (`LengthsRecovered`, `SegmentFound`); and that a
  candidate's score, and with it the least one, is a number (`ScoresAreNat`, `ArgMinIsBest`). The sums are
  the library's folds, in an order it chooses. The first lemmas of the module, and of
  `DistributedTrainingProofs`, prove what they compute, for every finite set: the fold is a recursive function (`SumIsIter`), a sum of numbers is a
  number, and it splits at any subset, so the order does not matter (`SumSplit`). The induction
  is a smallest counterexample, taken from the well-foundedness of `Nat`.
- **Message queue.** What a reader copies is right because the writer has not come round the
  ring to it. `Ring` says which messages are intact in which chunks, with which reader flags;
  `Near` that no reader's chunk is being overwritten; `Writing` how far the stores between
  the two fences are visible, the written flag first, then the data, then the flags; and `Reading` that what a
  reader found out about a flag is still so. `Mail` accounts for every message of a reader: taken,
  lost, received or still in the socket. The lemmas are about remainders: two
  messages share a chunk only if they are a ring apart.
- **Connector.** The scheduler's view is ahead of the worker's, so a row need not be in its
  block yet. `Rows` says where it *lands*: the last write to the block, done or by a step in
  flight, is that of its token, and after the step that submits the save no step writes it.
  `Sched` places every finished request once on its way to the worker and
  back (`OnePlace`, `Submitted`), which is what keeps its blocks from being freed twice or early;
  `Hosts`, `Locks`, `Known` and `Whole` carry this to host memory, locks, clients and the
  refinement.
- **Offline generation.** A sample is in one place because lists have no duplicates (`Once`),
  places exclude each other (`Apart`) and what is not moved has no file (`Fresh`). That success
  is accounted for needs `LastOut` (a worker returns only after the last sample), `Stop` (only
  a dead worker cancels a run) and `Accounted`; the semaphores need the
  number of workers inside them (`Bounded`).
- **Training.** `Planned` ties what is left of a save to what is on the disk after its first n
  operations (`Filled`, `Complete`); `Linked` keeps the directory that is
  being written apart from the one the link leads to, and `Kept` apart from one that can be
  resumed from; `Restorable` ties the newest directory to the last save; `Lowest` holds on
  to the best loss while the link is being moved; and `Once` says what the weights and the open
  window have seen at every batch, in this run and on the disk. The lemmas are about plans as
  concatenated sequences and about remainders of windows.
- **Executor.** `IInv` says of three numbers what no variable holds: the first `n` calls have
  their results, the first `m` have futures (`Futures`), and what rank `r` answered up to call
  `b[r]` has been read. Replies carry no call in the program, so all rests on `Streams`: the unread
  replies of a rank, in its queue or its thread's, are in the order of the calls and miss
  none that it answers. `Own` adds that before the first call that left replies behind no rank owes
  any to the calls that are settled. `Surface` holds after such calls, too: as long as every
  settled step had an output, no rank owes a reply to one of their `sample_tokens`, so a stale reply
  is one to `execute_model` or to a utility call, which is no output. The first step
  without an output ends the engine when its result is looked at, before any later one
  is (`Batches`). A failed `execute_model` leaves its worker without a state (`Worker`), so the next
  output is "none", or the call takes that failure for its own (`Doomed`). `Program` gives the main thread's order of
  calls, and `Ahead` counts how far it is ahead of the results, by what is in the batch queue.
- **Shares of the ranks.** `from` and `search` of the sampler are recursive, that is, functions
  that TLA+ chooses; so the first lemma (`Recursion`, once for all of them) is that a recursion
  that comes to an end is satisfied by a function. What it computes is shown on a
  smallest counterexample. `PackedTogether` says of a packing that the batches of all ranks are
  the samples dealt out, whichever rank asks, and that they fit or fail for all alike; `FewFit` that
  as many samples as there are ranks always fit, since the longest first leaves an empty
  bin for each; so the search starts from a number that fits, and its invariant is that the left
  bound does (`SearchFinds`). That the batches so far cover what was consumed is carried along the
  epoch (`CoveredJoin`, `SharesCons`).
- **Ranks of an epoch.** The n-th calls of the ranks are matched by their place only. `Position`
  says how what is left of a rank's program and what it has called determine each other;
  `Recorded`, for a rank that was interrupted, that its calls are the first c of the same run
  and then one gather. `Matched` is that the complete calls agree in kind. A gather is matched
  with a gather only, and a rank that goes on has its gather in one place, after all its steps and
  a barrier: so all ranks that took part in it stand at the end of the epoch.
- **KV cache.** Every layer has its own relation to the one below, and each operation of a
  layer keeps it. `Lists` says of the links that they run, forwards and backwards, through a
  sequence without repetitions of exactly the given blocks; the operations of the list are shown to be
  those of sequences (`PopLeftNLinks`, `RemoveBlockLinks`, `AppendNLinks`, `PrependNLinks`). `CacheAgrees` relates the hashes to the
  map. `Consistent` relates a pool to the tables: a reference count is the number of requests and groups
  that hold the block, the free list has the unheld ones, a held block is hashed exactly if
  its owner counts it as cached, and two holders share hashed blocks only. The last two are what
  `PoolIsConsistent` lacks: without them a block could be cached a second time, which the pool asserts it
  is not. `Sound` is `Consistent` for the tables of all requests, with the counters; `Placed` ties the two
  queues to the statuses, and says that no request that waits or has not arrived holds a block. One call of
  `schedule()` is a loop over records, so it has an invariant of its own, `InStep`: after any number of
  iterations the record is sound, its queues hold the requests they held, and what was
  planned so far (`Fits`) is of requests that run, once each. Under priority scheduling a victim that
  was planned is taken out of the plan again, and the position in the running queue moves with it. That no
  allocation fails in the middle is arithmetic: what `NumBlocksToAllocate` counts for every group is what that
  group then takes, and hits that nobody holds leave the free list before.

The proofs found no property false that TLC had not refuted. They changed the models in five
ways. Several `CASE` expressions had guards that overlap, of which TLC takes the first and TLA+ any
(the plan of `Validate`, the reply in `Executor!Finish`, the search in `BatchSampler`): they are
`IF`s now. And the samples that are missing are a set (`Missing`), put into any order by
`ToProcess`, of which nothing else depends. And `Executor` assumes that the ranks are numbered from 0
without a gap, as the code numbers its workers, where it had one sequence of them among many.
Fourth, the sorted samples of `BatchSampler!Descending` are defined by how many come before each, where
they were a sequence out of an operator of the library that no prover can unfold. Last,
`PrefixCache` filters its sequences, and adds up its groups, by folds (`BlockPool!Only`), in place of
library operators that are `RECURSIVE` or fold in an order they choose; its set of requests is
finite, which it had left unsaid.

### What is only model-checked

- Liveness under fairness, and `ENABLED`: out of this prover's reach.
- Of `PrefixCache`, what the blocks contain. `PrefixesReachable` and `HitsAreRight` need to
  follow the rows through the steps in flight, as the connector's `Rows` does, and through the
  evictions between them, and `EvictsCachedLast` the order of the free list, of which the invariant
  knows the set only. TLC checks them on every state and step of its run.
- Induction over data has no theorem that a prover here can instantiate: the library's take an
  operator. Where a proof needs one (sums, folds, the search of the sampler, the links of the free
  list, the turns of `schedule()`'s loops) it takes a smallest counterexample, or shows that some function
  satisfies the recursion (`Recursion`). This goes for what a property needs, not for all that a
  recursive definition computes.

## 5. What is left out, and why

Tensor arithmetic, text processing, plots and command lines have no order or state to
go wrong, and the kernels, models and front ends of the two vLLM code bases, which are most
of the repository's lines, are not this project's path. Of the parts that are modelled:

- layer selection: candidates at or beyond the last layer are in the model and in no instance;
  left out is `keep_bos=False`, which nothing in the repository sets. Short requests count as
  decodes wherever they stand in the batch, while the source counts those before the first prefill:
  the same, because batches are reordered with decodes first;
- connector: tensor-parallel ranks other than 0, save paths chosen by the client;
- scheduler and cache: decode steps, speculative decoding, encoder inputs, LoRA, tokens computed
  by another server, sliding windows and state-space groups, hashes of partial blocks,
  the watermark, deferred freeing, `evict_blocks`;
- message queue: the handshake of `wait_until_ready` (which does not cover the notification
  socket), the bytes of a message, the death of a reader and a writer that waits for it;
- executor: start-up, several nodes, pipeline stages, the shutdown the user asks for;
- offline generation: `--max-samples`, several ranks, the single attempts of a request;
- sampler: `truncate_long_samples=False`, the shuffling; the order of samples of equal length is
  taken as stable, which numpy's sort need not be, but which is the same on all ranks;
- training: validation and saves inside epochs on several ranks, sequence parallelism, time-outs
  of collective operations, signals after `run_training` has returned (its handlers stay),
  interrupts that a loader's `except Exception` swallows, renaming of an interrupted checkpoint,
  training without resumption over old directories;
- response regeneration and on-line generation: not modelled.

## 6. Plan

The order is by how much of the result depends on the part.

1. Done: layer selection; connector with its abstract hand-off;
   offline generation; training; message queue with its abstract broadcast; executor;
   KV cache with the scheduler; batch sampler and ranks; the theorems of section 4.
2. Next theorems, each from an inductive invariant that TLC has checked first:
   `PrefixesReachable` and `HitsAreRight`, on top of `CoreInvariant`; the channel contract without
   `FaultsUniform`, with the crash as an outcome.
3. Next models: on-line generation by the data set as a second client; response regeneration;
   decode steps in `PrefixCache`. Each takes the place of a run whose question is settled.
