------------------------------ MODULE Executor ------------------------------
(***************************************************************************)
(* MultiprocExecutor and WorkerProc: the engine core's main thread makes   *)
(* remote calls on worker processes and collects their replies later, in   *)
(* the order of the calls; a monitor thread watches the processes.         *)
(*                                                                         *)
(* Calls go through a message queue, which is taken to be what Broadcast   *)
(* says and MessageQueue implements; each worker answers through a queue   *)
(* of its own, after a thread of its has waited for the output (with       *)
(* asynchronous scheduling).  A call is its number.  A reply carries the   *)
(* number of the call it answers, which the code's replies do not.         *)
(***************************************************************************)
EXTENDS Naturals, Sequences, FiniteSets, SequencesExt

CONSTANTS
  Ranks,       \* the workers, 0 and up
  OutputRank,  \* the one whose output the engine uses
  BatchQueue,  \* max_concurrent_batches
  Chunks,      \* max_chunks of the queues
  MaxCalls, MaxUtilities,  \* bounds on the calls, and on the utility calls
  MaxFaults    \* bound on methods that raise, deaths and deadlines that pass

ASSUME ExecutorAssumption ==
  /\ IsFiniteSet(Ranks) /\ Ranks = 0 .. Cardinality(Ranks) - 1 /\ OutputRank \in Ranks
  /\ BatchQueue \in Nat \ {0} /\ Chunks \in Nat \ {0}
  /\ MaxCalls \in Nat /\ MaxUtilities \in Nat /\ MaxFaults \in Nat

VARIABLES
  aggregated,  \* a KV connector's aggregator needs the output of every rank
  calls, got,  \* the kinds of the calls made; what each worker has dequeued
  doing,       \* rank -> the call it executes, or 0
  state,       \* the ranks with an execute_model_state
  outbox, replies,  \* async_output_queue; worker_response_mq
  alive,
  place,       \* where the engine's main thread is
  asked,       \* call -> the queues its future reads, in order
  futures,     \* futures_queue, the oldest first
  replied,     \* what the oldest future has read so far
  outcome,     \* call -> what its future has been set to
  wanted,      \* the call whose result is waited for
  batches,     \* batch_queue, the oldest first: the sample_tokens calls
  monitor, notice, \* the monitor thread; EXECUTOR_FAILED in the input queue
  faults       \* how much has gone wrong

worker == <<doing, state, outbox, replies, alive>>
driver == <<asked, futures, replied, outcome, wanted, batches>>
vars   == <<aggregated, calls, got, worker, place, driver, monitor, notice, faults>>

Queue == INSTANCE Broadcast WITH
           Readers <- Ranks, Window <- Chunks, sent <- Len(calls), got <- got

Pending == [how |-> "pending", from |-> <<>>]

Init ==
  /\ aggregated \in BOOLEAN
  /\ calls = <<>> /\ Queue!Init
  /\ doing = [r \in Ranks |-> 0] /\ state = {}
  /\ outbox = [r \in Ranks |-> <<>>] /\ replies = [r \in Ranks |-> <<>>]
  /\ alive = Ranks
  /\ place = "loop" /\ asked = <<>> /\ futures = <<>> /\ replied = <<>>
  /\ outcome = <<>> /\ wanted = 0 /\ batches = <<>>
  /\ monitor = "watching" /\ notice = FALSE /\ faults = 0

\* is_failed; the response queues are cancelled; response_mqs is empty.
Failed    == monitor # "watching"
Cancelled == monitor \in {"cancelled", "closed", "done"}
Closed    == monitor \in {"closed", "done"}

Fault == faults < MaxFaults /\ faults' = faults + 1

\* output_rank is None: every rank has to answer.
All(c) == calls[c] = "utility" \/ aggregated
Answers(r, c) == All(c) \/ r = OutputRank

-----------------------------------------------------------------------------
(* The engine's main thread. *)

\* collective_rpc up to its enqueue.
Call(kind) ==
  /\ ~ Failed /\ Len(calls) < MaxCalls
  /\ calls' = Append(calls, kind)
  /\ Queue!Send
  /\ asked' = Append(asked, <<>>) /\ outcome' = Append(outcome, Pending)
  /\ place' = "future"
  /\ UNCHANGED <<aggregated, worker, futures, replied, wanted, batches, monitor, notice, faults>>

\* Mutant: batches are scheduled without end.
ScheduleAnyway ==
  place = "loop" /\ Len(calls) + 2 <= MaxCalls /\ Call("model")

\* step_with_batch_queue: a step is two calls, neither of them waited for.
Schedule ==
  /\ place = "loop" /\ Len(batches) < BatchQueue
  /\ Len(calls) + 2 <= MaxCalls /\ Call("model")
Sample  == place = "sample" /\ Call("sample")
Utility == /\ place = "loop" /\ Len(SelectSeq(calls, LAMBDA k : k = "utility")) < MaxUtilities
           /\ Call("utility")

\* A step of an executor that has failed raises in the engine's loop.  (A
\* utility call is refused, which changes nothing.)
StepRefused ==
  /\ place \in {"loop", "sample"} /\ Failed
  /\ place' = "down"
  /\ UNCHANGED <<aggregated, calls, got, worker, driver, monitor, notice, faults>>

Queued(c) == Append(futures, c)

\* The rest of collective_rpc: the future takes the queues there are.
MakeFuture ==
  LET c  == Len(calls)
      qs == IF Closed THEN <<>> ELSE IF All(c) THEN [i \in 1 .. Cardinality(Ranks) |-> i - 1]
            ELSE <<OutputRank>>
  IN /\ place = "future" /\ (All(c) \/ ~ Closed)
     /\ asked' = [asked EXCEPT ![c] = qs]
     /\ futures' = Queued(c)
     /\ place' = CASE calls[c] = "model" -> "sample" [] calls[c] = "sample" -> "loop"
                   [] OTHER -> "wait"
     /\ batches' = IF calls[c] = "sample" THEN Append(batches, c) ELSE batches
     /\ wanted' = IF calls[c] = "utility" THEN c ELSE wanted
     /\ UNCHANGED <<aggregated, calls, got, worker, replied, outcome, monitor, notice, faults>>

\* There is no queue of the output rank any more.
NoQueue ==
  /\ place = "future" /\ Closed /\ ~ All(Len(calls))
  /\ place' = "down"
  /\ UNCHANGED <<aggregated, calls, got, worker, driver, monitor, notice, faults>>

Collect ==
  /\ place = "loop" /\ batches # <<>>
  /\ wanted' = Head(batches) /\ batches' = Tail(batches)
  /\ place' = "wait"
  /\ UNCHANGED <<aggregated, calls, got, worker, asked, futures, replied, outcome,
                 monitor, notice, faults>>

Waiting == place = "wait" /\ outcome[wanted] = Pending

\* result() first drains the futures in front of its own.
Oldest == Head(futures)

\* The oldest future is set, and leaves the queue.
Set(how, from) ==
  /\ outcome' = [outcome EXCEPT ![Oldest] = [how |-> how, from |-> from]]
  /\ futures' = Tail(futures) /\ replied' = <<>>

\* get_response asks the queues one after the other.
Asks == asked[Oldest][Len(replied) + 1]

\* KVOutputAggregator takes the outputs of all ranks, or none of them if the
\* output rank has none.
Aggregable(c, rs) ==
  aggregated /\ calls[c] # "utility" /\ rs[OutputRank + 1].what # "none"
    => \A i \in DOMAIN rs : rs[i].what = "output"

ReadReply ==
  /\ Waiting /\ asked[Oldest] # <<>> /\ replies[Asks] # <<>>
  /\ LET reply == Head(replies[Asks])
         rs    == Append(replied, reply)
     IN IF reply.what = "failed" THEN Set("failed", rs)
        ELSE IF Len(rs) < Len(asked[Oldest])
        THEN replied' = rs /\ UNCHANGED <<outcome, futures>>
        ELSE Set(IF Aggregable(Oldest, rs) THEN "ok" ELSE "failed", rs)
  /\ replies' = [replies EXCEPT ![Asks] = Tail(@)]
  /\ UNCHANGED <<aggregated, calls, got, doing, state, outbox, alive, place, asked,
                 wanted, batches, monitor, notice, faults>>

\* Nobody to ask: an empty list, which the aggregator cannot take.
ReadNothing ==
  /\ Waiting /\ asked[Oldest] = <<>>
  /\ Set(IF calls[Oldest] = "utility" THEN "ok" ELSE "failed", <<>>)
  /\ UNCHANGED <<aggregated, calls, got, worker, place, asked, wanted, batches,
                 monitor, notice, faults>>

\* Mutant: a queue that is shut down does not wake its reader.
CancelIgnored == FALSE
CancelSeen == Cancelled

\* dequeue raises: "cancelled" of a queue that is shut down, or the deadline,
\* which only the calls of a step have.
ReadFails ==
  /\ Waiting /\ asked[Oldest] # <<>> /\ replies[Asks] = <<>>
  /\ \/ CancelSeen /\ Set("failed", replied) /\ UNCHANGED faults
     \/ calls[Oldest] # "utility" /\ Set("timeout", replied) /\ Fault
  /\ UNCHANGED <<aggregated, calls, got, worker, place, asked, wanted, batches,
                 monitor, notice>>

\* What the caller of a step gets.
Output(c) ==
  /\ outcome[c].how = "ok"
  /\ outcome[c].from[IF All(c) THEN OutputRank + 1 ELSE 1].what = "output"

\* Errors of a utility call go to its caller; one of a step, or a step without
\* output, whose execute_model must have failed, ends the engine.
ResultPlace == IF calls[wanted] = "utility" \/ Output(wanted) THEN "loop" ELSE "down"

Result ==
  /\ place = "wait" /\ outcome[wanted] # Pending
  /\ place' = ResultPlace /\ wanted' = 0
  /\ UNCHANGED <<aggregated, calls, got, worker, asked, futures, replied, outcome,
                 batches, monitor, notice, faults>>

Noticed ==
  /\ place = "loop" /\ notice
  /\ place' = "down"
  /\ UNCHANGED <<aggregated, calls, got, worker, driver, monitor, notice, faults>>

-----------------------------------------------------------------------------
(* A worker process. *)

Dequeue(r) ==
  /\ r \in alive /\ doing[r] = 0
  /\ UNCHANGED calls /\ Queue!Receive(r)
  /\ doing' = [doing EXCEPT ![r] = Len(got'[r])]
  /\ UNCHANGED <<aggregated, state, outbox, replies, alive, place, driver,
                 monitor, notice, faults>>

\* A forward pass has collectives: no rank is through before all are in it.
Together(c) == calls[c] = "model" => \A r \in Ranks : Len(got[r]) >= c

\* The method returns or raises.  execute_model leaves its state and returns
\* None, sample_tokens takes it, or returns None if there is none.
Finish(r) ==
  LET c == doing[r] IN
  /\ r \in alive /\ c # 0 /\ Together(c)
  /\ \E raised \in BOOLEAN :
       LET empty == calls[c] = "model" \/ (calls[c] = "sample" /\ r \notin state)
           what  == IF raised THEN "failed" ELSE IF empty THEN "none"
                    ELSE IF calls[c] = "sample" THEN "output" ELSE "value"
       IN /\ IF raised THEN Fault ELSE UNCHANGED faults
          /\ state' = IF calls[c] = "model" /\ ~ raised THEN state \cup {r}
                      ELSE IF calls[c] = "sample" THEN state \ {r} ELSE state
          /\ outbox' = IF Answers(r, c)
                       THEN [outbox EXCEPT ![r] = Append(@, [call |-> c, what |-> what])]
                       ELSE outbox
  /\ doing' = [doing EXCEPT ![r] = 0]
  /\ UNCHANGED <<aggregated, calls, got, replies, alive, place, driver, monitor, notice>>

\* Mutant: the output that is ready first goes out first.
EnqueueNewest(r) ==
  /\ r \in alive /\ outbox[r] # <<>> /\ Len(replies[r]) < Chunks
  /\ replies' = [replies EXCEPT ![r] = Append(@, Last(outbox[r]))]
  /\ outbox' = [outbox EXCEPT ![r] = Front(@)]
  /\ UNCHANGED <<aggregated, calls, got, doing, state, alive, place, driver, monitor, notice, faults>>

\* async_output_busy_loop.
EnqueueOutput(r) ==
  /\ r \in alive /\ outbox[r] # <<>> /\ Len(replies[r]) < Chunks
  /\ replies' = [replies EXCEPT ![r] = Append(@, Head(outbox[r]))]
  /\ outbox' = [outbox EXCEPT ![r] = Tail(@)]
  /\ UNCHANGED <<aggregated, calls, got, doing, state, alive, place, driver, monitor, notice, faults>>

Die(r) ==
  /\ r \in alive /\ Fault
  /\ alive' = alive \ {r}
  /\ UNCHANGED <<aggregated, calls, got, doing, state, outbox, replies, place, driver,
                 monitor, notice>>

-----------------------------------------------------------------------------
(* The monitor thread: sees a death, terminates the other workers, shuts the *)
(* queues down, drops them, and calls the failure callback.                  *)

MonitorStep(from, to) ==
  /\ monitor = from /\ monitor' = to
  /\ UNCHANGED <<aggregated, calls, got, doing, state, outbox, replies, place, driver, faults>>

Detect    == alive # Ranks /\ MonitorStep("watching", "failed") /\ UNCHANGED <<alive, notice>>
Terminate == MonitorStep("failed", "terminated") /\ alive' = {} /\ UNCHANGED notice
Cancel    == MonitorStep("terminated", "cancelled") /\ UNCHANGED <<alive, notice>>
Close     == MonitorStep("cancelled", "closed") /\ UNCHANGED <<alive, notice>>

\* Mutant: the engine is not told.
CallbackLost == MonitorStep("closed", "done") /\ UNCHANGED <<alive, notice>>
Callback  == MonitorStep("closed", "done") /\ notice' = TRUE /\ UNCHANGED alive
-----------------------------------------------------------------------------

\* The end of a bounded run, or of the engine.
Quiet ==
  /\ place = "down" \/ (place = "loop" /\ Len(calls) + 2 > MaxCalls)
  /\ UNCHANGED vars

Engine  == Sample \/ MakeFuture \/ NoQueue \/ ReadReply \/ ReadNothing \/ Result \/ Noticed
Monitor == Detect \/ Terminate \/ Cancel \/ Close \/ Callback
Work(r) == Dequeue(r) \/ Finish(r) \/ EnqueueOutput(r)

Next ==
  \/ Quiet \/ Schedule \/ Utility \/ StepRefused \/ Collect
  \/ Engine \/ ReadFails \/ Monitor
  \/ \E r \in Ranks : Work(r) \/ Die(r)

Spec == Init /\ [][Next]_vars

\* The threads run on while they can.  A deadline may pass, and new work may
\* come, but neither has to.
GoesOn == Engine \/ (Cancelled /\ ReadFails) \/ (place = "sample" /\ StepRefused)

Fairness ==
  /\ WF_vars(GoesOn) /\ WF_vars(Monitor)
  /\ \A r \in Ranks : WF_vars(Work(r))

FairSpec == Spec /\ Fairness
-----------------------------------------------------------------------------
(* Properties. *)

CallIds == 1 .. Len(calls)
Reply == [call : CallIds, what : {"output", "value", "none", "failed"}]

\* Every variable has its type; futures and batches wait in the order of the
\* calls.
TypeOK ==
  /\ aggregated \in BOOLEAN /\ calls \in Seq({"model", "sample", "utility"})
  /\ \A r \in Ranks :
       /\ doing[r] \in {0, Len(got[r])} /\ Len(got[r]) <= Len(calls)
       /\ outbox[r] \in Seq(Reply) /\ replies[r] \in Seq(Reply)
  /\ state \subseteq Ranks /\ alive \subseteq Ranks
  /\ place \in {"loop", "sample", "future", "wait", "down"}
  /\ Len(asked) = Len(calls) /\ Len(outcome) = Len(calls)
  /\ \A c \in CallIds : /\ outcome[c].how \in {"pending", "ok", "failed", "timeout"}
                      /\ outcome[c].from \in Seq(Reply) /\ asked[c] \in Seq(Ranks)
  /\ wanted \in {0} \cup CallIds /\ replied \in Seq(Reply)
  /\ \A q \in {futures, batches} :
       \A i, j \in DOMAIN q : q[i] \in CallIds /\ (i < j => q[i] < q[j])
  /\ monitor \in {"watching", "failed", "terminated", "cancelled", "closed", "done"}
  /\ notice \in BOOLEAN /\ faults \in 0 .. MaxFaults

\* After a call that ended with replies left in the queues the next replies
\* are not to be told from them.
Spoiled(c) ==
  \E d \in 1 .. c - 1 : outcome[d].how = "timeout"
                        \/ (outcome[d].how = "failed" /\ Len(asked[d]) > 1)

\* The replies a call returns are those to it, one of every rank it asked:
\* with several calls in flight, outputs that are sent by another thread, and
\* results that are fetched out of order.
OwnReplies ==
  \A c \in CallIds : outcome[c].how = "ok" /\ ~ Spoiled(c) =>
    outcome[c].from = [i \in DOMAIN asked[c] |->
                         [outcome[c].from[i] EXCEPT !.call = c]]

\* A step whose output reached the scheduler failed on no rank that was asked,
\* and the output is the step's own: a failed execute_model, which nobody waits
\* for, shows in the result of its sample_tokens, whatever came before.
FailuresSurface ==
  \A c \in CallIds : calls[c] = "sample" /\ place # "down" /\ wanted # c
                   /\ outcome[c] # Pending /\ c \notin ToSet(batches) =>
    /\ Output(c) /\ outcome[c - 1].how = "ok"
    /\ outcome[c].from[IF All(c) THEN OutputRank + 1 ELSE 1].call = c

\* A result is what the workers answered to this call.
Safe == TypeOK /\ OwnReplies /\ FailuresSurface

\* A worker is through with a call before its chunk is written again: a large
\* argument is a view of the chunk, which is marked as read when the call
\* begins.  Nothing but the size of the batch queue, the collectives and the
\* waiting of utility calls keeps the engine from running ahead (a call that
\* failed at one rank has not waited for the others).
ViewsStable ==
  \A r \in alive : doing[r] # 0 /\ ~ Spoiled(Len(calls) + 1) =>
    Len(calls) < doing[r] + Chunks

\* A result that is waited for comes, or an error does, whoever dies; and the
\* death of a worker ends the engine, waiting, busy or idle (start_worker_monitor,
\* shutdown, the failure callback).
Unsettled  == place = "wait" \/ (alive # Ranks /\ place # "down")
WaitsEnd   == Unsettled ~> ~ Unsettled

\* "A list containing the results from each worker", as collective_rpc says
\* (of an executor that has queues left: without, the list is empty).
EachWorkersReply ==
  \A c \in CallIds : calls[c] = "utility" /\ outcome[c].how = "ok" =>
    \A i \in DOMAIN asked[c] : outcome[c].from[i].call = c
=============================================================================
