------------------------ MODULE HiddenStatesConnector ------------------------
(***************************************************************************)
(* The hand-off of extracted hidden states from the engine to a client     *)
(* (vllm/distributed/kv_transfer/kv_connector/v1/                          *)
(* example_hidden_states_connector.py), with the parts of the scheduler    *)
(* and of the model runner that drive it.                                  *)
(*                                                                         *)
(* The scheduler hands steps to the worker, up to Depth of them in flight. *)
(* A step writes the hidden states of its tokens into the blocks of their  *)
(* requests.  When a request finishes, the client gets a path at once; the *)
(* blocks are kept until the worker has copied them to host memory, and a  *)
(* writer thread saves the copy under a file lock the client waits for.    *)
(*                                                                         *)
(* A block holds one token.  A row <<r, i>> is the hidden state of token i *)
(* of request r.                                                           *)
(***************************************************************************)
EXTENDS Integers, Sequences, FiniteSets, Functions

CONSTANTS
  Reqs,            \* requests
  Blocks,          \* the block pool, shared by the cache groups
  Groups,          \* number of cache groups; each takes a block per token
  HiddenGroup,     \* the group of the layer that caches hidden states
  Need,            \* tokens the model has to compute for a request
  ChunkedPrefill,  \* whether a step may compute a part of the tokens left
  MaxBatch,        \* bound: requests of one step
  Depth,           \* steps in flight: 1, or 2 with asynchronous scheduling
  Writers,         \* writer threads
  AbortsFrom,      \* states from which a client may abort its request
  WritesFail       \* whether a disk write may fail

ASSUME Sizes ==
  /\ Groups \in Nat \ {0} /\ HiddenGroup \in 1..Groups
  /\ Need \in Nat \ {0} /\ Depth \in Nat \ {0} /\ Writers \in Nat \ {0}
  /\ MaxBatch \in Nat \ {0}
  /\ ChunkedPrefill \in BOOLEAN /\ WritesFail \in BOOLEAN
  /\ AbortsFrom \subseteq {"waiting", "running", "preempted"}

VARIABLES
  \* scheduler
  status,      \* request -> "new" "waiting" "running" "preempted" "done"
               \*            "aborted" (both finished) "gone"
  computed,    \* num_computed_tokens
  table,       \* request -> its blocks, [tokens \X groups -> block]
  free,        \* blocks of the pool that no request holds
  named,       \* _request_filenames: requests with a file name
  pending,     \* _pending_saves: request -> block of every token to save
  finishedIds, \* finished_req_ids
  queue,       \* the steps in flight, oldest first
  alive,       \* the engine core is running
  \* worker
  kv,          \* block -> row the hidden-states layer wrote there
  event,       \* request -> the block ids being copied, <<>> once copied
  events,      \* _req_copy_events: requests with a tracked copy event
  accum,       \* _accumulated_finished_req_ids
  lockFds,     \* _lock_fds: requests whose lock the connector holds
  host,        \* request -> rows in pinned host memory
  task,        \* request -> "none" "queued" "taken" "writing" "over"
  \* file system and client
  lock,        \* request -> "none" "held" "free" "removed"
  file,        \* request -> "none" "partial" "complete" "removed"
  client       \* request -> "none" "path" "open" "loading" "ok" "error"

sched  == <<status, computed, table, free, named, pending, finishedIds, queue,
            alive>>
worker == <<kv, event, events, accum, lockFds, host, task>>
disk   == <<lock, file>>
vars   == <<sched, worker, disk, client>>

Nothing      == [r \in {} |-> <<>>]
NoRow        == <<>>
Over(f, g)   == [x \in DOMAIN f \cup DOMAIN g |->
                   IF x \in DOMAIN g THEN g[x] ELSE f[x]]
Without(f, S) == [x \in DOMAIN f \ S |-> f[x]]
Held(r)      == Range(table[r])
Finished     == {r \in Reqs : status[r] \in {"done", "aborted"}}
Unfinished   == {r \in Reqs : status[r] \in {"waiting", "running", "preempted"}}

Init ==
  /\ status = [r \in Reqs |-> "new"] /\ computed = [r \in Reqs |-> 0]
  /\ table = [r \in Reqs |-> Nothing] /\ free = Blocks
  /\ named = {} /\ pending = Nothing /\ finishedIds = {} /\ queue = <<>>
  /\ alive = TRUE
  /\ kv = [b \in Blocks |-> NoRow] /\ event = Nothing /\ events = {}
  /\ accum = {} /\ lockFds = {} /\ host = [r \in Reqs |-> <<>>]
  /\ task = [r \in Reqs |-> "none"]
  /\ lock = [r \in Reqs |-> "none"] /\ file = [r \in Reqs |-> "none"]
  /\ client = [r \in Reqs |-> "none"]

-----------------------------------------------------------------------------
(* Scheduler: a step.                                                      *)

Arrive(r) ==
  /\ alive /\ status[r] = "new"
  /\ status' = [status EXCEPT ![r] = "waiting"]
  /\ UNCHANGED <<computed, table, free, named, pending, finishedIds, queue,
                 alive, worker, disk, client>>

\* Unfinished requests, or finished ones the worker has not released.
HasRequests == Unfinished # {} \/ finishedIds # {} \/ Finished # {}

Chunks(r) == IF ChunkedPrefill THEN 1..(Need - computed[r])
             ELSE {Need - computed[r]} \ {0}

\* Requests a step can compute tokens of with the blocks `avail`.
Fits(avail) == {r \in Unfinished :
                  \E k \in Chunks(r) : k * Groups <= Cardinality(avail)}

\* The cells of the block tables a step fills: n[r] more tokens of r.
Cells(n) == UNION {{r} \X ((computed[r] + 1)..(computed[r] + n[r])) \X (1..Groups)
                     : r \in DOMAIN n}

\* Running requests give their blocks up only when a running one lacks some.
MayPreempt(P) ==
  \/ P = {}
  \/ /\ P \subseteq {r \in Reqs : status[r] = "running"}
     /\ \E r \in Reqs : /\ status[r] = "running" /\ computed[r] < Need
                        /\ (Need - computed[r]) * Groups > Cardinality(free)

\* Mutant: the blocks of a new chunk replace those of the earlier ones.
AllocatedAnew(n, new) ==
  [r \in DOMAIN n |->
     [c \in ((computed[r] + 1)..(computed[r] + n[r])) \X (1..Groups) |->
        new[<<r, c[1], c[2]>>]]]

Allocated(n, new) ==
  [r \in DOMAIN n |->
     [c \in (1..(computed[r] + n[r])) \X (1..Groups) |->
        IF c \in DOMAIN table[r] THEN table[r][c] ELSE new[<<r, c[1], c[2]>>]]]

\* What the worker is handed for a step: the cells of the hidden-states group it
\* fills, the requests whose last token it computes, those that are new to the
\* worker, and, from the connector, the saves collected since the last step.
StepOf(n, new) ==
  [ran   |-> "no",
   cells |-> {<<c[1], c[2], new[c]>> : c \in {d \in Cells(n) : d[3] = HiddenGroup}},
   last  |-> {r \in DOMAIN n : computed[r] + n[r] = Need},
   new   |-> {r \in DOMAIN n : status[r] = "waiting"},
   saves |-> pending,
   fin   |-> finishedIds,
   sent  |-> {}]

Schedule ==
  /\ alive /\ Len(queue) < Depth /\ HasRequests
  /\ \E P \in SUBSET Reqs :
     LET left  == [r \in Reqs |-> IF r \in P THEN 0 ELSE computed[r]]
         avail == free \cup UNION {Held(r) : r \in P}
     IN /\ MayPreempt(P)
        /\ \E S \in SUBSET (Fits(avail) \ P) :
           /\ Cardinality(S) <= MaxBatch
           /\ P # {} => \A r \in S : status[r] = "running"
           /\ S = {} => P # {} \/ Fits(free) = {}
           /\ \E n \in [S -> 1..Need] :
              /\ \A r \in S : n[r] \in Chunks(r)
              /\ \E new \in [Cells(n) -> avail] :
                 /\ IsInjective(new)
                 /\ status' = [r \in Reqs |->
                      IF r \in S THEN "running"
                      ELSE IF r \in P THEN "preempted" ELSE status[r]]
                 /\ computed' = [r \in Reqs |->
                      IF r \in S THEN computed[r] + n[r] ELSE left[r]]
                 /\ table' = [r \in Reqs |->
                      IF r \in S THEN Allocated(n, new)[r]
                      ELSE IF r \in P THEN Nothing ELSE table[r]]
                 /\ free' = avail \ Range(new)
                 /\ named' = named \cup {r \in S : status[r] = "waiting"}
                 /\ queue' = Append(queue, StepOf(n, new))
  /\ pending' = Nothing /\ finishedIds' = {}
  /\ UNCHANGED <<alive, worker, disk, client>>

-----------------------------------------------------------------------------
(* Scheduler: the end of a request.                                        *)

\* request_finished_all_groups takes the first group's blocks: the index of the
\* hidden-states group is only ever set on the worker.
SavedGroup == 1

\* The blocks to save; none if they were given up when r was preempted.
SavedBlocks(r) == [i \in 1..computed[r] |-> table[r][<<i, SavedGroup>>]]

\* request_finished for the requests F: their blocks stay where they are until
\* the worker has copied them.
RequestFinished(F) ==
  /\ named' = named \ F
  /\ pending' = Over(pending, [r \in F |-> SavedBlocks(r)])
  /\ finishedIds' = finishedIds \cup F

\* A client gives its request up.  Popping the file name of a request that was
\* never scheduled raises, and takes the engine core down.
Abort(r) ==
  /\ alive /\ status[r] \in AbortsFrom
  /\ status' = [status EXCEPT ![r] = "aborted"]
  /\ IF r \in named THEN RequestFinished({r})
                    ELSE UNCHANGED <<named, pending, finishedIds>>
  /\ alive' = (r \in named)
  /\ UNCHANGED <<computed, table, free, queue, worker, disk, client>>

\* Output of the oldest step: the requests whose last token it computed finish,
\* even if they were preempted since, and their clients get the path; then the
\* blocks of the requests the worker is done with return to the pool.  A request
\* reported twice would raise.
ProcessOutput ==
  /\ alive /\ queue # <<>> /\ Head(queue).ran = "done"
  /\ LET sent == Head(queue).sent
         F    == {r \in Head(queue).last : status[r] \in {"running", "preempted"}}
     IN /\ RequestFinished(F)
        /\ status' = [r \in Reqs |-> IF r \in F THEN "done"
                                     ELSE IF r \in sent THEN "gone" ELSE status[r]]
        /\ client' = [r \in Reqs |-> IF r \in F THEN "path" ELSE client[r]]
        /\ free' = free \cup UNION {Held(r) : r \in sent}
        /\ table' = [r \in Reqs |-> IF r \in sent THEN Nothing ELSE table[r]]
        /\ alive' = (sent \subseteq Finished)
  /\ queue' = Tail(queue)
  /\ UNCHANGED <<computed, worker, disk>>

-----------------------------------------------------------------------------
(* Worker: the steps run in order, each around two calls of the connector. *)

IsNext(i) == \A j \in 1..(i - 1) : queue[j].ran = "done"
LockAll(S, how) == [r \in Reqs |-> IF r \in S THEN how ELSE lock[r]]

\* First half of get_finished: every pending save starts an asynchronous copy
\* and a writer task, which takes the request's lock over, or takes one now.
SubmitWrites(i) ==
  /\ alive /\ queue[i].ran = "no" /\ IsNext(i)
  /\ LET saves == queue[i].saves
     IN /\ event' = Over(event, saves)
        /\ events' = events \cup DOMAIN saves
        /\ task' = [r \in Reqs |-> IF r \in DOMAIN saves THEN "queued" ELSE task[r]]
        /\ lockFds' = lockFds \ DOMAIN saves
        /\ lock' = LockAll(DOMAIN saves, "held")
  /\ queue' = [queue EXCEPT ![i].ran = "submitted"]
  /\ UNCHANGED <<status, computed, table, free, named, pending, finishedIds,
                 alive, kv, accum, host, file, client>>

\* Mutant: a request counts as sent without a look at its copy event.
DoneWithoutQuery(ids) == ids

DoneSending(ids) == {r \in ids : r \notin events \/ r \notin DOMAIN event}

\* Mutant: the ids of earlier calls are forgotten.
OnlyThisCall(fin) == fin

Accumulated(fin) == accum \cup fin

\* Mutant: an id that was reported is kept, and reported again.
KeepReported(ids, done) == ids

StillAwaited(ids, done) == ids \ done

\* Mutant: no lock is taken before the path is known.
NoLockAtArrival(new) == {}

\* wait_for_save: the lock of a newly scheduled request.
LockAtArrival(new) == new \ lockFds

\* The poll of get_finished, then the draft model's forward, which writes the
\* hidden states of the step, then wait_for_save.
EndStep(i) ==
  /\ alive /\ queue[i].ran = "submitted" /\ IsNext(i)
  /\ LET ids   == Accumulated(queue[i].fin)
         done  == DoneSending(ids)
         taken == LockAtArrival(queue[i].new)
     IN /\ accum' = StillAwaited(ids, done)
        /\ events' = events \ done
        /\ lock' = [r \in Reqs |-> IF r \in taken THEN "held"
                                   ELSE IF r \in done \cap lockFds THEN "free"
                                   ELSE lock[r]]
        /\ lockFds' = (lockFds \ done) \cup taken
        /\ queue' = [queue EXCEPT ![i].ran = "done", ![i].sent = done]
  /\ kv' = [b \in Blocks |->
              IF \E c \in queue[i].cells : c[3] = b
              THEN LET c == CHOOSE d \in queue[i].cells : d[3] = b IN <<c[1], c[2]>>
              ELSE kv[b]]
  /\ UNCHANGED <<status, computed, table, free, named, pending, finishedIds,
                 alive, event, host, task, file, client>>

\* The copy stream has copied the blocks of r to host memory.
CopyDone(r) ==
  /\ alive /\ r \in DOMAIN event
  /\ host' = [host EXCEPT ![r] = [i \in DOMAIN event[r] |-> kv[event[r][i]]]]
  /\ event' = Without(event, {r})
  /\ UNCHANGED <<sched, kv, events, accum, lockFds, task, disk, client>>

-----------------------------------------------------------------------------
(* Worker: the writer threads.                                             *)

Busy == {r \in Reqs : task[r] \in {"taken", "writing"}}

TakeTask(r) ==
  /\ alive /\ task[r] = "queued" /\ Cardinality(Busy) < Writers
  /\ task' = [task EXCEPT ![r] = "taken"]
  /\ UNCHANGED <<sched, kv, event, events, accum, lockFds, host, disk, client>>

\* event.synchronize() has returned.
StartWrite(r) ==
  /\ alive /\ task[r] = "taken" /\ r \notin DOMAIN event
  /\ task' = [task EXCEPT ![r] = "writing"]
  /\ file' = [file EXCEPT ![r] = "partial"]
  /\ UNCHANGED <<sched, kv, event, events, accum, lockFds, host, lock, client>>

\* Mutant: the file descriptor that holds the lock is not closed.
EndWriteKeepsLock(r, left) ==
  /\ alive /\ task[r] = "writing"
  /\ task' = [task EXCEPT ![r] = "over"]
  /\ file' = [file EXCEPT ![r] = left]
  /\ UNCHANGED <<sched, kv, event, events, accum, lockFds, host, lock, client>>

\* The lock is released whether save_file returned or raised.
EndWrite(r, left) ==
  /\ alive /\ task[r] = "writing"
  /\ task' = [task EXCEPT ![r] = "over"]
  /\ file' = [file EXCEPT ![r] = left]
  /\ lock' = [lock EXCEPT ![r] = "free"]
  /\ UNCHANGED <<sched, kv, event, events, accum, lockFds, host, client>>

WriteDone(r) == EndWrite(r, "complete")
WriteFails(r) == WritesFail /\ EndWrite(r, "partial")

-----------------------------------------------------------------------------
(* The client: load_hidden_states, then cleanup_hidden_states.             *)

OpenLock(r) ==
  /\ client[r] = "path"
  /\ client' = [client EXCEPT ![r] = IF lock[r] \in {"held", "free"}
                                     THEN "open" ELSE "error"]
  /\ UNCHANGED <<sched, worker, disk>>

SharedLock(r) ==
  /\ client[r] = "open" /\ lock[r] = "free"
  /\ client' = [client EXCEPT ![r] = "loading"]
  /\ UNCHANGED <<sched, worker, disk>>

\* A file that is missing or cut short does not load.
Load(r) ==
  /\ client[r] = "loading"
  /\ IF file[r] = "complete"
     THEN /\ client' = [client EXCEPT ![r] = "ok"]
          /\ file' = [file EXCEPT ![r] = "removed"]
          /\ lock' = [lock EXCEPT ![r] = "removed"]
     ELSE client' = [client EXCEPT ![r] = "error"] /\ UNCHANGED disk
  /\ UNCHANGED <<sched, worker>>

-----------------------------------------------------------------------------

Client(r) == OpenLock(r) \/ SharedLock(r) \/ Load(r)
Writer(r) == TakeTask(r) \/ StartWrite(r) \/ WriteDone(r)
Worker    == \E i \in DOMAIN queue : SubmitWrites(i) \/ EndStep(i)

\* Nothing is left to do: every request is over, or the engine core is gone.
Quiet ==
  /\ \/ ~alive
     \/ \A r \in Reqs : status[r] = "gone" /\ task[r] = "over"
  /\ \A r \in Reqs : client[r] \in {"none", "ok", "error"} \/ ~alive
  /\ UNCHANGED vars

Next ==
  \/ Schedule \/ ProcessOutput \/ Worker
  \/ \E r \in Reqs : \/ Arrive(r) \/ Abort(r) \/ CopyDone(r)
                     \/ Writer(r) \/ WriteFails(r) \/ Client(r)
  \/ Quiet

Spec == Init /\ [][Next]_vars

\* The engine core's loop, the worker, the copy stream, the writer threads and
\* the client keep running; clients need not send nor abort anything.
Fairness ==
  /\ WF_vars(Schedule) /\ WF_vars(ProcessOutput) /\ WF_vars(Worker)
  /\ \A r \in Reqs : WF_vars(CopyDone(r)) /\ WF_vars(Writer(r)) /\ WF_vars(Client(r))
FairSpec == Spec /\ Fairness

-----------------------------------------------------------------------------
(* Properties.                                                             *)

\* Types of the tables, the dictionaries and the files.
TypeOK ==
  /\ status \in [Reqs -> {"new", "waiting", "running", "preempted", "done",
                          "aborted", "gone"}]
  /\ computed \in [Reqs -> 0..Need]
  /\ \A r \in Reqs :
       IF status[r] \in {"running", "done", "aborted"} /\ table[r] # Nothing
       THEN DOMAIN table[r] = (1..computed[r]) \X (1..Groups)
       ELSE table[r] = Nothing
  /\ free \subseteq Blocks /\ named \subseteq Reqs /\ finishedIds \subseteq Reqs
  /\ DOMAIN pending \subseteq Reqs /\ Len(queue) <= Depth /\ alive \in BOOLEAN
  /\ DOMAIN event \subseteq events /\ events \subseteq Reqs
  /\ accum \subseteq Reqs /\ lockFds \subseteq Reqs
  /\ task \in [Reqs -> {"none", "queued", "taken", "writing", "over"}]
  /\ lock \in [Reqs -> {"none", "held", "free", "removed"}]
  /\ file \in [Reqs -> {"none", "partial", "complete", "removed"}]
  /\ client \in [Reqs -> {"none", "path", "open", "loading", "ok", "error"}]

\* No block is lost or owned twice, whatever is preempted, aborted or released
\* late.
BlockOwnership ==
  /\ Blocks = free \cup UNION {Held(r) : r \in Reqs}
  /\ \A r \in Reqs : Held(r) \cap free = {}
  /\ \A q, r \in Reqs : q # r => Held(q) \cap Held(r) = {}

\* Blocks to be saved are not given to anyone else before they are copied: in
\* the scheduler's list, in a step on its way to the worker, and on the copy
\* stream (delay_free_blocks, finished_sending).
Unsaved(r) ==
  UNION ({Range(f[r]) : f \in {g \in {pending, event} : r \in DOMAIN g}}
         \cup {Range(queue[i].saves[r]) :
                 i \in {j \in DOMAIN queue : queue[j].ran = "no"
                                             /\ r \in DOMAIN queue[j].saves}})
NoEarlyReuse == \A r \in Reqs : Unsaved(r) \subseteq Held(r)

\* Every row that reaches host memory is the hidden state of that token of that
\* request, in order, also when later steps are already writing.
RowsAreOwn ==
  \A r \in Reqs : \A i \in DOMAIN host[r] : host[r][i] = <<r, i>>

\* A block is one request's from its allocation until its rows are copied, and
\* the copy is made of that request's rows (the chain from allocation over
\* delayed release and copy stream to host memory).
BlocksAreSafe == BlockOwnership /\ NoEarlyReuse /\ RowsAreOwn

\* What a client loads has one row for every token of its request.
CompleteRows ==
  \A r \in Reqs : client[r] = "ok" => host[r] = [i \in 1..Need |-> <<r, i>>]

\* A client that has a path finds the lock, and the lock is held until the file
\* is written or the write has failed; nobody is in the middle of a load of a
\* file that is being written.
LockGuardsPath ==
  \A r \in Reqs :
    /\ client[r] \in {"path", "open"} => lock[r] \in {"held", "free"}
    /\ client[r] # "none" /\ task[r] # "over" => lock[r] = "held"

\* Whatever clients abort, the engine core goes on.
EngineSurvives == alive

\* The blocks of a finished request return to the pool.
FinishedIsReleased ==
  \A r \in Reqs : status[r] \in {"done", "aborted"} ~> status[r] = "gone"

\* A client with a path gets its rows, or an error after a failed write.
ClientServed == \A r \in Reqs : client[r] = "path" ~> client[r] \in {"ok", "error"}

-----------------------------------------------------------------------------
(* The connector implements the hand-off.                                  *)

\* Rows are copied when the host has one for every token of the request that
\* was computed.  A copy of nothing is no copy.
MemoryOf(r) ==
  IF status[r] = "gone" THEN "released"
  ELSE IF host[r] # <<>> THEN "copied"
  ELSE IF table[r] # Nothing THEN "blocks" ELSE "idle"
PromiseOf(r) ==
  CASE client[r] \in {"path", "open", "loading"} -> "made"
    [] client[r] = "ok"    -> "kept"
    [] client[r] = "error" -> "broken"
    [] OTHER               -> "none"

Abstract == INSTANCE HandOff WITH
  memory  <- [r \in Reqs |-> MemoryOf(r)],
  promise <- [r \in Reqs |-> PromiseOf(r)]

\* The connector's steps are steps of the hand-off: a path is only given out
\* while the rows are in their blocks, blocks are released once and after the
\* copy, and a client never loads before the copy.
ImplementsHandOff == Abstract!Spec
=============================================================================
