----------------------------- MODULE PrefixCache -----------------------------
(***************************************************************************)
(* The scheduler's use of the KV cache with prefix caching: schedule() of  *)
(* vllm/v1/core/sched/scheduler.py, the managers and the coordinator of    *)
(* the cache groups, and the worker that fills the blocks.                 *)
(*                                                                         *)
(* A request is a prompt; its first sampled token ends it.  A full block   *)
(* is cached under the prefix it ends, when it is scheduled: the worker    *)
(* writes its rows later, up to Depth steps behind.  Every cache group     *)
(* holds a row per token; the rows of HiddenGroup are saved when the       *)
(* request is over.  A row <<r, g, i>> of group g was computed for token i *)
(* of r.                                                                   *)
(***************************************************************************)
EXTENDS BlockPool, FiniteSetsExt

CONSTANTS
  Reqs,         \* requests
  Prompt,       \* request -> its tokens
  BlockSize,    \* tokens of a block
  Groups,       \* number of cache groups, which share the pool
  HiddenGroup,  \* the group whose rows are saved
  NumBlocks,    \* blocks of the pool, the null block included
  Budget,       \* tokens a step may compute
  Threshold,    \* tokens a step may compute of one request
                \* (long_prefill_token_threshold)
  Depth,        \* steps in flight
  ByPriority,   \* scheduling policy: priority, or first come first served
  Priority      \* request -> priority, the least goes first

ASSUME Sizes ==
  /\ IsFiniteSet(Reqs)
  /\ BlockSize \in Nat \ {0} /\ Groups \in Nat \ {0} /\ HiddenGroup \in 1..Groups
  /\ NumBlocks \in Nat \ {0} /\ Budget \in Nat \ {0}
  /\ Threshold \in Nat \ {0} /\ Depth \in Nat \ {0}
  /\ ByPriority \in BOOLEAN /\ Prompt \in [Reqs -> Seq(Nat)]
  /\ \A r \in Reqs : Prompt[r] # <<>> /\ Priority[r] \in Nat

VARIABLES
  core,     \* the scheduler, a record:
            \*   pool     the block pool
            \*   computed num_computed_tokens
            \*   table    request -> group -> its blocks (req_to_blocks)
            \*   cached   request -> number of its blocks cached
            \*   running  the running requests, in order
            \*   waiting  the waiting and preempted ones, in order
            \*   arrived  all requests, in the order of their arrival
  status,   \* request -> "new" "waiting" "running" "preempted" "done" "aborted"
            \*            "gone"
  sent,     \* steps the worker has not executed, oldest first
  executed, \* executed steps whose output is not processed, oldest first
  kv,       \* block -> slot -> row
  saved,    \* request -> the rows saved
  round     \* current_step modulo 2: the calls of schedule() that did something

vars == <<core, status, sent, executed, kv, saved, round>>

Need(r)     == Len(Prompt[r])
NoRow       == <<>>
CDiv(n)     == (n + BlockSize - 1) \div BlockSize
\* Tokens of a request scheduled at once, of those left.
Chunk(left, budget) == Min({left, Threshold, budget})
NoBlocks    == [g \in 1..Groups |-> <<>>]
Unfinished  == {"waiting", "running", "preempted"}

\* Mutant: a key of the tokens of the block alone.
KeyOfBlock(r, g, i) == <<SubSeq(Prompt[r], (i - 1) * BlockSize + 1, i * BlockSize), g>>

\* What the i-th full block of r is cached under: the prefix it ends (the hash
\* of a block covers the one before it) and the group.
Key(r, g, i) == <<SubSeq(Prompt[r], 1, i * BlockSize), g>>

Init ==
  /\ core = [pool     |-> NewPool(NumBlocks),
             computed |-> [r \in Reqs |-> 0],
             table    |-> [r \in Reqs |-> NoBlocks],
             cached   |-> [r \in Reqs |-> 0],
             running  |-> <<>>, waiting |-> <<>>, arrived |-> <<>>]
  /\ status = [r \in Reqs |-> "new"] /\ sent = <<>> /\ executed = <<>>
  /\ kv = [b \in 0..(NumBlocks - 1) |-> [s \in 1..BlockSize |-> NoRow]]
  /\ saved = [r \in Reqs |-> <<>>]
  /\ round = 0

-----------------------------------------------------------------------------
(* The cache manager.                                                      *)

\* The longest prefix that every group has cached, short of the last token.
GetComputedBlocks(c, r) ==
  LET full == (Need(r) - 1) \div BlockSize
      hit(g, n) == \A i \in 1..n : GetOneBlock(c.pool, Key(r, g, i)) # NoBlock
      len == Max({n \in 0..full : \A g \in 1..Groups : hit(g, n)})
  IN  [g \in 1..Groups |-> [i \in 1..len |-> GetOneBlock(c.pool, Key(r, g, i))]]

\* Blocks a request takes from the free list: the new ones, and the hit ones
\* that no request holds.
NumBlocksToAllocate(c, r, tokens, hits) ==
  FoldLeft(LAMBDA n, g : n + Max({0, CDiv(tokens) - Len(hits[g]) - Len(c.table[r][g])})
                         + Cardinality({i \in DOMAIN hits[g] : c.pool.ref[hits[g][i]] = 0}),
           0, [g \in 1..Groups |-> g])

AddComputed(c, r, hits) ==
  IF hits = NoBlocks THEN c
  ELSE [c EXCEPT !.pool = FoldLeft(LAMBDA p, g : Touch(p, hits[g]), @, [g \in 1..Groups |-> g]),
                 !.table[r] = hits, !.cached[r] = Len(hits[1])]

AddNew(c, r, tokens) ==
  LET one(d, g) ==
        LET n == Max({0, CDiv(tokens) - Len(d.table[r][g])})
        IN  [d EXCEPT !.pool = GetNewBlocks(@, n),
                      !.table[r][g] = @ \o FirstBlocks(d.pool.queue, n)]
  IN  FoldLeft(one, c, [g \in 1..Groups |-> g])

CacheBlocks(c, r, tokens) ==
  LET full == tokens \div BlockSize
      one(p, g) == CacheFullBlocks(p, c.table[r][g], [i \in 1..full |-> Key(r, g, i)],
                                   c.cached[r] + 1, full)
  IN  [c EXCEPT !.pool = FoldLeft(one, @, [g \in 1..Groups |-> g]),
                !.cached[r] = Max({@, full})]

\* Whether n more tokens of r fit.  A request that is not running must fit as
\* a whole.
HasRoom(c, r, n, hits) ==
  LET tokens == c.computed[r] + Len(hits[1]) * BlockSize + n
  IN  /\ ~Contains(c.running, r) =>
           NumBlocksToAllocate(c, r, Need(r), hits) <= FreeCount(c.pool)
      /\ NumBlocksToAllocate(c, r, tokens, hits) <= FreeCount(c.pool)

AllocateSlots(c, r, n, hits) ==
  LET tokens == c.computed[r] + Len(hits[1]) * BlockSize + n
  IN  CacheBlocks(AddNew(AddComputed(c, r, hits), r, tokens), r, tokens)

\* Mutant: the blocks are freed from the first to the last.
FreeForward(c, r) ==
  [c EXCEPT !.pool = FoldLeft(LAMBDA p, g : FreeBlocks(p, c.table[r][g]),
                              @, [g \in 1..Groups |-> g]),
            !.table[r] = NoBlocks, !.cached[r] = 0]

\* The blocks of a request, the last one first, so that it is evicted first.
Free(c, r) ==
  [c EXCEPT !.pool = FoldLeft(LAMBDA p, g : FreeBlocks(p, Reverse(c.table[r][g])),
                              @, [g \in 1..Groups |-> g]),
            !.table[r] = NoBlocks, !.cached[r] = 0]

-----------------------------------------------------------------------------
(* One step of the scheduler.  It is in progress as a record:              *)
(*   core, plan (the requests scheduled, with their tokens), budget,       *)
(*   next (the place in the running list; 0 at the waiting queue, -1 over),*)
(*   preempted                                                             *)

ArrivedAt(c, r) == CHOOSE i \in DOMAIN c.arrived : c.arrived[i] = r

Before(c, q, r) == \/ Priority[q] < Priority[r]
                   \/ Priority[q] = Priority[r] /\ ArrivedAt(c, q) < ArrivedAt(c, r)

\* The running request that gives its blocks up.
Victim(c) == IF ByPriority
             THEN CHOOSE v \in Range(c.running) :
                    \A q \in Range(c.running) \ {v} : Before(c, q, v)
             ELSE Last(c.running)

\* The waiting request to look at.
FirstWaiting(c) == IF ByPriority
                   THEN CHOOSE v \in Range(c.waiting) :
                          \A q \in Range(c.waiting) \ {v} : Before(c, v, q)
                   ELSE c.waiting[1]

\* Mutant: a preempted request is not put back to the waiting queue.
PreemptForgets(c, v) ==
  [Free(c, v) EXCEPT !.computed[v] = 0, !.running = Only(@, Reqs \ {v})]

Preempt(c, v) ==
  [Free(c, v) EXCEPT !.computed[v] = 0,
                     !.running = Only(@, Reqs \ {v}),
                     !.waiting = <<v>> \o @]

Planned(plan, r) == {i \in DOMAIN plan : plan[i].req = r}

\* A request left the running list; it may have been scheduled in this step.
DropVictim(s, v, r) ==
  LET mine == Planned(s.plan, v)
  IN  [s EXCEPT !.core = Preempt(@, v), !.preempted = TRUE,
                !.plan = Only(@, {e \in Range(@) : e.req # v}),
                !.budget = @ + FoldLeft(LAMBDA n, e : IF e.req = v THEN n + e.n ELSE n,
                                        0, s.plan),
                !.next = IF v = r THEN -1 ELSE IF mine # {} THEN @ - 1 ELSE @]

ScheduleRunning(s) ==
  LET r == s.core.running[s.next]
      n == Chunk(Need(r) - s.core.computed[r], s.budget)
  IN  IF n = 0 THEN [s EXCEPT !.next = @ + 1]
      ELSE IF HasRoom(s.core, r, n, NoBlocks)
      THEN [s EXCEPT !.core = AllocateSlots(@, r, n, NoBlocks), !.next = @ + 1,
                     !.budget = @ - n, !.plan = Append(@, [req |-> r, n |-> n])]
      ELSE DropVictim(s, Victim(s.core), r)

ScheduleWaiting(s) ==
  LET r    == FirstWaiting(s.core)
      hits == GetComputedBlocks(s.core, r)
      h    == Len(hits[1]) * BlockSize
      n    == Chunk(Need(r) - h, s.budget)
      c    == AllocateSlots(s.core, r, n, hits)
  IN  IF ~HasRoom(s.core, r, n, hits) THEN [s EXCEPT !.next = -1]
      ELSE [s EXCEPT !.core = [c EXCEPT !.computed[r] = h,
                                        !.running = Append(@, r),
                                        !.waiting = Only(@, Reqs \ {r})],
                     !.budget = @ - n, !.plan = Append(@, [req |-> r, n |-> n])]

\* One iteration of the two loops of schedule().
Advance(s) ==
  IF s.next > 0
  THEN IF s.next <= Len(s.core.running) /\ s.budget > 0 THEN ScheduleRunning(s)
       ELSE [s EXCEPT !.next = IF s.preempted THEN -1 ELSE 0]
  ELSE IF s.next = 0 /\ s.core.waiting # <<>> /\ s.budget > 0 THEN ScheduleWaiting(s)
  ELSE s

\* Iterations of the longest step: every request is scheduled, preempted, or
\* found to wait once, and the two loops end.
Iterations == 3 * Cardinality(Reqs) + 2

Scheduled ==
  FoldLeft(LAMBDA s, i : Advance(s),
           [core |-> core, plan |-> <<>>, budget |-> Budget, next |-> 1,
            preempted |-> FALSE],
           [i \in 1..Iterations |-> i])

\* What the worker is told: the tokens to compute, and the block tables.
Entry(c, e) == [req |-> e.req, from |-> c.computed[e.req],
                to |-> c.computed[e.req] + e.n, table |-> c.table[e.req]]

\* A call of schedule() does something: a running request has tokens left (it
\* is scheduled, or some request is preempted), or the first one that waits fits.
CanSchedule ==
  /\ Len(sent) + Len(executed) < Depth /\ ~core.pool.failed
  /\ \/ \E r \in Range(core.running) : core.computed[r] < Need(r)
     \/ /\ core.waiting # <<>>
        /\ LET r == FirstWaiting(core) IN
           \E hits \in {GetComputedBlocks(core, r)} :
             HasRoom(core, r, Chunk(Need(r) - Len(hits[1]) * BlockSize, Budget), hits)

Schedule ==
  /\ CanSchedule
  /\ LET s == Scheduled
         entries == [i \in DOMAIN s.plan |-> Entry(s.core, s.plan[i])]
         added(r) == FoldLeft(LAMBDA n, e : IF e.req = r THEN n + e.n ELSE n, 0, s.plan)
     IN  /\ core' = [s.core EXCEPT !.computed = [r \in Reqs |-> @[r] + added(r)]]
         /\ sent' = IF s.plan = <<>> THEN sent ELSE Append(sent, entries)
         /\ status' = [r \in Reqs |->
              CASE Contains(s.core.running, r) -> "running"
                [] status[r] = "running" /\ Contains(s.core.waiting, r) -> "preempted"
                [] OTHER -> status[r]]
  /\ round' = 1 - round
  /\ UNCHANGED <<executed, kv, saved>>

-----------------------------------------------------------------------------
(* The worker, and the rest of the requests' lives.                        *)

BlockOf(t, g, i) == t[g][CDiv(i)]
SlotOf(i)        == ((i - 1) % BlockSize) + 1

\* The cache once the step has written its rows.
Written(k, step) ==
  [b \in DOMAIN k |-> [s \in 1..BlockSize |->
     LET rows == {w \in Range(step) \X (1..Groups) \X (1..Max({Need(r) : r \in Reqs})) :
                    /\ w[3] \in (w[1].from + 1)..w[1].to
                    /\ BlockOf(w[1].table, w[2], w[3]) = b /\ SlotOf(w[3]) = s}
     IN  IF rows = {} THEN k[b][s]
         ELSE LET w == CHOOSE w \in rows : TRUE IN <<w[1].req, w[2], w[3]>>]]

Execute ==
  /\ sent # <<>>
  /\ kv' = Written(kv, Head(sent))
  /\ sent' = Tail(sent) /\ executed' = Append(executed, Head(sent))
  /\ UNCHANGED <<core, status, saved, round>>

Arrive(r) ==
  /\ status[r] = "new"
  /\ status' = [status EXCEPT ![r] = "waiting"]
  /\ core' = [core EXCEPT !.waiting = Append(@, r), !.arrived = Append(@, r)]
  /\ UNCHANGED <<sent, executed, kv, saved, round>>

\* The requests whose prompts are complete have their first token, and finish,
\* even if they were preempted while the step was in flight.
Process ==
  /\ executed # <<>>
  /\ LET over == {e.req : e \in {e \in Range(executed[1]) :
                     e.to = Need(e.req) /\ status[e.req] \in Unfinished}}
         kept(s) == Only(s, Reqs \ over)
     IN  /\ status' = [r \in Reqs |-> IF r \in over THEN "done" ELSE status[r]]
         /\ core' = [core EXCEPT !.running = kept(@), !.waiting = kept(@)]
  /\ executed' = Tail(executed)
  /\ UNCHANGED <<sent, kv, saved, round>>

\* The client gives up a running request.
Abort(r) ==
  /\ status[r] = "running"
  /\ status' = [status EXCEPT ![r] = "aborted"]
  /\ core' = [core EXCEPT !.running = Only(@, Reqs \ {r})]
  /\ UNCHANGED <<sent, executed, kv, saved, round>>

\* The rows of a finished request are copied, after the steps in flight, and
\* its blocks are free.
Copied(r) == /\ status[r] \in {"done", "aborted"}
             /\ \A s \in Range(sent) : \A e \in Range(s) : e.req # r

Release(r) ==
  /\ Copied(r)
  /\ status' = [status EXCEPT ![r] = "gone"]
  /\ core' = Free(core, r)
  /\ saved' = [saved EXCEPT ![r] =
       IF status[r] = "aborted" \/ core.table[r] = NoBlocks THEN <<>>
       ELSE [i \in 1..Need(r) |->
               kv[BlockOf(core.table[r], HiddenGroup, i)][SlotOf(i)]]]
  /\ UNCHANGED <<sent, executed, kv, round>>

\* reset_prefix_cache, asked for by a client.
ResetPrefixCache ==
  /\ CanReset(core.pool)
  /\ core' = [core EXCEPT !.pool = ResetPool(@)]
  /\ UNCHANGED <<status, sent, executed, kv, saved, round>>

Next ==
  \/ Schedule \/ Execute \/ Process \/ ResetPrefixCache
  \/ \E r \in Reqs : Arrive(r) \/ Abort(r) \/ Release(r)

Spec == Init /\ [][Next]_vars

\* The engine's loop calls schedule() while it can do something, the worker
\* executes the steps it is sent, and reports the rows it has copied.  Each
\* action is named by what no other action does, so this is weak fairness of
\* Schedule, Execute, Process and Release(r).
Fairness ==
  /\ WF_round(CanSchedule /\ round' = 1 - round)
  /\ WF_sent(sent # <<>> /\ sent' = Tail(sent))
  /\ WF_executed(executed # <<>> /\ executed' = Tail(executed))
  /\ \A r \in Reqs : WF_status(Copied(r) /\ status' = [status EXCEPT ![r] = "gone"])

FairSpec == Spec /\ Fairness

-----------------------------------------------------------------------------
(* Properties.                                                             *)

Pool   == core.pool
Usable == 1..(NumBlocks - 1)
Holds(r, g, b) == Contains(core.table[r][g], b)

\* The scheduler's variables have their types, and its two queues hold the
\* requests whose status says so.
TypeOK ==
  /\ status \in [Reqs -> Unfinished \cup {"new", "done", "aborted", "gone"}]
  /\ \A r \in Reqs : /\ core.computed[r] \in 0..Need(r)
                     /\ core.cached[r] <= Len(core.table[r][1])
                     /\ \A g \in 1..Groups : Range(core.table[r][g]) \subseteq Usable
  /\ Range(core.running) = {r \in Reqs : status[r] = "running"}
  /\ Range(core.waiting) = {r \in Reqs : status[r] \in {"waiting", "preempted"}}
  /\ Pool.ref[NullBlock] = 0 /\ Len(sent) + Len(executed) <= Depth

\* The reference count of a block is the number of requests that hold it, and
\* the linked list holds the blocks without one, each once: no block leaks, and
\* none is handed out while a request reads it.  (touch, free_blocks and
\* get_new_blocks keep three views of the same blocks in step.)
FreeListIsUnheld ==
  LET list == FirstBlocks(Pool.queue, FreeCount(Pool))
  IN  /\ Represents(Pool.queue, list)
      /\ \A b \in Usable :
           /\ Pool.ref[b] = Cardinality({c \in Reqs \X (1..Groups) : Holds(c[1], c[2], b)})
           /\ Contains(list, b) <=> Pool.ref[b] = 0

\* The map of the prefix cache and the hashes of the blocks agree, so a block
\* is found under its own prefix only.  (Insertions and evictions change both;
\* several blocks may be cached under one prefix.)
CacheIsConsistent ==
  \A b \in Usable \cup {NullBlock} :
    /\ Pool.hash[b] # NoKey => /\ Pool.hash[b] \in DOMAIN Pool.cached
                               /\ Contains(Pool.cached[Pool.hash[b]], b)
    /\ \A k \in DOMAIN Pool.cached :
         Contains(Pool.cached[k], b) => Pool.hash[b] = k

\* No allocation fails once the capacity was found sufficient, and no assertion
\* of the pool.  (The check counts the hit blocks that leave the free list.)
PoolNeverFails == ~Pool.failed

\* The views that requests, free list and cache have of the blocks agree.
PoolIsConsistent == TypeOK /\ FreeListIsUnheld /\ CacheIsConsistent /\ PoolNeverFails

\* A cached prefix can be reached: the shorter prefixes of the same group are
\* cached too, so that the lookup, which stops at the first miss, finds it.
\* (Blocks are freed from the last to the first, to be evicted in that order.)
PrefixesReachable ==
  \A k \in DOMAIN Pool.cached :
    Len(k[1]) > BlockSize =>
      <<SubSeq(k[1], 1, Len(k[1]) - BlockSize), k[2]>> \in DOMAIN Pool.cached

\* The row is of group g and token i, of a prompt with the prefix of r.
SameRow(row, r, g, i) ==
  /\ row # NoRow /\ row[2] = g /\ row[3] = i
  /\ SubSeq(Prompt[row[1]], 1, i) = SubSeq(Prompt[r], 1, i)

\* What a step reads is there when it runs: every row of the tokens so far is a
\* row of the request's own prefix, written by an earlier step or by this one.
\* (Blocks are cached before the worker fills them, and they are evicted,
\* reused and freed while steps are in flight.)
ReadsOwnPrefix ==
  sent # <<>> =>
    LET after == Written(kv, sent[1])
    IN  \A e \in Range(sent[1]), g \in 1..Groups : \A i \in 1..e.to :
          SameRow(after[BlockOf(e.table, g, i)][SlotOf(i)], e.req, g, i)

\* The rows that are saved for a request are rows of its prefixes.
SavesOwnRows ==
  \A r \in Reqs : \A i \in DOMAIN saved[r] : SameRow(saved[r][i], r, HiddenGroup, i)

\* A cache hit is as good as computing the rows, for the attention that reads
\* them and for the hidden states that are saved.
HitsAreRight == ReadsOwnPrefix /\ SavesOwnRows

\* A step evicts a cached block only when the free list has no uncached one.
EvictsCachedLast ==
  [][\A b \in Usable :
       (Pool.hash[b] # NoKey /\ Pool'.hash[b] = NoKey /\ Pool'.ref[b] > 0) =>
         \A f \in Usable : Pool'.ref[f] = 0 /\ Pool.ref[f] = 0 => Pool.hash[f] # NoKey]_vars

\* Every request that arrives is over in the end: the preemptions do not take
\* the blocks of each other for ever, and none waits for blocks that no one
\* frees.
Served == \A r \in Reqs : status[r] = "waiting" ~> status[r] = "gone"

\* All tokens of a request have the same layer: its rows come from forward
\* passes that chose for it.  ("sample" granularity, aifd.py)
OneSelection ==
  \A r \in Reqs : \A i, j \in DOMAIN saved[r] : saved[r][i][1] = saved[r][j][1]
=============================================================================
