-------------------------- MODULE HiddenStatesProofs --------------------------
(***************************************************************************)
(* The hand-off of hidden states: for any requests, blocks, groups, steps  *)
(* in flight and writer threads, no block is reused before it is copied,   *)
(* what is copied is the rows of its request, and a client that has a path *)
(* is guarded by a lock until its file is written.  Without chunked        *)
(* prefill what the client loads is complete, and the connector implements *)
(* the hand-off.                                                           *)
(***************************************************************************)
EXTENDS HiddenStatesConnector, SequenceTheorems, TLAPS

Places == {"new", "waiting", "running", "preempted", "done", "aborted", "gone"}
Saves  == UNION {[R -> Seq(Blocks)] : R \in SUBSET Reqs}

StepSet == [ran : {"no", "submitted", "done"}, cells : SUBSET (Reqs \X (1..Need) \X Blocks),
            last : SUBSET Reqs, new : SUBSET Reqs, saves : Saves,
            fin : SUBSET Reqs, sent : SUBSET Reqs]

\* The cells of the hidden-states table and those of the other groups.
Grid(r) == IF status[r] = "gone" THEN {} ELSE (1..computed[r]) \X (1..Groups)

TypedSched ==
  /\ status \in [Reqs -> Places] /\ computed \in [Reqs -> 0..Need]
  /\ \A r \in Reqs : /\ table[r] \in [Grid(r) -> Blocks]
                     /\ status[r] \in {"new", "waiting", "preempted"} => computed[r] = 0
  /\ free \subseteq Blocks /\ named \subseteq Reqs /\ finishedIds \subseteq Reqs
  /\ pending \in Saves /\ queue \in Seq(StepSet) /\ Len(queue) <= Depth /\ alive \in BOOLEAN

TypedWorker ==
  /\ DOMAIN kv = Blocks /\ DOMAIN host = Reqs
  /\ event \in Saves /\ DOMAIN event \subseteq events /\ events \subseteq Reqs
  /\ accum \subseteq Reqs /\ lockFds \subseteq Reqs
  /\ task \in [Reqs -> {"none", "queued", "taken", "writing", "over"}]

TypedClient ==
  /\ lock \in [Reqs -> {"none", "held", "free", "removed"}]
  /\ file \in [Reqs -> {"none", "partial", "complete", "removed"}]
  /\ client \in [Reqs -> {"none", "path", "open", "loading", "ok", "error"}]

Typed == TypedSched /\ TypedWorker /\ TypedClient

\* Every block is in the pool or in one cell of one table.
Owned ==
  /\ Blocks = free \cup UNION {Held(r) : r \in Reqs}
  /\ \A r \in Reqs : \A c \in Grid(r) : table[r][c] \notin free
  /\ \A q, r \in Reqs : \A c \in Grid(q), d \in Grid(r) :
       table[q][c] = table[r][d] => q = r /\ c = d

\* The worker runs the steps in order.
InOrder ==
  /\ \A i, j \in DOMAIN queue : i < j /\ queue[i].ran # "done" => queue[j].ran = "no"
  /\ \A i \in DOMAIN queue : queue[i].ran # "done" => queue[i].sent = {}

\* The finished requests a step stands for: those it brings to the worker, and
\* then those that it brings back.
Carried(i) == IF queue[i].ran = "done" THEN queue[i].sent ELSE queue[i].fin

\* A finished request is in one place on its way to the worker and back.
OnePlace ==
  /\ finishedIds \subseteq Finished /\ accum \subseteq Finished /\ accum \cap finishedIds = {}
  /\ \A i \in DOMAIN queue :
       /\ Carried(i) \subseteq Finished
       /\ Carried(i) \cap finishedIds = {} /\ Carried(i) \cap accum = {}
  /\ \A i, j \in DOMAIN queue : i # j => Carried(i) \cap Carried(j) = {}

\* The requests whose save has been submitted and that are not back yet.
Submitted == accum \cup UNION {Carried(i) : i \in {j \in DOMAIN queue : queue[j].ran # "no"}}

\* What is on its way is the blocks of the request.
InFlight ==
  /\ DOMAIN pending = finishedIds
  /\ \A r \in finishedIds : pending[r] = SavedBlocks(r)
  /\ \A i \in DOMAIN queue :
       /\ DOMAIN queue[i].saves = queue[i].fin
       /\ queue[i].ran = "no" => \A r \in queue[i].fin : queue[i].saves[r] = SavedBlocks(r)
  /\ \A r \in DOMAIN event :
       /\ event[r] = SavedBlocks(r)
       /\ r \in accum \/ \E i \in DOMAIN queue : queue[i].ran = "submitted" /\ r \in queue[i].fin

\* The writer task of a request exists from the submission on.
Tasks ==
  \A r \in Reqs :
    /\ task[r] = "none" <=> ~(status[r] = "gone" \/ r \in Submitted)
    /\ task[r] \in {"writing", "over"} => r \notin DOMAIN event

Sched == Owned /\ InOrder /\ OnePlace /\ InFlight /\ Tasks

\* Step i writes block b.
Writes(i, b) == \E c \in queue[i].cells : c[3] = b

\* The last write to block b is token k of r: it has been done, or the step that
\* does it is in flight.
Lands(r, k, b) ==
  \/ /\ kv[b] = <<r, k>>
     /\ \A i \in DOMAIN queue : queue[i].ran # "done" => ~Writes(i, b)
  \/ \E i \in DOMAIN queue :
       /\ queue[i].ran # "done" /\ <<r, k, b>> \in queue[i].cells
       /\ \A j \in DOMAIN queue : i < j => ~Writes(j, b)

\* Block b is the one that request r holds for the hidden state of token k.
RowAt(r, k, b) ==
  status[r] # "gone" /\ k \in 1..computed[r] /\ b = table[r][<<k, HiddenGroup>>]

\* Every row of a table is where it should be once the steps in flight are done,
\* and what is to be copied is not written any more.
Rows ==
  /\ \A i \in DOMAIN queue : \A c, d \in queue[i].cells : c[3] = d[3] => c = d
  /\ \A r \in Reqs, k \in 1..Need, b \in Blocks : RowAt(r, k, b) =>
       /\ Lands(r, k, b)
       /\ r \in DOMAIN event =>
            \A i \in DOMAIN queue : queue[i].ran # "done" => ~Writes(i, b)
       /\ \A i, j \in DOMAIN queue : queue[i].ran = "no" /\ r \in queue[i].fin /\ i <= j =>
            ~Writes(j, b)

\* Host memory has a row for every token from the copy on; they are the request's
\* own if the layer's group is the one that is saved.
Tokens(r) == IF task[r] # "none" /\ r \notin DOMAIN event THEN 1..computed[r] ELSE {}
Hosts ==
  \A r \in Reqs :
    /\ host[r] = [k \in Tokens(r) |-> host[r][k]]
    /\ HiddenGroup = SavedGroup => \A k \in Tokens(r) : host[r][k] = <<r, k>>

\* The requests of a step have left the waiting queue, and those it reports are
\* over.
Brought ==
  \A i \in DOMAIN queue :
    /\ \A r \in queue[i].new \cup queue[i].last : status[r] \notin {"new", "waiting"}
    /\ \A r \in queue[i].fin : status[r] \in {"done", "aborted", "gone"}

\* A request is new to the worker before it is anything else.
NewFirst ==
  \A i, j \in DOMAIN queue : \A r \in queue[i].new :
    /\ r \in queue[j].last => i <= j
    /\ r \in queue[j].fin => i < j
    /\ queue[i].ran # "done" => task[r] = "none"

\* The lock of a request is taken when the step that brought it to the worker
\* ends.
Taken ==
  \A r \in Reqs : status[r] \in {"running", "preempted", "done", "gone"} =>
    \/ lock[r] # "none"
    \/ \E i \in DOMAIN queue : queue[i].ran # "done" /\ r \in queue[i].new

\* The connector keeps it until the writer task takes it over.
Kept == \A r \in lockFds : lock[r] # "none" /\ r \notin Submitted

\* Then it is held until the writer task is over.
Guarded(r) ==
  /\ task[r] # "none" => lock[r] # "none"
  /\ lock[r] \in {"free", "removed"} => task[r] = "over"
  /\ lock[r] = "removed" => client[r] = "ok"
  /\ file[r] = "complete" => task[r] = "over"
  /\ client[r] # "none" => lock[r] # "none" /\ status[r] \in {"done", "gone"}
  /\ client[r] \in {"loading", "ok"} => task[r] = "over"

Locks == Brought /\ NewFirst /\ Taken /\ Kept /\ \A r \in Reqs : Guarded(r)

\* Only requests that the connector knows run, and nothing else takes the engine
\* core down.
Known ==
  /\ alive => \A r \in Reqs : status[r] \in {"running", "preempted"} => r \in named
  /\ "waiting" \notin AbortsFrom => alive

\* Without chunked prefill a request is computed in one step.
Whole ==
  ~ChunkedPrefill =>
    \A r \in Reqs : /\ status[r] # "preempted"
                    /\ status[r] = "running" \/ client[r] # "none" => computed[r] = Need

IInv == Typed /\ Sched /\ Rows /\ Hosts /\ Locks /\ Known /\ Whole

-----------------------------------------------------------------------------
(* Lemmas on the helpers.                                                  *)

\* A map of saves is a function of requests.
LEMMA SavesAre ==
  /\ Nothing \in Saves /\ DOMAIN Nothing = {}
  /\ \A f \in Saves : DOMAIN f \subseteq Reqs /\ \A r \in DOMAIN f : f[r] \in Seq(Blocks)
  /\ \A f, g \in Saves : /\ Over(f, g) \in Saves /\ DOMAIN Over(f, g) = DOMAIN f \cup DOMAIN g
                         /\ \A r \in DOMAIN f \cup DOMAIN g :
                              Over(f, g)[r] = IF r \in DOMAIN g THEN g[r] ELSE f[r]
  /\ \A f \in Saves : \A r \in Reqs :
       /\ Without(f, {r}) \in Saves /\ DOMAIN Without(f, {r}) = DOMAIN f \ {r}
       /\ \A q \in DOMAIN f \ {r} : Without(f, {r})[q] = f[q]
<1>1. ASSUME NEW R \in SUBSET Reqs, NEW h, DOMAIN h = R, h = [r \in R |-> h[r]],
             \A r \in R : h[r] \in Seq(Blocks)
      PROVE  h \in Saves
  BY <1>1 DEF Saves
<1>2. \A f \in Saves : DOMAIN f \subseteq Reqs /\ \A r \in DOMAIN f : f[r] \in Seq(Blocks)
  BY DEF Saves
<1>3. Nothing \in Saves /\ DOMAIN Nothing = {}
  <2>1. /\ DOMAIN Nothing = {} /\ {} \in SUBSET Reqs
        /\ Nothing = [r \in {} |-> Nothing[r]]
    BY DEF Nothing
  <2> QED BY <1>1, <2>1
<1>4. ASSUME NEW f \in Saves, NEW g \in Saves
      PROVE  /\ Over(f, g) \in Saves /\ DOMAIN Over(f, g) = DOMAIN f \cup DOMAIN g
             /\ \A r \in DOMAIN f \cup DOMAIN g :
                  Over(f, g)[r] = IF r \in DOMAIN g THEN g[r] ELSE f[r]
  <2>1. DOMAIN Over(f, g) = DOMAIN f \cup DOMAIN g
    BY DEF Over
  <2>2. \A r \in DOMAIN f \cup DOMAIN g : Over(f, g)[r] = IF r \in DOMAIN g THEN g[r] ELSE f[r]
    BY DEF Over
  <2>3. Over(f, g) = [r \in DOMAIN f \cup DOMAIN g |-> Over(f, g)[r]]
    BY DEF Over
  <2>4. DOMAIN f \cup DOMAIN g \in SUBSET Reqs
    BY <1>2
  <2>5. \A r \in DOMAIN f \cup DOMAIN g : Over(f, g)[r] \in Seq(Blocks)
    BY <1>2, <2>2
  <2> QED BY <1>1, <2>1, <2>2, <2>3, <2>4, <2>5
<1>5. ASSUME NEW f \in Saves, NEW r \in Reqs
      PROVE  /\ Without(f, {r}) \in Saves /\ DOMAIN Without(f, {r}) = DOMAIN f \ {r}
             /\ \A q \in DOMAIN f \ {r} : Without(f, {r})[q] = f[q]
  <2>1. /\ DOMAIN Without(f, {r}) = DOMAIN f \ {r}
        /\ \A q \in DOMAIN f \ {r} : Without(f, {r})[q] = f[q]
    BY DEF Without
  <2>2. Without(f, {r}) = [q \in DOMAIN f \ {r} |-> Without(f, {r})[q]]
    BY DEF Without
  <2>3. DOMAIN f \ {r} \in SUBSET Reqs /\ \A q \in DOMAIN f \ {r} : f[q] \in Seq(Blocks)
    BY <1>2
  <2> QED BY <1>1, <2>1, <2>2, <2>3
<1> QED BY <1>2, <1>3, <1>4, <1>5

\* The fields of the steps in flight.
LEMMA QueueTypes ==
  ASSUME TypedSched
  PROVE  /\ queue \in Seq(StepSet) /\ Len(queue) \in Nat /\ DOMAIN queue = 1..Len(queue)
         /\ \A i \in DOMAIN queue :
              /\ queue[i] \in StepSet /\ queue[i].ran \in {"no", "submitted", "done"}
              /\ queue[i].cells \subseteq Reqs \X (1..Need) \X Blocks
              /\ queue[i].last \subseteq Reqs /\ queue[i].new \subseteq Reqs
              /\ queue[i].saves \in Saves
              /\ queue[i].fin \subseteq Reqs /\ queue[i].sent \subseteq Reqs
<1>1. queue \in Seq(StepSet) /\ Len(queue) \in Nat /\ DOMAIN queue = 1..Len(queue)
  BY DEF TypedSched
<1>2. \A i \in DOMAIN queue : queue[i] \in StepSet
  BY <1>1
<1> QED BY <1>1, <1>2 DEF StepSet

\* The blocks that are saved are those of a finished request.
LEMMA SavedAre ==
  ASSUME TypedSched, NEW r \in Reqs, status[r] # "gone"
  PROVE  /\ computed[r] \in Nat /\ SavedBlocks(r) \in Seq(Blocks)
         /\ DOMAIN SavedBlocks(r) = 1..computed[r]
         /\ \A k \in 1..computed[r] : \A g \in 1..Groups : <<k, g>> \in Grid(r)
         /\ \A k \in 1..computed[r] : /\ SavedBlocks(r)[k] = table[r][<<k, 1>>]
                                      /\ <<k, 1>> \in Grid(r)
<1>1. computed[r] \in Nat /\ 1 \in 1..Groups
  BY Sizes DEF TypedSched
<1>2. \A k \in 1..computed[r] : \A g \in 1..Groups : <<k, g>> \in Grid(r)
  BY DEF Grid
<1>3. \A k \in 1..computed[r] : table[r][<<k, 1>>] \in Blocks
  BY <1>1, <1>2 DEF TypedSched
<1>4. /\ DOMAIN SavedBlocks(r) = 1..computed[r]
      /\ \A k \in 1..computed[r] : SavedBlocks(r)[k] = table[r][<<k, 1>>]
      /\ SavedBlocks(r) \in Seq(Blocks)
  <2>1. SavedBlocks(r) = [k \in 1..computed[r] |-> table[r][<<k, 1>>]]
    BY DEF SavedBlocks, SavedGroup
  <2> DEFINE n == computed[r]
  <2> DEFINE s == SavedBlocks(r)
  <2> HIDE DEF n, s
  <2>2. n \in Nat /\ s = [k \in 1..n |-> table[r][<<k, 1>>]]
    BY <1>1, <2>1 DEF n, s
  <2>3. \A k \in 1..n : table[r][<<k, 1>>] \in Blocks
    BY <1>3 DEF n
  <2>4. s \in [1..n -> Blocks]
    BY <2>2, <2>3
  <2>5. DOMAIN s = 1..n /\ \A k \in 1..n : s[k] = table[r][<<k, 1>>]
    BY <2>2
  <2>6. s \in Seq(Blocks)
    BY <2>2, <2>4
  <2> QED BY <2>5, <2>6 DEF n, s
<1> QED BY <1>1, <1>2, <1>4

\* The step that the worker submits, or ends, is the first that is not done.
LEMMA SubmitQueue ==
  ASSUME TypedSched, NEW i \in DOMAIN queue, SubmitWrites(i)
  PROVE  /\ queue' \in Seq(StepSet) /\ Len(queue') = Len(queue) /\ DOMAIN queue' = DOMAIN queue
         /\ \A j \in DOMAIN queue :
              /\ queue'[j].ran = IF j = i THEN "submitted" ELSE queue[j].ran
              /\ queue'[j].cells = queue[j].cells /\ queue'[j].last = queue[j].last
              /\ queue'[j].new = queue[j].new /\ queue'[j].saves = queue[j].saves
              /\ queue'[j].fin = queue[j].fin /\ queue'[j].sent = queue[j].sent
<1>1. queue' = [queue EXCEPT ![i].ran = "submitted"]
  BY DEF SubmitWrites
<1>2. [queue[i] EXCEPT !.ran = "submitted"] \in StepSet
  BY QueueTypes DEF StepSet
<1>3. /\ queue' \in Seq(StepSet) /\ Len(queue') = Len(queue)
      /\ queue' = [queue EXCEPT ![i] = [queue[i] EXCEPT !.ran = "submitted"]]
  BY <1>1, <1>2, QueueTypes, ExceptSeq
<1>4. \A j \in DOMAIN queue : queue'[j] = IF j = i THEN [queue[i] EXCEPT !.ran = "submitted"]
                                                   ELSE queue[j]
  BY <1>3, QueueTypes
<1>5. DOMAIN queue' = DOMAIN queue
  BY <1>3
<1>6. /\ [queue[i] EXCEPT !.ran = "submitted"].ran = "submitted"
      /\ [queue[i] EXCEPT !.ran = "submitted"].cells = queue[i].cells
      /\ [queue[i] EXCEPT !.ran = "submitted"].last = queue[i].last
      /\ [queue[i] EXCEPT !.ran = "submitted"].new = queue[i].new
      /\ [queue[i] EXCEPT !.ran = "submitted"].saves = queue[i].saves
      /\ [queue[i] EXCEPT !.ran = "submitted"].fin = queue[i].fin
      /\ [queue[i] EXCEPT !.ran = "submitted"].sent = queue[i].sent
  BY QueueTypes DEF StepSet
<1> QED BY <1>3, <1>4, <1>5, <1>6

\* What the worker reports at the end of a step.
Reported(i) == DoneSending(Accumulated(queue[i].fin))

\* The step the worker ends brings back what it reports.
LEMMA EndQueue ==
  ASSUME TypedSched, TypedWorker, NEW i \in DOMAIN queue, EndStep(i)
  PROVE  /\ queue' \in Seq(StepSet) /\ Len(queue') = Len(queue) /\ DOMAIN queue' = DOMAIN queue
         /\ Reported(i) \subseteq accum \cup queue[i].fin
         /\ \A j \in DOMAIN queue :
              /\ queue'[j].ran = IF j = i THEN "done" ELSE queue[j].ran
              /\ queue'[j].sent = IF j = i THEN Reported(i) ELSE queue[j].sent
              /\ queue'[j].cells = queue[j].cells /\ queue'[j].last = queue[j].last
              /\ queue'[j].new = queue[j].new /\ queue'[j].saves = queue[j].saves
              /\ queue'[j].fin = queue[j].fin
<1> DEFINE D == Reported(i)
<1> DEFINE s == [[queue[i] EXCEPT !.ran = "done"] EXCEPT !.sent = D]
<1>1. queue' = [queue EXCEPT ![i].ran = "done", ![i].sent = D]
  BY DEF EndStep, Reported
<1>2. D \subseteq accum \cup queue[i].fin /\ D \in SUBSET Reqs
  BY QueueTypes DEF Reported, DoneSending, Accumulated, TypedWorker
<1> HIDE DEF D
<1>3. s \in StepSet
  BY <1>2, QueueTypes DEF StepSet
<1>4. /\ s.ran = "done" /\ s.sent = D /\ s.cells = queue[i].cells /\ s.last = queue[i].last
      /\ s.new = queue[i].new /\ s.saves = queue[i].saves /\ s.fin = queue[i].fin
  BY QueueTypes DEF StepSet
<1>5. queue' = [queue EXCEPT ![i] = s]
  BY <1>1, QueueTypes
<1> HIDE DEF s
<1>6. /\ queue' \in Seq(StepSet) /\ Len(queue') = Len(queue) /\ DOMAIN queue' = DOMAIN queue
      /\ \A j \in DOMAIN queue : queue'[j] = IF j = i THEN s ELSE queue[j]
  BY <1>3, <1>5, QueueTypes, ExceptSeq
<1> QED BY <1>2, <1>4, <1>6 DEF D

\* The oldest step leaves the queue with its output.
LEMMA OutputQueue ==
  ASSUME TypedSched, ProcessOutput
  PROVE  /\ 1 \in DOMAIN queue /\ Head(queue) = queue[1] /\ queue[1].ran = "done"
         /\ queue' \in Seq(StepSet) /\ Len(queue') = Len(queue) - 1
         /\ \A j \in DOMAIN queue' : j + 1 \in DOMAIN queue /\ queue'[j] = queue[j + 1]
         /\ \A j \in DOMAIN queue : j # 1 => j - 1 \in DOMAIN queue' /\ queue'[j - 1] = queue[j]
<1>1. queue # <<>> /\ queue' = Tail(queue) /\ Head(queue).ran = "done"
  BY DEF ProcessOutput
<1>2. 1 \in DOMAIN queue /\ Head(queue) = queue[1]
  BY <1>1, QueueTypes
<1>3. /\ queue' \in Seq(StepSet) /\ Len(queue') = Len(queue) - 1
      /\ DOMAIN queue' = 1..Len(queue')
      /\ \A j \in 1..Len(queue') : queue'[j] = queue[j + 1]
  BY <1>1, QueueTypes, HeadTailProperties
<1> QED BY <1>1, <1>2, <1>3, QueueTypes

-----------------------------------------------------------------------------
(* What a step of the scheduler does.                                      *)

\* The blocks that are at hand when the requests P give theirs up.
AtHand(P) == free \cup UNION {Held(r) : r \in P}

\* The step that takes n[r] more tokens of the requests S, whose new cells get
\* the blocks new, from the pool and from the requests P.
Scheduled(P, S, n, new) ==
  /\ P \subseteq Reqs /\ \A r \in P : status[r] = "running"
  /\ P = {} \/ \E r \in Reqs : status[r] = "running" /\ computed[r] < Need
  /\ S \subseteq Unfinished \ P
  /\ n \in [S -> 1..Need] /\ \A r \in S : n[r] \in Chunks(r)
  /\ new \in [Cells(n) -> AtHand(P)] /\ IsInjective(new)
  /\ status' = [r \in Reqs |-> IF r \in S THEN "running"
                               ELSE IF r \in P THEN "preempted" ELSE status[r]]
  /\ computed' = [r \in Reqs |-> IF r \in S THEN computed[r] + n[r]
                                 ELSE IF r \in P THEN 0 ELSE computed[r]]
  /\ table' = [r \in Reqs |-> IF r \in S THEN Allocated(n, new)[r]
                              ELSE IF r \in P THEN Nothing ELSE table[r]]
  /\ free' = AtHand(P) \ Range(new)
  /\ named' = named \cup {r \in S : status[r] = "waiting"}
  /\ queue' = Append(queue, StepOf(n, new))

\* Schedule is such a step.
LEMMA ScheduleIs ==
  ASSUME Schedule
  PROVE  \E P, S \in SUBSET Reqs : \E n \in [S -> 1..Need] :
           \E new \in [Cells(n) -> AtHand(P)] : Scheduled(P, S, n, new)
<1>1. PICK P \in SUBSET Reqs :
        LET left  == [r \in Reqs |-> IF r \in P THEN 0 ELSE computed[r]]
            avail == free \cup UNION {Held(r) : r \in P}
        IN /\ MayPreempt(P)
           /\ \E S \in SUBSET (Fits(avail) \ P) :
              /\ Cardinality(S) <= MaxBatch
              /\ P # {} => \A r \in S : status[r] = "running"
              /\ S = {} => P # {} \/ Fits(free) = {}
              /\ \E n \in [S -> 1..Need] :
                 /\ \A r \in S : n[r] \in Chunks(r)
                 /\ \E new \in [Cells(n) -> avail] :
                    /\ IsInjective(new)
                    /\ status' = [r \in Reqs |->
                         IF r \in S THEN "running"
                         ELSE IF r \in P THEN "preempted" ELSE status[r]]
                    /\ computed' = [r \in Reqs |->
                         IF r \in S THEN computed[r] + n[r] ELSE left[r]]
                    /\ table' = [r \in Reqs |->
                         IF r \in S THEN Allocated(n, new)[r]
                         ELSE IF r \in P THEN Nothing ELSE table[r]]
                    /\ free' = avail \ Range(new)
                    /\ named' = named \cup {r \in S : status[r] = "waiting"}
                    /\ queue' = Append(queue, StepOf(n, new))
  BY DEF Schedule
<1> DEFINE avail == AtHand(P)
<1>2. PICK S \in SUBSET (Fits(avail) \ P) :
        \E n \in [S -> 1..Need] :
           /\ \A r \in S : n[r] \in Chunks(r)
           /\ \E new \in [Cells(n) -> avail] :
              /\ IsInjective(new)
              /\ status' = [r \in Reqs |-> IF r \in S THEN "running"
                                           ELSE IF r \in P THEN "preempted" ELSE status[r]]
              /\ computed' = [r \in Reqs |->
                   IF r \in S THEN computed[r] + n[r]
                   ELSE [q \in Reqs |-> IF q \in P THEN 0 ELSE computed[q]][r]]
              /\ table' = [r \in Reqs |-> IF r \in S THEN Allocated(n, new)[r]
                                          ELSE IF r \in P THEN Nothing ELSE table[r]]
              /\ free' = avail \ Range(new)
              /\ named' = named \cup {r \in S : status[r] = "waiting"}
              /\ queue' = Append(queue, StepOf(n, new))
  BY <1>1 DEF AtHand
<1> HIDE DEF avail
<1>n. PICK n \in [S -> 1..Need] :
        /\ \A r \in S : n[r] \in Chunks(r)
        /\ \E new \in [Cells(n) -> avail] :
           /\ IsInjective(new)
           /\ status' = [r \in Reqs |-> IF r \in S THEN "running"
                                        ELSE IF r \in P THEN "preempted" ELSE status[r]]
           /\ computed' = [r \in Reqs |->
                IF r \in S THEN computed[r] + n[r]
                ELSE [q \in Reqs |-> IF q \in P THEN 0 ELSE computed[q]][r]]
           /\ table' = [r \in Reqs |-> IF r \in S THEN Allocated(n, new)[r]
                                       ELSE IF r \in P THEN Nothing ELSE table[r]]
           /\ free' = avail \ Range(new)
           /\ named' = named \cup {r \in S : status[r] = "waiting"}
           /\ queue' = Append(queue, StepOf(n, new))
  BY <1>2
<1>e. PICK new \in [Cells(n) -> avail] :
        /\ IsInjective(new)
        /\ status' = [r \in Reqs |-> IF r \in S THEN "running"
                                     ELSE IF r \in P THEN "preempted" ELSE status[r]]
        /\ computed' = [r \in Reqs |->
             IF r \in S THEN computed[r] + n[r]
             ELSE [q \in Reqs |-> IF q \in P THEN 0 ELSE computed[q]][r]]
        /\ table' = [r \in Reqs |-> IF r \in S THEN Allocated(n, new)[r]
                                    ELSE IF r \in P THEN Nothing ELSE table[r]]
        /\ free' = avail \ Range(new)
        /\ named' = named \cup {r \in S : status[r] = "waiting"}
        /\ queue' = Append(queue, StepOf(n, new))
  BY <1>n
<1>3. S \subseteq Unfinished \ P /\ S \in SUBSET Reqs
  BY DEF Fits, Unfinished, avail
<1>4. /\ \A r \in P : status[r] = "running"
      /\ P = {} \/ \E r \in Reqs : status[r] = "running" /\ computed[r] < Need
  BY <1>1 DEF MayPreempt
<1>5. computed' = [r \in Reqs |-> IF r \in S THEN computed[r] + n[r]
                                  ELSE IF r \in P THEN 0 ELSE computed[r]]
  BY <1>e
<1>6. Scheduled(P, S, n, new)
  BY <1>n, <1>e, <1>3, <1>4, <1>5 DEF Scheduled, avail
<1> QED BY <1>3, <1>6 DEF avail

\* The new cells: those of the tokens that are computed now.
LEMMA CellsAre ==
  ASSUME NEW P, NEW S, NEW n, NEW new, Scheduled(P, S, n, new)
  PROVE  /\ DOMAIN n = S /\ DOMAIN new = Cells(n)
         /\ \A r, k, g : <<r, k, g>> \in Cells(n) <=>
              r \in S /\ k \in (computed[r] + 1)..(computed[r] + n[r]) /\ g \in 1..Groups
         /\ \A c \in Cells(n) : c = <<c[1], c[2], c[3]>>
         /\ \A c \in Cells(n) : new[c] \in AtHand(P) /\ new[c] \in Range(new)
         /\ \A b \in Range(new) : \E c \in Cells(n) : new[c] = b
         /\ \A c, d \in Cells(n) : new[c] = new[d] => c = d
<1>1. DOMAIN n = S /\ DOMAIN new = Cells(n)
  BY DEF Scheduled
<1>2. \A r, k, g : <<r, k, g>> \in Cells(n) <=>
        r \in S /\ k \in (computed[r] + 1)..(computed[r] + n[r]) /\ g \in 1..Groups
  BY <1>1 DEF Cells
<1>3. \A c \in Cells(n) : c = <<c[1], c[2], c[3]>>
  BY DEF Cells
<1>4. /\ \A c \in Cells(n) : new[c] \in AtHand(P) /\ new[c] \in Range(new)
      /\ \A b \in Range(new) : \E c \in Cells(n) : new[c] = b
  BY <1>1 DEF Scheduled, Range
<1>5. \A c, d \in Cells(n) : new[c] = new[d] => c = d
  BY <1>1 DEF Scheduled, IsInjective
<1> QED BY <1>1, <1>2, <1>3, <1>4, <1>5

\* The tables after the step: the cells of before, and the new ones.
LEMMA ScheduledTables ==
  ASSUME TypedSched, NEW P, NEW S, NEW n, NEW new, Scheduled(P, S, n, new)
  PROVE  /\ S \subseteq Reqs /\ P \subseteq Reqs /\ S \cap P = {}
         /\ \A r \in S : /\ status[r] \in {"waiting", "running", "preempted"}
                         /\ status'[r] = "running" /\ computed'[r] = computed[r] + n[r]
                         /\ computed[r] \in Nat /\ n[r] \in Nat /\ n[r] > 0
                         /\ computed[r] + n[r] <= Need
         /\ \A r \in P : status[r] = "running" /\ status'[r] = "preempted" /\ computed'[r] = 0
                         /\ table'[r] = Nothing /\ Grid(r)' = {}
         /\ \A r \in Reqs \ (S \cup P) :
              /\ status'[r] = status[r] /\ computed'[r] = computed[r]
              /\ table'[r] = table[r] /\ Grid(r)' = Grid(r)
         /\ \A r \in S : /\ Grid(r)' = (1..(computed[r] + n[r])) \X (1..Groups)
                         /\ Grid(r) = (1..computed[r]) \X (1..Groups)
                         /\ DOMAIN table'[r] = Grid(r)'
         /\ \A r \in S : \A c \in Grid(r)' :
              IF c \in Grid(r) THEN table'[r][c] = table[r][c]
              ELSE <<r, c[1], c[2]>> \in Cells(n) /\ table'[r][c] = new[<<r, c[1], c[2]>>]
<1>1. /\ S \subseteq Reqs /\ P \subseteq Reqs /\ S \cap P = {}
      /\ \A r \in S : status[r] \in {"waiting", "running", "preempted"}
      /\ \A r \in P : status[r] = "running"
  BY DEF Scheduled, Unfinished
<1>2. ASSUME NEW r \in S
      PROVE  /\ status'[r] = "running" /\ computed'[r] = computed[r] + n[r]
             /\ computed[r] \in Nat /\ n[r] \in Nat /\ n[r] > 0 /\ computed[r] + n[r] <= Need
  <2>1. status'[r] = "running" /\ computed'[r] = computed[r] + n[r]
    BY <1>1 DEF Scheduled
  <2>2. computed[r] \in 0..Need /\ n[r] \in 1..Need /\ n[r] \in Chunks(r) /\ Need \in Nat
    BY <1>1, Sizes DEF Scheduled, TypedSched
  <2>3. n[r] <= Need - computed[r]
    BY <2>2 DEF Chunks
  <2> QED BY <2>1, <2>2, <2>3
<1>3. ASSUME NEW r \in P
      PROVE  status'[r] = "preempted" /\ computed'[r] = 0 /\ table'[r] = Nothing /\ Grid(r)' = {}
  <2>1. r \in Reqs /\ r \notin S
    BY <1>1
  <2>2. status'[r] = "preempted" /\ computed'[r] = 0 /\ table'[r] = Nothing
    BY <2>1 DEF Scheduled
  <2>3. 1..0 = {}
    OBVIOUS
  <2> QED BY <2>2, <2>3 DEF Grid
<1>4. ASSUME NEW r \in Reqs \ (S \cup P)
      PROVE  /\ status'[r] = status[r] /\ computed'[r] = computed[r]
             /\ table'[r] = table[r] /\ Grid(r)' = Grid(r)
  <2>1. status'[r] = status[r] /\ computed'[r] = computed[r] /\ table'[r] = table[r]
    BY <1>4 DEF Scheduled
  <2> QED BY <2>1 DEF Grid
<1>5. ASSUME NEW r \in S
      PROVE  /\ Grid(r)' = (1..(computed[r] + n[r])) \X (1..Groups)
             /\ Grid(r) = (1..computed[r]) \X (1..Groups)
             /\ DOMAIN table'[r] = Grid(r)'
             /\ \A c \in Grid(r)' :
                  IF c \in Grid(r) THEN table'[r][c] = table[r][c]
                  ELSE <<r, c[1], c[2]>> \in Cells(n) /\ table'[r][c] = new[<<r, c[1], c[2]>>]
  <2>1. r \in Reqs /\ status[r] # "gone" /\ r \in DOMAIN n
    BY <1>1, CellsAre
  <2>2. Grid(r)' = (1..(computed[r] + n[r])) \X (1..Groups)
    BY <1>2 DEF Grid
  <2>3. Grid(r) = (1..computed[r]) \X (1..Groups) /\ DOMAIN table[r] = Grid(r)
    BY <2>1 DEF Grid, TypedSched
  <2>4. table'[r] = [c \in (1..(computed[r] + n[r])) \X (1..Groups) |->
                       IF c \in DOMAIN table[r] THEN table[r][c] ELSE new[<<r, c[1], c[2]>>]]
    <3>1. table'[r] = Allocated(n, new)[r]
      BY <2>1 DEF Scheduled
    <3> QED BY <2>1, <3>1 DEF Allocated
  <2>5. DOMAIN table'[r] = Grid(r)'
    BY <2>2, <2>4
  <2>6. ASSUME NEW c \in Grid(r)', c \notin Grid(r)
        PROVE  <<r, c[1], c[2]>> \in Cells(n)
    <3>1. c[1] \in 1..(computed[r] + n[r]) /\ c[2] \in 1..Groups /\ c = <<c[1], c[2]>>
      BY <2>2
    <3>2. c[1] \notin 1..computed[r]
      BY <2>3, <2>6, <3>1
    <3>3. c[1] \in (computed[r] + 1)..(computed[r] + n[r])
      BY <1>2, <3>1, <3>2
    <3> QED BY <3>1, <3>3, CellsAre
  <2> QED BY <2>2, <2>3, <2>4, <2>5, <2>6
<1> QED BY <1>1, <1>2, <1>3, <1>4, <1>5

\* A scheduled request keeps the cells it has.
KeepsRow(r) == \A c \in Grid(r)' : c \in Grid(r) => table'[r][c] = table[r][c]

LEMMA TablesGrow ==
  ASSUME TypedSched, NEW P, NEW S, NEW n, NEW new, Scheduled(P, S, n, new)
  PROVE  \A r \in S : KeepsRow(r)
BY ScheduledTables DEF KeepsRow

\* The step that is added.
LEMMA StepOfIs ==
  ASSUME NEW P, NEW S, NEW n, NEW new, Scheduled(P, S, n, new)
  PROVE  LET s == StepOf(n, new)
         IN /\ s.ran = "no" /\ s.saves = pending /\ s.fin = finishedIds /\ s.sent = {}
            /\ s.last = {r \in S : computed[r] + n[r] = Need}
            /\ s.new = {r \in S : status[r] = "waiting"}
            /\ \A r, k, b : <<r, k, b>> \in s.cells <=>
                 <<r, k, HiddenGroup>> \in Cells(n) /\ b = new[<<r, k, HiddenGroup>>]
            /\ \A c \in s.cells : c = <<c[1], c[2], c[3]>>
<1> DEFINE s == StepOf(n, new)
<1>1. /\ s.ran = "no" /\ s.saves = pending /\ s.fin = finishedIds /\ s.sent = {}
      /\ s.last = {r \in S : computed[r] + n[r] = Need}
      /\ s.new = {r \in S : status[r] = "waiting"}
      /\ s.cells = {<<c[1], c[2], new[c]>> : c \in {d \in Cells(n) : d[3] = HiddenGroup}}
  BY CellsAre DEF StepOf
<1>2. \A r, k, b : <<r, k, b>> \in s.cells <=>
        <<r, k, HiddenGroup>> \in Cells(n) /\ b = new[<<r, k, HiddenGroup>>]
  <2>1. ASSUME NEW r, NEW k, NEW b, <<r, k, b>> \in s.cells
        PROVE  <<r, k, HiddenGroup>> \in Cells(n) /\ b = new[<<r, k, HiddenGroup>>]
    <3>1. PICK c \in Cells(n) : c[3] = HiddenGroup /\ <<r, k, b>> = <<c[1], c[2], new[c]>>
      BY <1>1, <2>1
    <3>2. c = <<r, k, HiddenGroup>>
      BY <3>1, CellsAre
    <3> QED BY <3>1, <3>2
  <2>2. ASSUME NEW r, NEW k, NEW b,
               <<r, k, HiddenGroup>> \in Cells(n), b = new[<<r, k, HiddenGroup>>]
        PROVE  <<r, k, b>> \in s.cells
    BY <1>1, <2>2
  <2> QED BY <2>1, <2>2
<1>3. \A c \in s.cells : c = <<c[1], c[2], c[3]>>
  BY <1>1
<1> QED BY <1>1, <1>2, <1>3

\* The queue after the step.
LEMMA ScheduledQueue ==
  ASSUME TypedSched, Len(queue) < Depth,
         NEW P, NEW S, NEW n, NEW new, Scheduled(P, S, n, new), AtHand(P) \subseteq Blocks
  PROVE  /\ queue' \in Seq(StepSet) /\ Len(queue') = Len(queue) + 1 /\ Len(queue') <= Depth
         /\ \A j \in DOMAIN queue : queue'[j] = queue[j]
         /\ \A j \in DOMAIN queue' : j \in DOMAIN queue \/ j = Len(queue) + 1
         /\ queue'[Len(queue) + 1] = StepOf(n, new)
<1> DEFINE s == StepOf(n, new)
<1>4. s.cells \subseteq Reqs \X (1..Need) \X Blocks
  <2>1. SUFFICES ASSUME NEW c \in s.cells PROVE c \in Reqs \X (1..Need) \X Blocks
    OBVIOUS
  <2>2. <<c[1], c[2], c[3]>> \in s.cells
    BY StepOfIs
  <2>3. <<c[1], c[2], HiddenGroup>> \in Cells(n) /\ c[3] = new[<<c[1], c[2], HiddenGroup>>]
    BY StepOfIs, <2>2
  <2>4. c[1] \in S /\ c[2] \in (computed[c[1]] + 1)..(computed[c[1]] + n[c[1]]) /\ c[3] \in Blocks
    BY <2>3, CellsAre
  <2>5. c[1] \in Reqs /\ c[2] \in 1..Need
    <3> DEFINE r == c[1]
    <3>1. /\ S \subseteq Reqs /\ computed[r] \in Nat /\ n[r] \in Nat
          /\ computed[r] + n[r] <= Need
      BY <2>4, ScheduledTables
    <3>2. Need \in Nat /\ r \in S /\ c[2] \in (computed[r] + 1)..(computed[r] + n[r])
      BY <2>4, Sizes
    <3> HIDE DEF r
    <3>3. c[2] \in 1..Need
      BY <3>1, <3>2
    <3> QED BY <3>1, <3>2, <3>3 DEF r
  <2> QED BY <2>2, <2>4, <2>5, StepOfIs
<1>5. s \in StepSet
  <2>1. s.last \in SUBSET Reqs /\ s.new \in SUBSET Reqs
    BY StepOfIs, ScheduledTables
  <2>2. s.saves \in Saves /\ s.fin \in SUBSET Reqs
    BY StepOfIs DEF TypedSched
  <2>3. s = [ran |-> s.ran, cells |-> s.cells, last |-> s.last, new |-> s.new,
             saves |-> s.saves, fin |-> s.fin, sent |-> s.sent]
    BY DEF StepOf
  <2>s. s.ran = "no" /\ s.sent = {}
    BY StepOfIs
  <2> HIDE DEF s
  <2> QED BY <1>4, <2>1, <2>2, <2>3, <2>s DEF StepSet
<1> HIDE DEF s
<1>6. queue' = Append(queue, s)
  BY DEF Scheduled, s
<1>7. /\ queue' \in Seq(StepSet) /\ Len(queue') = Len(queue) + 1
      /\ \A j \in 1..Len(queue) : queue'[j] = queue[j]
      /\ queue'[Len(queue) + 1] = s
      /\ \A j \in DOMAIN queue' : j \in DOMAIN queue \/ j = Len(queue) + 1
  BY <1>5, <1>6, QueueTypes, AppendProperties
<1>8. Len(queue') <= Depth
  BY <1>7, QueueTypes, Sizes
<1> QED BY <1>7, <1>8, QueueTypes DEF s

-----------------------------------------------------------------------------
(* What the end of requests does.                                          *)

\* The saves of the requests F are saves.
LEMMA FinishSaves ==
  ASSUME TypedSched, NEW F, F \subseteq Reqs, \A r \in F : status[r] # "gone"
  PROVE  /\ [r \in F |-> SavedBlocks(r)] \in Saves
         /\ LET p == Over(pending, [r \in F |-> SavedBlocks(r)])
            IN /\ p \in Saves /\ DOMAIN p = DOMAIN pending \cup F
               /\ \A r \in F : p[r] = SavedBlocks(r)
               /\ \A r \in DOMAIN pending \ F : p[r] = pending[r]
<1> DEFINE f == [r \in F |-> SavedBlocks(r)]
<1>1. \A r \in F : SavedBlocks(r) \in Seq(Blocks)
  BY SavedAre
<1>2. f \in Saves /\ DOMAIN f = F /\ \A r \in F : f[r] = SavedBlocks(r)
  <2>1. f \in [F -> Seq(Blocks)] /\ F \in SUBSET Reqs
    BY <1>1
  <2> QED BY <2>1 DEF Saves
<1> HIDE DEF f
<1>3. pending \in Saves
  BY DEF TypedSched
<1>4. /\ Over(pending, f) \in Saves /\ DOMAIN Over(pending, f) = DOMAIN pending \cup F
      /\ \A r \in DOMAIN pending \cup F :
           Over(pending, f)[r] = IF r \in F THEN f[r] ELSE pending[r]
  <2>1. /\ Over(pending, f) \in Saves /\ DOMAIN Over(pending, f) = DOMAIN pending \cup DOMAIN f
        /\ \A r \in DOMAIN pending \cup DOMAIN f :
             Over(pending, f)[r] = IF r \in DOMAIN f THEN f[r] ELSE pending[r]
    BY <1>2, <1>3, SavesAre, Zenon
  <2> QED BY <1>2, <2>1
<1> QED BY <1>2, <1>4 DEF f

\* The requests that end with the output of the oldest step, and those whose
\* blocks come back with it.
Ends == {r \in queue[1].last : status[r] \in {"running", "preempted"}}
Back == queue[1].sent

\* What the output of a step does.
LEMMA OutputIs ==
  ASSUME TypedSched, TypedClient, OnePlace, ProcessOutput
  PROVE  /\ Ends \subseteq Reqs /\ Back \subseteq Finished /\ Ends \cap Back = {} /\ Back = Carried(1)
         /\ \A r \in Ends : /\ status[r] \in {"running", "preempted"}
                            /\ status'[r] = "done" /\ client'[r] = "path"
         /\ \A r \in Back : /\ status[r] \in {"done", "aborted"} /\ status'[r] = "gone"
                            /\ table'[r] = Nothing /\ Grid(r)' = {}
         /\ \A r \in Reqs \ Ends : client'[r] = client[r]
         /\ \A r \in Reqs \ (Ends \cup Back) : status'[r] = status[r]
         /\ \A r \in Reqs \ Back : /\ table'[r] = table[r] /\ Grid(r)' = Grid(r)
                                   /\ SavedBlocks(r)' = SavedBlocks(r)
         /\ status' \in [Reqs -> Places] /\ client' \in [Reqs -> {"none", "path", "open", "loading", "ok", "error"}]
         /\ finishedIds' = finishedIds \cup Ends /\ named' = named \ Ends
         /\ pending' \in Saves /\ DOMAIN pending' = DOMAIN pending \cup Ends
         /\ \A r \in Ends : pending'[r] = SavedBlocks(r)
         /\ \A r \in DOMAIN pending \ Ends : pending'[r] = pending[r]
         /\ free' = free \cup UNION {Held(r) : r \in Back}
         /\ alive' = TRUE
         /\ UNCHANGED <<computed, worker, disk>>
<1>1. 1 \in DOMAIN queue /\ Head(queue) = queue[1] /\ queue[1].ran = "done"
  BY OutputQueue
<1>2. /\ RequestFinished(Ends)
      /\ status' = [r \in Reqs |-> IF r \in Ends THEN "done"
                                   ELSE IF r \in Back THEN "gone" ELSE status[r]]
      /\ client' = [r \in Reqs |-> IF r \in Ends THEN "path" ELSE client[r]]
      /\ free' = free \cup UNION {Held(r) : r \in Back}
      /\ table' = [r \in Reqs |-> IF r \in Back THEN Nothing ELSE table[r]]
      /\ alive' = (Back \subseteq Finished)
      /\ UNCHANGED <<computed, worker, disk>>
  BY <1>1 DEF ProcessOutput, Ends, Back
<1>3. /\ Ends \subseteq Reqs /\ Back \subseteq Finished /\ Back = Carried(1)
      /\ \A r \in Ends : status[r] \in {"running", "preempted"}
      /\ \A r \in Back : status[r] \in {"done", "aborted"} /\ r \in Reqs
  BY <1>1, QueueTypes DEF OnePlace, Carried, Ends, Back, Finished
<1> HIDE DEF Ends, Back
<1>4. Ends \cap Back = {}
  BY <1>3
<1>5. \A r \in Ends : status'[r] = "done" /\ client'[r] = "path"
  BY <1>2, <1>3
<1>6. \A r \in Back : status'[r] = "gone" /\ table'[r] = Nothing /\ Grid(r)' = {}
  BY <1>2, <1>3, <1>4 DEF Grid
<1>7. /\ \A r \in Reqs \ Ends : client'[r] = client[r]
      /\ \A r \in Reqs \ (Ends \cup Back) : status'[r] = status[r]
  BY <1>2
<1>8. ASSUME NEW r \in Reqs \ Back
      PROVE  table'[r] = table[r] /\ Grid(r)' = Grid(r) /\ SavedBlocks(r)' = SavedBlocks(r)
  <2>1. table'[r] = table[r] /\ computed'[r] = computed[r]
    BY <1>2
  <2>2. status'[r] = "gone" <=> status[r] = "gone"
    BY <1>3, <1>5, <1>7
  <2> QED BY <2>1, <2>2 DEF Grid, SavedBlocks
<1>9. /\ status' \in [Reqs -> Places]
      /\ client' \in [Reqs -> {"none", "path", "open", "loading", "ok", "error"}]
  BY <1>2 DEF TypedSched, TypedClient, Places
<1>10. /\ finishedIds' = finishedIds \cup Ends /\ named' = named \ Ends
       /\ pending' \in Saves /\ DOMAIN pending' = DOMAIN pending \cup Ends
       /\ \A r \in Ends : pending'[r] = SavedBlocks(r)
       /\ \A r \in DOMAIN pending \ Ends : pending'[r] = pending[r]
  <2>1. \A r \in Ends : status[r] # "gone"
    BY <1>3
  <2>2. /\ finishedIds' = finishedIds \cup Ends /\ named' = named \ Ends
        /\ pending' = Over(pending, [r \in Ends |-> SavedBlocks(r)])
    BY <1>2 DEF RequestFinished
  <2> QED BY <1>3, <2>1, <2>2, FinishSaves
<1>11. alive' = TRUE
  BY <1>2, <1>3
<1> QED BY <1>2, <1>3, <1>4, <1>5, <1>6, <1>7, <1>8, <1>9, <1>10, <1>11

\* An abort ends one request, and takes the engine core down if the connector
\* does not know it.
LEMMA AbortIs ==
  ASSUME TypedSched, NEW r \in Reqs, Abort(r)
  PROVE  /\ status[r] \in {"waiting", "running", "preempted"}
         /\ status' = [status EXCEPT ![r] = "aborted"] /\ status' \in [Reqs -> Places]
         /\ \A q \in Reqs : Grid(q)' = Grid(q) /\ SavedBlocks(q)' = SavedBlocks(q)
         /\ alive' = (r \in named) /\ named' \subseteq named
         /\ \/ /\ r \in named /\ finishedIds' = finishedIds \cup {r} /\ named' = named \ {r}
               /\ DOMAIN pending' = DOMAIN pending \cup {r} /\ pending'[r] = SavedBlocks(r)
            \/ r \notin named /\ UNCHANGED <<finishedIds, pending, named>>
         /\ \A q \in DOMAIN pending \ {r} : pending'[q] = pending[q]
         /\ pending' \in Saves
         /\ UNCHANGED <<computed, table, free, queue, worker, disk, client>>
<1>1. /\ status[r] \in AbortsFrom /\ status' = [status EXCEPT ![r] = "aborted"]
      /\ IF r \in named THEN RequestFinished({r}) ELSE UNCHANGED <<named, pending, finishedIds>>
      /\ alive' = (r \in named)
      /\ UNCHANGED <<computed, table, free, queue, worker, disk, client>>
  BY DEF Abort
<1>2. status[r] \in {"waiting", "running", "preempted"}
  BY <1>1, Sizes
<1>3. status' \in [Reqs -> Places]
  BY <1>1 DEF TypedSched, Places
<1>4. ASSUME NEW q \in Reqs PROVE Grid(q)' = Grid(q) /\ SavedBlocks(q)' = SavedBlocks(q)
  <2>1. status'[q] = "gone" <=> status[q] = "gone"
    BY <1>1, <1>2 DEF TypedSched
  <2> QED BY <1>1, <2>1 DEF Grid, SavedBlocks
<1>5. CASE r \in named
  <2>1. /\ finishedIds' = finishedIds \cup {r} /\ named' = named \ {r}
        /\ pending' = Over(pending, [q \in {r} |-> SavedBlocks(q)])
    BY <1>1, <1>5 DEF RequestFinished
  <2>2. {r} \subseteq Reqs /\ \A q \in {r} : status[q] # "gone"
    BY <1>2
  <2>3. /\ pending' \in Saves /\ DOMAIN pending' = DOMAIN pending \cup {r}
        /\ pending'[r] = SavedBlocks(r)
        /\ \A q \in DOMAIN pending \ {r} : pending'[q] = pending[q]
    BY <2>1, <2>2, FinishSaves
  <2> QED BY <1>1, <1>2, <1>3, <1>4, <1>5, <2>1, <2>3
<1>6. CASE r \notin named
  BY <1>1, <1>2, <1>3, <1>4, <1>6 DEF TypedSched
<1> QED BY <1>5, <1>6

-----------------------------------------------------------------------------
(* The types.                                                              *)

\* The blocks at hand are blocks.
LEMMA AtHandAre ==
  ASSUME TypedSched, NEW P, P \subseteq Reqs
  PROVE  AtHand(P) \subseteq Blocks
<1>1. \A r \in Reqs : Held(r) \subseteq Blocks
  BY DEF TypedSched, Held, Range
<1> QED BY <1>1 DEF AtHand, TypedSched

\* A step of the scheduler keeps its types.
LEMMA ScheduleTypes ==
  ASSUME TypedSched, Schedule
  PROVE  TypedSched'
<1>1. PICK P \in SUBSET Reqs, S \in SUBSET Reqs :
        \E n \in [S -> 1..Need] : \E new \in [Cells(n) -> AtHand(P)] : Scheduled(P, S, n, new)
  BY ScheduleIs
<1>2. PICK n \in [S -> 1..Need] : \E new \in [Cells(n) -> AtHand(P)] : Scheduled(P, S, n, new)
  BY <1>1
<1>3. PICK new \in [Cells(n) -> AtHand(P)] : Scheduled(P, S, n, new)
  BY <1>2
<1>4. AtHand(P) \subseteq Blocks
  BY AtHandAre
<1>5. status' \in [Reqs -> Places] /\ computed' \in [Reqs -> 0..Need]
  <2>1. \A r \in S : computed[r] + n[r] \in 0..Need
    BY <1>3, ScheduledTables
  <2>2. 0 \in 0..Need
    BY Sizes
  <2> QED BY <1>3, <2>1, <2>2 DEF Scheduled, TypedSched, Places
<1>6. ASSUME NEW r \in Reqs PROVE table'[r] \in [Grid(r)' -> Blocks]
  <2>1. CASE r \in S
    <3>1. DOMAIN table'[r] = Grid(r)' /\ table'[r] = Allocated(n, new)[r]
      <4>1. DOMAIN table'[r] = Grid(r)'
        BY <1>3, <2>1, ScheduledTables
      <4>2. table' = [q \in Reqs |-> IF q \in S THEN Allocated(n, new)[q]
                                    ELSE IF q \in P THEN Nothing ELSE table[q]]
        BY <1>3 DEF Scheduled
      <4> QED BY <2>1, <4>1, <4>2
    <3>2. \A c \in Grid(r)' : table'[r][c] \in Blocks
      <4>1. SUFFICES ASSUME NEW c \in Grid(r)' PROVE table'[r][c] \in Blocks
        OBVIOUS
      <4>2. IF c \in Grid(r) THEN table'[r][c] = table[r][c]
            ELSE <<r, c[1], c[2]>> \in Cells(n) /\ table'[r][c] = new[<<r, c[1], c[2]>>]
        BY <1>3, <2>1, ScheduledTables
      <4>3. \A d \in Cells(n) : new[d] \in Blocks
        BY <1>3, <1>4, CellsAre
      <4>4. \A d \in Grid(r) : table[r][d] \in Blocks
        BY DEF TypedSched
      <4> QED BY <4>2, <4>3, <4>4
    <3>3. table'[r] = [c \in Grid(r)' |-> table'[r][c]]
      <4>1. r \in DOMAIN n
        BY <2>1
      <4>2. table'[r] = [c \in (1..(computed[r] + n[r])) \X (1..Groups) |->
                           IF c \in DOMAIN table[r] THEN table[r][c] ELSE new[<<r, c[1], c[2]>>]]
        BY <3>1, <4>1 DEF Allocated
      <4>3. Grid(r)' = (1..(computed[r] + n[r])) \X (1..Groups)
        BY <1>3, <2>1, ScheduledTables
      <4> QED BY <4>2, <4>3
    <3> QED BY <3>2, <3>3
  <2>2. CASE r \in P
    <3>1. table'[r] = Nothing /\ Grid(r)' = {}
      BY <1>3, <2>2, ScheduledTables
    <3> QED BY <3>1 DEF Nothing
  <2>3. CASE r \notin S \cup P
    <3>1. table'[r] = table[r] /\ Grid(r)' = Grid(r)
      BY <1>3, <2>3, ScheduledTables
    <3> QED BY <3>1 DEF TypedSched
  <2> QED BY <2>1, <2>2, <2>3
<1>7. ASSUME NEW r \in Reqs, status'[r] \in {"new", "waiting", "preempted"}
      PROVE  computed'[r] = 0
  BY <1>3, <1>7, ScheduledTables DEF TypedSched
<1>8. free' \subseteq Blocks /\ named' \subseteq Reqs
  <2>1. free' = AtHand(P) \ Range(new) /\ named' = named \cup {r \in S : status[r] = "waiting"}
    BY <1>3 DEF Scheduled
  <2> QED BY <1>4, <2>1 DEF TypedSched
<1>9. queue' \in Seq(StepSet) /\ Len(queue') <= Depth
  BY <1>3, <1>4, ScheduledQueue DEF Schedule
<1>10. pending' \in Saves /\ finishedIds' \subseteq Reqs /\ alive' \in BOOLEAN
  BY SavesAre DEF Schedule, TypedSched
<1> QED BY <1>5, <1>6, <1>7, <1>8, <1>9, <1>10 DEF TypedSched

\* So does the output of one.
LEMMA OutputTypes ==
  ASSUME TypedSched, TypedClient, OnePlace, ProcessOutput
  PROVE  TypedSched' /\ TypedClient'
<1>1. computed' = computed /\ computed' \in [Reqs -> 0..Need] /\ status' \in [Reqs -> Places]
  BY OutputIs DEF TypedSched
<1>2. ASSUME NEW r \in Reqs
      PROVE  /\ table'[r] \in [Grid(r)' -> Blocks]
             /\ status'[r] \in {"new", "waiting", "preempted"} => computed'[r] = 0
  <2>1. CASE r \in Back
    <3>1. table'[r] = Nothing /\ Grid(r)' = {} /\ status'[r] = "gone"
      BY <2>1, OutputIs
    <3> QED BY <3>1 DEF Nothing
  <2>2. CASE r \in Ends
    BY <2>2, OutputIs DEF TypedSched
  <2>3. CASE r \notin Ends \cup Back
    BY <2>3, OutputIs DEF TypedSched
  <2> QED BY <2>1, <2>2, <2>3
<1>3. free' \subseteq Blocks
  <2>1. Back \subseteq Reqs
    BY OutputIs DEF Finished
  <2>2. free' = AtHand(Back)
    BY OutputIs DEF AtHand
  <2> QED BY <2>1, <2>2, AtHandAre
<1>4. named' \subseteq Reqs /\ finishedIds' \subseteq Reqs /\ pending' \in Saves /\ alive' \in BOOLEAN
  BY OutputIs DEF TypedSched
<1>5. queue' \in Seq(StepSet) /\ Len(queue') <= Depth
  <2>1. Len(queue') = Len(queue) - 1 /\ queue' \in Seq(StepSet) /\ Len(queue) \in Nat
    BY OutputQueue, QueueTypes
  <2> QED BY <2>1, Sizes DEF TypedSched
<1>6. TypedClient'
  <2>1. /\ client' \in [Reqs -> {"none", "path", "open", "loading", "ok", "error"}]
        /\ UNCHANGED disk
    BY OutputIs
  <2> QED BY <2>1 DEF TypedClient, disk
<1> QED BY <1>1, <1>2, <1>3, <1>4, <1>5, <1>6 DEF TypedSched

\* Every step keeps the types.
LEMMA TypedStep ==
  ASSUME Typed, OnePlace, InFlight, [Next]_vars
  PROVE  Typed'
<1> USE DEF Typed
<1>s. UNCHANGED sched => TypedSched'
  BY DEF sched, TypedSched, Grid
<1>w. UNCHANGED worker => TypedWorker'
  BY DEF worker, TypedWorker
<1>c. UNCHANGED <<disk, client>> => TypedClient'
  BY DEF disk, TypedClient
<1>1. CASE Schedule
  BY <1>1, <1>w, <1>c, ScheduleTypes DEF Schedule
<1>2. CASE ProcessOutput
  BY <1>2, <1>w, OutputTypes DEF ProcessOutput
<1>3. ASSUME NEW i \in DOMAIN queue, SubmitWrites(i) PROVE Typed'
  <2>1. TypedSched'
    BY <1>3, SubmitQueue DEF SubmitWrites, TypedSched, Grid
  <2>2. queue[i].saves \in Saves
    BY QueueTypes
  <2>3. DOMAIN queue[i].saves \subseteq Reqs
    BY <2>2, SavesAre
  <2>4. event' \in Saves /\ DOMAIN event' = DOMAIN event \cup DOMAIN queue[i].saves
    <3>1. event' = Over(event, queue[i].saves) /\ event \in Saves
      BY <1>3 DEF SubmitWrites, TypedWorker
    <3> QED BY <2>2, <3>1, SavesAre, Zenon
  <2>5. TypedWorker'
    BY <1>3, <2>3, <2>4 DEF SubmitWrites, TypedWorker
  <2>6. TypedClient'
    BY <1>3 DEF SubmitWrites, LockAll, TypedClient
  <2> QED BY <2>1, <2>5, <2>6
<1>4. ASSUME NEW i \in DOMAIN queue, EndStep(i) PROVE Typed'
  <2>1. TypedSched'
    BY <1>4, EndQueue DEF EndStep, TypedSched, Grid
  <2>2. queue[i].new \subseteq Reqs /\ queue[i].fin \subseteq Reqs
    BY QueueTypes
  <2>3. /\ accum' = (accum \cup queue[i].fin) \ Reported(i) /\ events' = events \ Reported(i)
        /\ lockFds' = (lockFds \ Reported(i)) \cup (queue[i].new \ lockFds)
        /\ DOMAIN kv' = Blocks /\ UNCHANGED <<event, host, task>>
    BY <1>4 DEF EndStep, Reported, StillAwaited, Accumulated, LockAtArrival
  <2>4. Reported(i) \cap DOMAIN event = {}
    BY DEF Reported, DoneSending, TypedWorker
  <2>5. TypedWorker'
    BY <2>2, <2>3, <2>4 DEF TypedWorker
  <2>6. TypedClient'
    BY <1>4 DEF EndStep, TypedClient
  <2> QED BY <2>1, <2>5, <2>6
<1>5. ASSUME NEW r \in Reqs, Arrive(r) PROVE Typed'
  <2>1. /\ status[r] = "new" /\ status' = [status EXCEPT ![r] = "waiting"]
        /\ UNCHANGED <<computed, table, free, named, pending, finishedIds, queue, alive>>
    BY <1>5 DEF Arrive
  <2>2. status' \in [Reqs -> Places]
    BY <2>1 DEF TypedSched, Places
  <2>3. ASSUME NEW q \in Reqs
        PROVE  /\ Grid(q)' = Grid(q)
               /\ status'[q] \in {"new", "waiting", "preempted"} => computed'[q] = 0
    <3>1. q = r \/ status'[q] = status[q]
      BY <2>1 DEF TypedSched
    <3> QED BY <2>1, <3>1 DEF TypedSched, Grid
  <2>4. TypedSched'
    BY <2>1, <2>2, <2>3 DEF TypedSched
  <2> QED BY <1>5, <2>4, <1>w, <1>c DEF Arrive
<1>6. ASSUME NEW r \in Reqs, Abort(r) PROVE Typed'
  <2>1. ASSUME NEW q \in Reqs
        PROVE  status'[q] \in {"new", "waiting", "preempted"} => computed'[q] = 0
    <3>1. q = r \/ status'[q] = status[q]
      BY <1>6, AbortIs DEF TypedSched
    <3>2. status'[r] = "aborted"
      BY <1>6, AbortIs DEF TypedSched
    <3> QED BY <1>6, <3>1, <3>2, AbortIs DEF TypedSched
  <2>2. named' \subseteq Reqs /\ finishedIds' \subseteq Reqs /\ alive' \in BOOLEAN
    <3>1. named' \subseteq named /\ (finishedIds' = finishedIds \cup {r} \/ finishedIds' = finishedIds)
      BY <1>6, AbortIs
    <3>2. alive' = (r \in named)
      BY <1>6, AbortIs
    <3>3. alive' \in BOOLEAN
      <4>1. (r \in named) \in BOOLEAN
        OBVIOUS
      <4> QED BY <3>2, <4>1
    <3> QED BY <3>1, <3>3 DEF TypedSched
  <2>3. UNCHANGED <<computed, table, free, queue>> /\ status' \in [Reqs -> Places] /\ pending' \in Saves
    BY <1>6, AbortIs
  <2>4. \A q \in Reqs : table'[q] \in [Grid(q)' -> Blocks]
    BY <1>6, <2>3, AbortIs DEF TypedSched
  <2>5. TypedSched'
    BY <2>1, <2>2, <2>3, <2>4 DEF TypedSched
  <2> QED BY <1>6, <2>5, <1>w, <1>c, AbortIs
<1>7. ASSUME NEW r \in Reqs, CopyDone(r) PROVE Typed'
  <2>1. TypedWorker'
    <3>1. /\ event' = Without(event, {r}) /\ event \in Saves
          /\ UNCHANGED <<kv, events, accum, lockFds, task>> /\ DOMAIN host' = Reqs
      BY <1>7 DEF CopyDone, TypedWorker
    <3>2. event' \in Saves /\ DOMAIN event' = DOMAIN event \ {r}
      BY <3>1, SavesAre, Zenon
    <3> QED BY <3>1, <3>2 DEF TypedWorker
  <2> QED BY <1>7, <2>1, <1>s, <1>c DEF CopyDone
<1>8. ASSUME NEW r \in Reqs, TakeTask(r) \/ StartWrite(r) \/ WriteDone(r) \/ WriteFails(r)
      PROVE  Typed'
  <2>1. TypedWorker'
    BY <1>8 DEF TakeTask, StartWrite, WriteDone, WriteFails, EndWrite, TypedWorker
  <2>2. TypedClient'
    BY <1>8 DEF TakeTask, StartWrite, WriteDone, WriteFails, EndWrite, TypedClient, disk
  <2> QED BY <1>8, <2>1, <2>2, <1>s DEF TakeTask, StartWrite, WriteDone, WriteFails, EndWrite
<1>9. ASSUME NEW r \in Reqs, Client(r) PROVE Typed'
  <2>1. TypedClient'
    BY <1>9 DEF Client, OpenLock, SharedLock, Load, TypedClient, disk
  <2> QED BY <1>9, <2>1, <1>s, <1>w DEF Client, OpenLock, SharedLock, Load
<1>10. CASE UNCHANGED vars
  BY <1>10, <1>s, <1>w, <1>c DEF vars
<1> QED
  BY <1>1, <1>2, <1>3, <1>4, <1>5, <1>6, <1>7, <1>8, <1>9, <1>10
     DEF Next, Worker, Writer, Quiet

-----------------------------------------------------------------------------
(* A step of the scheduler.                                                *)

\* It leaves finished requests alone, and puts their saves into the new step.
LEMMA ScheduleKeeps ==
  ASSUME TypedSched, Schedule
  PROVE  /\ Finished' = Finished
         /\ \A r \in Reqs : status'[r] = "gone" <=> status[r] = "gone"
         /\ \A r \in Finished : SavedBlocks(r)' = SavedBlocks(r)
         /\ Len(queue') = Len(queue) + 1 /\ Len(queue) \in Nat
         /\ \A j \in DOMAIN queue : j \in DOMAIN queue' /\ queue'[j] = queue[j]
         /\ \A j \in DOMAIN queue' : j \in DOMAIN queue \/ j = Len(queue) + 1
         /\ Len(queue) + 1 \in DOMAIN queue' /\ Len(queue) + 1 \notin DOMAIN queue
         /\ \A j \in DOMAIN queue : j \in Nat /\ j < Len(queue) + 1
         /\ LET s == queue'[Len(queue) + 1]
            IN s.ran = "no" /\ s.saves = pending /\ s.fin = finishedIds /\ s.sent = {}
         /\ pending' = Nothing /\ finishedIds' = {} /\ UNCHANGED <<worker, disk, client, alive>>
<1>1. PICK P \in SUBSET Reqs, S \in SUBSET Reqs :
        \E n \in [S -> 1..Need] : \E new \in [Cells(n) -> AtHand(P)] : Scheduled(P, S, n, new)
  BY ScheduleIs
<1>2. PICK n \in [S -> 1..Need] : \E new \in [Cells(n) -> AtHand(P)] : Scheduled(P, S, n, new)
  BY <1>1
<1>3. PICK new \in [Cells(n) -> AtHand(P)] : Scheduled(P, S, n, new)
  BY <1>2
<1>4. ASSUME NEW r \in Reqs
      PROVE  /\ r \in Finished' <=> r \in Finished
             /\ status'[r] = "gone" <=> status[r] = "gone"
  <2>1. r \in S \/ r \in P \/ r \in Reqs \ (S \cup P)
    OBVIOUS
  <2> QED BY <1>3, <2>1, ScheduledTables DEF Finished
<1>5. Finished' = Finished
  BY <1>4 DEF Finished
<1>6. ASSUME NEW r \in Finished PROVE SavedBlocks(r)' = SavedBlocks(r)
  <2>1. r \in Reqs \ (S \cup P)
    BY <1>3, ScheduledTables DEF Finished
  <2>2. table'[r] = table[r] /\ computed'[r] = computed[r]
    BY <1>3, <2>1, ScheduledTables
  <2> QED BY <2>2 DEF SavedBlocks
<1>7. /\ queue' \in Seq(StepSet) /\ Len(queue') = Len(queue) + 1
      /\ \A j \in DOMAIN queue : queue'[j] = queue[j]
      /\ \A j \in DOMAIN queue' : j \in DOMAIN queue \/ j = Len(queue) + 1
      /\ queue'[Len(queue) + 1] = StepOf(n, new)
  <2>1. AtHand(P) \subseteq Blocks
    BY AtHandAre
  <2>2. Len(queue) < Depth
    BY DEF Schedule
  <2> QED BY <1>3, <2>1, <2>2, ScheduledQueue
<1>8. DOMAIN queue' = 1..Len(queue')
  BY <1>7
<1>9. LET s == queue'[Len(queue) + 1]
      IN s.ran = "no" /\ s.saves = pending /\ s.fin = finishedIds /\ s.sent = {}
  BY <1>3, <1>7, StepOfIs
<1>10. pending' = Nothing /\ finishedIds' = {} /\ UNCHANGED <<worker, disk, client, alive>>
  BY DEF Schedule
<1> QED BY <1>4, <1>5, <1>6, <1>7, <1>8, <1>9, <1>10, QueueTypes

\* No block is lost or owned twice.
LEMMA ScheduleOwned ==
  ASSUME TypedSched, Owned, Schedule
  PROVE  Owned'
<1>1. PICK P \in SUBSET Reqs, S \in SUBSET Reqs :
        \E n \in [S -> 1..Need] : \E new \in [Cells(n) -> AtHand(P)] : Scheduled(P, S, n, new)
  BY ScheduleIs
<1>2. PICK n \in [S -> 1..Need] : \E new \in [Cells(n) -> AtHand(P)] : Scheduled(P, S, n, new)
  BY <1>1
<1>3. PICK new \in [Cells(n) -> AtHand(P)] : Scheduled(P, S, n, new)
  BY <1>2
<1>4. \A r \in Reqs : DOMAIN table[r] = Grid(r) /\ \A b : b \in Held(r) <=> \E c \in Grid(r) : table[r][c] = b
  BY DEF TypedSched, Held, Range
<1>5. \A b : b \in AtHand(P) <=> b \in free \/ \E r \in P : b \in Held(r)
  BY DEF AtHand
<1>6. ASSUME NEW r \in Reqs, r \notin P, NEW c \in Grid(r) PROVE table[r][c] \notin AtHand(P)
  BY <1>4, <1>5, <1>6 DEF Owned
<1>7. ASSUME NEW r \in Reqs, NEW c \in Grid(r)'
      PROVE  /\ r \notin P
             /\ \/ c \in Grid(r) /\ table'[r][c] = table[r][c] /\ table'[r][c] \notin AtHand(P)
                \/ /\ <<r, c[1], c[2]>> \in Cells(n) /\ c = <<c[1], c[2]>>
                   /\ table'[r][c] = new[<<r, c[1], c[2]>>]
                   /\ table'[r][c] \in Range(new) /\ table'[r][c] \in AtHand(P)
  <2>1. r \notin P
    BY <1>3, <1>7, ScheduledTables
  <2>2. CASE r \in S
    <3>1. Grid(r)' = (1..(computed[r] + n[r])) \X (1..Groups)
      BY <1>3, <2>2, ScheduledTables
    <3>2. c = <<c[1], c[2]>>
      BY <3>1
    <3>3. CASE c \in Grid(r)
      BY <1>3, <1>6, <2>1, <2>2, <3>3, ScheduledTables
    <3>4. CASE c \notin Grid(r)
      <4>1. <<r, c[1], c[2]>> \in Cells(n) /\ table'[r][c] = new[<<r, c[1], c[2]>>]
        BY <1>3, <2>2, <3>4, ScheduledTables
      <4> QED BY <1>3, <2>1, <3>2, <4>1, CellsAre
    <3> QED BY <3>3, <3>4
  <2>3. CASE r \notin S
    <3>1. Grid(r)' = Grid(r) /\ table'[r] = table[r]
      BY <1>3, <2>1, <2>3, ScheduledTables
    <3> QED BY <1>6, <2>1, <3>1
  <2> QED BY <2>2, <2>3
<1>8. free' = AtHand(P) \ Range(new)
  BY <1>3 DEF Scheduled
<1>9. \A r \in Reqs : \A c \in Grid(r)' : table'[r][c] \notin free'
  BY <1>7, <1>8
<1>10. ASSUME NEW q \in Reqs, NEW r \in Reqs, NEW c \in Grid(q)', NEW d \in Grid(r)',
              table'[q][c] = table'[r][d]
       PROVE  q = r /\ c = d
  <2>1. CASE table'[q][c] \in AtHand(P)
    <3>1. /\ <<q, c[1], c[2]>> \in Cells(n) /\ c = <<c[1], c[2]>>
          /\ <<r, d[1], d[2]>> \in Cells(n) /\ d = <<d[1], d[2]>>
          /\ new[<<q, c[1], c[2]>>] = new[<<r, d[1], d[2]>>]
      BY <1>7, <1>10, <2>1
    <3>2. <<q, c[1], c[2]>> = <<r, d[1], d[2]>>
      BY <1>3, <3>1, CellsAre
    <3> QED BY <3>1, <3>2
  <2>2. CASE table'[q][c] \notin AtHand(P)
    <3>1. c \in Grid(q) /\ table'[q][c] = table[q][c]
      BY <1>7, <2>2
    <3>2. table'[r][d] \notin AtHand(P)
      BY <1>10, <2>2
    <3>3. d \in Grid(r) /\ table'[r][d] = table[r][d]
      BY <1>7, <3>2
    <3>4. table[q][c] = table[r][d]
      BY <1>10, <3>1, <3>3
    <3> QED BY <3>1, <3>3, <3>4 DEF Owned
  <2> QED BY <2>1, <2>2
<1>11. TypedSched'
  BY ScheduleTypes
<1>12. \A r \in Reqs : \A c \in Grid(r)' : table'[r][c] \in Held(r)' /\ table'[r][c] \in Blocks
  <2>1. \A r \in Reqs : table'[r] \in [Grid(r)' -> Blocks]
    BY <1>11 DEF TypedSched
  <2> QED BY <2>1 DEF Held, Range
<1>13. ASSUME NEW b \in Blocks PROVE b \in free' \cup UNION {Held(r)' : r \in Reqs}
  <2>1. CASE b \in Range(new)
    <3>1. PICK d \in Cells(n) : new[d] = b
      BY <1>3, <2>1, CellsAre
    <3>2. d = <<d[1], d[2], d[3]>>
      BY <1>3, CellsAre
    <3> DEFINE r == d[1]
    <3> DEFINE c == <<d[2], d[3]>>
    <3>3. r \in S /\ d[2] \in (computed[r] + 1)..(computed[r] + n[r]) /\ d[3] \in 1..Groups
      BY <1>3, <3>1, <3>2, CellsAre
    <3>4. /\ computed[r] \in Nat /\ n[r] \in Nat /\ r \in Reqs
          /\ Grid(r)' = (1..(computed[r] + n[r])) \X (1..Groups)
          /\ Grid(r) = (1..computed[r]) \X (1..Groups)
      BY <1>3, <3>3, ScheduledTables
    <3>5. c \in Grid(r)' /\ c \notin Grid(r)
      BY <3>3, <3>4
    <3>6. table'[r][c] = new[<<r, c[1], c[2]>>]
      BY <1>3, <3>3, <3>5, ScheduledTables
    <3>7. table'[r][c] = b
      BY <3>1, <3>2, <3>6
    <3> QED BY <1>12, <3>4, <3>5, <3>7
  <2>2. CASE b \in AtHand(P) /\ b \notin Range(new)
    BY <1>8, <2>2
  <2>3. CASE b \notin AtHand(P)
    <3>1. PICK r \in Reqs : b \in Held(r)
      BY <1>5, <2>3 DEF Owned
    <3>2. r \notin P
      BY <1>5, <2>3, <3>1
    <3>3. PICK c \in Grid(r) : table[r][c] = b
      BY <1>4, <3>1
    <3>4. c \in Grid(r)' /\ table'[r][c] = b
      <4>1. CASE r \in S
        <5>1. /\ computed[r] \in Nat /\ n[r] \in Nat
              /\ Grid(r)' = (1..(computed[r] + n[r])) \X (1..Groups)
              /\ Grid(r) = (1..computed[r]) \X (1..Groups)
          BY <1>3, <4>1, ScheduledTables
        <5>2. 1..computed[r] \subseteq 1..(computed[r] + n[r])
          BY <5>1
        <5>3. c \in Grid(r)'
          BY <5>1, <5>2, <3>3
        <5>4. KeepsRow(r)
          BY <1>3, <4>1, TablesGrow
        <5>5. table'[r][c] = table[r][c]
          BY <3>3, <5>3, <5>4 DEF KeepsRow
        <5> QED BY <3>3, <5>3, <5>5
      <4>2. CASE r \notin S
        <5>1. Grid(r)' = Grid(r) /\ table'[r] = table[r]
          BY <1>3, <3>2, <4>2, ScheduledTables
        <5> QED BY <3>3, <5>1
      <4> QED BY <4>1, <4>2
    <3> QED BY <1>12, <3>4
  <2> QED BY <2>1, <2>2, <2>3
<1>14. free' \subseteq Blocks /\ \A r \in Reqs : Held(r)' \subseteq Blocks
  <2>1. \A r \in Reqs : table'[r] \in [Grid(r)' -> Blocks]
    BY <1>11 DEF TypedSched
  <2> QED BY <1>11, <2>1 DEF TypedSched, Held, Range
<1>15. Blocks = free' \cup UNION {Held(r)' : r \in Reqs}
  BY <1>13, <1>14
<1> QED BY <1>9, <1>10, <1>15 DEF Owned

\* The saves are on their way with the new step.
LEMMA ScheduleSched ==
  ASSUME Typed, Sched, Schedule
  PROVE  Sched'
<1> USE DEF Sched, Typed
<1> DEFINE z == Len(queue) + 1
<1>1. Owned'
  BY ScheduleOwned
<1>2. InOrder'
  <2>1. ASSUME NEW i \in DOMAIN queue', NEW j \in DOMAIN queue', i < j, queue'[i].ran # "done"
        PROVE  queue'[j].ran = "no"
    <3>1. CASE j = z
      BY <3>1, ScheduleKeeps
    <3>2. CASE j # z
      <4>1. i \in DOMAIN queue /\ j \in DOMAIN queue
        BY <2>1, <3>2, ScheduleKeeps
      <4> QED BY <2>1, <4>1, ScheduleKeeps DEF InOrder
    <3> QED BY <3>1, <3>2
  <2>2. ASSUME NEW i \in DOMAIN queue', queue'[i].ran # "done" PROVE queue'[i].sent = {}
    BY <2>2, ScheduleKeeps DEF InOrder
  <2> QED BY <2>1, <2>2 DEF InOrder
<1>3. /\ \A i \in DOMAIN queue : Carried(i)' = Carried(i)
      /\ (queue'[z].ran # "done") /\ queue'[z].fin = finishedIds
  BY ScheduleKeeps DEF Carried
<1>4. OnePlace'
  <2>1. ASSUME NEW i \in DOMAIN queue'
        PROVE  /\ i \in DOMAIN queue => Carried(i)' = Carried(i)
               /\ i \notin DOMAIN queue => Carried(i)' = finishedIds /\ i = z
    BY <1>3, ScheduleKeeps DEF Carried
  <2>2. accum' = accum /\ Finished' = Finished /\ finishedIds' = {}
    BY ScheduleKeeps DEF worker
  <2>3. \A i \in DOMAIN queue' :
          /\ Carried(i)' \subseteq Finished
          /\ Carried(i)' \cap accum = {}
    BY <2>1 DEF OnePlace
  <2>4. \A i, j \in DOMAIN queue' : i # j => Carried(i)' \cap Carried(j)' = {}
    BY <2>1 DEF OnePlace
  <2> QED BY <2>2, <2>3, <2>4 DEF OnePlace
<1>5. InFlight'
  <2>1. \A r \in finishedIds : r \in Finished
    BY DEF OnePlace
  <2>2. ASSUME NEW i \in DOMAIN queue'
        PROVE  /\ DOMAIN queue'[i].saves = queue'[i].fin
               /\ queue'[i].ran = "no" =>
                    \A r \in queue'[i].fin : queue'[i].saves[r] = SavedBlocks(r)'
    <3>1. CASE i \in DOMAIN queue
      <4>1. queue'[i] = queue[i]
        BY <3>1, ScheduleKeeps
      <4>2. queue[i].ran = "no" => queue[i].fin \subseteq Finished
        BY <3>1 DEF OnePlace, Carried
      <4> QED BY <3>1, <4>1, <4>2, ScheduleKeeps DEF InFlight
    <3>2. CASE i = z
      BY <2>1, <3>2, ScheduleKeeps DEF InFlight
    <3> QED BY <3>1, <3>2, ScheduleKeeps
  <2>3. UNCHANGED <<event, accum>>
    BY ScheduleKeeps DEF worker
  <2>4. ASSUME NEW r \in DOMAIN event
        PROVE  /\ event[r] = SavedBlocks(r)'
               /\ r \in accum \/ \E i \in DOMAIN queue' : queue'[i].ran = "submitted" /\ r \in queue'[i].fin
    <3>1. r \in accum \/ \E i \in DOMAIN queue : queue[i].ran = "submitted" /\ r \in queue[i].fin
      BY DEF InFlight
    <3>2. r \in Finished
      BY <3>1 DEF OnePlace, Carried
    <3> QED BY <3>1, <3>2, ScheduleKeeps DEF InFlight
  <2>5. DOMAIN pending' = {} /\ finishedIds' = {}
    BY ScheduleKeeps, SavesAre
  <2> QED BY <2>2, <2>3, <2>4, <2>5 DEF InFlight
<1>6. Tasks'
  <2>1. UNCHANGED <<event, accum, task>>
    BY ScheduleKeeps DEF worker
  <2>2. \A i \in DOMAIN queue' : queue'[i].ran # "no" => i \in DOMAIN queue
    BY ScheduleKeeps
  <2>3. \A r : r \in Submitted <=>
          r \in accum \/ \E i \in DOMAIN queue : queue[i].ran # "no" /\ r \in Carried(i)
    BY DEF Submitted
  <2>4. \A r : r \in Submitted' <=>
          r \in accum \/ \E i \in DOMAIN queue' : queue'[i].ran # "no" /\ r \in Carried(i)'
    BY <2>1 DEF Submitted
  <2>5. \A r : r \in Submitted' <=> r \in Submitted
    BY <1>3, <2>2, <2>3, <2>4, ScheduleKeeps
  <2> QED BY <2>1, <2>5, ScheduleKeeps DEF Tasks
<1> QED BY <1>1, <1>2, <1>4, <1>5, <1>6

-----------------------------------------------------------------------------
(* The other steps: blocks and places.                                     *)

\* The requests whose save has been submitted, one place at a time.
LEMMA SubmittedAre ==
  \A r : r \in Submitted <=>
    r \in accum \/ \E i \in DOMAIN queue : queue[i].ran # "no" /\ r \in Carried(i)
BY DEF Submitted

\* The output of a step: requests start their way, and others end it.
LEMMA OutputSched ==
  ASSUME Typed, Sched, ProcessOutput
  PROVE  Sched'
<1> USE DEF Sched, Typed
<1>1. \A r : r \in Finished' <=> (r \in Finished /\ r \notin Back) \/ r \in Ends
  <2>1. \A r \in Reqs : r \in Finished' <=> (r \in Finished /\ r \notin Back) \/ r \in Ends
    BY OutputIs DEF Finished
  <2>2. Ends \subseteq Reqs
    BY OutputIs
  <2> QED BY <2>1, <2>2 DEF Finished
<1>2. \A j \in DOMAIN queue' : j + 1 \in DOMAIN queue /\ Carried(j)' = Carried(j + 1)
  BY OutputQueue DEF Carried
<1>3. /\ DOMAIN queue = 1..Len(queue) /\ DOMAIN queue' = 1..Len(queue')
      /\ 1 \in DOMAIN queue /\ Back = Carried(1) /\ queue[1].ran = "done"
      /\ UNCHANGED <<event, accum, task>>
  <2>1. queue' \in Seq(StepSet)
    BY OutputQueue
  <2> QED BY <2>1, OutputQueue, OutputIs, QueueTypes DEF worker
<1>4. Owned'
  <2>1. \A r \in Reqs : \A b : b \in Held(r) <=> \E c \in Grid(r) : table[r][c] = b
    BY DEF TypedSched, Held, Range
  <2>2. \A b : b \in free' <=> b \in free \/ \E q \in Back : b \in Held(q)
    BY OutputIs
  <2>3. \A r \in Reqs : r \in Back \/ (table'[r] = table[r] /\ Grid(r)' = Grid(r))
    BY OutputIs
  <2>4. \A r \in Back : r \in Reqs /\ Grid(r)' = {} /\ table'[r] = Nothing
    BY OutputIs DEF Finished
  <2>5. ASSUME NEW r \in Reqs, NEW c \in Grid(r)'
        PROVE  r \notin Back /\ table'[r][c] = table[r][c] /\ c \in Grid(r) /\ table'[r][c] \notin free'
    <3>1. r \notin Back /\ table'[r][c] = table[r][c] /\ c \in Grid(r)
      BY <2>3, <2>4
    <3>2. table[r][c] \notin free /\ \A q \in Back : table[r][c] \notin Held(q)
      BY <2>1, <2>4, <3>1 DEF Owned
    <3> QED BY <2>2, <3>1, <3>2
  <2>6. Blocks = free' \cup UNION {Held(r)' : r \in Reqs}
    <3>1. \A r \in Reqs : r \notin Back => Held(r)' = Held(r)
      BY <2>3 DEF Held
    <3>2. \A r \in Back : Held(r)' = {}
      BY <2>4 DEF Held, Range, Nothing
    <3> QED BY <2>2, <2>4, <3>1, <3>2 DEF Owned
  <2>7. \A q, r \in Reqs : \A c \in Grid(q)', d \in Grid(r)' :
          table'[q][c] = table'[r][d] => q = r /\ c = d
    BY <2>5 DEF Owned
  <2> QED BY <2>5, <2>6, <2>7 DEF Owned
<1>5. InOrder'
  <2>1. \A j \in DOMAIN queue' : j + 1 \in DOMAIN queue /\ queue'[j] = queue[j + 1]
    BY OutputQueue
  <2>2. \A i, j \in DOMAIN queue' : i < j => i + 1 < j + 1
    BY <1>3
  <2> QED BY <2>1, <2>2 DEF InOrder
<1>6. OnePlace'
  <2>1. finishedIds' = finishedIds \cup Ends /\ Ends \cap Finished = {}
    BY OutputIs DEF Finished
  <2>2. \A j \in DOMAIN queue' : j + 1 # 1 /\ \A i \in DOMAIN queue' : i # j => i + 1 # j + 1
    BY <1>3
  <2>3. ASSUME NEW j \in DOMAIN queue'
        PROVE  /\ Carried(j)' \subseteq Finished' /\ Carried(j)' \cap finishedIds' = {}
               /\ Carried(j)' \cap accum = {}
               /\ \A i \in DOMAIN queue' : i # j => Carried(i)' \cap Carried(j)' = {}
    BY <1>1, <1>2, <1>3, <2>1, <2>2 DEF OnePlace
  <2>4. finishedIds' \subseteq Finished' /\ accum \subseteq Finished' /\ accum \cap finishedIds' = {}
    BY <1>1, <1>3, <2>1 DEF OnePlace
  <2> QED BY <1>3, <2>3, <2>4 DEF OnePlace
<1>7. \A r \in Finished \ Back : SavedBlocks(r)' = SavedBlocks(r)
  BY OutputIs DEF Finished
<1>8. InFlight'
  <2>1. finishedIds' = finishedIds \cup Ends /\ DOMAIN pending' = finishedIds'
    BY OutputIs DEF InFlight
  <2>2. ASSUME NEW r \in finishedIds' PROVE pending'[r] = SavedBlocks(r)'
    <3>1. CASE r \in Ends
      BY <3>1, OutputIs
    <3>2. CASE r \notin Ends
      <4>1. r \in finishedIds /\ r \in Finished /\ r \notin Back
        BY <1>3, <2>1, <3>2 DEF OnePlace
      <4>2. pending'[r] = pending[r]
        BY <3>2, <4>1, OutputIs DEF InFlight
      <4> QED BY <1>7, <4>1, <4>2 DEF InFlight
    <3> QED BY <3>1, <3>2
  <2>3. ASSUME NEW j \in DOMAIN queue'
        PROVE  /\ DOMAIN queue'[j].saves = queue'[j].fin
               /\ queue'[j].ran = "no" =>
                    \A r \in queue'[j].fin : queue'[j].saves[r] = SavedBlocks(r)'
    <3>1. j + 1 \in DOMAIN queue /\ queue'[j] = queue[j + 1] /\ j + 1 # 1
      BY <1>3, OutputQueue
    <3>2. queue[j + 1].ran = "no" => \A r \in queue[j + 1].fin : r \in Finished \ Back
      BY <1>3, <3>1 DEF OnePlace, Carried
    <3> QED BY <1>7, <3>1, <3>2 DEF InFlight
  <2>4. ASSUME NEW r \in DOMAIN event
        PROVE  /\ event[r] = SavedBlocks(r)'
               /\ r \in accum \/ \E i \in DOMAIN queue' : queue'[i].ran = "submitted" /\ r \in queue'[i].fin
    <3>1. CASE r \in accum
      BY <1>3, <1>7, <3>1 DEF InFlight, OnePlace
    <3>2. CASE \E i \in DOMAIN queue : queue[i].ran = "submitted" /\ r \in queue[i].fin
      <4>1. PICK i \in DOMAIN queue : queue[i].ran = "submitted" /\ r \in queue[i].fin
        BY <3>2
      <4>2. i # 1
        BY <1>3, <4>1
      <4>3. i - 1 \in DOMAIN queue' /\ queue'[i - 1] = queue[i]
        BY <4>2, OutputQueue
      <4>4. r \in Finished \ Back
        BY <1>3, <4>1, <4>2 DEF OnePlace, Carried
      <4> QED BY <1>7, <4>1, <4>3, <4>4 DEF InFlight
    <3> QED BY <3>1, <3>2 DEF InFlight
  <2> QED BY <1>3, <2>1, <2>2, <2>3, <2>4 DEF InFlight
<1>9. Tasks'
  <2>1. \A r : r \in Submitted' <=>
          r \in accum \/ \E i \in DOMAIN queue' : queue'[i].ran # "no" /\ r \in Carried(i)'
    BY <1>3 DEF Submitted
  <2>2. ASSUME NEW r, r \in Submitted' PROVE r \in Submitted /\ r \notin Back
    <3>1. CASE r \in accum
      BY <1>3, <3>1, SubmittedAre DEF OnePlace
    <3>2. CASE \E i \in DOMAIN queue' : queue'[i].ran # "no" /\ r \in Carried(i)'
      <4>1. PICK i \in DOMAIN queue' : queue'[i].ran # "no" /\ r \in Carried(i)'
        BY <3>2
      <4>2. i + 1 \in DOMAIN queue /\ queue[i + 1].ran # "no" /\ r \in Carried(i + 1) /\ i + 1 # 1
        BY <1>2, <1>3, <4>1, OutputQueue
      <4> QED BY <1>3, <4>2, SubmittedAre DEF OnePlace
    <3> QED BY <2>1, <2>2, <3>1, <3>2
  <2>3. ASSUME NEW r, r \in Submitted, r \notin Back PROVE r \in Submitted'
    <3>1. CASE r \in accum
      BY <2>1, <3>1
    <3>2. CASE \E i \in DOMAIN queue : queue[i].ran # "no" /\ r \in Carried(i)
      <4>1. PICK i \in DOMAIN queue : queue[i].ran # "no" /\ r \in Carried(i)
        BY <3>2
      <4>2. i # 1
        BY <1>3, <2>3, <4>1
      <4>3. i - 1 \in DOMAIN queue' /\ queue'[i - 1] = queue[i]
        BY <4>2, OutputQueue
      <4>4. Carried(i - 1)' = Carried(i)
        BY <4>3 DEF Carried
      <4> QED BY <2>1, <4>1, <4>3, <4>4
    <3> QED BY <2>3, <3>1, <3>2, SubmittedAre
  <2>4. Back \subseteq Submitted
    BY <1>3, SubmittedAre
  <2>5. ASSUME NEW r \in Reqs
        PROVE  task[r] = "none" <=> ~(status'[r] = "gone" \/ r \in Submitted')
    <3>1. CASE r \in Back
      BY <2>4, <3>1, OutputIs DEF Tasks
    <3>2. CASE r \notin Back
      <4>1. status'[r] = "gone" <=> status[r] = "gone"
        BY <3>2, OutputIs
      <4> QED BY <2>2, <2>3, <3>2, <4>1 DEF Tasks
    <3> QED BY <3>1, <3>2
  <2> QED BY <1>3, <2>5 DEF Tasks
<1> QED BY <1>4, <1>5, <1>6, <1>8, <1>9

\* The worker submits the saves of a step.
LEMMA SubmitSched ==
  ASSUME Typed, Sched, NEW i \in DOMAIN queue, SubmitWrites(i)
  PROVE  Sched'
<1> USE DEF Sched, Typed
<1>1. /\ queue[i].ran = "no" /\ \A j \in 1..(i - 1) : queue[j].ran = "done"
      /\ event' = Over(event, queue[i].saves)
      /\ task' = [r \in Reqs |-> IF r \in DOMAIN queue[i].saves THEN "queued" ELSE task[r]]
      /\ UNCHANGED <<status, computed, table, free, pending, finishedIds, accum>>
  BY DEF SubmitWrites, IsNext
<1>2. /\ DOMAIN queue' = DOMAIN queue /\ DOMAIN queue = 1..Len(queue) /\ Len(queue) \in Nat
      /\ \A j \in DOMAIN queue :
           /\ queue'[j].ran = IF j = i THEN "submitted" ELSE queue[j].ran
           /\ queue'[j].saves = queue[j].saves
           /\ queue'[j].fin = queue[j].fin /\ queue'[j].sent = queue[j].sent
  BY SubmitQueue, QueueTypes
<1>3. \A j \in DOMAIN queue : Carried(j)' = Carried(j)
  BY <1>1, <1>2 DEF Carried
<1>4. Finished' = Finished /\ \A r : SavedBlocks(r)' = SavedBlocks(r)
  BY <1>1 DEF Finished, SavedBlocks
<1>5. Owned'
  BY <1>1 DEF Owned, Held, Grid
<1>6. InOrder'
  <2>1. ASSUME NEW k \in DOMAIN queue, NEW j \in DOMAIN queue, k < j, queue'[k].ran # "done"
        PROVE  queue'[j].ran = "no"
    <3>1. queue[k].ran # "done"
      BY <1>1, <1>2, <2>1
    <3>2. j # i
      BY <1>1, <1>2, <2>1, <3>1
    <3> QED BY <1>2, <2>1, <3>1, <3>2 DEF InOrder
  <2>2. \A k \in DOMAIN queue : queue'[k].ran # "done" => queue'[k].sent = {}
    BY <1>1, <1>2 DEF InOrder
  <2> QED BY <1>2, <2>1, <2>2 DEF InOrder
<1>7. OnePlace'
  BY <1>1, <1>2, <1>3, <1>4 DEF OnePlace
<1>8. /\ DOMAIN queue[i].saves = queue[i].fin
      /\ \A r \in queue[i].fin : queue[i].saves[r] = SavedBlocks(r)
      /\ DOMAIN event' = DOMAIN event \cup queue[i].fin
      /\ \A r \in DOMAIN event' : event'[r] = IF r \in queue[i].fin THEN queue[i].saves[r] ELSE event[r]
  <2>1. /\ DOMAIN queue[i].saves = queue[i].fin
        /\ \A r \in queue[i].fin : queue[i].saves[r] = SavedBlocks(r)
    BY <1>1 DEF InFlight
  <2>2. event \in Saves /\ queue[i].saves \in Saves
    BY QueueTypes DEF TypedWorker
  <2>3. /\ DOMAIN Over(event, queue[i].saves) = DOMAIN event \cup DOMAIN queue[i].saves
        /\ \A r \in DOMAIN event \cup DOMAIN queue[i].saves :
             Over(event, queue[i].saves)[r] =
               IF r \in DOMAIN queue[i].saves THEN queue[i].saves[r] ELSE event[r]
    BY <2>2, SavesAre, Zenon
  <2> QED BY <1>1, <2>1, <2>3
<1>9. InFlight'
  <2>1. ASSUME NEW r \in DOMAIN event'
        PROVE  /\ event'[r] = SavedBlocks(r)
               /\ r \in accum \/ \E j \in DOMAIN queue : queue'[j].ran = "submitted" /\ r \in queue'[j].fin
    <3>1. CASE r \in queue[i].fin
      BY <1>2, <1>8, <3>1
    <3>2. CASE r \notin queue[i].fin
      <4>1. r \in DOMAIN event /\ event'[r] = event[r]
        BY <1>8, <3>2
      <4> QED BY <1>2, <4>1 DEF InFlight
    <3> QED BY <3>1, <3>2
  <2>2. \A j \in DOMAIN queue :
          /\ DOMAIN queue'[j].saves = queue'[j].fin
          /\ queue'[j].ran = "no" => \A r \in queue'[j].fin : queue'[j].saves[r] = SavedBlocks(r)
    BY <1>2 DEF InFlight
  <2> QED BY <1>1, <1>2, <1>4, <2>1, <2>2 DEF InFlight
<1>10. Tasks'
  <2>1. \A r : r \in Submitted' <=>
          r \in accum \/ \E j \in DOMAIN queue' : queue'[j].ran # "no" /\ r \in Carried(j)'
    BY <1>1 DEF Submitted
  <2>2. \A r : r \in Submitted' <=> r \in Submitted \/ r \in queue[i].fin
    <3>1. Carried(i) = queue[i].fin
      BY <1>1 DEF Carried
    <3> QED BY <1>1, <1>2, <1>3, <2>1, <3>1, SubmittedAre
  <2> QED BY <1>1, <1>8, <2>2 DEF Tasks
<1> QED BY <1>5, <1>6, <1>7, <1>9, <1>10

\* The worker ends a step: what it reports has been copied.
LEMMA EndSched ==
  ASSUME Typed, Sched, NEW i \in DOMAIN queue, EndStep(i)
  PROVE  Sched'
<1> USE DEF Sched, Typed
<1> DEFINE D == Reported(i)
<1>1. /\ queue[i].ran = "submitted" /\ \A j \in 1..(i - 1) : queue[j].ran = "done"
      /\ accum' = (accum \cup queue[i].fin) \ D
      /\ UNCHANGED <<status, computed, table, free, pending, finishedIds, event, task>>
  BY DEF EndStep, IsNext, Reported, StillAwaited, Accumulated
<1>2. /\ DOMAIN queue' = DOMAIN queue /\ DOMAIN queue = 1..Len(queue) /\ Len(queue) \in Nat
      /\ D \subseteq accum \cup queue[i].fin
      /\ \A j \in DOMAIN queue :
           /\ queue'[j].ran = IF j = i THEN "done" ELSE queue[j].ran
           /\ queue'[j].sent = IF j = i THEN D ELSE queue[j].sent
           /\ queue'[j].saves = queue[j].saves /\ queue'[j].fin = queue[j].fin
  BY EndQueue, QueueTypes
<1>3. D \cap DOMAIN event = {}
  BY DEF Reported, DoneSending, TypedWorker
<1> HIDE DEF D
<1>4. /\ Carried(i) = queue[i].fin /\ Carried(i)' = D
      /\ \A j \in DOMAIN queue : j # i => Carried(j)' = Carried(j)
  BY <1>1, <1>2 DEF Carried
<1>5. Finished' = Finished /\ \A r : SavedBlocks(r)' = SavedBlocks(r)
  BY <1>1 DEF Finished, SavedBlocks
<1>6. Owned'
  BY <1>1 DEF Owned, Held, Grid
<1>7. InOrder'
  <2>1. ASSUME NEW k \in DOMAIN queue, NEW j \in DOMAIN queue, k < j, queue'[k].ran # "done"
        PROVE  queue'[j].ran = "no"
    <3>1. queue[k].ran # "done"
      BY <1>2, <2>1
    <3>2. j # i
      BY <1>1, <1>2, <2>1, <3>1
    <3> QED BY <1>2, <2>1, <3>1, <3>2 DEF InOrder
  <2>2. \A k \in DOMAIN queue : queue'[k].ran # "done" => queue'[k].sent = {}
    BY <1>1, <1>2 DEF InOrder
  <2> QED BY <1>2, <2>1, <2>2 DEF InOrder
<1>8. OnePlace'
  BY <1>1, <1>2, <1>4, <1>5 DEF OnePlace
<1>9. InFlight'
  <2>1. ASSUME NEW r \in DOMAIN event
        PROVE  r \in accum' \/ \E j \in DOMAIN queue : queue'[j].ran = "submitted" /\ r \in queue'[j].fin
    <3>1. CASE r \in accum
      BY <1>1, <1>3, <3>1
    <3>2. CASE \E j \in DOMAIN queue : queue[j].ran = "submitted" /\ r \in queue[j].fin
      BY <1>1, <1>2, <1>3, <3>2
    <3> QED BY <3>1, <3>2 DEF InFlight
  <2> QED BY <1>1, <1>2, <1>5, <2>1 DEF InFlight
<1>10. Tasks'
  <2>1. \A r : r \in Submitted' <=>
          r \in accum' \/ \E j \in DOMAIN queue : queue'[j].ran # "no" /\ r \in Carried(j)'
    BY <1>2 DEF Submitted
  <2>2. \A r : r \in Submitted' <=> r \in Submitted
    BY <1>1, <1>2, <1>4, <2>1, SubmittedAre
  <2> QED BY <1>1, <2>2 DEF Tasks
<1> QED BY <1>6, <1>7, <1>8, <1>9, <1>10

\* A client gives up.
LEMMA AbortSched ==
  ASSUME Typed, Sched, NEW r \in Reqs, Abort(r)
  PROVE  Sched'
<1> USE DEF Sched, Typed
<1>1. /\ UNCHANGED <<computed, table, free, queue, event, accum, task>>
      /\ \A q \in Reqs : Grid(q)' = Grid(q) /\ SavedBlocks(q)' = SavedBlocks(q)
      /\ r \notin Finished /\ status[r] # "gone" /\ status'[r] = "aborted"
      /\ \A q \in Reqs \ {r} : status'[q] = status[q]
  BY AbortIs DEF worker, Finished, TypedSched
<1>2. Finished' = Finished \cup {r}
  BY <1>1 DEF Finished
<1>3. Owned' /\ InOrder'
  BY <1>1 DEF Owned, Held, InOrder
<1>4. OnePlace'
  <2>1. finishedIds' = finishedIds \/ finishedIds' = finishedIds \cup {r}
    BY AbortIs
  <2>2. \A i \in DOMAIN queue : Carried(i)' = Carried(i)
    BY <1>1 DEF Carried
  <2> QED BY <1>1, <1>2, <2>1, <2>2 DEF OnePlace
<1>5. InFlight'
  <2>1. DOMAIN pending' = finishedIds' /\ \A q \in finishedIds' : pending'[q] = SavedBlocks(q)
    <3>1. DOMAIN pending = finishedIds /\ \A q \in finishedIds : pending[q] = SavedBlocks(q)
      BY DEF InFlight
    <3>2. \A q \in DOMAIN pending \ {r} : pending'[q] = pending[q]
      BY AbortIs
    <3>3. CASE r \in named
      <4>1. /\ finishedIds' = finishedIds \cup {r} /\ DOMAIN pending' = DOMAIN pending \cup {r}
            /\ pending'[r] = SavedBlocks(r)
        BY <3>3, AbortIs
      <4> QED BY <3>1, <3>2, <4>1
    <3>4. CASE r \notin named
      <4>1. UNCHANGED <<finishedIds, pending>>
        BY <3>4, AbortIs
      <4> QED BY <3>1, <4>1
    <3> QED BY <3>3, <3>4
  <2>2. finishedIds' \subseteq Reqs
    BY <1>2, <1>4 DEF OnePlace, Finished
  <2>3. \A i \in DOMAIN queue : queue[i].fin \subseteq Reqs
    BY QueueTypes
  <2>4. DOMAIN event \subseteq Reqs
    BY DEF TypedWorker
  <2> QED BY <1>1, <2>1, <2>2, <2>3, <2>4 DEF InFlight
<1>6. Tasks'
  <2>1. Submitted' = Submitted
    BY <1>1 DEF Submitted, Carried
  <2> QED BY <1>1, <2>1 DEF Tasks
<1> QED BY <1>3, <1>4, <1>5, <1>6

\* Every step keeps the blocks and the places.
LEMMA SchedStep ==
  ASSUME Typed, Sched, [Next]_vars
  PROVE  Sched'
<1> USE DEF Sched, Typed
<1>f. ASSUME UNCHANGED <<computed, table, free, pending, finishedIds, queue, accum>>,
             \A r \in Reqs : status'[r] = status[r] \/
                             {status[r], status'[r]} \cap {"done", "aborted", "gone"} = {}
      PROVE  /\ Owned' /\ InOrder' /\ OnePlace' /\ Submitted' = Submitted
             /\ \A r \in Reqs : SavedBlocks(r)' = SavedBlocks(r)
             /\ \A r \in Reqs : status'[r] = "gone" <=> status[r] = "gone"
  <2>1. Finished' = Finished /\ \A r \in Reqs : Grid(r)' = Grid(r)
    BY <1>f DEF Finished, Grid
  <2>2. \A i : Carried(i)' = Carried(i)
    BY <1>f DEF Carried
  <2>3. Owned' /\ InOrder'
    BY <1>f, <2>1 DEF Owned, Held, InOrder
  <2>4. OnePlace'
    BY <1>f, <2>1, <2>2 DEF OnePlace
  <2>5. Submitted' = Submitted
    BY <1>f, <2>2 DEF Submitted
  <2>6. \A r \in Reqs : SavedBlocks(r)' = SavedBlocks(r)
    BY <1>f DEF SavedBlocks
  <2>7. \A r \in Reqs : status'[r] = "gone" <=> status[r] = "gone"
    BY <1>f
  <2> QED BY <2>3, <2>4, <2>5, <2>6, <2>7
<1>g. ASSUME UNCHANGED <<computed, table, free, pending, finishedIds, queue, accum>>,
             \A r \in Reqs : status'[r] = status[r] \/
                             {status[r], status'[r]} \cap {"done", "aborted", "gone"} = {},
             DOMAIN event' \subseteq DOMAIN event, \A r \in DOMAIN event' : event'[r] = event[r],
             \A r \in Reqs : /\ task'[r] = "none" <=> task[r] = "none"
                             /\ task'[r] \in {"writing", "over"} => r \notin DOMAIN event'
      PROVE  Sched'
  <2>1. \A i \in DOMAIN queue : queue[i].fin \subseteq Reqs
    BY QueueTypes
  <2>2. finishedIds \subseteq Reqs /\ DOMAIN event \subseteq Reqs
    BY DEF TypedSched, TypedWorker
  <2>3. InFlight'
    BY <1>f, <1>g, <2>1, <2>2 DEF InFlight
  <2>4. Tasks'
    BY <1>f, <1>g DEF Tasks
  <2> QED BY <1>f, <1>g, <2>3, <2>4
<1>1. CASE Schedule
  BY <1>1, ScheduleSched
<1>2. CASE ProcessOutput
  BY <1>2, OutputSched
<1>3. CASE Worker
  BY <1>3, SubmitSched, EndSched DEF Worker
<1>4. ASSUME NEW r \in Reqs, Arrive(r) PROVE Sched'
  <2>1. /\ status[r] = "new" /\ status' = [status EXCEPT ![r] = "waiting"]
        /\ UNCHANGED <<computed, table, free, pending, finishedIds, queue, event, accum, task>>
    BY <1>4 DEF Arrive, worker
  <2>2. \A q \in Reqs : status'[q] = status[q] \/
          {status[q], status'[q]} \cap {"done", "aborted", "gone"} = {}
    BY <2>1 DEF TypedSched
  <2> QED BY <1>g, <2>1, <2>2 DEF Tasks
<1>5. ASSUME NEW r \in Reqs, Abort(r) PROVE Sched'
  BY <1>5, AbortSched
<1>6. ASSUME NEW r \in Reqs, CopyDone(r) PROVE Sched'
  <2>1. /\ r \in DOMAIN event /\ event' = Without(event, {r}) /\ event \in Saves
        /\ UNCHANGED <<sched, accum, task>>
    BY <1>6 DEF CopyDone, TypedWorker
  <2>2. DOMAIN event' \subseteq DOMAIN event /\ \A q \in DOMAIN event' : event'[q] = event[q]
    BY <2>1 DEF Without
  <2> QED BY <1>g, <2>1, <2>2 DEF Tasks, sched
<1>7. ASSUME NEW r \in Reqs, TakeTask(r) \/ StartWrite(r) \/ WriteDone(r) \/ WriteFails(r)
      PROVE  Sched'
  <2>1. UNCHANGED <<sched, event, accum>>
    BY <1>7 DEF TakeTask, StartWrite, WriteDone, WriteFails, EndWrite
  <2>2. ASSUME NEW q \in Reqs
        PROVE  /\ task'[q] = "none" <=> task[q] = "none"
               /\ task'[q] \in {"writing", "over"} => q \notin DOMAIN event
    BY <1>7 DEF TakeTask, StartWrite, WriteDone, WriteFails, EndWrite, Tasks, TypedWorker
  <2> QED BY <1>g, <2>1, <2>2 DEF sched
<1>8. ASSUME UNCHANGED <<sched, worker>> PROVE Sched'
  BY <1>g, <1>8 DEF sched, worker, Tasks
<1>9. ASSUME NEW r \in Reqs, Client(r) PROVE Sched'
  BY <1>8, <1>9 DEF Client, OpenLock, SharedLock, Load
<1>10. CASE UNCHANGED vars
  BY <1>8, <1>10 DEF vars
<1> QED
  BY <1>1, <1>2, <1>3, <1>4, <1>5, <1>6, <1>7, <1>9, <1>10 DEF Next, Writer, Quiet

-----------------------------------------------------------------------------
(* Locks.                                                                  *)

\* A step of the scheduler gives new requests to the worker, which have no lock
\* and no writer task yet.
LEMMA ScheduleLocks ==
  ASSUME Typed, Sched, Locks, Schedule
  PROVE  Locks'
<1> USE DEF Sched, Typed
<1> DEFINE z == Len(queue) + 1
<1>1. PICK P \in SUBSET Reqs, S \in SUBSET Reqs :
        \E n \in [S -> 1..Need] : \E new \in [Cells(n) -> AtHand(P)] : Scheduled(P, S, n, new)
  BY ScheduleIs
<1>2. PICK n \in [S -> 1..Need] : \E new \in [Cells(n) -> AtHand(P)] : Scheduled(P, S, n, new)
  BY <1>1
<1>3. PICK new \in [Cells(n) -> AtHand(P)] : Scheduled(P, S, n, new)
  BY <1>2
<1>4. /\ \A j \in DOMAIN queue : j \in DOMAIN queue' /\ queue'[j] = queue[j] /\ j \in Nat /\ j < z
      /\ \A j \in DOMAIN queue' : j \in DOMAIN queue \/ j = z
      /\ z \in DOMAIN queue' /\ z \in Nat /\ z \notin DOMAIN queue
      /\ queue'[z].ran = "no" /\ queue'[z].fin = finishedIds
      /\ Finished' = Finished
      /\ UNCHANGED <<task, lock, file, client, lockFds, accum>>
  BY ScheduleKeeps DEF worker, disk
<1>5. /\ \A r \in queue'[z].new : r \in S /\ status[r] = "waiting"
      /\ \A r \in S : status[r] = "waiting" => r \in queue'[z].new
      /\ \A r \in queue'[z].last : r \in S
  <2>1. queue'[z] = StepOf(n, new)
    <3>1. AtHand(P) \subseteq Blocks /\ Len(queue) < Depth
      BY AtHandAre DEF Schedule
    <3> QED BY <1>3, <3>1, ScheduledQueue
  <2> QED BY <1>3, <2>1, StepOfIs
<1>6. /\ S \subseteq Reqs
      /\ \A r \in Reqs : \/ status'[r] = status[r] /\ r \notin S
                         \/ /\ status[r] \in {"waiting", "running", "preempted"}
                            /\ status'[r] \in {"running", "preempted"}
                            /\ r \in S \/ status[r] = "running"
  <2>1. \A r \in Reqs : r \in S \/ r \in P \/ r \in Reqs \ (S \cup P)
    OBVIOUS
  <2> QED BY <1>3, <2>1, ScheduledTables
<1>7. \A r \in S : r \in Reqs /\ status[r] \in {"waiting", "running", "preempted"} /\ status'[r] = "running"
  BY <1>3, ScheduledTables
<1>8. \A i \in DOMAIN queue : queue[i].new \subseteq Reqs /\ queue[i].last \subseteq Reqs /\ queue[i].fin \subseteq Reqs
  BY QueueTypes
<1>9. Submitted' = Submitted
  <2>1. \A i \in DOMAIN queue' : queue'[i].ran # "no" => i \in DOMAIN queue
    BY <1>4
  <2>2. \A i \in DOMAIN queue : Carried(i)' = Carried(i)
    BY <1>4 DEF Carried
  <2>3. \A r : r \in Submitted' <=>
          r \in accum \/ \E i \in DOMAIN queue' : queue'[i].ran # "no" /\ r \in Carried(i)'
    BY <1>4 DEF Submitted
  <2>4. \A r : r \in Submitted' <=> r \in Submitted
    BY <1>4, <2>1, <2>2, <2>3, SubmittedAre
  <2>5. Submitted' = accum' \cup UNION {Carried(i)' : i \in {j \in DOMAIN queue' : queue'[j].ran # "no"}}
    BY DEF Submitted
  <2> QED BY <2>4, <2>5 DEF Submitted
<1>10. Brought'
  <2>1. ASSUME NEW i \in DOMAIN queue', NEW r \in queue'[i].new \cup queue'[i].last
        PROVE  status'[r] \notin {"new", "waiting"}
    <3>1. CASE i = z
      BY <1>5, <1>7, <2>1, <3>1
    <3>2. CASE i # z
      BY <1>4, <1>6, <1>8, <2>1, <3>2 DEF Locks, Brought
    <3> QED BY <3>1, <3>2
  <2>2. ASSUME NEW i \in DOMAIN queue', NEW r \in queue'[i].fin
        PROVE  status'[r] \in {"done", "aborted", "gone"}
    <3>1. CASE i = z
      BY <1>4, <2>2, <3>1 DEF OnePlace, Finished
    <3>2. CASE i # z
      BY <1>4, <1>6, <1>8, <2>2, <3>2 DEF Locks, Brought
    <3> QED BY <3>1, <3>2
  <2> QED BY <2>1, <2>2 DEF Brought
<1>11. NewFirst'
  <2>1. ASSUME NEW i \in DOMAIN queue', NEW j \in DOMAIN queue', NEW r \in queue'[i].new
        PROVE  /\ r \in queue'[j].last => i <= j
               /\ r \in queue'[j].fin => i < j
               /\ queue'[i].ran # "done" => task[r] = "none"
    <3>1. CASE i = z
      <4>1. r \in Reqs /\ status[r] = "waiting"
        BY <1>5, <1>7, <2>1, <3>1
      <4>2. task[r] = "none"
        BY <4>1, SubmittedAre DEF Tasks, Locks, OnePlace, Finished
      <4>3. r \notin queue'[j].fin
        BY <1>4, <4>1 DEF Locks, Brought, OnePlace, Finished
      <4>4. r \in queue'[j].last => j = z
        BY <1>4, <4>1 DEF Locks, Brought
      <4> QED BY <1>4, <3>1, <4>2, <4>3, <4>4
    <3>2. CASE i # z
      <4>1. i \in DOMAIN queue /\ r \in queue[i].new /\ queue'[i] = queue[i] /\ i \in Nat /\ i < z
        BY <1>4, <2>1, <3>2
      <4>2. CASE j = z
        BY <1>4, <4>1, <4>2 DEF Locks, NewFirst
      <4>3. CASE j # z
        BY <1>4, <4>1, <4>3 DEF Locks, NewFirst
      <4> QED BY <4>2, <4>3
    <3> QED BY <3>1, <3>2
  <2> QED BY <1>4, <2>1 DEF NewFirst
<1>12. Taken'
  <2>1. ASSUME NEW r \in Reqs, status'[r] \in {"running", "preempted", "done", "gone"}
        PROVE  lock[r] # "none" \/ \E i \in DOMAIN queue' : queue'[i].ran # "done" /\ r \in queue'[i].new
    <3>1. CASE status[r] = "waiting"
      BY <1>4, <1>5, <1>6, <2>1, <3>1
    <3>2. CASE status[r] # "waiting"
      <4>1. status[r] \in {"running", "preempted", "done", "gone"}
        BY <1>6, <2>1, <3>2
      <4>2. CASE lock[r] # "none"
        BY <4>2
      <4>3. CASE \E i \in DOMAIN queue : queue[i].ran # "done" /\ r \in queue[i].new
        BY <1>4, <4>3
      <4> QED BY <4>1, <4>2, <4>3 DEF Locks, Taken
    <3> QED BY <3>1, <3>2
  <2> QED BY <1>4, <2>1 DEF Taken
<1>13. Kept'
  BY <1>4, <1>9 DEF Locks, Kept
<1>14. ASSUME NEW r \in Reqs PROVE Guarded(r)'
  <2>1. Guarded(r)
    BY DEF Locks
  <2> QED BY <1>4, <1>6, <2>1 DEF Guarded
<1> QED BY <1>10, <1>11, <1>12, <1>13, <1>14 DEF Locks

\* The requests that end with the output have their lock: the step that brought
\* them to the worker is not younger than the one that computed their last token.
LEMMA OutputLocks ==
  ASSUME Typed, Sched, Locks, ProcessOutput
  PROVE  Locks'
<1> USE DEF Sched, Typed
<1>1. /\ \A j \in DOMAIN queue' : j + 1 \in DOMAIN queue /\ queue'[j] = queue[j + 1] /\ j \in Nat
      /\ \A j \in DOMAIN queue : j # 1 => j - 1 \in DOMAIN queue' /\ queue'[j - 1] = queue[j]
      /\ 1 \in DOMAIN queue /\ queue[1].ran = "done" /\ \A j \in DOMAIN queue : j \in Nat /\ j >= 1
      /\ UNCHANGED <<task, lock, file, lockFds, accum>>
  <2>1. queue' \in Seq(StepSet)
    BY OutputQueue
  <2> QED BY <2>1, OutputQueue, OutputIs, QueueTypes DEF worker, disk
<1>2. \A r \in Ends : /\ r \in Reqs /\ r \in queue[1].last /\ status[r] \in {"running", "preempted"}
                      /\ status'[r] = "done" /\ client'[r] = "path"
  BY OutputIs DEF Ends
<1>3. \A r \in Back : /\ r \in Reqs /\ status[r] \in {"done", "aborted"} /\ status'[r] = "gone"
                      /\ r \notin Ends /\ r \in Submitted
  BY <1>1, OutputIs, SubmittedAre DEF Finished
<1>4. \A r \in Reqs : /\ r \notin Ends => client'[r] = client[r]
                      /\ r \notin Ends /\ r \notin Back => status'[r] = status[r]
  BY OutputIs
<1>5. \A i \in DOMAIN queue : queue[i].new \subseteq Reqs /\ queue[i].last \subseteq Reqs /\ queue[i].fin \subseteq Reqs
  BY QueueTypes
<1>6. ASSUME NEW r, r \in Submitted' PROVE r \in Submitted
  <2>1. r \in accum \/ \E i \in DOMAIN queue' : queue'[i].ran # "no" /\ r \in Carried(i)'
    BY <1>1, <1>6 DEF Submitted
  <2>2. \A i \in DOMAIN queue' : Carried(i)' = Carried(i + 1)
    BY <1>1 DEF Carried
  <2> QED BY <1>1, <2>1, <2>2, SubmittedAre
<1>7. \A r \in Reqs : /\ status[r] \notin {"new", "waiting"} => status'[r] \notin {"new", "waiting"}
                      /\ status[r] \in {"done", "aborted", "gone"} => status'[r] \in {"done", "aborted", "gone"}
  BY <1>2, <1>3, <1>4
<1>8. Brought'
  <2>1. ASSUME NEW i \in DOMAIN queue'
        PROVE  /\ \A r \in queue'[i].new \cup queue'[i].last : status'[r] \notin {"new", "waiting"}
               /\ \A r \in queue'[i].fin : status'[r] \in {"done", "aborted", "gone"}
    BY <1>1, <1>5, <1>7 DEF Locks, Brought
  <2> QED BY <2>1 DEF Brought
<1>9. NewFirst'
  <2>1. ASSUME NEW i \in DOMAIN queue', NEW j \in DOMAIN queue', NEW r \in queue'[i].new
        PROVE  /\ r \in queue'[j].last => i <= j
               /\ r \in queue'[j].fin => i < j
               /\ queue'[i].ran # "done" => task[r] = "none"
    <3>1. /\ r \in queue[j + 1].last => i + 1 <= j + 1
          /\ r \in queue[j + 1].fin => i + 1 < j + 1
          /\ queue[i + 1].ran # "done" => task[r] = "none"
      BY <1>1, <2>1 DEF Locks, NewFirst
    <3> QED BY <1>1, <3>1
  <2> QED BY <1>1, <2>1 DEF NewFirst
<1>10. \A r \in Ends : lock[r] # "none" /\ client[r] = "none"
  <2>1. SUFFICES ASSUME NEW r \in Ends PROVE lock[r] # "none" /\ client[r] = "none"
    OBVIOUS
  <2>2. \A i \in DOMAIN queue : r \in queue[i].new => i = 1
    BY <1>1, <1>2 DEF Locks, NewFirst
  <2>3. lock[r] # "none"
    BY <1>1, <1>2, <2>2 DEF Locks, Taken
  <2> QED BY <1>2, <2>3 DEF Locks, Guarded
<1>11. \A r \in Back : lock[r] # "none"
  BY <1>3 DEF Tasks, Locks, Guarded
<1>12. Taken'
  <2>1. ASSUME NEW r \in Reqs, status'[r] \in {"running", "preempted", "done", "gone"}, lock[r] = "none"
        PROVE  \E i \in DOMAIN queue' : queue'[i].ran # "done" /\ r \in queue'[i].new
    <3>1. status[r] = status'[r]
      BY <1>4, <1>10, <1>11, <2>1
    <3>2. PICK i \in DOMAIN queue : queue[i].ran # "done" /\ r \in queue[i].new
      BY <2>1, <3>1 DEF Locks, Taken
    <3>3. i - 1 \in DOMAIN queue' /\ queue'[i - 1] = queue[i]
      BY <1>1, <3>2
    <3> QED BY <3>2, <3>3
  <2> QED BY <1>1, <2>1 DEF Taken
<1>13. Kept'
  BY <1>1, <1>6 DEF Locks, Kept
<1>14. ASSUME NEW r \in Reqs PROVE Guarded(r)'
  <2>1. Guarded(r)
    BY DEF Locks
  <2>2. CASE r \in Ends
    BY <1>1, <1>2, <1>10, <2>1, <2>2 DEF Guarded
  <2>3. CASE r \in Back
    BY <1>1, <1>3, <1>4, <2>1, <2>3 DEF Guarded
  <2>4. CASE r \notin Ends /\ r \notin Back
    BY <1>1, <1>4, <2>1, <2>4 DEF Guarded
  <2> QED BY <2>2, <2>3, <2>4
<1> QED BY <1>8, <1>9, <1>12, <1>13, <1>14 DEF Locks

\* The writer tasks take the locks of their requests over.
LEMMA SubmitLocks ==
  ASSUME Typed, Sched, Locks, NEW i \in DOMAIN queue, SubmitWrites(i)
  PROVE  Locks'
<1> USE DEF Sched, Typed
<1> DEFINE F == queue[i].fin
<1>1. /\ queue[i].ran = "no" /\ \A j \in 1..(i - 1) : queue[j].ran = "done"
      /\ DOMAIN queue[i].saves = F
      /\ UNCHANGED <<status, accum, file, client>>
  BY DEF SubmitWrites, IsNext, InFlight
<1>2. /\ task' = [r \in Reqs |-> IF r \in F THEN "queued" ELSE task[r]]
      /\ lock' = [r \in Reqs |-> IF r \in F THEN "held" ELSE lock[r]]
      /\ lockFds' = lockFds \ F
  BY <1>1 DEF SubmitWrites, LockAll
<1>3. /\ DOMAIN queue' = DOMAIN queue /\ DOMAIN queue = 1..Len(queue) /\ Len(queue) \in Nat
      /\ \A j \in DOMAIN queue :
           /\ queue'[j].ran = IF j = i THEN "submitted" ELSE queue[j].ran
           /\ queue'[j].last = queue[j].last /\ queue'[j].new = queue[j].new
           /\ queue'[j].fin = queue[j].fin /\ queue'[j].sent = queue[j].sent
           /\ queue[j].new \subseteq Reqs /\ queue[j].fin \subseteq Reqs
  BY SubmitQueue, QueueTypes
<1>4. ASSUME NEW r \in F
      PROVE  r \in Reqs /\ r \in Finished /\ r \notin Submitted /\ task[r] = "none"
  <2>1. r \in Carried(i) /\ r \in Reqs
    BY <1>1, <1>3, <1>4 DEF Carried
  <2>2. r \in Finished /\ r \notin Submitted
    BY <1>1, <2>1, SubmittedAre DEF OnePlace
  <2> QED BY <2>1, <2>2 DEF Tasks, Finished
<1>5. ASSUME NEW r, r \in Submitted' PROVE r \in Submitted \/ r \in F
  <2>1. r \in accum \/ \E j \in DOMAIN queue' : queue'[j].ran # "no" /\ r \in Carried(j)'
    BY <1>1, <1>5 DEF Submitted
  <2>2. \A j \in DOMAIN queue : Carried(j)' = Carried(j)
    BY <1>1, <1>3 DEF Carried
  <2>3. Carried(i) = F
    BY <1>1 DEF Carried
  <2> QED BY <1>3, <2>1, <2>2, <2>3, SubmittedAre
<1> HIDE DEF F
<1>6. Brought'
  BY <1>1, <1>3 DEF Locks, Brought
<1>7. NewFirst'
  <2>1. ASSUME NEW k \in DOMAIN queue, NEW r \in queue[k].new, queue'[k].ran # "done"
        PROVE  task'[r] = "none"
    <3>1. queue[k].ran # "done"
      BY <1>1, <1>3, <2>1
    <3>2. r \notin F
      BY <1>1, <1>3, <3>1 DEF Locks, NewFirst, F
    <3> QED BY <1>2, <1>3, <3>1, <3>2 DEF Locks, NewFirst
  <2> QED BY <1>3, <2>1 DEF Locks, NewFirst
<1>8. Taken'
  BY <1>1, <1>2, <1>3 DEF Locks, Taken
<1>9. Kept'
  <2>1. \A r \in lockFds : r \in Reqs
    BY DEF TypedWorker
  <2> QED BY <1>2, <1>5, <2>1 DEF Locks, Kept
<1>10. ASSUME NEW r \in Reqs PROVE Guarded(r)'
  <2>1. Guarded(r)
    BY DEF Locks
  <2>2. CASE r \in F
    BY <1>1, <1>2, <1>4, <2>1, <2>2 DEF Guarded
  <2>3. CASE r \notin F
    BY <1>1, <1>2, <2>1, <2>3 DEF Guarded
  <2> QED BY <2>2, <2>3
<1> QED BY <1>6, <1>7, <1>8, <1>9, <1>10 DEF Locks

\* The connector takes the locks of new requests; it no longer has the lock of
\* any request it reports.
LEMMA EndLocks ==
  ASSUME Typed, Sched, Locks, NEW i \in DOMAIN queue, EndStep(i)
  PROVE  Locks'
<1> USE DEF Sched, Typed
<1> DEFINE D == Reported(i)
<1> DEFINE A == queue[i].new \ lockFds
<1>1. /\ queue[i].ran = "submitted" /\ \A j \in 1..(i - 1) : queue[j].ran = "done"
      /\ accum' = (accum \cup queue[i].fin) \ D
      /\ lock' = [r \in Reqs |-> IF r \in A THEN "held"
                                 ELSE IF r \in D \cap lockFds THEN "free" ELSE lock[r]]
      /\ lockFds' = (lockFds \ D) \cup A
      /\ UNCHANGED <<status, task, file, client>>
  BY DEF EndStep, IsNext, Reported, StillAwaited, Accumulated, LockAtArrival
<1>2. /\ DOMAIN queue' = DOMAIN queue /\ DOMAIN queue = 1..Len(queue) /\ Len(queue) \in Nat
      /\ D \subseteq accum \cup queue[i].fin
      /\ \A j \in DOMAIN queue :
           /\ queue'[j].ran = IF j = i THEN "done" ELSE queue[j].ran
           /\ queue'[j].sent = IF j = i THEN D ELSE queue[j].sent
           /\ queue'[j].last = queue[j].last /\ queue'[j].new = queue[j].new
           /\ queue'[j].fin = queue[j].fin
           /\ queue[j].new \subseteq Reqs
  BY EndQueue, QueueTypes
<1> HIDE DEF D, A
<1>3. /\ Carried(i) = queue[i].fin /\ Carried(i)' = D
      /\ \A j \in DOMAIN queue : j # i => Carried(j)' = Carried(j)
  BY <1>1, <1>2 DEF Carried
<1>4. \A r : r \in Submitted' <=> r \in Submitted
  <2>1. \A r : r \in Submitted' <=>
          r \in accum' \/ \E j \in DOMAIN queue : queue'[j].ran # "no" /\ r \in Carried(j)'
    BY <1>2 DEF Submitted
  <2> QED BY <1>1, <1>2, <1>3, <2>1, SubmittedAre
<1>5. D \subseteq Submitted /\ D \cap lockFds = {}
  <2>1. D \subseteq Submitted
    BY <1>1, <1>2, <1>3, SubmittedAre
  <2> QED BY <2>1 DEF Locks, Kept
<1>6. \A r \in A : r \in Reqs /\ task[r] = "none" /\ r \notin Submitted
  BY <1>1, <1>2 DEF A, Locks, NewFirst, Tasks
<1>7. \A r \in Reqs : lock'[r] = IF r \in A THEN "held" ELSE lock[r]
  BY <1>1, <1>5
<1>8. Brought' /\ NewFirst'
  BY <1>1, <1>2 DEF Locks, Brought, NewFirst
<1>9. Taken'
  <2>1. \A r \in Reqs : lock[r] # "none" => lock'[r] # "none"
    BY <1>7
  <2>2. \A r \in queue[i].new : lock'[r] # "none"
    BY <1>2, <1>7 DEF A, Locks, Kept
  <2> QED BY <1>1, <1>2, <2>1, <2>2 DEF Locks, Taken
<1>10. Kept'
  <2>1. \A r \in lockFds : r \in Reqs
    BY DEF TypedWorker
  <2> QED BY <1>1, <1>4, <1>6, <1>7, <2>1 DEF Locks, Kept
<1>11. ASSUME NEW r \in Reqs PROVE Guarded(r)'
  <2>1. Guarded(r)
    BY DEF Locks
  <2>2. CASE r \in A
    BY <1>1, <1>6, <1>7, <2>1, <2>2 DEF Guarded
  <2>3. CASE r \notin A
    BY <1>1, <1>7, <2>1, <2>3 DEF Guarded
  <2> QED BY <2>2, <2>3
<1> QED BY <1>8, <1>9, <1>10, <1>11 DEF Locks

\* Every step keeps the locks.
LEMMA LocksStep ==
  ASSUME Typed, Sched, Locks, [Next]_vars
  PROVE  Locks'
<1> USE DEF Sched, Typed
<1>f. ASSUME UNCHANGED <<queue, accum, lockFds>>, 
             \A r \in Reqs : status'[r] = status[r] \/ status'[r] = "aborted"
                             \/ (status[r] = "new" /\ status'[r] = "waiting"),
             \A r \in Reqs : /\ status[r] \in {"done", "gone"} => status'[r] = status[r]
                             /\ task'[r] = "none" <=> task[r] = "none"
                             /\ lock[r] # "none" => lock'[r] # "none"
                             /\ Guarded(r)'
      PROVE  Locks'
  <2>1. Submitted' = Submitted
    BY <1>f DEF Submitted, Carried
  <2>2. \A i \in DOMAIN queue : queue[i].new \subseteq Reqs /\ queue[i].last \subseteq Reqs /\ queue[i].fin \subseteq Reqs
    BY QueueTypes
  <2>3. Brought'
    BY <1>f, <2>2 DEF Locks, Brought
  <2>4. NewFirst'
    BY <1>f, <2>2 DEF Locks, NewFirst
  <2>5. Taken'
    BY <1>f DEF Locks, Taken
  <2>6. Kept'
    BY <1>f, <2>1 DEF Locks, Kept, TypedWorker
  <2> QED BY <1>f, <2>3, <2>4, <2>5, <2>6 DEF Locks
<1>1. CASE Schedule
  BY <1>1, ScheduleLocks
<1>2. CASE ProcessOutput
  BY <1>2, OutputLocks
<1>3. CASE Worker
  BY <1>3, SubmitLocks, EndLocks DEF Worker
<1>4. ASSUME NEW r \in Reqs, Arrive(r) \/ Abort(r) PROVE Locks'
  <2>1. /\ UNCHANGED <<queue, accum, lockFds, task, lock, file, client>>
        /\ \A q \in Reqs : status'[q] = status[q] \/ status'[q] = "aborted"
                           \/ (status[q] = "new" /\ status'[q] = "waiting")
        /\ \A q \in Reqs : status[q] \in {"done", "gone"} => status'[q] = status[q]
    <3>1. CASE Arrive(r)
      BY <3>1 DEF Arrive, worker, disk, TypedSched
    <3>2. CASE Abort(r)
      BY <3>2, AbortIs DEF worker, disk, TypedSched
    <3> QED BY <1>4, <3>1, <3>2
  <2>2. \A q \in Reqs : Guarded(q)'
    BY <2>1 DEF Locks, Guarded
  <2> QED BY <1>f, <2>1, <2>2
<1>5. ASSUME NEW r \in Reqs, CopyDone(r) PROVE Locks'
  <2>1. UNCHANGED <<status, queue, accum, lockFds, task, lock, file, client>>
    BY <1>5 DEF CopyDone, sched, disk
  <2>2. \A q \in Reqs : Guarded(q)'
    BY <2>1 DEF Locks, Guarded
  <2> QED BY <1>f, <2>1, <2>2
<1>6. ASSUME NEW r \in Reqs, TakeTask(r) \/ StartWrite(r) \/ WriteDone(r) \/ WriteFails(r)
      PROVE  Locks'
  <2>1. UNCHANGED <<status, queue, accum, lockFds, client>>
    BY <1>6 DEF TakeTask, StartWrite, WriteDone, WriteFails, EndWrite, sched, disk
  <2>2. ASSUME NEW q \in Reqs
        PROVE  /\ task'[q] = "none" <=> task[q] = "none"
               /\ lock[q] # "none" => lock'[q] # "none"
               /\ Guarded(q)'
    <3>1. Guarded(q)
      BY DEF Locks
    <3>2. CASE q # r
      <4>1. task'[q] = task[q] /\ lock'[q] = lock[q] /\ file'[q] = file[q]
        BY <1>6, <3>2 DEF TakeTask, StartWrite, WriteDone, WriteFails, EndWrite, disk,
                          TypedWorker, TypedClient
      <4> QED BY <2>1, <3>1, <4>1 DEF Guarded
    <3>3. CASE q = r
      <4>1. \/ /\ task[q] = "queued" /\ task'[q] = "taken"
               /\ lock'[q] = lock[q] /\ file'[q] = file[q]
            \/ /\ task[q] = "taken" /\ task'[q] = "writing"
               /\ lock'[q] = lock[q] /\ file'[q] = "partial"
            \/ task[q] = "writing" /\ task'[q] = "over" /\ lock'[q] = "free"
        BY <1>6, <3>3 DEF TakeTask, StartWrite, WriteDone, WriteFails, EndWrite, disk,
                          TypedWorker, TypedClient
      <4>2. client'[q] = client[q] /\ status'[q] = status[q]
        BY <2>1
      <4> QED BY <3>1, <4>1, <4>2 DEF Guarded
    <3> QED BY <3>2, <3>3
  <2> QED BY <1>f, <2>1, <2>2
<1>7. ASSUME NEW r \in Reqs, Client(r) PROVE Locks'
  <2>1. UNCHANGED <<status, queue, accum, lockFds, task>>
    BY <1>7 DEF Client, OpenLock, SharedLock, Load, sched, worker
  <2>2. ASSUME NEW q \in Reqs
        PROVE  (lock[q] # "none" => lock'[q] # "none") /\ Guarded(q)'
    <3>1. Guarded(q)
      BY DEF Locks
    <3>2. CASE OpenLock(r) \/ SharedLock(r)
      BY <3>1, <3>2 DEF OpenLock, SharedLock, Guarded, sched, worker, disk, TypedClient
    <3>3. CASE Load(r)
      BY <3>1, <3>3 DEF Load, Guarded, sched, worker, disk, TypedClient
    <3> QED BY <1>7, <3>2, <3>3 DEF Client
  <2> QED BY <1>f, <2>1, <2>2
<1>8. CASE UNCHANGED vars
  <2>1. UNCHANGED <<status, queue, accum, lockFds, task, lock, file, client>>
    BY <1>8 DEF vars, sched, worker, disk
  <2>2. \A q \in Reqs : Guarded(q)'
    BY <2>1 DEF Locks, Guarded
  <2> QED BY <1>f, <2>1, <2>2
<1> QED
  BY <1>1, <1>2, <1>3, <1>4, <1>5, <1>6, <1>7, <1>8 DEF Next, Writer, Quiet

\* Every step keeps the running requests known to the connector, and the engine
\* core alive if no request is aborted before it was scheduled.
LEMMA KnownStep ==
  ASSUME Typed, Sched, Known, [Next]_vars
  PROVE  Known'
<1> USE DEF Sched, Typed
<1>1. CASE Schedule
  <2>1. PICK P \in SUBSET Reqs, S \in SUBSET Reqs :
          \E n \in [S -> 1..Need] : \E new \in [Cells(n) -> AtHand(P)] : Scheduled(P, S, n, new)
    BY <1>1, ScheduleIs
  <2>2. PICK n \in [S -> 1..Need] : \E new \in [Cells(n) -> AtHand(P)] : Scheduled(P, S, n, new)
    BY <2>1
  <2>3. PICK new \in [Cells(n) -> AtHand(P)] : Scheduled(P, S, n, new)
    BY <2>2
  <2>4. named' = named \cup {r \in S : status[r] = "waiting"} /\ alive' = alive
    BY <1>1, <2>3 DEF Scheduled, Schedule
  <2>5. \A r \in Reqs : \/ r \in S /\ status[r] \in {"waiting", "running", "preempted"}
                        \/ r \in P /\ status[r] = "running"
                        \/ status'[r] = status[r]
    BY <2>3, ScheduledTables
  <2> QED BY <2>4, <2>5 DEF Known
<1>2. CASE ProcessOutput
  <2>1. alive /\ alive' /\ named' = named \ Ends
    BY <1>2, OutputIs DEF ProcessOutput
  <2>2. \A r \in Reqs : status'[r] \in {"running", "preempted"} => r \notin Ends /\ status[r] = status'[r]
    BY <1>2, OutputIs
  <2> QED BY <2>1, <2>2 DEF Known
<1>3. ASSUME NEW r \in Reqs, Abort(r) PROVE Known'
  <2>1. /\ alive /\ status' = [status EXCEPT ![r] = "aborted"] /\ status[r] \in AbortsFrom
        /\ named' = named \ {r} \/ named' = named
        /\ alive' = (r \in named) /\ status[r] \in {"waiting", "running", "preempted"}
    BY <1>3, AbortIs DEF Abort
  <2>2. \A q \in Reqs : status'[q] \in {"running", "preempted"} => q # r /\ status[q] = status'[q]
    BY <2>1 DEF TypedSched
  <2>3. "waiting" \notin AbortsFrom => r \in named
    BY <2>1 DEF Known
  <2>4. (r \in named) \in BOOLEAN
    OBVIOUS
  <2>5. "waiting" \notin AbortsFrom => alive'
    BY <2>1, <2>3, <2>4
  <2> QED BY <2>1, <2>2, <2>5 DEF Known
<1>4. ASSUME NEW r \in Reqs, Arrive(r) PROVE Known'
  <2>1. /\ status' = [status EXCEPT ![r] = "waiting"] /\ UNCHANGED <<named, alive>>
    BY <1>4 DEF Arrive
  <2>2. \A q \in Reqs : status'[q] \in {"running", "preempted"} => status[q] = status'[q]
    BY <2>1 DEF TypedSched
  <2> QED BY <2>1, <2>2 DEF Known
<1>5. CASE UNCHANGED <<status, named, alive>>
  BY <1>5 DEF Known
<1>6. CASE Worker
  <2>1. UNCHANGED <<status, named, alive>>
    BY <1>6 DEF Worker, SubmitWrites, EndStep
  <2> QED BY <1>5, <2>1
<1>7. ASSUME NEW r \in Reqs, CopyDone(r) \/ Writer(r) \/ WriteFails(r) \/ Client(r) PROVE Known'
  <2>1. UNCHANGED <<status, named, alive>>
    BY <1>7 DEF CopyDone, Writer, TakeTask, StartWrite, WriteDone, WriteFails, EndWrite,
                Client, OpenLock, SharedLock, Load, sched
  <2> QED BY <1>5, <2>1
<1>8. CASE UNCHANGED vars
  <2>1. UNCHANGED <<status, named, alive>>
    BY <1>8 DEF vars, sched
  <2> QED BY <1>5, <2>1
<1> QED
  BY <1>1, <1>2, <1>3, <1>4, <1>6, <1>7, <1>8 DEF Next, Quiet

\* Without chunked prefill a request is never preempted, and is computed as a
\* whole when it starts.
LEMMA WholeStep ==
  ASSUME Typed, Sched, Locks, Whole, [Next]_vars
  PROVE  Whole'
<1> USE DEF Sched, Typed
<1> SUFFICES ASSUME ~ChunkedPrefill PROVE Whole'
  BY DEF Whole
<1>1. CASE Schedule
  <2>1. PICK P \in SUBSET Reqs, S \in SUBSET Reqs :
          \E n \in [S -> 1..Need] : \E new \in [Cells(n) -> AtHand(P)] : Scheduled(P, S, n, new)
    BY <1>1, ScheduleIs
  <2>2. PICK n \in [S -> 1..Need] : \E new \in [Cells(n) -> AtHand(P)] : Scheduled(P, S, n, new)
    BY <2>1
  <2>3. PICK new \in [Cells(n) -> AtHand(P)] : Scheduled(P, S, n, new)
    BY <2>2
  <2>4. P = {}
    <3>1. \A r \in Reqs : status[r] = "running" => computed[r] = Need
      BY DEF Whole
    <3>2. Need \in Nat
      BY Sizes
    <3> QED BY <2>3, <3>1, <3>2 DEF Scheduled
  <2>5. ASSUME NEW r \in S PROVE status'[r] = "running" /\ computed'[r] = Need
    <3>1. /\ status'[r] = "running" /\ computed'[r] = computed[r] + n[r]
          /\ computed[r] \in Nat
      BY <2>3, ScheduledTables
    <3>2. n[r] \in Chunks(r)
      BY <2>3 DEF Scheduled
    <3>3. n[r] = Need - computed[r]
      BY <3>2 DEF Chunks
    <3> QED BY <3>1, <3>3, Sizes
  <2>6. \A r \in Reqs \ S : status'[r] = status[r] /\ computed'[r] = computed[r]
    BY <2>3, <2>4, ScheduledTables
  <2>7. client' = client
    BY <1>1, ScheduleKeeps
  <2> QED BY <2>5, <2>6, <2>7 DEF Whole
<1>2. CASE ProcessOutput
  <2>1. computed' = computed
    BY <1>2, OutputIs
  <2>2. \A r \in Reqs : \/ status'[r] \in {"done", "gone"} \/ status'[r] = status[r]
    BY <1>2, OutputIs
  <2>3. \A r \in Reqs : client'[r] = client[r] \/ status[r] \in {"running", "preempted"}
    BY <1>2, OutputIs
  <2> QED BY <2>1, <2>2, <2>3 DEF Whole
<1>3. ASSUME UNCHANGED computed,
             \A r \in Reqs : /\ status'[r] = status[r] \/ status'[r] \in {"waiting", "aborted"}
                             /\ client'[r] = "none" <=> client[r] = "none"
      PROVE  Whole'
  BY <1>3 DEF Whole
<1>4. ASSUME NEW r \in Reqs, Arrive(r) \/ Abort(r) PROVE Whole'
  <2>1. /\ UNCHANGED <<computed, client>>
        /\ \E how \in {"waiting", "aborted"} : status' = [status EXCEPT ![r] = how]
    BY <1>4 DEF Arrive, Abort
  <2>2. \A q \in Reqs : status'[q] = status[q] \/ status'[q] \in {"waiting", "aborted"}
    BY <2>1 DEF TypedSched
  <2> QED BY <1>3, <2>1, <2>2
<1>5. CASE Worker
  BY <1>3, <1>5 DEF Worker, SubmitWrites, EndStep
<1>6. ASSUME NEW r \in Reqs, CopyDone(r) \/ Writer(r) \/ WriteFails(r) PROVE Whole'
  BY <1>3, <1>6 DEF CopyDone, Writer, TakeTask, StartWrite, WriteDone, WriteFails, EndWrite, sched
<1>7. ASSUME NEW r \in Reqs, Client(r) PROVE Whole'
  <2>1. UNCHANGED <<computed, status>>
    BY <1>7 DEF Client, OpenLock, SharedLock, Load, sched
  <2>2. \A q \in Reqs : client'[q] = "none" <=> client[q] = "none"
    BY <1>7 DEF Client, OpenLock, SharedLock, Load, TypedClient
  <2> QED BY <1>3, <2>1, <2>2
<1>8. CASE UNCHANGED vars
  BY <1>3, <1>8 DEF vars, sched
<1> QED
  BY <1>1, <1>2, <1>4, <1>5, <1>6, <1>7, <1>8 DEF Next, Quiet

-----------------------------------------------------------------------------
(* Rows.                                                                   *)

\* A new step writes blocks that nobody holds, each once.
LEMMA ScheduleRows ==
  ASSUME Typed, Sched, Rows, Schedule
  PROVE  Rows'
<1> USE DEF Sched, Typed
<1>z. PICK z \in Nat : z = Len(queue) + 1
  BY QueueTypes
<1>1. PICK P \in SUBSET Reqs, S \in SUBSET Reqs :
        \E n \in [S -> 1..Need] : \E new \in [Cells(n) -> AtHand(P)] : Scheduled(P, S, n, new)
  BY ScheduleIs
<1>2. PICK n \in [S -> 1..Need] : \E new \in [Cells(n) -> AtHand(P)] : Scheduled(P, S, n, new)
  BY <1>1
<1>3. PICK new \in [Cells(n) -> AtHand(P)] : Scheduled(P, S, n, new)
  BY <1>2
<1>4. /\ \A j \in DOMAIN queue : j \in DOMAIN queue' /\ queue'[j] = queue[j] /\ j \in Nat /\ j < z
      /\ \A j \in DOMAIN queue' : j \in DOMAIN queue \/ j = z
      /\ z \in DOMAIN queue' /\ z \in Nat /\ z \notin DOMAIN queue
      /\ queue'[z].ran = "no" /\ queue'[z].fin = finishedIds
      /\ UNCHANGED <<kv, event>>
  BY <1>z, ScheduleKeeps DEF worker
<1>5. /\ \A c \in queue'[z].cells : c = <<c[1], c[2], c[3]>>
      /\ \A r, k, b : <<r, k, b>> \in queue'[z].cells <=>
           <<r, k, HiddenGroup>> \in Cells(n) /\ b = new[<<r, k, HiddenGroup>>]
  <2>1. queue'[z] = StepOf(n, new)
    <3>1. AtHand(P) \subseteq Blocks /\ Len(queue) < Depth
      BY AtHandAre DEF Schedule
    <3> QED BY <1>3, <1>z, <3>1, ScheduledQueue
  <2> QED BY <1>3, <2>1, StepOfIs
<1>6. \A c \in queue'[z].cells : /\ <<c[1], c[2], HiddenGroup>> \in Cells(n)
                                 /\ c[3] = new[<<c[1], c[2], HiddenGroup>>]
                                 /\ c[3] \in AtHand(P)
  BY <1>3, <1>5, CellsAre
<1>7. ASSUME NEW r \in Reqs, r \notin P, NEW c \in Grid(r)
      PROVE  table[r][c] \notin AtHand(P)
  <2>1. \A q \in Reqs : \A b : b \in Held(q) <=> \E d \in Grid(q) : table[q][d] = b
    BY DEF TypedSched, Held, Range
  <2>2. \A b : b \in AtHand(P) <=> b \in free \/ \E q \in P : b \in Held(q)
    BY DEF AtHand
  <2>3. \A q \in P : q \in Reqs
    BY <1>3, ScheduledTables
  <2>4. \A q \in P : table[r][c] \notin Held(q)
    BY <1>7, <2>1, <2>3 DEF Owned
  <2> QED BY <2>2, <2>4 DEF Owned
<1>8. ASSUME NEW r \in Reqs, NEW k \in 1..Need, NEW b \in Blocks, RowAt(r, k, b), r \notin P
      PROVE  ~Writes(z, b)'
  <2>1. <<k, HiddenGroup>> \in Grid(r)
    BY <1>8, SavedAre, Sizes DEF RowAt
  <2>2. b \notin AtHand(P)
    BY <1>7, <1>8, <2>1 DEF RowAt
  <2>3. \A c \in queue'[z].cells : c[3] # b
    BY <1>6, <2>2
  <2> QED BY <2>3 DEF Writes
<1>9. ASSUME NEW r \in Finished, NEW k \in 1..Need, NEW b \in Blocks, RowAt(r, k, b)'
      PROVE  r \notin P /\ RowAt(r, k, b)
  <2>1. r \in Reqs \ (S \cup P) /\ status[r] # "gone"
    BY <1>3, ScheduledTables DEF Finished
  <2>2. table'[r] = table[r] /\ computed'[r] = computed[r]
    BY <1>3, <2>1, ScheduledTables
  <2> QED BY <1>9, <2>1, <2>2 DEF RowAt
<1>10. \A i \in DOMAIN queue' : \A c, d \in queue'[i].cells : c[3] = d[3] => c = d
  <2>1. ASSUME NEW c \in queue'[z].cells, NEW d \in queue'[z].cells, c[3] = d[3] PROVE c = d
    <3>1. \A e, h \in Cells(n) : new[e] = new[h] => e = h
      BY <1>3, CellsAre
    <3>2. <<c[1], c[2], HiddenGroup>> = <<d[1], d[2], HiddenGroup>>
      BY <1>6, <2>1, <3>1
    <3>3. c[1] = d[1] /\ c[2] = d[2]
      BY <3>2
    <3> QED BY <1>5, <2>1, <3>3
  <2>2. \A i \in DOMAIN queue : \A c, d \in queue[i].cells : c[3] = d[3] => c = d
    BY DEF Rows
  <2> QED BY <1>4, <2>1, <2>2
<1>w. \A j \in DOMAIN queue : \A b : Writes(j, b)' <=> Writes(j, b)
  BY <1>4 DEF Writes
<1>11. ASSUME NEW r \in Reqs, NEW k \in 1..Need, NEW b \in Blocks, RowAt(r, k, b)'
       PROVE  Lands(r, k, b)'
  <2>0. k \in 1..computed'[r] /\ status'[r] # "gone" /\ b = table'[r][<<k, HiddenGroup>>]
    BY <1>11 DEF RowAt
  <2>1. r \notin P
    <3>1. \A x : x \notin 1..0
      OBVIOUS
    <3> QED BY <1>3, <2>0, <3>1, ScheduledTables
  <2>2. CASE r \in S /\ k \notin 1..computed[r]
    <3>1. /\ computed'[r] = computed[r] + n[r] /\ computed[r] \in Nat /\ n[r] \in Nat
          /\ Grid(r)' = (1..(computed[r] + n[r])) \X (1..Groups)
          /\ Grid(r) = (1..computed[r]) \X (1..Groups)
      BY <1>3, <2>2, ScheduledTables
    <3>2. <<k, HiddenGroup>> \in Grid(r)' /\ <<k, HiddenGroup>> \notin Grid(r)
      BY <2>0, <2>2, <3>1, Sizes
    <3>3. <<r, k, HiddenGroup>> \in Cells(n) /\ b = new[<<r, k, HiddenGroup>>]
      BY <1>3, <2>0, <2>2, <3>2, ScheduledTables
    <3>4. <<r, k, b>> \in queue'[z].cells
      BY <1>5, <3>3
    <3>5. \A j \in DOMAIN queue' : ~(z < j)
      BY <1>4
    <3> QED BY <1>4, <3>4, <3>5 DEF Lands
  <2>3. CASE ~(r \in S /\ k \notin 1..computed[r])
    <3>1. RowAt(r, k, b)
      <4>1. CASE r \in S
        <5>1. k \in 1..computed[r] /\ status[r] # "gone"
          BY <1>3, <2>3, <4>1, ScheduledTables
        <5>2. <<k, HiddenGroup>> \in Grid(r)
          BY <5>1, SavedAre, Sizes
        <5>3. <<k, HiddenGroup>> \in Grid(r)'
          <6>1. Grid(r)' = (1..(computed[r] + n[r])) \X (1..Groups) /\ computed'[r] = computed[r] + n[r]
            BY <1>3, <4>1, ScheduledTables
          <6> QED BY <2>0, <6>1, Sizes
        <5>4. table'[r][<<k, HiddenGroup>>] = table[r][<<k, HiddenGroup>>]
          <6>1. \A c \in Grid(r)' : c \in Grid(r) => table'[r][c] = table[r][c]
            BY <1>3, <4>1, ScheduledTables
          <6> QED BY <5>2, <5>3, <6>1
        <5> QED BY <2>0, <5>1, <5>4 DEF RowAt
      <4>2. CASE r \notin S
        <5>1. status'[r] = status[r] /\ computed'[r] = computed[r] /\ table'[r] = table[r]
          BY <1>3, <2>1, <4>2, ScheduledTables
        <5> QED BY <2>0, <5>1 DEF RowAt
      <4> QED BY <4>1, <4>2
    <3>2. Lands(r, k, b)
      BY <3>1 DEF Rows
    <3>3. ~Writes(z, b)'
      BY <1>8, <2>1, <3>1
    <3>4. CASE kv[b] = <<r, k>> /\ \A i \in DOMAIN queue : queue[i].ran # "done" => ~Writes(i, b)
      <4>1. \A i \in DOMAIN queue' : queue'[i].ran # "done" => ~Writes(i, b)'
        BY <1>4, <1>w, <3>3, <3>4
      <4> QED BY <1>4, <3>4, <4>1 DEF Lands
    <3>5. CASE \E i \in DOMAIN queue :
                 /\ queue[i].ran # "done" /\ <<r, k, b>> \in queue[i].cells
                 /\ \A j \in DOMAIN queue : i < j => ~Writes(j, b)
      <4>1. PICK i \in DOMAIN queue :
              /\ queue[i].ran # "done" /\ <<r, k, b>> \in queue[i].cells
              /\ \A j \in DOMAIN queue : i < j => ~Writes(j, b)
        BY <3>5
      <4>2. \A j \in DOMAIN queue' : i < j => ~Writes(j, b)'
        BY <1>4, <1>w, <3>3, <4>1
      <4> QED BY <1>4, <4>1, <4>2 DEF Lands
    <3> QED BY <3>2, <3>4, <3>5 DEF Lands
  <2> QED BY <2>2, <2>3
<1>12. ASSUME NEW r \in Reqs, NEW k \in 1..Need, NEW b \in Blocks, RowAt(r, k, b)', r \in DOMAIN event',
              NEW i \in DOMAIN queue', queue'[i].ran # "done"
       PROVE  ~Writes(i, b)'
  <2>1. r \in Finished
    BY <1>4, <1>12 DEF InFlight, OnePlace, Carried
  <2>2. r \notin P /\ RowAt(r, k, b)
    BY <1>9, <1>12, <2>1
  <2>3. CASE i = z
    BY <1>8, <2>2, <2>3
  <2>4. CASE i # z
    <3>1. i \in DOMAIN queue /\ queue'[i] = queue[i]
      BY <1>4, <2>4
    <3>2. ~Writes(i, b)
      BY <1>4, <1>12, <2>2, <3>1 DEF Rows
    <3> QED BY <1>w, <3>1, <3>2
  <2> QED BY <2>3, <2>4
<1>13. ASSUME NEW r \in Reqs, NEW k \in 1..Need, NEW b \in Blocks, RowAt(r, k, b)',
              NEW i \in DOMAIN queue', NEW j \in DOMAIN queue',
              queue'[i].ran = "no", r \in queue'[i].fin, i <= j
       PROVE  ~Writes(j, b)'
  <2>1. r \in Finished
    <3>1. CASE i = z
      BY <1>4, <1>13, <3>1 DEF OnePlace
    <3>2. CASE i # z
      BY <1>4, <1>13, <3>2 DEF OnePlace, Carried
    <3> QED BY <3>1, <3>2
  <2>2. r \notin P /\ RowAt(r, k, b)
    BY <1>9, <1>13, <2>1
  <2>3. CASE j = z
    BY <1>8, <2>2, <2>3
  <2>4. CASE j # z
    <3>1. j \in DOMAIN queue /\ queue'[j] = queue[j] /\ i \in DOMAIN queue /\ queue'[i] = queue[i]
      BY <1>4, <1>13, <2>4
    <3>2. ~Writes(j, b)
      BY <1>13, <2>2, <3>1 DEF Rows
    <3> QED BY <1>w, <3>1, <3>2
  <2> QED BY <2>3, <2>4
<1> QED BY <1>10, <1>11, <1>12, <1>13 DEF Rows

\* The other steps do not move the rows of a request.
LEMMA RowsKept ==
  ASSUME TypedSched, Rows, UNCHANGED <<computed, table, queue, kv>>,
         DOMAIN event' \subseteq DOMAIN event,
         \A r \in Reqs : status'[r] = "gone" <=> status[r] = "gone"
  PROVE  Rows'
<1>1. \A r \in Reqs, k \in 1..Need, b \in Blocks : RowAt(r, k, b)' <=> RowAt(r, k, b)
  BY DEF RowAt
<1>2. \A i \in DOMAIN queue : \A b \in Blocks : Writes(i, b)' <=> Writes(i, b)
  BY DEF Writes
<1>3. \A r \in Reqs, k \in 1..Need, b \in Blocks : Lands(r, k, b)' <=> Lands(r, k, b)
  BY <1>2 DEF Lands
<1>4. ASSUME NEW r \in Reqs, NEW k \in 1..Need, NEW b \in Blocks, RowAt(r, k, b)'
      PROVE  /\ Lands(r, k, b)'
             /\ r \in DOMAIN event' =>
                  \A i \in DOMAIN queue : queue[i].ran # "done" => ~Writes(i, b)'
             /\ \A i, j \in DOMAIN queue : queue[i].ran = "no" /\ r \in queue[i].fin /\ i <= j =>
                  ~Writes(j, b)'
  <2>1. RowAt(r, k, b)
    BY <1>1, <1>4
  <2>2. /\ Lands(r, k, b)
        /\ r \in DOMAIN event =>
             \A i \in DOMAIN queue : queue[i].ran # "done" => ~Writes(i, b)
        /\ \A i, j \in DOMAIN queue : queue[i].ran = "no" /\ r \in queue[i].fin /\ i <= j =>
             ~Writes(j, b)
    BY <2>1 DEF Rows
  <2> QED BY <1>2, <1>3, <2>2
<1>5. \A i \in DOMAIN queue : \A c, d \in queue[i].cells : c[3] = d[3] => c = d
  BY DEF Rows
<1> QED BY <1>4, <1>5 DEF Rows

\* The blocks that come back with the output of a step hold no row any more.
LEMMA OutputRows ==
  ASSUME Typed, Sched, Rows, ProcessOutput
  PROVE  Rows'
<1> USE DEF Sched, Typed
<1>1. /\ \A j \in DOMAIN queue' : j + 1 \in DOMAIN queue /\ queue'[j] = queue[j + 1] /\ j \in Nat /\ j >= 1
      /\ \A j \in DOMAIN queue : j # 1 => j - 1 \in DOMAIN queue' /\ queue'[j - 1] = queue[j]
      /\ 1 \in DOMAIN queue /\ queue[1].ran = "done" /\ \A j \in DOMAIN queue : j \in Nat /\ j >= 1
      /\ Back = Carried(1) /\ UNCHANGED <<kv, event>>
  <2>1. queue' \in Seq(StepSet)
    BY OutputQueue
  <2> QED BY <2>1, OutputQueue, OutputIs, QueueTypes DEF worker
<1>2. \A j \in DOMAIN queue' : \A b \in Blocks : Writes(j, b)' <=> Writes(j + 1, b)
  BY <1>1 DEF Writes
<1>3. ASSUME NEW r \in Reqs, NEW k \in 1..Need, NEW b \in Blocks, RowAt(r, k, b)'
      PROVE  r \notin Back /\ RowAt(r, k, b)
  <2>1. r \notin Back
    BY <1>3, OutputIs DEF RowAt
  <2>2. status[r] # "gone" /\ table'[r] = table[r] /\ computed'[r] = computed[r]
    <3>1. status'[r] # "gone"
      BY <1>3 DEF RowAt
    <3> QED BY <2>1, <3>1, OutputIs
  <2> QED BY <1>3, <2>1, <2>2 DEF RowAt
<1>4. \A i \in DOMAIN queue' : \A c, d \in queue'[i].cells : c[3] = d[3] => c = d
  BY <1>1 DEF Rows
<1>5. ASSUME NEW r \in Reqs, NEW k \in 1..Need, NEW b \in Blocks, RowAt(r, k, b)'
      PROVE  Lands(r, k, b)'
  <2>1. Lands(r, k, b)
    BY <1>3, <1>5 DEF Rows
  <2>2. CASE kv[b] = <<r, k>> /\ \A i \in DOMAIN queue : queue[i].ran # "done" => ~Writes(i, b)
    <3>1. \A i \in DOMAIN queue' : queue'[i].ran # "done" => ~Writes(i, b)'
      BY <1>1, <1>2, <2>2
    <3> QED BY <1>1, <2>2, <3>1 DEF Lands
  <2>3. CASE \E i \in DOMAIN queue :
               /\ queue[i].ran # "done" /\ <<r, k, b>> \in queue[i].cells
               /\ \A j \in DOMAIN queue : i < j => ~Writes(j, b)
    <3>1. PICK i \in DOMAIN queue :
            /\ queue[i].ran # "done" /\ <<r, k, b>> \in queue[i].cells
            /\ \A j \in DOMAIN queue : i < j => ~Writes(j, b)
      BY <2>3
    <3>2. i - 1 \in DOMAIN queue' /\ queue'[i - 1] = queue[i]
      BY <1>1, <3>1
    <3>3. \A j \in DOMAIN queue' : i - 1 < j => ~Writes(j, b)'
      <4>1. SUFFICES ASSUME NEW j \in DOMAIN queue', i - 1 < j PROVE ~Writes(j, b)'
        OBVIOUS
      <4>2. j + 1 \in DOMAIN queue /\ i < j + 1
        BY <1>1, <4>1
      <4> QED BY <1>2, <3>1, <4>2
    <3> QED BY <3>1, <3>2, <3>3 DEF Lands
  <2> QED BY <2>1, <2>2, <2>3 DEF Lands
<1>6. ASSUME NEW r \in Reqs, NEW k \in 1..Need, NEW b \in Blocks, RowAt(r, k, b)', r \in DOMAIN event',
             NEW i \in DOMAIN queue', queue'[i].ran # "done"
      PROVE  ~Writes(i, b)'
  <2>1. r \in DOMAIN event /\ i + 1 \in DOMAIN queue /\ queue[i + 1].ran # "done" /\ RowAt(r, k, b)
    BY <1>1, <1>3, <1>6
  <2>2. ~Writes(i + 1, b)
    BY <2>1 DEF Rows
  <2> QED BY <1>2, <2>2
<1>7. ASSUME NEW r \in Reqs, NEW k \in 1..Need, NEW b \in Blocks, RowAt(r, k, b)',
             NEW i \in DOMAIN queue', NEW j \in DOMAIN queue',
             queue'[i].ran = "no", r \in queue'[i].fin, i <= j
      PROVE  ~Writes(j, b)'
  <2>1. /\ i + 1 \in DOMAIN queue /\ j + 1 \in DOMAIN queue /\ i + 1 <= j + 1
        /\ queue[i + 1].ran = "no" /\ r \in queue[i + 1].fin /\ RowAt(r, k, b)
    BY <1>1, <1>3, <1>7
  <2>2. ~Writes(j + 1, b)
    BY <2>1 DEF Rows
  <2> QED BY <1>2, <2>2
<1> QED BY <1>4, <1>5, <1>6, <1>7 DEF Rows

\* The saves that are submitted are of blocks that neither this step nor a later
\* one writes.
LEMMA SubmitRows ==
  ASSUME Typed, Sched, Rows, NEW i \in DOMAIN queue, SubmitWrites(i)
  PROVE  Rows'
<1> USE DEF Sched, Typed
<1>1. /\ queue[i].ran = "no" /\ \A j \in 1..(i - 1) : queue[j].ran = "done"
      /\ UNCHANGED <<status, computed, table, kv>>
  BY DEF SubmitWrites, IsNext
<1>2. /\ DOMAIN queue' = DOMAIN queue /\ DOMAIN queue = 1..Len(queue) /\ Len(queue) \in Nat
      /\ \A j \in DOMAIN queue :
           /\ queue'[j].ran = IF j = i THEN "submitted" ELSE queue[j].ran
           /\ queue'[j].cells = queue[j].cells /\ queue'[j].fin = queue[j].fin
  BY SubmitQueue, QueueTypes
<1>3. \A r \in DOMAIN event' : r \in DOMAIN event \/ r \in queue[i].fin
  <2>1. DOMAIN Over(event, queue[i].saves) = DOMAIN event \cup DOMAIN queue[i].saves
    BY DEF Over
  <2> QED BY <2>1 DEF SubmitWrites, InFlight
<1>4. \A r \in Reqs, k \in 1..Need, b \in Blocks : RowAt(r, k, b)' <=> RowAt(r, k, b)
  BY <1>1 DEF RowAt
<1>5. \A j \in DOMAIN queue : \A b \in Blocks : Writes(j, b)' <=> Writes(j, b)
  BY <1>2 DEF Writes
<1>6. \A j \in DOMAIN queue : /\ queue'[j].ran # "done" <=> queue[j].ran # "done"
                              /\ queue'[j].ran = "no" => queue[j].ran = "no"
                              /\ queue[j].ran # "done" => i <= j
  BY <1>1, <1>2
<1>7. ASSUME NEW r \in Reqs, NEW k \in 1..Need, NEW b \in Blocks, RowAt(r, k, b)
      PROVE  /\ Lands(r, k, b)
             /\ r \in DOMAIN event =>
                  \A j \in DOMAIN queue : queue[j].ran # "done" => ~Writes(j, b)
             /\ \A m, j \in DOMAIN queue : queue[m].ran = "no" /\ r \in queue[m].fin /\ m <= j =>
                  ~Writes(j, b)
  BY <1>7 DEF Rows
<1>8. ASSUME NEW r \in Reqs, NEW k \in 1..Need, NEW b \in Blocks, RowAt(r, k, b)
      PROVE  Lands(r, k, b)'
  BY <1>1, <1>2, <1>5, <1>6, <1>7, <1>8 DEF Lands
<1>9. ASSUME NEW r \in Reqs, NEW k \in 1..Need, NEW b \in Blocks, RowAt(r, k, b), r \in DOMAIN event',
             NEW j \in DOMAIN queue, queue'[j].ran # "done"
      PROVE  ~Writes(j, b)'
  BY <1>1, <1>3, <1>5, <1>6, <1>7, <1>9
<1>10. ASSUME NEW r \in Reqs, NEW k \in 1..Need, NEW b \in Blocks, RowAt(r, k, b),
              NEW m \in DOMAIN queue, NEW j \in DOMAIN queue,
              queue'[m].ran = "no", r \in queue'[m].fin, m <= j
       PROVE  ~Writes(j, b)'
  BY <1>2, <1>5, <1>6, <1>7, <1>10
<1>11. \A j \in DOMAIN queue' : \A c, d \in queue'[j].cells : c[3] = d[3] => c = d
  BY <1>2 DEF Rows
<1> QED BY <1>2, <1>4, <1>8, <1>9, <1>10, <1>11 DEF Rows

\* The step that ends has written its rows.
LEMMA EndRows ==
  ASSUME Typed, Sched, Rows, NEW i \in DOMAIN queue, EndStep(i)
  PROVE  Rows'
<1> USE DEF Sched, Typed
<1>1. /\ queue[i].ran = "submitted" /\ \A j \in 1..(i - 1) : queue[j].ran = "done"
      /\ kv' = [b \in Blocks |->
                  IF \E c \in queue[i].cells : c[3] = b
                  THEN LET c == CHOOSE d \in queue[i].cells : d[3] = b IN <<c[1], c[2]>>
                  ELSE kv[b]]
      /\ UNCHANGED <<status, computed, table, event>>
  BY DEF EndStep, IsNext
<1>2. /\ DOMAIN queue' = DOMAIN queue /\ DOMAIN queue = 1..Len(queue) /\ Len(queue) \in Nat
      /\ \A j \in DOMAIN queue :
           /\ queue'[j].ran = IF j = i THEN "done" ELSE queue[j].ran
           /\ queue'[j].cells = queue[j].cells /\ queue'[j].fin = queue[j].fin
  BY EndQueue, QueueTypes
<1>3. \A b \in Blocks : ~Writes(i, b) => kv'[b] = kv[b]
  BY <1>1 DEF Writes
<1>4. ASSUME NEW r \in Reqs, NEW k \in 1..Need, NEW b \in Blocks, <<r, k, b>> \in queue[i].cells
      PROVE  kv'[b] = <<r, k>>
  <2> DEFINE c == CHOOSE d \in queue[i].cells : d[3] = b
  <2>1. \E d \in queue[i].cells : d[3] = b
    BY <1>4
  <2>2. c \in queue[i].cells /\ c[3] = b
    BY <2>1
  <2>3. kv'[b] = <<c[1], c[2]>>
    BY <1>1, <2>1
  <2> HIDE DEF c
  <2>4. c = <<r, k, b>>
    BY <1>4, <2>2 DEF Rows
  <2> QED BY <2>3, <2>4
<1>5. \A r \in Reqs, k \in 1..Need, b \in Blocks : RowAt(r, k, b)' <=> RowAt(r, k, b)
  BY <1>1 DEF RowAt
<1>6. \A j \in DOMAIN queue : \A b \in Blocks : Writes(j, b)' <=> Writes(j, b)
  BY <1>2 DEF Writes
<1>7. \A j \in DOMAIN queue : /\ queue'[j].ran # "done" => queue[j].ran # "done" /\ j # i
                              /\ queue'[j].ran = "no" => queue[j].ran = "no"
                              /\ queue[j].ran # "done" => i <= j
  BY <1>1, <1>2
<1>8. ASSUME NEW r \in Reqs, NEW k \in 1..Need, NEW b \in Blocks, RowAt(r, k, b)
      PROVE  /\ Lands(r, k, b)
             /\ r \in DOMAIN event =>
                  \A j \in DOMAIN queue : queue[j].ran # "done" => ~Writes(j, b)
             /\ \A m, j \in DOMAIN queue : queue[m].ran = "no" /\ r \in queue[m].fin /\ m <= j =>
                  ~Writes(j, b)
  BY <1>8 DEF Rows
<1>9. ASSUME NEW r \in Reqs, NEW k \in 1..Need, NEW b \in Blocks, RowAt(r, k, b)
      PROVE  Lands(r, k, b)'
  <2>1. CASE kv[b] = <<r, k>> /\ \A j \in DOMAIN queue : queue[j].ran # "done" => ~Writes(j, b)
    <3>1. kv'[b] = <<r, k>>
      BY <1>1, <1>3, <2>1
    <3> QED BY <1>2, <1>6, <1>7, <2>1, <3>1 DEF Lands
  <2>2. CASE \E m \in DOMAIN queue :
               /\ queue[m].ran # "done" /\ <<r, k, b>> \in queue[m].cells
               /\ \A j \in DOMAIN queue : m < j => ~Writes(j, b)
    <3>1. PICK m \in DOMAIN queue :
            /\ queue[m].ran # "done" /\ <<r, k, b>> \in queue[m].cells
            /\ \A j \in DOMAIN queue : m < j => ~Writes(j, b)
      BY <2>2
    <3>2. CASE m = i
      <4>1. kv'[b] = <<r, k>>
        BY <1>4, <3>1, <3>2
      <4>2. \A j \in DOMAIN queue : queue'[j].ran # "done" => i < j
        BY <1>2, <1>7
      <4> QED BY <1>2, <1>6, <3>1, <3>2, <4>1, <4>2 DEF Lands
    <3>3. CASE m # i
      <4>1. queue'[m].ran # "done" /\ <<r, k, b>> \in queue'[m].cells
        BY <1>2, <3>1, <3>3
      <4> QED BY <1>2, <1>6, <3>1, <4>1 DEF Lands
    <3> QED BY <3>2, <3>3
  <2> QED BY <1>8, <1>9, <2>1, <2>2 DEF Lands
<1>10. ASSUME NEW r \in Reqs, NEW k \in 1..Need, NEW b \in Blocks, RowAt(r, k, b), r \in DOMAIN event,
              NEW j \in DOMAIN queue, queue'[j].ran # "done"
       PROVE  ~Writes(j, b)'
  BY <1>6, <1>7, <1>8, <1>10
<1>11. ASSUME NEW r \in Reqs, NEW k \in 1..Need, NEW b \in Blocks, RowAt(r, k, b),
              NEW m \in DOMAIN queue, NEW j \in DOMAIN queue,
              queue'[m].ran = "no", r \in queue'[m].fin, m <= j
       PROVE  ~Writes(j, b)'
  BY <1>2, <1>6, <1>7, <1>8, <1>11
<1>12. \A j \in DOMAIN queue' : \A c, d \in queue'[j].cells : c[3] = d[3] => c = d
  BY <1>2 DEF Rows
<1> QED BY <1>1, <1>2, <1>5, <1>9, <1>10, <1>11, <1>12 DEF Rows

\* Every step keeps the rows.
LEMMA RowsStep ==
  ASSUME Typed, Sched, Rows, [Next]_vars
  PROVE  Rows'
<1> USE DEF Sched, Typed
<1>1. CASE Schedule
  BY <1>1, ScheduleRows
<1>2. CASE ProcessOutput
  BY <1>2, OutputRows
<1>3. CASE Worker
  BY <1>3, SubmitRows, EndRows DEF Worker
<1>4. ASSUME NEW r \in Reqs, Arrive(r) \/ Abort(r) PROVE Rows'
  <2>1. /\ UNCHANGED <<computed, table, queue, kv, event>>
        /\ \E how \in {"waiting", "aborted"} : status' = [status EXCEPT ![r] = how]
        /\ status[r] \in {"new", "waiting", "running", "preempted"}
    <3>1. CASE Arrive(r)
      BY <3>1 DEF Arrive, worker
    <3>2. CASE Abort(r)
      BY <3>2, AbortIs DEF worker
    <3> QED BY <1>4, <3>1, <3>2
  <2>2. \A q \in Reqs : status'[q] = "gone" <=> status[q] = "gone"
    BY <2>1
  <2> QED BY <2>1, <2>2, RowsKept
<1>5. ASSUME NEW r \in Reqs, CopyDone(r) PROVE Rows'
  <2>1. UNCHANGED <<computed, table, queue, kv, status>> /\ event' = Without(event, {r})
    BY <1>5 DEF CopyDone, sched
  <2>2. DOMAIN event' \subseteq DOMAIN event
    BY <2>1 DEF Without
  <2> QED BY <2>1, <2>2, RowsKept
<1>6. CASE UNCHANGED <<sched, kv, event>>
  BY <1>6, RowsKept DEF sched
<1>7. ASSUME NEW r \in Reqs, Writer(r) \/ WriteFails(r) \/ Client(r) PROVE Rows'
  <2>1. UNCHANGED <<sched, kv, event>>
    BY <1>7 DEF Writer, TakeTask, StartWrite, WriteDone, WriteFails, EndWrite,
                Client, OpenLock, SharedLock, Load, worker
  <2> QED BY <1>6, <2>1
<1>8. CASE UNCHANGED vars
  BY <1>6, <1>8 DEF vars, worker
<1> QED
  BY <1>1, <1>2, <1>3, <1>4, <1>5, <1>7, <1>8 DEF Next, Quiet

\* A function of nothing is the empty sequence.
LEMMA NoTokens ==
  ASSUME NEW f, f = [k \in {} |-> f[k]]
  PROVE  f = <<>>
<1>1. f \in [1..0 -> {}]
  <2>1. 1..0 = {}
    OBVIOUS
  <2> QED BY <2>1
<1>2. f \in Seq({}) /\ Len(f) = 0
  BY <1>1
<1> QED BY <1>2, EmptySeq

\* What the copy stream finds in the blocks of a finished request are its rows.
LEMMA CopiedRows ==
  ASSUME Typed, Sched, Rows, Hosts, NEW r \in Reqs, CopyDone(r)
  PROVE  /\ task[r] # "none" /\ r \in Finished /\ host[r] = <<>>
         /\ host' = [host EXCEPT ![r] = [k \in 1..computed[r] |-> host'[r][k]]]
         /\ HiddenGroup = SavedGroup => \A k \in 1..computed[r] : host'[r][k] = <<r, k>>
         /\ event' = Without(event, {r}) /\ r \in DOMAIN event
         /\ UNCHANGED <<sched, task, client>>
<1> USE DEF Sched, Typed
<1>1. /\ r \in DOMAIN event /\ event' = Without(event, {r})
      /\ host' = [host EXCEPT ![r] = [i \in DOMAIN event[r] |-> kv[event[r][i]]]]
      /\ UNCHANGED <<sched, task, client>>
  BY DEF CopyDone
<1>2. r \in accum \/ \E i \in DOMAIN queue : queue[i].ran = "submitted" /\ r \in queue[i].fin
  BY <1>1 DEF InFlight
<1>3. r \in Submitted /\ r \in Finished
  BY <1>2, SubmittedAre DEF OnePlace, Carried
<1>4. task[r] # "none" /\ status[r] # "gone"
  BY <1>3 DEF Tasks, Finished
<1>5. event[r] = SavedBlocks(r) /\ DOMAIN event[r] = 1..computed[r]
  BY <1>1, <1>4, SavedAre DEF InFlight
<1>6. /\ host' = [host EXCEPT ![r] = [i \in 1..computed[r] |-> kv[event[r][i]]]]
      /\ \A i \in 1..computed[r] : host'[r][i] = kv[event[r][i]]
      /\ host'[r] = [i \in 1..computed[r] |-> host'[r][i]]
  BY <1>1, <1>5 DEF TypedWorker
<1>7. ASSUME HiddenGroup = SavedGroup, NEW k \in 1..computed[r] PROVE host'[r][k] = <<r, k>>
  <2> DEFINE b == table[r][<<k, 1>>]
  <2>1. event[r][k] = b /\ <<k, 1>> \in Grid(r)
    BY <1>4, <1>5, <1>7, SavedAre
  <2>2. b \in Blocks
    BY <2>1 DEF TypedSched
  <2>3. HiddenGroup = 1
    BY <1>7 DEF SavedGroup
  <2>4. k \in 1..Need
    BY Sizes DEF TypedSched
  <2>5. PICK x \in Blocks : x = b
    BY <2>2
  <2>6. RowAt(r, k, x)
    BY <1>4, <2>3, <2>5 DEF RowAt
  <2>7. Lands(r, k, x) /\ \A i \in DOMAIN queue : queue[i].ran # "done" => ~Writes(i, x)
    BY <1>1, <2>4, <2>6 DEF Rows
  <2>8. \A i \in DOMAIN queue : <<r, k, x>> \in queue[i].cells => Writes(i, x)
    BY DEF Writes
  <2>9. kv[x] = <<r, k>>
    BY <2>7, <2>8 DEF Lands
  <2> QED BY <1>6, <2>1, <2>5, <2>9
<1>8. host[r] = <<>>
  <2>1. Tokens(r) = {}
    BY <1>1 DEF Tokens
  <2>2. host[r] = [k \in {} |-> host[r][k]]
    BY <2>1 DEF Hosts
  <2> QED BY <2>2, NoTokens
<1>9. host' = [host EXCEPT ![r] = [k \in 1..computed[r] |-> host'[r][k]]]
  BY <1>6 DEF TypedWorker
<1> QED BY <1>1, <1>3, <1>4, <1>7, <1>8, <1>9

\* Every step keeps what is in host memory.
LEMMA HostsStep ==
  ASSUME Typed, Sched, Rows, Hosts, [Next]_vars
  PROVE  Hosts'
<1> USE DEF Sched, Typed
<1>f. ASSUME \A r \in Reqs : host'[r] = host[r] /\ Tokens(r)' = Tokens(r)
      PROVE  Hosts'
  BY <1>f DEF Hosts
<1>1. CASE Schedule
  <2>1. UNCHANGED <<host, task, event>>
    BY <1>1, ScheduleKeeps DEF worker
  <2>2. ASSUME NEW r \in Reqs, task[r] # "none" PROVE computed'[r] = computed[r]
    <3>1. PICK P \in SUBSET Reqs, S \in SUBSET Reqs :
            \E n \in [S -> 1..Need] : \E new \in [Cells(n) -> AtHand(P)] : Scheduled(P, S, n, new)
      BY <1>1, ScheduleIs
    <3>2. PICK n \in [S -> 1..Need] : \E new \in [Cells(n) -> AtHand(P)] : Scheduled(P, S, n, new)
      BY <3>1
    <3>3. PICK new \in [Cells(n) -> AtHand(P)] : Scheduled(P, S, n, new)
      BY <3>2
    <3>4. status[r] \in {"done", "aborted", "gone"}
      BY <2>2, SubmittedAre DEF Tasks, OnePlace, Finished
    <3>5. r \in Reqs \ (S \cup P)
      BY <3>3, <3>4, ScheduledTables
    <3> QED BY <3>3, <3>5, ScheduledTables
  <2> QED BY <1>f, <2>1, <2>2 DEF Tokens
<1>2. CASE ProcessOutput
  <2>1. UNCHANGED <<host, task, event, computed>>
    BY <1>2, OutputIs DEF worker
  <2> QED BY <1>f, <2>1 DEF Tokens
<1>3. ASSUME NEW i \in DOMAIN queue, SubmitWrites(i) PROVE Hosts'
  <2>1. /\ queue[i].ran = "no" /\ DOMAIN queue[i].saves = queue[i].fin
        /\ event' = Over(event, queue[i].saves)
        /\ task' = [r \in Reqs |-> IF r \in DOMAIN queue[i].saves THEN "queued" ELSE task[r]]
        /\ UNCHANGED <<computed, host>>
    BY <1>3 DEF SubmitWrites, InFlight
  <2>2. DOMAIN event' = DOMAIN event \cup queue[i].fin
    BY <2>1 DEF Over
  <2>3. ASSUME NEW r \in queue[i].fin PROVE task[r] = "none"
    <3>1. r \in Carried(i) /\ r \in Reqs
      BY <2>1, QueueTypes DEF Carried
    <3>2. r \in Finished /\ r \notin Submitted
      BY <2>1, <3>1, SubmittedAre DEF OnePlace
    <3> QED BY <3>1, <3>2 DEF Tasks, Finished
  <2>4. \A r \in Reqs : Tokens(r)' = Tokens(r)
    BY <2>1, <2>2, <2>3 DEF Tokens
  <2> QED BY <1>f, <2>1, <2>4
<1>4. ASSUME NEW i \in DOMAIN queue, EndStep(i) PROVE Hosts'
  BY <1>4, <1>f DEF EndStep, Tokens
<1>5. ASSUME NEW r \in Reqs, CopyDone(r) PROVE Hosts'
  <2>1. /\ task[r] # "none" /\ r \in DOMAIN event
        /\ host' = [host EXCEPT ![r] = [k \in 1..computed[r] |-> host'[r][k]]]
        /\ HiddenGroup = SavedGroup => \A k \in 1..computed[r] : host'[r][k] = <<r, k>>
        /\ event' = Without(event, {r})
    BY <1>5, CopiedRows
  <2>2. UNCHANGED <<computed, task>>
    BY <1>5, CopiedRows DEF sched
  <2>3. DOMAIN event' = DOMAIN event \ {r}
    BY <2>1 DEF Without
  <2>4. ASSUME NEW q \in Reqs, q # r PROVE host'[q] = host[q] /\ Tokens(q)' = Tokens(q)
    BY <2>1, <2>2, <2>3, <2>4 DEF Tokens, TypedWorker
  <2>5. Tokens(r)' = 1..computed[r]
    BY <2>1, <2>2, <2>3 DEF Tokens
  <2>6. host'[r] = [k \in 1..computed[r] |-> host'[r][k]]
    BY <2>1 DEF TypedWorker
  <2>7. ASSUME NEW q \in Reqs
        PROVE  /\ host'[q] = [k \in Tokens(q)' |-> host'[q][k]]
               /\ HiddenGroup = SavedGroup => \A k \in Tokens(q)' : host'[q][k] = <<q, k>>
    <3>1. CASE q = r
      BY <2>1, <2>5, <2>6, <3>1
    <3>2. CASE q # r
      BY <2>4, <3>2 DEF Hosts
    <3> QED BY <3>1, <3>2
  <2> QED BY <2>7 DEF Hosts
<1>6. ASSUME NEW r \in Reqs, Arrive(r) \/ Abort(r) PROVE Hosts'
  <2>1. UNCHANGED <<host, task, event, computed>>
    BY <1>6 DEF Arrive, Abort, worker
  <2> QED BY <1>f, <2>1 DEF Tokens
<1>7. ASSUME NEW r \in Reqs, TakeTask(r) \/ StartWrite(r) \/ WriteDone(r) \/ WriteFails(r)
      PROVE  Hosts'
  <2>1. UNCHANGED <<host, event, computed>>
    BY <1>7 DEF TakeTask, StartWrite, WriteDone, WriteFails, EndWrite, sched
  <2>2. \A q \in Reqs : task'[q] = "none" <=> task[q] = "none"
    BY <1>7 DEF TakeTask, StartWrite, WriteDone, WriteFails, EndWrite, TypedWorker
  <2> QED BY <1>f, <2>1, <2>2 DEF Tokens
<1>8. CASE UNCHANGED <<sched, worker>>
  BY <1>f, <1>8 DEF sched, worker, Tokens
<1>9. ASSUME NEW r \in Reqs, Client(r) PROVE Hosts'
  <2>1. UNCHANGED <<sched, worker>>
    BY <1>9 DEF Client, OpenLock, SharedLock, Load
  <2> QED BY <1>8, <2>1
<1>10. CASE UNCHANGED vars
  BY <1>8, <1>10 DEF vars
<1> QED
  BY <1>1, <1>2, <1>3, <1>4, <1>5, <1>6, <1>7, <1>9, <1>10 DEF Next, Worker, Writer, Quiet

-----------------------------------------------------------------------------
(* The invariant, and what follows from it.                                *)

\* It holds at the start.
LEMMA Start == Init => IInv
<1> SUFFICES ASSUME Init PROVE IInv
  OBVIOUS
<1>1. queue = <<>> /\ DOMAIN queue = {} /\ queue \in Seq(StepSet) /\ Len(queue) = 0
  BY DEF Init
<1>2. /\ status = [r \in Reqs |-> "new"] /\ computed = [r \in Reqs |-> 0]
      /\ table = [r \in Reqs |-> Nothing] /\ free = Blocks
      /\ named = {} /\ pending = Nothing /\ finishedIds = {} /\ alive = TRUE
      /\ kv = [b \in Blocks |-> NoRow] /\ event = Nothing /\ events = {}
      /\ accum = {} /\ lockFds = {} /\ host = [r \in Reqs |-> <<>>]
      /\ task = [r \in Reqs |-> "none"]
      /\ lock = [r \in Reqs |-> "none"] /\ file = [r \in Reqs |-> "none"]
      /\ client = [r \in Reqs |-> "none"]
  BY DEF Init
<1>3. Nothing \in Saves /\ DOMAIN Nothing = {}
  BY SavesAre
<1>4. \A r \in Reqs : Grid(r) = {}
  <2>1. 1..0 = {}
    OBVIOUS
  <2> QED BY <1>2, <2>1 DEF Grid
<1>5. \A r \in Reqs : Nothing \in [Grid(r) -> Blocks]
  BY <1>4 DEF Nothing
<1>6. TypedSched
  <2>1. 0 \in 0..Need /\ Need \in Nat /\ Depth \in Nat
    BY Sizes
  <2>2. status \in [Reqs -> Places] /\ computed \in [Reqs -> 0..Need]
    BY <1>2, <2>1 DEF Places
  <2> QED BY <1>1, <1>2, <1>3, <1>5, <2>1, <2>2 DEF TypedSched
<1>7. TypedWorker /\ TypedClient
  BY <1>2, <1>3 DEF TypedWorker, TypedClient
<1>8. Finished = {} /\ Submitted = {}
  BY <1>1, <1>2 DEF Finished, Submitted
<1>9. Owned
  BY <1>2, <1>4 DEF Owned, Held, Range, Nothing
<1>10. InOrder /\ OnePlace /\ InFlight
  BY <1>1, <1>2, <1>3 DEF InOrder, OnePlace, InFlight
<1>11. Tasks
  BY <1>2, <1>8 DEF Tasks
<1>12. Rows
  <2>1. \A k : k \notin 1..0
    OBVIOUS
  <2>2. \A r \in Reqs, k \in 1..Need, b \in Blocks : ~RowAt(r, k, b)
    BY <1>2, <2>1 DEF RowAt
  <2> QED BY <1>1, <2>2 DEF Rows
<1>13. Hosts
  <2>1. \A r \in Reqs : Tokens(r) = {} /\ host[r] = <<>>
    BY <1>2 DEF Tokens
  <2>2. <<>> = [k \in {} |-> <<>>[k]]
    OBVIOUS
  <2> QED BY <2>1, <2>2 DEF Hosts
<1>14. Locks
  <2>1. Brought /\ NewFirst
    BY <1>1 DEF Brought, NewFirst
  <2>2. Taken /\ Kept
    BY <1>2 DEF Taken, Kept
  <2>3. \A r \in Reqs : Guarded(r)
    BY <1>2 DEF Guarded
  <2> QED BY <2>1, <2>2, <2>3 DEF Locks
<1>15. Known /\ Whole
  BY <1>2 DEF Known, Whole
<1> QED BY <1>6, <1>7, <1>9, <1>10, <1>11, <1>12, <1>13, <1>14, <1>15 DEF IInv, Typed, Sched

\* Every step keeps it.
LEMMA Inductive == IInv /\ [Next]_vars => IInv'
<1> SUFFICES ASSUME IInv, [Next]_vars PROVE IInv'
  OBVIOUS
<1>1. Typed /\ Sched /\ Rows /\ Hosts /\ Locks /\ Known /\ Whole
  BY DEF IInv
<1>2. Typed'
  BY <1>1, TypedStep DEF Sched
<1>3. Sched' /\ Rows' /\ Hosts' /\ Locks' /\ Known' /\ Whole'
  BY <1>1, SchedStep, RowsStep, HostsStep, LocksStep, KnownStep, WholeStep
<1> QED BY <1>2, <1>3 DEF IInv

\* So it holds always.
LEMMA Invariance == Spec => []IInv
BY Start, Inductive, PTL DEF Spec

\* The tables, the dictionaries and the files have their types, whatever the
\* number of groups, steps in flight and writers.
THEOREM TypeCorrect == Spec => []TypeOK
<1>1. IInv => TypeOK
  <2> SUFFICES ASSUME IInv PROVE TypeOK
    OBVIOUS
  <2>1. TypedSched /\ TypedWorker /\ TypedClient
    BY DEF IInv, Typed
  <2>2. ASSUME NEW r \in Reqs
        PROVE  IF status[r] \in {"running", "done", "aborted"} /\ table[r] # Nothing
               THEN DOMAIN table[r] = (1..computed[r]) \X (1..Groups)
               ELSE table[r] = Nothing
    <3>1. table[r] \in [Grid(r) -> Blocks]
      BY <2>1 DEF TypedSched
    <3>2. Grid(r) = {} => table[r] = Nothing
      BY <3>1 DEF Nothing
    <3>3. status[r] \in {"new", "waiting", "preempted"} => Grid(r) = {}
      <4>1. 1..0 = {}
        OBVIOUS
      <4> QED BY <2>1, <4>1 DEF TypedSched, Grid
    <3>4. status[r] = "gone" => Grid(r) = {}
      BY DEF Grid
    <3>5. status[r] \in Places
      BY <2>1 DEF TypedSched
    <3>6. CASE status[r] \in {"running", "done", "aborted"}
      BY <3>1, <3>6 DEF Grid
    <3>7. CASE status[r] \notin {"running", "done", "aborted"}
      BY <3>2, <3>3, <3>4, <3>5, <3>7 DEF Places
    <3> QED BY <3>6, <3>7
  <2>3. DOMAIN pending \subseteq Reqs
    BY <2>1, SavesAre DEF TypedSched
  <2> QED BY <2>1, <2>2, <2>3 DEF TypeOK, TypedSched, TypedWorker, TypedClient, Places
<1> QED BY <1>1, Invariance, PTL

\* What is to be saved is still its request's.
LEMMA SavesHeld ==
  ASSUME Typed, Sched
  PROVE  NoEarlyReuse
<1> USE DEF Typed, Sched
<1>1. ASSUME NEW r \in Reqs, NEW s, r \in Finished, s = SavedBlocks(r) PROVE Range(s) \subseteq Held(r)
  <2>1. /\ DOMAIN s = 1..computed[r]
        /\ \A k \in 1..computed[r] : s[k] = table[r][<<k, 1>>] /\ <<k, 1>> \in Grid(r)
    BY <1>1, SavedAre DEF Finished
  <2>2. DOMAIN table[r] = Grid(r)
    BY DEF TypedSched
  <2> QED BY <2>1, <2>2 DEF Range, Held
<1>2. ASSUME NEW r \in Reqs, r \in DOMAIN pending PROVE Range(pending[r]) \subseteq Held(r)
  BY <1>1, <1>2 DEF InFlight, OnePlace
<1>3. ASSUME NEW r \in Reqs, r \in DOMAIN event PROVE Range(event[r]) \subseteq Held(r)
  BY <1>1, <1>3 DEF InFlight, OnePlace, Carried
<1>4. ASSUME NEW r \in Reqs, NEW i \in DOMAIN queue, queue[i].ran = "no", r \in DOMAIN queue[i].saves
      PROVE  Range(queue[i].saves[r]) \subseteq Held(r)
  BY <1>1, <1>4 DEF InFlight, OnePlace, Carried
<1>5. ASSUME NEW r \in Reqs, NEW b \in Unsaved(r) PROVE b \in Held(r)
  <2>1. \/ \E f \in {g \in {pending, event} : r \in DOMAIN g} : b \in Range(f[r])
        \/ \E i \in DOMAIN queue : /\ queue[i].ran = "no" /\ r \in DOMAIN queue[i].saves
                                   /\ b \in Range(queue[i].saves[r])
    BY <1>5 DEF Unsaved
  <2> QED BY <1>2, <1>3, <1>4, <2>1
<1> QED BY <1>5 DEF NoEarlyReuse

\* No block is owned twice, lost, or reused before it is copied, for any number
\* of groups and any group of the hidden-states layer.
THEOREM BlocksNotReused == Spec => [](BlockOwnership /\ NoEarlyReuse)
<1>1. IInv => BlockOwnership
  <2> SUFFICES ASSUME IInv PROVE BlockOwnership
    OBVIOUS
  <2>1. \A r \in Reqs : \A b : b \in Held(r) <=> \E c \in Grid(r) : table[r][c] = b
    BY DEF IInv, Typed, TypedSched, Held, Range
  <2>2. \A r \in Reqs : Held(r) \cap free = {}
    BY <2>1 DEF IInv, Sched, Owned
  <2>3. \A q, r \in Reqs : q # r => Held(q) \cap Held(r) = {}
    BY <2>1 DEF IInv, Sched, Owned
  <2> QED BY <2>2, <2>3 DEF BlockOwnership, IInv, Sched, Owned
<1>2. IInv => NoEarlyReuse
  BY SavesHeld DEF IInv
<1> QED BY <1>1, <1>2, Invariance, PTL

\* The rows copied to host memory are the request's own, in order, when the
\* hidden-states layer is in the group whose blocks are saved.
THEOREM BlocksSafe == HiddenGroup = SavedGroup /\ Spec => []BlocksAreSafe
<1>1. HiddenGroup = SavedGroup /\ IInv => RowsAreOwn
  <2> SUFFICES ASSUME HiddenGroup = SavedGroup, IInv PROVE RowsAreOwn
    OBVIOUS
  <2>1. ASSUME NEW r \in Reqs PROVE DOMAIN host[r] = Tokens(r)
    <3>1. host[r] = [k \in Tokens(r) |-> host[r][k]]
      BY DEF IInv, Hosts
    <3> QED BY <3>1
  <2> QED BY <2>1 DEF RowsAreOwn, IInv, Hosts
<1>2. CASE HiddenGroup = SavedGroup
  <2>1. IInv => RowsAreOwn
    BY <1>1, <1>2
  <2> QED BY <2>1, Invariance, BlocksNotReused, PTL DEF BlocksAreSafe
<1>3. CASE ~(HiddenGroup = SavedGroup)
  BY <1>3
<1> QED BY <1>2, <1>3

\* A client that has a path finds the lock, and it is held until the writer task
\* is over.
THEOREM LocksGuard == Spec => []LockGuardsPath
<1>1. IInv => LockGuardsPath
  <2> SUFFICES ASSUME IInv, NEW r \in Reqs
               PROVE  /\ client[r] \in {"path", "open"} => lock[r] \in {"held", "free"}
                      /\ client[r] # "none" /\ task[r] # "over" => lock[r] = "held"
    BY DEF LockGuardsPath
  <2>1. Guarded(r) /\ lock[r] \in {"none", "held", "free", "removed"}
    BY DEF IInv, Locks, Typed, TypedClient
  <2> QED BY <2>1 DEF Guarded
<1> QED BY <1>1, Invariance, PTL

\* The engine core survives whatever is aborted, once it has been scheduled.
THEOREM CoreSurvives == "waiting" \notin AbortsFrom /\ Spec => []EngineSurvives
<1>1. CASE "waiting" \notin AbortsFrom
  <2>1. IInv => EngineSurvives
    BY <1>1 DEF IInv, Known, EngineSurvives
  <2> QED BY <2>1, Invariance, PTL
<1>2. CASE ~("waiting" \notin AbortsFrom)
  BY <1>2
<1> QED BY <1>1, <1>2

\* Without chunked prefill what a client loads has one row of its own for every
\* token of its request.
THEOREM RowsComplete ==
  HiddenGroup = SavedGroup /\ ~ChunkedPrefill /\ Spec => []CompleteRows
<1> DEFINE H == HiddenGroup = SavedGroup /\ ~ChunkedPrefill
<1>1. H /\ IInv => CompleteRows
  <2> SUFFICES ASSUME H, IInv, NEW r \in Reqs, client[r] = "ok"
               PROVE  host[r] = [i \in 1..Need |-> <<r, i>>]
    BY DEF CompleteRows
  <2>1. task[r] = "over"
    BY DEF IInv, Locks, Guarded
  <2>2. computed[r] = Need
    BY DEF IInv, Whole
  <2>3. Tokens(r) = 1..Need
    BY <2>1, <2>2 DEF Tokens, IInv, Sched, Tasks
  <2>4. host[r] = [k \in Tokens(r) |-> host[r][k]] /\ \A k \in Tokens(r) : host[r][k] = <<r, k>>
    BY DEF IInv, Hosts
  <2> QED BY <2>3, <2>4
<1>2. CASE H
  <2>1. IInv => CompleteRows
    BY <1>1, <1>2
  <2> QED BY <2>1, Invariance, PTL
<1>3. CASE ~H
  BY <1>3
<1> QED BY <1>2, <1>3

-----------------------------------------------------------------------------
(* The hand-off.                                                           *)

\* Where the rows of a request are, without chunked prefill: they have not been
\* copied before its writer task exists, and not later than that task is over.
LEMMA MemoryIs ==
  ASSUME IInv, ~ChunkedPrefill, NEW r \in Reqs
  PROVE  /\ status[r] # "gone" /\ task[r] = "none" =>
              MemoryOf(r) = IF Grid(r) # {} THEN "blocks" ELSE "idle"
         /\ Tokens(r) # {} => MemoryOf(r) \in {"copied", "released"}
         /\ host[r] # <<>> <=> Tokens(r) # {}
         /\ Grid(r) # {} <=> table[r] # Nothing
         /\ computed[r] = Need => (1..computed[r]) # {} /\ (status[r] # "gone" => Grid(r) # {})
<1>1. host[r] = [k \in Tokens(r) |-> host[r][k]]
  BY DEF IInv, Hosts
<1>2. host[r] # <<>> <=> Tokens(r) # {}
  <2>1. Tokens(r) = {} => host[r] = <<>>
    BY <1>1, NoTokens
  <2>2. DOMAIN host[r] = Tokens(r)
    BY <1>1
  <2>3. DOMAIN <<>> = {}
    OBVIOUS
  <2> QED BY <2>1, <2>2, <2>3
<1>3. Grid(r) # {} <=> table[r] # Nothing
  <2>1. table[r] \in [Grid(r) -> Blocks]
    BY DEF IInv, Typed, TypedSched
  <2> QED BY <2>1 DEF Nothing
<1>4. computed[r] = Need => (1..computed[r]) # {} /\ (status[r] # "gone" => Grid(r) # {})
  <2>1. 1 \in 1..Need /\ 1 \in 1..Groups
    BY Sizes
  <2>2. <<1, 1>> \in (1..Need) \X (1..Groups)
    BY <2>1
  <2> QED BY <2>1, <2>2 DEF Grid
<1>5. task[r] = "none" => Tokens(r) = {}
  BY DEF Tokens
<1> QED BY <1>2, <1>3, <1>4, <1>5 DEF MemoryOf

\* A request that has not ended has no writer task.
LEMMA NoTaskYet ==
  ASSUME IInv, NEW r \in Reqs, status[r] \notin {"done", "aborted", "gone"}
  PROVE  task[r] = "none" /\ client[r] = "none" /\ Tokens(r) = {}
<1>1. r \notin Submitted
  BY SubmittedAre DEF IInv, Sched, OnePlace, Finished
<1>2. task[r] = "none"
  BY <1>1 DEF IInv, Sched, Tasks
<1>3. client[r] = "none"
  BY DEF IInv, Locks, Guarded
<1> QED BY <1>2, <1>3 DEF Tokens

\* Nothing happens to the rows and the promises of a request.
Still == \A r \in Reqs : MemoryOf(r)' = MemoryOf(r) /\ PromiseOf(r)' = PromiseOf(r)

\* A step of the scheduler computes tokens of requests that were promised to
\* nobody.
LEMMA ScheduleComputes ==
  ASSUME IInv, IInv', ~ChunkedPrefill, Schedule
  PROVE  Abstract!Next
<1> USE DEF IInv, Typed
<1>1. PICK P \in SUBSET Reqs, S \in SUBSET Reqs :
        \E n \in [S -> 1..Need] : \E new \in [Cells(n) -> AtHand(P)] : Scheduled(P, S, n, new)
  BY ScheduleIs
<1>2. PICK n \in [S -> 1..Need] : \E new \in [Cells(n) -> AtHand(P)] : Scheduled(P, S, n, new)
  BY <1>1
<1>3. PICK new \in [Cells(n) -> AtHand(P)] : Scheduled(P, S, n, new)
  BY <1>2
<1>4. P = {}
  <2>1. \A r \in Reqs : status[r] = "running" => computed[r] = Need
    BY DEF Whole
  <2>2. Need \in Nat
    BY Sizes
  <2> QED BY <1>3, <2>1, <2>2 DEF Scheduled
<1>5. UNCHANGED <<host, task, event, client>>
  BY ScheduleKeeps DEF worker
<1>6. ASSUME NEW r \in S
      PROVE  /\ MemoryOf(r) \in {"idle", "blocks"} /\ PromiseOf(r) = "none"
             /\ MemoryOf(r)' = "blocks"
  <2>1. /\ r \in Reqs /\ status[r] \in {"waiting", "running", "preempted"}
        /\ status'[r] = "running"
    BY <1>3, ScheduledTables
  <2>2. task[r] = "none" /\ client[r] = "none" /\ Tokens(r) = {}
    BY <2>1, NoTaskYet
  <2>3. MemoryOf(r) \in {"idle", "blocks"}
    BY <2>1, <2>2, MemoryIs
  <2>4. PromiseOf(r) = "none"
    BY <2>2 DEF PromiseOf
  <2>5. Grid(r)' # {}
    <3>1. /\ Grid(r)' = (1..(computed[r] + n[r])) \X (1..Groups)
          /\ computed[r] \in Nat /\ n[r] \in Nat /\ n[r] > 0
      BY <1>3, ScheduledTables
    <3>2. <<1, 1>> \in Grid(r)'
      BY <3>1, Sizes
    <3> QED BY <3>2
  <2>6. table'[r] # Nothing
    <3>1. table'[r] \in [Grid(r)' -> Blocks]
      BY <2>1 DEF TypedSched
    <3> QED BY <2>5, <3>1 DEF Nothing
  <2>7. host'[r] = <<>>
    BY <1>5, <2>1, <2>2, MemoryIs
  <2>8. MemoryOf(r)' = "blocks"
    BY <2>1, <2>6, <2>7 DEF MemoryOf
  <2> QED BY <2>3, <2>4, <2>8
<1>7. ASSUME NEW r \in Reqs \ S PROVE MemoryOf(r)' = MemoryOf(r)
  <2>1. status'[r] = status[r] /\ table'[r] = table[r]
    BY <1>3, <1>4, ScheduledTables
  <2> QED BY <1>5, <2>1 DEF MemoryOf
<1>8. \A r \in Reqs : PromiseOf(r)' = PromiseOf(r)
  BY <1>5 DEF PromiseOf
<1>9. S \subseteq Reqs
  BY <1>3, ScheduledTables
<1>10. Abstract!Compute(S, {})
  BY <1>6, <1>7, <1>8, <1>9 DEF Abstract!Compute
<1> QED BY <1>9, <1>10 DEF Abstract!Next

\* The output of a step promises the rows of the requests that end, which are in
\* their blocks, and releases those of requests whose rows have been copied.
LEMMA OutputFinishes ==
  ASSUME IInv, IInv', ~ChunkedPrefill, ProcessOutput
  PROVE  Abstract!Next
<1> USE DEF IInv, Typed, Sched
<1>1. /\ Ends \subseteq Reqs /\ Back \subseteq Finished /\ Ends \cap Back = {} /\ Back = Carried(1)
      /\ Back \subseteq Reqs
      /\ \A r \in Ends : /\ status[r] \in {"running", "preempted"}
                         /\ status'[r] = "done" /\ client'[r] = "path"
      /\ \A r \in Back : status[r] \in {"done", "aborted"} /\ status'[r] = "gone"
      /\ \A r \in Reqs \ Ends : client'[r] = client[r]
      /\ \A r \in Reqs \ (Ends \cup Back) : status'[r] = status[r]
      /\ \A r \in Reqs \ Back : table'[r] = table[r]
      /\ UNCHANGED <<host, task, event>>
  BY OutputIs DEF Finished, worker
<1>2. ASSUME NEW r \in Ends
      PROVE  /\ PromiseOf(r) = "none" /\ MemoryOf(r) = "blocks"
             /\ PromiseOf(r)' = "made" /\ MemoryOf(r)' = "blocks"
  <2>1. r \in Reqs /\ r \notin Back /\ task[r] = "none" /\ client[r] = "none" /\ Tokens(r) = {}
    BY <1>1, NoTaskYet
  <2>2. computed[r] = Need
    BY <1>1, <2>1 DEF Whole
  <2>3. MemoryOf(r) = "blocks" /\ table[r] # Nothing /\ host[r] = <<>>
    BY <1>1, <2>1, <2>2, MemoryIs
  <2> QED BY <1>1, <2>1, <2>3 DEF MemoryOf, PromiseOf
<1>3. ASSUME NEW r \in Back
      PROVE  /\ MemoryOf(r) = "copied" \/ (MemoryOf(r) = "idle" /\ PromiseOf(r) = "none")
             /\ MemoryOf(r)' = "released" /\ PromiseOf(r)' = PromiseOf(r)
  <2>1. r \in Reqs /\ r \notin Ends /\ status[r] # "gone" /\ r \in Carried(1) /\ r \notin accum
    BY <1>1, OutputQueue DEF OnePlace
  <2>2. r \notin DOMAIN event
    BY <2>1, OutputQueue DEF InFlight, OnePlace, Carried
  <2>3. task[r] # "none"
    BY <2>1, OutputQueue, SubmittedAre DEF Tasks
  <2>4. Tokens(r) = 1..computed[r]
    BY <2>2, <2>3 DEF Tokens
  <2>5. CASE Tokens(r) # {}
    BY <1>1, <2>1, <2>5, MemoryIs DEF MemoryOf, PromiseOf
  <2>6. CASE Tokens(r) = {}
    <3>1. computed[r] # Need
      BY <2>1, <2>4, <2>6, MemoryIs
    <3>2. client[r] = "none"
      BY <2>1, <3>1 DEF Whole
    <3>3. Grid(r) = {}
      BY <2>4, <2>6 DEF Grid
    <3>4. host[r] = <<>> /\ table[r] = Nothing
      BY <2>1, <2>6, <3>3, MemoryIs
    <3> QED BY <1>1, <2>1, <3>2, <3>4 DEF MemoryOf, PromiseOf
  <2> QED BY <2>5, <2>6
<1>4. ASSUME NEW r \in Reqs, r \notin Ends, r \notin Back
      PROVE  MemoryOf(r)' = MemoryOf(r) /\ PromiseOf(r)' = PromiseOf(r)
  BY <1>1, <1>4 DEF MemoryOf, PromiseOf
<1>5. Abstract!Finish(Ends, Back)
  <2>1. [r \in Reqs |-> PromiseOf(r)]' = [r \in Reqs |-> IF r \in Ends THEN "made" ELSE [q \in Reqs |-> PromiseOf(q)][r]]
    BY <1>2, <1>3, <1>4
  <2>2. [r \in Reqs |-> MemoryOf(r)]' = [r \in Reqs |-> IF r \in Back THEN "released" ELSE [q \in Reqs |-> MemoryOf(q)][r]]
    BY <1>1, <1>2, <1>3, <1>4
  <2>3. /\ \A r \in Ends : PromiseOf(r) = "none" /\ MemoryOf(r) = "blocks" /\ r \in Reqs
        /\ \A r \in Back : /\ r \in Reqs
                           /\ MemoryOf(r) = "copied" \/ (MemoryOf(r) = "idle" /\ PromiseOf(r) = "none")
    BY <1>1, <1>2, <1>3
  <2> QED BY <2>1, <2>2, <2>3 DEF Abstract!Finish
<1> QED BY <1>1, <1>5 DEF Abstract!Next

\* The copy stream copies the rows of a request, or nothing if it has none.
LEMMA CopyCopies ==
  ASSUME IInv, IInv', ~ChunkedPrefill, NEW r \in Reqs, CopyDone(r)
  PROVE  Abstract!Next \/ Still
<1> USE DEF IInv, Typed
<1>1. /\ task[r] # "none" /\ r \in Finished /\ host[r] = <<>>
      /\ host' = [host EXCEPT ![r] = [k \in 1..computed[r] |-> host'[r][k]]]
      /\ UNCHANGED <<sched, client>>
  BY CopiedRows
<1>2. UNCHANGED <<status, table, client, computed>>
  BY <1>1 DEF sched
<1>3. ASSUME NEW q \in Reqs, q # r PROVE MemoryOf(q)' = MemoryOf(q)
  <2>1. host'[q] = host[q]
    BY <1>1, <1>3 DEF TypedWorker
  <2> QED BY <1>2, <2>1 DEF MemoryOf
<1>4. \A q \in Reqs : PromiseOf(q)' = PromiseOf(q)
  BY <1>2 DEF PromiseOf
<1>5. host'[r] = [k \in 1..computed[r] |-> host'[r][k]]
  BY <1>1 DEF TypedWorker
<1>6. CASE 1..computed[r] = {}
  <2>1. host'[r] = <<>>
    <3>1. PICK h : h = host'[r]
      OBVIOUS
    <3>2. h = [k \in {} |-> h[k]]
      BY <1>5, <1>6, <3>1
    <3> QED BY <3>1, <3>2, NoTokens
  <2>2. MemoryOf(r)' = MemoryOf(r)
    BY <1>1, <1>2, <2>1 DEF MemoryOf
  <2> QED BY <1>3, <1>4, <2>2 DEF Still
<1>7. CASE 1..computed[r] # {}
  <2>1. host'[r] # <<>>
    <3>1. DOMAIN host'[r] # {}
      BY <1>5, <1>7
    <3>2. DOMAIN <<>> = {}
      OBVIOUS
    <3> QED BY <3>1, <3>2
  <2>2. status[r] # "gone"
    BY <1>1 DEF Finished
  <2>3. Grid(r) # {}
    <3>1. PICK k \in 1..computed[r] : TRUE
      BY <1>7
    <3>2. 1 \in 1..Groups
      BY Sizes
    <3>3. <<k, 1>> \in Grid(r)
      BY <2>2, <3>1, <3>2 DEF Grid
    <3> QED BY <3>3
  <2>4. table[r] # Nothing
    BY <2>3, MemoryIs
  <2>5. MemoryOf(r) = "blocks" /\ MemoryOf(r)' = "copied"
    BY <1>1, <1>2, <2>1, <2>2, <2>4 DEF MemoryOf
  <2>6. Abstract!Copy(r)
    BY <1>3, <1>4, <2>5 DEF Abstract!Copy
  <2> QED BY <2>6 DEF Abstract!Next
<1> QED BY <1>6, <1>7

\* The client loads the rows, or not, after the copy.
LEMMA LoadEnds ==
  ASSUME IInv, ~ChunkedPrefill, NEW r \in Reqs, Load(r)
  PROVE  Abstract!Next
<1> USE DEF IInv, Typed
<1>1. /\ client[r] = "loading"
      /\ \/ client' = [client EXCEPT ![r] = "ok"]
         \/ client' = [client EXCEPT ![r] = "error"]
      /\ UNCHANGED <<sched, worker>>
  BY DEF Load
<1>2. MemoryOf(r) \in {"copied", "released"}
  <2>1. task[r] = "over" /\ computed[r] = Need
    BY <1>1 DEF Locks, Guarded, Whole
  <2>2. Tokens(r) = 1..computed[r]
    BY <2>1 DEF Tokens, Sched, Tasks
  <2> QED BY <2>1, <2>2, MemoryIs
<1>3. \A q \in Reqs : MemoryOf(q)' = MemoryOf(q)
  BY <1>1 DEF MemoryOf, sched, worker
<1>4. \A q \in Reqs : q # r => PromiseOf(q)' = PromiseOf(q)
  BY <1>1 DEF PromiseOf, TypedClient
<1>5. PromiseOf(r) = "made" /\ PromiseOf(r)' \in {"kept", "broken"}
  BY <1>1 DEF PromiseOf, TypedClient
<1>6. Abstract!Keep(r) \/ Abstract!Break(r)
  BY <1>2, <1>3, <1>4, <1>5 DEF Abstract!Keep, Abstract!Break
<1> QED BY <1>6 DEF Abstract!Next

\* Every step of the connector is a step of the hand-off, or none.
LEMMA StepHandsOff ==
  ASSUME IInv, IInv', ~ChunkedPrefill, [Next]_vars
  PROVE  Abstract!Next \/ Still
<1> USE DEF IInv, Typed
<1>1. ASSUME UNCHANGED <<host, table, client>>,
             \A r \in Reqs : status'[r] = "gone" <=> status[r] = "gone"
      PROVE  Still
  BY <1>1 DEF Still, MemoryOf, PromiseOf
<1>2. ASSUME NEW r \in Reqs, Arrive(r) \/ Abort(r) PROVE Still
  <2>1. /\ UNCHANGED <<host, table, client>>
        /\ \E how \in {"waiting", "aborted"} : status' = [status EXCEPT ![r] = how]
        /\ status[r] \in {"new", "waiting", "running", "preempted"}
    <3>1. CASE Arrive(r)
      BY <3>1 DEF Arrive, worker
    <3>2. CASE Abort(r)
      BY <3>2, AbortIs DEF worker
    <3> QED BY <1>2, <3>1, <3>2
  <2>2. \A q \in Reqs : status'[q] = "gone" <=> status[q] = "gone"
    BY <2>1
  <2> QED BY <1>1, <2>1, <2>2
<1>3. CASE Worker
  <2>1. UNCHANGED <<host, table, client, status>>
    BY <1>3 DEF Worker, SubmitWrites, EndStep
  <2> QED BY <1>1, <2>1
<1>4. ASSUME NEW r \in Reqs, Writer(r) \/ WriteFails(r) PROVE Still
  <2>1. UNCHANGED <<host, table, client, status>>
    BY <1>4 DEF Writer, TakeTask, StartWrite, WriteDone, WriteFails, EndWrite, sched
  <2> QED BY <1>1, <2>1
<1>5. ASSUME NEW r \in Reqs, OpenLock(r) \/ SharedLock(r) PROVE Still
  <2>1. UNCHANGED <<host, table, status>>
    BY <1>5 DEF OpenLock, SharedLock, sched, worker
  <2>2. /\ client[r] \in {"path", "open"}
        /\ \E c \in {"open", "loading"} : client' = [client EXCEPT ![r] = c]
    <3>1. client[r] = "path" => lock[r] \in {"held", "free"}
      BY DEF Locks, Guarded, TypedClient
    <3> QED BY <1>5, <3>1 DEF OpenLock, SharedLock
  <2>3. \A q \in Reqs : PromiseOf(q)' = PromiseOf(q)
    BY <2>2 DEF PromiseOf, TypedClient
  <2>4. \A q \in Reqs : MemoryOf(q)' = MemoryOf(q)
    BY <2>1 DEF MemoryOf
  <2> QED BY <2>3, <2>4 DEF Still
<1>6. CASE UNCHANGED vars
  <2>1. UNCHANGED <<host, table, client, status>>
    BY <1>6 DEF vars, sched, worker
  <2> QED BY <1>1, <2>1
<1> QED
  BY <1>2, <1>3, <1>4, <1>5, <1>6, ScheduleComputes, OutputFinishes, CopyCopies, LoadEnds
     DEF Next, Client, Quiet

\* Without chunked prefill the connector implements the hand-off: a path is only
\* given out while the rows are in their blocks, blocks are released once and
\* after the copy, and a client never loads before the copy.
THEOREM HandsOff == ~ChunkedPrefill /\ Spec => ImplementsHandOff
<1>1. Init => Abstract!Init
  BY DEF Init, Abstract!Init, MemoryOf, PromiseOf
<1>2. ASSUME ~ChunkedPrefill
      PROVE  IInv /\ IInv' /\ [Next]_vars => [Abstract!Next]_(Abstract!vars)
  <2> SUFFICES ASSUME IInv, IInv', [Next]_vars PROVE [Abstract!Next]_(Abstract!vars)
    OBVIOUS
  <2>1. CASE Abstract!Next
    BY <2>1
  <2>2. CASE Still
    BY <2>2 DEF Still, Abstract!vars
  <2> QED BY <1>2, <2>1, <2>2, StepHandsOff
<1>3. CASE ~ChunkedPrefill
  <2>1. IInv /\ IInv' /\ [Next]_vars => [Abstract!Next]_(Abstract!vars)
    BY <1>2, <1>3
  <2> QED BY <1>1, <2>1, Invariance, PTL DEF Spec, ImplementsHandOff, Abstract!Spec
<1>4. CASE ~(~ChunkedPrefill)
  BY <1>4
<1> QED BY <1>3, <1>4
=============================================================================
