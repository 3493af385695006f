--------------------------- MODULE ExecutorProofs ---------------------------
(***************************************************************************)
(* Theorems about Executor: what a call returns is what the workers        *)
(* answered to it, failures surface, and workers are through with an       *)
(* argument before its chunk is written again.                             *)
(*                                                                         *)
(* The inductive invariant IInv says of three numbers what no variable     *)
(* holds: n calls have their results, the first m have futures, and the    *)
(* replies of rank r up to call b[r] have been read.                       *)
(***************************************************************************)
EXTENDS Executor, SequenceTheorems, FiniteSetTheorems, TLAPS

Kinds    == {"model", "sample", "utility"}
Whats    == {"output", "value", "none", "failed"}
Hows     == {"pending", "ok", "failed", "timeout"}
AnyReply == [call : Nat, what : Whats]

Typed ==
  /\ aggregated \in BOOLEAN /\ calls \in Seq(Kinds)
  /\ got \in [Ranks -> Seq(Nat)] /\ \A r \in Ranks : Len(got[r]) <= Len(calls)
  /\ doing \in [Ranks -> Nat] /\ \A r \in Ranks : doing[r] \in {0, Len(got[r])}
  /\ outbox \in [Ranks -> Seq(AnyReply)] /\ replies \in [Ranks -> Seq(AnyReply)]
  /\ state \subseteq Ranks /\ alive \subseteq Ranks
  /\ place \in {"loop", "sample", "future", "wait", "down"}
  /\ asked \in Seq(Seq(Ranks)) /\ Len(asked) = Len(calls)
  /\ outcome \in Seq([how : Hows, from : Seq(AnyReply)]) /\ Len(outcome) = Len(calls)
  /\ futures \in Seq(Nat) /\ batches \in Seq(Nat) /\ wanted \in Nat
  /\ replied \in Seq(AnyReply)
  /\ monitor \in {"watching", "failed", "terminated", "cancelled", "closed", "done"}
  /\ notice \in BOOLEAN /\ faults \in 0 .. MaxFaults

-----------------------------------------------------------------------------
(* The engine's calls and their futures.                                   *)

AllRanks == [i \in 1 .. Cardinality(Ranks) |-> i - 1]

\* The queues that the future of a call reads: those of all who answer, or
\* none, if they had been closed when the last call was made.
Asked(c) ==
  \/ asked[c] = IF All(c) THEN AllRanks ELSE <<OutputRank>>
  \/ asked[c] = <<>> /\ Closed /\ c = Len(calls)

Futures(n, m) ==
  /\ n \in Nat /\ m \in Nat /\ n <= m /\ m <= Len(calls) /\ Len(calls) <= m + 1
  /\ place = "future" => Len(calls) = m + 1
  /\ place \in {"loop", "sample", "wait"} => Len(calls) = m
  /\ Len(futures) = m - n /\ \A i \in 1 .. m - n : futures[i] = n + i
  /\ \A c \in 1 .. Len(calls) : /\ c <= n => outcome[c].how # "pending"
                                /\ c > n => outcome[c] = Pending
  /\ \A c \in 1 .. m : Asked(c)
  /\ replied # <<>> => n < m /\ Len(replied) < Len(asked[n + 1])
  /\ \A i \in 1 .. Len(replied) : replied[i].what # "failed"
  /\ wanted <= m /\ (place = "wait" => wanted # 0)
  /\ place \in {"loop", "sample", "future"} => wanted = 0
  /\ monitor \notin {"watching", "failed"} => alive = {}

\* The program of the main thread: steps of two calls, and utility calls in
\* between, one at a time and waited for.
Program(n) ==
  /\ \A c \in 1 .. Len(calls) :
       /\ calls[c] = "sample" => c > 1 /\ calls[c - 1] = "model"
       /\ calls[c] = "model" /\ c < Len(calls) => calls[c + 1] = "sample"
       /\ calls[c] = "utility" /\ c > n => c = Len(calls) /\ (place \in {"future", "down"} \/ wanted = c)
  /\ place = "sample" => calls # <<>> /\ calls[Len(calls)] = "model"
  /\ place \in {"loop", "wait"} /\ calls # <<>> => calls[Len(calls)] # "model"
  /\ wanted # 0 => calls[wanted] # "model" /\ (calls[wanted] = "utility" => wanted = Len(calls))

\* The result of a step has been taken out of the batch queue and looked at.
Collected(c) ==
  c \notin ToSet(batches) /\ c # wanted /\ ~ (place = "future" /\ c = Len(calls))

Batches(n, m) ==
  /\ \A i \in 1 .. Len(batches) : batches[i] \in 1 .. m /\ calls[batches[i]] = "sample"
  /\ \A i, j \in 1 .. Len(batches) : i < j => batches[i] < batches[j]
  /\ wanted # 0 /\ calls[wanted] = "sample" => \A i \in 1 .. Len(batches) : wanted < batches[i]
  /\ place # "down" =>
       \A c \in 1 .. Len(calls) : calls[c] = "sample" /\ Collected(c) =>
         /\ c <= n /\ Output(c)
         /\ \A d \in 1 .. c - 1 : calls[d] = "sample" => Collected(d)

\* A call that is being made, or a utility call that is waited for, comes on
\* top of the batches.
Extra ==
  IF place = "sample" THEN 1
  ELSE IF place = "future" THEN IF calls[Len(calls)] = "sample" THEN 2 ELSE 1
  ELSE IF place = "wait" /\ calls[wanted] = "utility" THEN 1 ELSE 0

\* A batch that is waited for, or is being put together, is not in the queue.
OneLess ==
  \/ place = "sample" \/ (place = "future" /\ calls[Len(calls)] # "utility")
  \/ place = "wait" /\ calls[wanted] = "sample"

\* The calls beyond call c, and beyond those that have their results, are those
\* of the batches from the i-th one.
Within(c, n, i) ==
  \/ Len(calls) <= c + 2 * (Len(batches) - i) + Extra
  \/ Len(calls) <= n + 2 * (Len(batches) - i) + Extra

Ahead(n) ==
  /\ Len(calls) <= n + 2 * BatchQueue + 1
  /\ Len(batches) <= BatchQueue
  /\ place # "down" =>
       /\ OneLess => Len(batches) < BatchQueue
       /\ \A i \in 1 .. Len(batches) : Within(batches[i], n, i)
       /\ IF place = "wait" /\ calls[wanted] = "sample"
          THEN Within(wanted, n, 0) /\ Len(calls) <= n + 2 * Len(batches) + 2
          ELSE Len(calls) <= n + 2 * Len(batches) + Extra

-----------------------------------------------------------------------------
(* The replies of a rank.                                                  *)

Begun(r) == Len(got[r])
Sent(r)  == Len(replies[r])
Kept(r)  == Len(outbox[r])

\* The last call that the rank is through with.
Through(r) == IF doing[r] = 0 THEN Begun(r) ELSE Begun(r) - 1

\* Its replies that have not been read, in order.
Unread(r)    == 1 .. Sent(r) + Kept(r)
Stream(r, i) == IF i <= Sent(r) THEN replies[r][i] ELSE outbox[r][i - Sent(r)]

\* The oldest future has read a reply of it.
ReadFrom(r, n) == \E i \in 1 .. Len(replied) : asked[n + 1][i] = r

\* Replies come in the order of the calls, and none is missing.
InSequence(r, b) ==
  /\ \A i, j \in Unread(r) : i < j => Stream(r, i).call < Stream(r, j).call
  /\ \A i \in Unread(r) :
       LET e == Stream(r, i)
       IN /\ b[r] < e.call /\ e.call <= Through(r) /\ Answers(r, e.call)
          /\ calls[e.call] = "model" => e.what \in {"none", "failed"}
          /\ e.what = "output" => calls[e.call] = "sample"
  /\ \A c \in 1 .. Len(calls) : b[r] < c /\ c <= Through(r) /\ Answers(r, c) =>
       \E i \in Unread(r) : Stream(r, i).call = c

\* The rank has no output for this call.
Dull(r, c) ==
  IF c <= Through(r) THEN \A i \in Unread(r) : Stream(r, i).call = c => Stream(r, i).what # "output"
  ELSE r \notin state

\* A rank has a model state between the two calls of a step that did not raise.
Worker(r) ==
  /\ r \in state => Through(r) # 0 /\ calls[Through(r)] = "model"
  /\ \A i \in Unread(r) : Stream(r, i).what = "failed" /\ calls[Stream(r, i).call] = "model"
                          => Dull(r, Stream(r, i).call + 1)
  /\ \A c \in 1 .. Through(r) : calls[c] = "model" => \A q \in Ranks : c <= Begun(q)

Streams(n, b) ==
  /\ \A r \in Ranks :
       /\ InSequence(r, b) /\ Worker(r)
       /\ b[r] <= Through(r) /\ b[r] <= n + 1 /\ (b[r] = n + 1 => ReadFrom(r, n))
  /\ \A i \in 1 .. Len(replied) :
       /\ replied[i].call = b[asked[n + 1][i]] /\ replied[i].call # 0
       /\ calls[replied[i].call] = "model" => replied[i].what \in {"none", "failed"}
       /\ replied[i].what = "output" => calls[replied[i].call] = "sample"

-----------------------------------------------------------------------------
(* Replies are read by the calls they answer.                              *)

\* The rank owes nothing to the calls that have their results.
UpToDate(r, n, b) == \A c \in 1 .. n : b[r] < c => ~ Answers(r, c)

Own(n, b) ==
  /\ \A c \in 1 .. n :
       /\ \A i \in 1 .. Len(outcome[c].from) : outcome[c].from[i].call \in 1 .. Len(calls)
       /\ outcome[c].how = "ok" => Len(outcome[c].from) = Len(asked[c])
       /\ outcome[c].how = "ok" /\ ~ Spoiled(c) =>
            \A i \in 1 .. Len(outcome[c].from) : outcome[c].from[i].call = c
  /\ ~ Spoiled(n + 1) =>
       /\ \A i \in 1 .. Len(replied) : replied[i].call = n + 1
       /\ \A r \in Ranks : \/ UpToDate(r, n, b)
                           \/ Cancelled /\ replies[r] = <<>>
                           \/ Closed /\ n = Len(calls)
       /\ ~ Cancelled => \A c \in 1 .. n : calls[c] # "sample" =>
                           \A r \in Ranks : c <= Begun(r)

-----------------------------------------------------------------------------
(* Failures surface, whatever was spoiled.                                 *)

Relevant == IF aggregated THEN Ranks ELSE {OutputRank}

\* A step has come to nothing: when its result is looked at, the engine ends.
Broken(n) == \E c \in 1 .. n : calls[c] = "sample" /\ ~ Output(c)

\* Call n + 1 will have no output.
Doomed(r, n, b) ==
  \/ \E i \in 1 .. Len(replied) : asked[n + 1][i] = r /\ replied[i].what # "output"
  \/ ~ ReadFrom(r, n) /\ (b[r] < n \/ Dull(r, n + 1))

Surface(n, b) ==
  /\ \A s \in 1 .. n :
       calls[s] = "sample" /\ (\A c \in 1 .. s : calls[c] = "sample" => Output(c)) =>
         /\ outcome[s - 1].how = "ok"
         /\ outcome[s].from[IF All(s) THEN OutputRank + 1 ELSE 1].call = s
  /\ ~ Broken(n) =>
       /\ \A r \in Relevant : \A c \in 1 .. n : b[r] < c => calls[c] # "sample"
       /\ n < Len(calls) /\ calls[n + 1] = "sample" =>
            \A i \in 1 .. Len(replied) : replied[i].what = "output" => replied[i].call = n + 1
       /\ n # 0 /\ calls[n] = "model" /\ outcome[n].how # "ok" =>
            \E r \in Relevant : Doomed(r, n, b)

Parts(n, m, b) ==
  /\ Typed /\ Futures(n, m) /\ Program(n) /\ Batches(n, m) /\ Ahead(n)
  /\ Streams(n, b) /\ Own(n, b) /\ Surface(n, b)

IInv == \E n, m \in Nat : \E b \in [Ranks -> Nat] : Parts(n, m, b)
-----------------------------------------------------------------------------
(* The ranks, and the calls.                                               *)

\* The ranks are numbered, and the queues asked are those of ranks.
LEMMA RanksAre ==
  /\ Cardinality(Ranks) \in Nat /\ OutputRank \in Nat /\ OutputRank + 1 \in 1 .. Cardinality(Ranks)
  /\ AllRanks \in Seq(Ranks) /\ Len(AllRanks) = Cardinality(Ranks)
  /\ \A i \in 1 .. Len(AllRanks) : AllRanks[i] = i - 1
  /\ \A r \in Ranks : r \in Nat /\ r + 1 \in 1 .. Len(AllRanks) /\ AllRanks[r + 1] = r
  /\ <<OutputRank>> \in Seq(Ranks) /\ AllRanks # <<>>
<1>1. Cardinality(Ranks) \in Nat /\ Ranks = 0 .. Cardinality(Ranks) - 1 /\ OutputRank \in Ranks
  BY ExecutorAssumption, FS_CardinalityType
<1> DEFINE k == Cardinality(Ranks)
<1>2. \A i \in 1 .. k : i - 1 \in Ranks
  BY <1>1
<1>3. AllRanks \in Seq(Ranks) /\ Len(AllRanks) = k /\ \A i \in 1 .. k : AllRanks[i] = i - 1
  BY <1>1, <1>2 DEF AllRanks
<1>4. \A r \in Ranks : r \in Nat /\ r + 1 \in 1 .. k /\ (r + 1) - 1 = r
  BY <1>1
<1>5. \A r \in Ranks : AllRanks[r + 1] = r
  BY <1>3, <1>4
<1>6. Len(AllRanks) # 0
  BY <1>1, <1>3, <1>4
<1> QED BY <1>1, <1>3, <1>4, <1>5, <1>6

\* What a future reads, if it reads anything.
LEMMA AskedIs ==
  ASSUME NEW c, Asked(c), asked[c] # <<>>
  PROVE  /\ asked[c] = IF All(c) THEN AllRanks ELSE <<OutputRank>>
         /\ asked[c] \in Seq(Ranks) /\ Len(asked[c]) \in Nat \ {0}
         /\ \A i \in 1 .. Len(asked[c]) : asked[c][i] \in Ranks /\ Answers(asked[c][i], c)
         /\ \A i, j \in 1 .. Len(asked[c]) : asked[c][i] = asked[c][j] => i = j
         /\ \A r \in Ranks : Answers(r, c) => \E i \in 1 .. Len(asked[c]) : asked[c][i] = r
<1>1. asked[c] = IF All(c) THEN AllRanks ELSE <<OutputRank>>
  BY DEF Asked
<1>2. CASE All(c)
  <2>1. asked[c] = AllRanks
    BY <1>1, <1>2
  <2>2. \A i, j \in 1 .. Len(AllRanks) : AllRanks[i] = AllRanks[j] => i = j
    BY RanksAre
  <2>3. \A i \in 1 .. Len(AllRanks) : AllRanks[i] \in Ranks /\ Answers(AllRanks[i], c)
    BY <1>2, RanksAre DEF Answers
  <2>4. \A r \in Ranks : \E i \in 1 .. Len(AllRanks) : AllRanks[i] = r
    BY RanksAre
  <2>5. AllRanks \in Seq(Ranks) /\ Len(AllRanks) \in Nat \ {0}
    BY RanksAre
  <2> QED BY Zenon, <1>1, <2>1, <2>2, <2>3, <2>4, <2>5
<1>3. CASE ~ All(c)
  <2>1. asked[c] = <<OutputRank>> /\ Len(<<OutputRank>>) = 1 /\ <<OutputRank>>[1] = OutputRank
    BY <1>1, <1>3
  <2>2. \A r : Answers(r, c) <=> r = OutputRank
    BY <1>3 DEF Answers
  <2>3. OutputRank \in Ranks
    BY ExecutorAssumption
  <2> DEFINE q == <<OutputRank>>
  <2>4. /\ q \in Seq(Ranks) /\ Len(q) \in Nat \ {0}
        /\ \A i \in 1 .. Len(q) : q[i] \in Ranks /\ Answers(q[i], c)
        /\ \A i, j \in 1 .. Len(q) : q[i] = q[j] => i = j
        /\ \A r \in Ranks : Answers(r, c) => \E i \in 1 .. Len(q) : q[i] = r
    BY <2>1, <2>2, <2>3
  <2> HIDE DEF q
  <2>5. asked[c] = q
    BY <2>1 DEF q
  <2> QED BY Zenon, <1>1, <2>4, <2>5
<1> QED BY <1>2, <1>3

\* Calls are only added.
Grown ==
  /\ aggregated' = aggregated /\ Len(calls) <= Len(calls')
  /\ \A c \in 1 .. Len(calls) : calls'[c] = calls[c]

LEMMA AnswersStay ==
  ASSUME Grown
  PROVE  \A c \in 1 .. Len(calls) : /\ All(c)' <=> All(c)
                                    /\ \A r : Answers(r, c)' <=> Answers(r, c)
BY DEF Grown, All, Answers

\* The oldest future.
LEMMA WaitingIs ==
  ASSUME Typed, NEW n, NEW m, Futures(n, m), Waiting
  PROVE  /\ n \in Nat /\ m \in Nat /\ n < m /\ m = Len(calls) /\ n + 1 \in 1 .. Len(calls)
         /\ futures # <<>> /\ Oldest = n + 1 /\ outcome[n + 1] = Pending /\ Asked(n + 1)
         /\ wanted \in 1 .. m /\ n < wanted
<1>1. /\ n \in Nat /\ m \in Nat /\ n <= m /\ m = Len(calls) /\ wanted \in Nat /\ wanted # 0
      /\ wanted <= m /\ Len(futures) = m - n /\ \A i \in 1 .. m - n : futures[i] = n + i
  BY DEF Futures, Typed, Waiting
<1>2. n < wanted
  <2> SUFFICES ASSUME wanted <= n PROVE FALSE
    BY <1>1
  <2>1. wanted \in 1 .. Len(calls) /\ outcome[wanted].how = "pending"
    BY <1>1 DEF Waiting, Pending
  <2> QED BY <2>1 DEF Futures
<1>3. n < m /\ n + 1 \in 1 .. m /\ 1 \in 1 .. m - n
  BY <1>1, <1>2
<1>4. futures # <<>> /\ Oldest = n + 1
  <2>1. futures \in Seq(Nat) /\ Len(futures) # 0
    BY <1>1, <1>3 DEF Typed
  <2> QED BY <1>1, <1>3, <2>1 DEF Oldest
<1>5. outcome[n + 1] = Pending /\ Asked(n + 1)
  BY <1>1, <1>3 DEF Futures
<1> QED BY <1>1, <1>2, <1>3, <1>4, <1>5

\* The future leaves the queue.
LEMMA FuturesTail ==
  ASSUME Typed, NEW n, NEW m, Futures(n, m), n < m
  PROVE  /\ Tail(futures) \in Seq(Nat) /\ Len(Tail(futures)) = m - (n + 1)
         /\ \A i \in 1 .. m - (n + 1) : Tail(futures)[i] = (n + 1) + i
<1>1. /\ n \in Nat /\ m \in Nat /\ futures \in Seq(Nat)
      /\ Len(futures) = m - n /\ \A i \in 1 .. m - n : futures[i] = n + i
  BY DEF Futures, Typed
<1>2. futures # <<>>
  BY <1>1
<1>3. /\ Tail(futures) \in Seq(Nat) /\ Len(Tail(futures)) = Len(futures) - 1
      /\ \A i \in 1 .. Len(Tail(futures)) : Tail(futures)[i] = futures[i + 1]
  BY <1>1, <1>2, HeadTailProperties
<1>4. \A i \in 1 .. m - (n + 1) : i + 1 \in 1 .. m - n /\ n + (i + 1) = (n + 1) + i
  BY <1>1
<1> QED BY <1>1, <1>3, <1>4
-----------------------------------------------------------------------------
(* Types.                                                                  *)

Results == [how : Hows, from : Seq(AnyReply)]

\* A call is settled.
Settles(n, m, how, from) ==
  /\ n < m /\ n + 1 \in 1 .. Len(calls) /\ Waiting
  /\ how \in {"ok", "failed", "timeout"} /\ from \in Seq(AnyReply)
  /\ outcome' \in Seq(Results) /\ Len(outcome') = Len(outcome)
  /\ outcome'[n + 1].how = how /\ outcome'[n + 1].from = from
  /\ \A c \in 1 .. Len(outcome) : c # n + 1 => outcome'[c] = outcome[c]
  /\ futures' \in Seq(Nat) /\ Len(futures') = m - (n + 1)
  /\ \A i \in 1 .. m - (n + 1) : futures'[i] = (n + 1) + i
  /\ replied' = <<>>

LEMMA SetSettles ==
  ASSUME Typed, NEW n, NEW m, Futures(n, m), Waiting, NEW how \in {"ok", "failed", "timeout"},
         NEW from \in Seq(AnyReply), Set(how, from)
  PROVE  Settles(n, m, how, from)
<1>1. n < m /\ n + 1 \in 1 .. Len(calls) /\ Oldest = n + 1
  BY WaitingIs
<1>2. outcome \in Seq(Results) /\ Len(outcome) = Len(calls)
  BY DEF Typed, Results
<1> DEFINE o == [how |-> how, from |-> from]
<1>3. o \in Results /\ o.how = how /\ o.from = from
  BY DEF Results, Hows
<1>4. outcome' = [outcome EXCEPT ![n + 1] = o] /\ futures' = Tail(futures) /\ replied' = <<>>
  BY <1>1 DEF Set
<1> HIDE DEF o
<1>5. /\ outcome' \in Seq(Results) /\ Len(outcome') = Len(outcome) /\ outcome'[n + 1] = o
      /\ \A c \in 1 .. Len(outcome) : c # n + 1 => outcome'[c] = outcome[c]
  BY <1>1, <1>2, <1>3, <1>4
<1> QED BY <1>1, <1>3, <1>4, <1>5, FuturesTail DEF Settles

\* What a step of the main thread that settles a call leaves alone.
Rest == UNCHANGED <<aggregated, calls, got, doing, state, outbox, alive, place, asked, wanted,
                    batches, monitor, notice>>

LEMMA SettledTyped ==
  ASSUME Typed, NEW n, NEW m, NEW how, NEW from, Settles(n, m, how, from), Rest,
         replies' \in [Ranks -> Seq(AnyReply)], faults' \in 0 .. MaxFaults
  PROVE  Typed'
<1>1. outcome' \in Seq(Results) /\ Len(outcome') = Len(outcome) /\ futures' \in Seq(Nat)
      /\ replied' = <<>>
  BY DEF Settles
<1>2. UNCHANGED <<aggregated, calls, got, doing, state, outbox, alive, place, asked, wanted,
                  batches, monitor, notice>>
  BY DEF Rest
<1>3. replied' \in Seq(AnyReply)
  BY <1>1
<1> QED BY <1>1, <1>2, <1>3 DEF Typed, Results

\* The state of a fault.
LEMMA FaultTyped ==
  ASSUME Typed, Fault
  PROVE  faults' \in 0 .. MaxFaults
BY ExecutorAssumption DEF Typed, Fault

\* A call is put into the queue.
LEMMA CallIs ==
  ASSUME Typed, NEW kind \in Kinds, Call(kind)
  PROVE  /\ ~ Failed /\ place' = "future"
         /\ calls' \in Seq(Kinds) /\ Len(calls') = Len(calls) + 1 /\ calls'[Len(calls) + 1] = kind
         /\ asked' \in Seq(Seq(Ranks)) /\ Len(asked') = Len(calls) + 1
         /\ asked'[Len(calls) + 1] = <<>>
         /\ outcome' \in Seq(Results) /\ Len(outcome') = Len(calls) + 1
         /\ outcome'[Len(calls) + 1] = Pending
         /\ \A c \in 1 .. Len(calls) : /\ calls'[c] = calls[c] /\ asked'[c] = asked[c]
                                       /\ outcome'[c] = outcome[c]
         /\ Grown /\ Len(calls) \in Nat
         /\ UNCHANGED <<aggregated, got, worker, futures, replied, wanted, batches, monitor, notice,
                        faults>>
<1>1. /\ ~ Failed /\ place' = "future" /\ calls' = Append(calls, kind)
      /\ asked' = Append(asked, <<>>) /\ outcome' = Append(outcome, Pending)
      /\ UNCHANGED <<aggregated, got, worker, futures, replied, wanted, batches, monitor, notice,
                     faults>>
  BY DEF Call, Queue!Send
<1>2. /\ calls \in Seq(Kinds) /\ asked \in Seq(Seq(Ranks)) /\ outcome \in Seq(Results)
      /\ Len(asked) = Len(calls) /\ Len(outcome) = Len(calls) /\ Len(calls) \in Nat
  BY DEF Typed, Results
<1>3. Pending \in Results
  BY DEF Pending, Results, Hows
<1>4. /\ calls' \in Seq(Kinds) /\ Len(calls') = Len(calls) + 1 /\ calls'[Len(calls) + 1] = kind
      /\ \A c \in 1 .. Len(calls) : calls'[c] = calls[c]
  BY <1>1, <1>2
<1>5. /\ asked' \in Seq(Seq(Ranks)) /\ Len(asked') = Len(calls) + 1 /\ asked'[Len(calls) + 1] = <<>>
      /\ \A c \in 1 .. Len(calls) : asked'[c] = asked[c]
  BY <1>1, <1>2
<1>6. /\ outcome' \in Seq(Results) /\ Len(outcome') = Len(calls) + 1
      /\ outcome'[Len(calls) + 1] = Pending
      /\ \A c \in 1 .. Len(calls) : outcome'[c] = outcome[c]
  BY <1>1, <1>2, <1>3
<1>7. Grown
  BY <1>1, <1>2, <1>4 DEF Grown
<1> QED BY <1>1, <1>2, <1>4, <1>5, <1>6, <1>7

LEMMA CallTyped ==
  ASSUME Typed, NEW kind \in Kinds, Call(kind)
  PROVE  Typed'
<1>1. /\ calls' \in Seq(Kinds) /\ Len(calls') = Len(calls) + 1 /\ asked' \in Seq(Seq(Ranks))
      /\ Len(asked') = Len(calls) + 1 /\ outcome' \in Seq(Results) /\ Len(outcome') = Len(calls) + 1
      /\ place' = "future" /\ Len(calls) \in Nat
      /\ UNCHANGED <<aggregated, got, worker, futures, replied, wanted, batches, monitor, notice,
                     faults>>
  BY CallIs
<1>2. \A r \in Ranks : Len(got'[r]) <= Len(calls')
  BY <1>1 DEF Typed
<1> QED BY <1>1, <1>2 DEF Typed, worker, Results

\* A future is made.
LEMMA MakeFutureIs ==
  ASSUME Typed, NEW n, NEW m, Futures(n, m), MakeFuture
  PROVE  /\ place = "future" /\ Len(calls) = m + 1 /\ Len(calls) \in Nat
         /\ asked' \in Seq(Seq(Ranks)) /\ Len(asked') = Len(calls)
         /\ asked'[m + 1] = IF Closed THEN <<>> ELSE IF All(m + 1) THEN AllRanks ELSE <<OutputRank>>
         /\ (All(m + 1) \/ ~ Closed)
         /\ \A c \in 1 .. m : asked'[c] = asked[c]
         /\ futures' \in Seq(Nat) /\ Len(futures') = (m + 1) - n
         /\ \A i \in 1 .. (m + 1) - n : futures'[i] = n + i
         /\ place' = IF calls[m + 1] = "model" THEN "sample" ELSE IF calls[m + 1] = "sample" THEN "loop"
                     ELSE "wait"
         /\ batches' = IF calls[m + 1] = "sample" THEN Append(batches, m + 1) ELSE batches
         /\ wanted' = IF calls[m + 1] = "utility" THEN m + 1 ELSE wanted
         /\ UNCHANGED <<aggregated, calls, got, worker, replied, outcome, monitor, notice, faults>>
<1>1. /\ place = "future" /\ Len(calls) = m + 1 /\ Len(calls) \in Nat /\ m \in Nat /\ n \in Nat /\ n <= m
      /\ Len(futures) = m - n /\ \A i \in 1 .. m - n : futures[i] = n + i
      /\ futures \in Seq(Nat) /\ asked \in Seq(Seq(Ranks)) /\ Len(asked) = Len(calls)
      /\ calls \in Seq(Kinds)
  BY DEF MakeFuture, Futures, Typed
<1> DEFINE qs == IF Closed THEN <<>> ELSE IF All(m + 1) THEN AllRanks ELSE <<OutputRank>>
<1>2. /\ asked' = [asked EXCEPT ![m + 1] = qs] /\ futures' = Append(futures, m + 1)
      /\ (All(m + 1) \/ ~ Closed)
  BY <1>1 DEF MakeFuture, AllRanks, Queued
<1>3. qs \in Seq(Ranks)
  BY RanksAre
<1> HIDE DEF qs
<1>4. /\ asked' \in Seq(Seq(Ranks)) /\ Len(asked') = Len(calls) /\ asked'[m + 1] = qs
      /\ \A c \in 1 .. m : asked'[c] = asked[c]
  BY <1>1, <1>2, <1>3
<1>5. /\ futures' \in Seq(Nat) /\ Len(futures') = (m + 1) - n
      /\ \A i \in 1 .. (m + 1) - n : futures'[i] = n + i
  <2>1. m + 1 \in Nat /\ futures \in Seq(Nat) /\ futures' = Append(futures, m + 1)
    BY <1>1, <1>2
  <2>2. /\ futures' \in Seq(Nat) /\ Len(futures') = Len(futures) + 1
        /\ \A i \in 1 .. Len(futures) : futures'[i] = futures[i]
        /\ futures'[Len(futures) + 1] = m + 1
    BY <2>1
  <2>3. Len(futures') = (m + 1) - n
    BY <1>1, <2>2
  <2>4. ASSUME NEW i \in 1 .. (m + 1) - n PROVE futures'[i] = n + i
    <3>1. CASE i \in 1 .. m - n
      BY <1>1, <2>2, <3>1
    <3>2. CASE i = (m - n) + 1
      BY <1>1, <2>2, <3>2
    <3> QED BY <1>1, <3>1, <3>2
  <2> QED BY <2>2, <2>3, <2>4
<1>6. calls[m + 1] \in Kinds
  BY <1>1
<1>7. /\ place' = IF calls[m + 1] = "model" THEN "sample" ELSE IF calls[m + 1] = "sample" THEN "loop"
                  ELSE "wait"
      /\ batches' = IF calls[m + 1] = "sample" THEN Append(batches, m + 1) ELSE batches
      /\ wanted' = IF calls[m + 1] = "utility" THEN m + 1 ELSE wanted
      /\ UNCHANGED <<aggregated, calls, got, worker, replied, outcome, monitor, notice, faults>>
  BY <1>1, <1>6 DEF MakeFuture, Kinds
<1> QED BY <1>1, <1>2, <1>4, <1>5, <1>7 DEF qs

LEMMA MakeFutureTyped ==
  ASSUME Typed, NEW n, NEW m, Futures(n, m), MakeFuture
  PROVE  Typed'
<1>1. /\ Len(calls) = m + 1 /\ Len(calls) \in Nat /\ asked' \in Seq(Seq(Ranks))
      /\ Len(asked') = Len(calls) /\ futures' \in Seq(Nat)
      /\ place' = IF calls[m + 1] = "model" THEN "sample" ELSE IF calls[m + 1] = "sample" THEN "loop"
                  ELSE "wait"
      /\ batches' = IF calls[m + 1] = "sample" THEN Append(batches, m + 1) ELSE batches
      /\ wanted' = IF calls[m + 1] = "utility" THEN m + 1 ELSE wanted
      /\ UNCHANGED <<aggregated, calls, got, worker, replied, outcome, monitor, notice, faults>>
  BY MakeFutureIs
<1>2. m + 1 \in Nat /\ batches \in Seq(Nat)
  BY <1>1 DEF Futures, Typed
<1>3. batches' \in Seq(Nat) /\ wanted' \in Nat /\ place' \in {"sample", "loop", "wait"}
  BY <1>1, <1>2 DEF Typed
<1> QED BY <1>1, <1>3 DEF Typed, worker
\* A reply e of rank r is read, rs are the replies so far.
Reads(n, m, r, e, rs) ==
  /\ Waiting /\ n < m /\ n + 1 \in 1 .. Len(calls)
  /\ r \in Ranks /\ asked[n + 1] # <<>> /\ Len(replied) + 1 \in 1 .. Len(asked[n + 1])
  /\ asked[n + 1][Len(replied) + 1] = r /\ ~ ReadFrom(r, n)
  /\ replies[r] # <<>> /\ e = replies[r][1] /\ e \in AnyReply
  /\ rs \in Seq(AnyReply) /\ Len(rs) = Len(replied) + 1 /\ rs[Len(replied) + 1] = e
  /\ \A i \in 1 .. Len(replied) : rs[i] = replied[i]
  /\ replies' = [replies EXCEPT ![r] = Tail(replies[r])]
  /\ UNCHANGED <<aggregated, calls, got, doing, state, outbox, alive, place, asked, wanted, batches,
                 monitor, notice, faults>>

\* The replies of all that were asked are there, or one of them is a failure.
Partial(n, e, rs) ==
  /\ e.what # "failed" /\ Len(rs) < Len(asked[n + 1])
  /\ replied' = rs /\ UNCHANGED <<outcome, futures>>

Settling(n, m, e, rs) ==
  \/ e.what = "failed" /\ Settles(n, m, "failed", rs)
  \/ /\ e.what # "failed" /\ Len(rs) = Len(asked[n + 1])
     /\ Settles(n, m, IF Aggregable(n + 1, rs) THEN "ok" ELSE "failed", rs)

LEMMA ReadReplyIs ==
  ASSUME Typed, NEW n, NEW m, Futures(n, m), ReadReply
  PROVE  \E r, e, rs : Reads(n, m, r, e, rs) /\ (Partial(n, e, rs) \/ Settling(n, m, e, rs))
<1> DEFINE r  == Asks
           e  == Head(replies[r])
           rs == Append(replied, e)
<1>1. Waiting /\ asked[Oldest] # <<>> /\ replies[r] # <<>>
  BY DEF ReadReply
<1>2. n \in Nat /\ n < m /\ n + 1 \in 1 .. Len(calls) /\ Oldest = n + 1 /\ Asked(n + 1)
  BY <1>1, WaitingIs
<1>3. /\ asked[n + 1] # <<>> /\ asked[n + 1] \in Seq(Ranks) /\ Len(asked[n + 1]) \in Nat \ {0}
      /\ \A i \in 1 .. Len(asked[n + 1]) : asked[n + 1][i] \in Ranks
      /\ \A i, j \in 1 .. Len(asked[n + 1]) : asked[n + 1][i] = asked[n + 1][j] => i = j
  BY <1>1, <1>2, AskedIs
<1>4. replied \in Seq(AnyReply) /\ Len(replied) \in Nat
  BY DEF Typed
<1>5. Len(replied) < Len(asked[n + 1])
  <2>1. CASE replied = <<>>
    BY <1>3, <2>1
  <2>2. CASE replied # <<>>
    BY <2>2 DEF Futures
  <2> QED BY <2>1, <2>2
<1>6. Len(replied) + 1 \in 1 .. Len(asked[n + 1])
  BY <1>3, <1>4, <1>5
<1>7. r = asked[n + 1][Len(replied) + 1] /\ r \in Ranks
  BY <1>2, <1>3, <1>6 DEF Asks
<1>8. ~ ReadFrom(r, n)
  <2>1. \A i \in 1 .. Len(replied) : i \in 1 .. Len(asked[n + 1]) /\ i # Len(replied) + 1
    BY <1>3, <1>4, <1>5
  <2> QED BY <1>3, <1>6, <1>7, <2>1 DEF ReadFrom
<1>9. /\ replies' = [replies EXCEPT ![r] = Tail(replies[r])]
      /\ UNCHANGED <<aggregated, calls, got, doing, state, outbox, alive, place, asked, wanted,
                     batches, monitor, notice, faults>>
      /\ IF e.what = "failed" THEN Set("failed", rs)
         ELSE IF Len(rs) < Len(asked[n + 1])
         THEN replied' = rs /\ UNCHANGED <<outcome, futures>>
         ELSE Set(IF Aggregable(n + 1, rs) THEN "ok" ELSE "failed", rs)
  BY <1>2 DEF ReadReply
<1> HIDE DEF r
<1>10. replies[r] \in Seq(AnyReply)
  BY <1>7 DEF Typed
<1>11. e \in AnyReply /\ e = replies[r][1]
  BY <1>1, <1>10
<1> HIDE DEF e
<1>12. /\ rs \in Seq(AnyReply) /\ Len(rs) = Len(replied) + 1 /\ rs[Len(replied) + 1] = e
       /\ \A i \in 1 .. Len(replied) : rs[i] = replied[i]
  BY <1>4, <1>11
<1> HIDE DEF rs
<1>13. Reads(n, m, r, e, rs)
  BY <1>1, <1>2, <1>3, <1>6, <1>7, <1>8, <1>9, <1>11, <1>12 DEF Reads
<1>14. CASE e.what = "failed"
  <2>1. Set("failed", rs)
    BY <1>9, <1>14
  <2>2. Settles(n, m, "failed", rs)
    BY <1>1, <1>12, <2>1, SetSettles
  <2> QED BY <1>13, <1>14, <2>2 DEF Settling
<1>15. CASE e.what # "failed" /\ Len(rs) < Len(asked[n + 1])
  BY <1>9, <1>13, <1>15 DEF Partial
<1>16. CASE e.what # "failed" /\ ~ (Len(rs) < Len(asked[n + 1]))
  <2>1. Len(rs) = Len(asked[n + 1])
    BY <1>3, <1>4, <1>5, <1>12, <1>16
  <2> DEFINE how == IF Aggregable(n + 1, rs) THEN "ok" ELSE "failed"
  <2>2. Set(how, rs) /\ how \in {"ok", "failed", "timeout"}
    BY <1>9, <1>16
  <2> HIDE DEF how
  <2>3. Settles(n, m, how, rs)
    BY <1>1, <1>12, <2>2, SetSettles
  <2> QED BY <1>13, <1>16, <2>1, <2>3 DEF Settling, how
<1> QED BY <1>14, <1>15, <1>16

LEMMA TailTyped ==
  ASSUME Typed, NEW n, NEW m, NEW r, NEW e, NEW rs, Reads(n, m, r, e, rs)
  PROVE  replies' \in [Ranks -> Seq(AnyReply)]
<1>1. r \in Ranks /\ replies[r] \in Seq(AnyReply) /\ replies[r] # <<>>
  BY DEF Typed, Reads
<1>2. Tail(replies[r]) \in Seq(AnyReply)
  BY <1>1
<1> QED BY <1>1, <1>2 DEF Typed, Reads

LEMMA ReadReplyTyped ==
  ASSUME Typed, NEW n, NEW m, Futures(n, m), ReadReply
  PROVE  Typed'
<1>1. PICK r, e, rs : Reads(n, m, r, e, rs) /\ (Partial(n, e, rs) \/ Settling(n, m, e, rs))
  BY ReadReplyIs
<1>2. replies' \in [Ranks -> Seq(AnyReply)]
  BY <1>1, TailTyped
<1>3. Rest /\ faults' \in 0 .. MaxFaults
  BY <1>1 DEF Reads, Rest, Typed
<1>4. CASE Partial(n, e, rs)
  <2>1. replied' \in Seq(AnyReply) /\ UNCHANGED <<outcome, futures>>
    BY <1>1, <1>4 DEF Partial, Reads
  <2> QED BY <1>2, <1>3, <2>1 DEF Rest, Typed
<1>5. ASSUME NEW how, Settles(n, m, how, rs) PROVE Typed'
  BY <1>2, <1>3, <1>5, SettledTyped
<1> QED BY <1>1, <1>4, <1>5 DEF Settling

\* The other ways in which a future is set.
LEMMA ReadNothingIs ==
  ASSUME Typed, NEW n, NEW m, Futures(n, m), ReadNothing
  PROVE  /\ asked[n + 1] = <<>> /\ Rest /\ replies' = replies /\ faults' = faults
         /\ Settles(n, m, IF calls[n + 1] = "utility" THEN "ok" ELSE "failed", <<>>)
<1>1. Waiting /\ Oldest = n + 1
  BY WaitingIs DEF ReadNothing
<1> DEFINE how == IF calls[n + 1] = "utility" THEN "ok" ELSE "failed"
<1>2. Set(how, <<>>) /\ how \in {"ok", "failed", "timeout"} /\ <<>> \in Seq(AnyReply)
  BY <1>1 DEF ReadNothing
<1> HIDE DEF how
<1>3. Settles(n, m, how, <<>>)
  BY <1>1, <1>2, SetSettles
<1> QED BY <1>1, <1>3 DEF ReadNothing, Rest, worker, how

LEMMA ReadFailsIs ==
  ASSUME Typed, NEW n, NEW m, Futures(n, m), ReadFails
  PROVE  /\ asked[n + 1] # <<>> /\ Rest /\ replies' = replies /\ faults' \in 0 .. MaxFaults
         /\ Asks = asked[n + 1][Len(replied) + 1] /\ replies[Asks] = <<>>
         /\ \/ Cancelled /\ Settles(n, m, "failed", replied)
            \/ calls[n + 1] # "utility" /\ Settles(n, m, "timeout", replied)
<1>1. Waiting /\ Oldest = n + 1
  BY WaitingIs DEF ReadFails
<1>2. replied \in Seq(AnyReply)
  BY DEF Typed
<1>3. /\ asked[n + 1] # <<>> /\ Rest /\ replies' = replies
      /\ Asks = asked[n + 1][Len(replied) + 1] /\ replies[Asks] = <<>>
  BY <1>1 DEF ReadFails, Rest, worker, Asks
<1>4. CASE Cancelled /\ Set("failed", replied) /\ UNCHANGED faults
  <2>1. Settles(n, m, "failed", replied)
    BY <1>1, <1>2, <1>4, SetSettles
  <2> QED BY <1>3, <1>4, <2>1 DEF Typed
<1>5. CASE calls[n + 1] # "utility" /\ Set("timeout", replied) /\ Fault
  <2>1. Settles(n, m, "timeout", replied)
    BY <1>1, <1>2, <1>5, SetSettles
  <2> QED BY <1>3, <1>5, <2>1, FaultTyped
<1> QED BY <1>1, <1>4, <1>5 DEF ReadFails, CancelSeen
\* What a worker's steps leave alone.
Driver == UNCHANGED <<aggregated, calls, place, driver, monitor, notice>>

LEMMA DequeueIs ==
  ASSUME Typed, NEW r \in Ranks, Dequeue(r)
  PROVE  /\ Driver /\ UNCHANGED <<state, outbox, replies, alive, faults>>
         /\ got' \in [Ranks -> Seq(Nat)] /\ doing' \in [Ranks -> Nat]
         /\ doing[r] = 0 /\ r \in alive /\ Len(got[r]) \in Nat /\ Len(got[r]) < Len(calls)
         /\ Len(got'[r]) = Len(got[r]) + 1 /\ doing'[r] = Len(got[r]) + 1
         /\ \A q \in Ranks : q # r => got'[q] = got[q] /\ doing'[q] = doing[q]
<1>1. /\ got \in [Ranks -> Seq(Nat)] /\ doing \in [Ranks -> Nat] /\ Len(got[r]) \in Nat
      /\ got[r] \in Seq(Nat)
  BY DEF Typed
<1> DEFINE g == Append(got[r], Len(got[r]) + 1)
<1>2. /\ r \in alive /\ doing[r] = 0 /\ Len(got[r]) < Len(calls) /\ got' = [got EXCEPT ![r] = g]
      /\ doing' = [doing EXCEPT ![r] = Len(got'[r])]
      /\ Driver /\ UNCHANGED <<state, outbox, replies, alive, faults>>
  BY DEF Dequeue, Queue!Receive, Driver
<1>3. g \in Seq(Nat) /\ Len(g) = Len(got[r]) + 1
  BY <1>1
<1> HIDE DEF g
<1>4. got' \in [Ranks -> Seq(Nat)] /\ got'[r] = g /\ \A q \in Ranks : q # r => got'[q] = got[q]
  BY <1>1, <1>2, <1>3
<1>5. doing'[r] = Len(got[r]) + 1 /\ \A q \in Ranks : q # r => doing'[q] = doing[q]
  BY <1>1, <1>2, <1>3, <1>4
<1>6. doing' \in [Ranks -> Nat]
  BY <1>1, <1>2, <1>3, <1>4
<1> QED BY <1>1, <1>2, <1>3, <1>4, <1>5, <1>6

LEMMA DequeueTyped ==
  ASSUME Typed, NEW r \in Ranks, Dequeue(r)
  PROVE  Typed'
<1>1. /\ Driver /\ UNCHANGED <<state, outbox, replies, alive, faults>>
      /\ got' \in [Ranks -> Seq(Nat)] /\ doing' \in [Ranks -> Nat]
      /\ Len(got[r]) \in Nat /\ Len(got[r]) < Len(calls)
      /\ Len(got'[r]) = Len(got[r]) + 1 /\ doing'[r] = Len(got[r]) + 1
      /\ \A q \in Ranks : q # r => got'[q] = got[q] /\ doing'[q] = doing[q]
  BY DequeueIs
<1>2. Len(calls) \in Nat /\ \A q \in Ranks : Len(got[q]) <= Len(calls) /\ doing[q] \in {0, Len(got[q])}
  BY DEF Typed
<1>3. \A q \in Ranks : Len(got'[q]) <= Len(calls) /\ doing'[q] \in {0, Len(got'[q])}
  <2> SUFFICES ASSUME NEW q \in Ranks
               PROVE  Len(got'[q]) <= Len(calls) /\ doing'[q] \in {0, Len(got'[q])}
    OBVIOUS
  <2>1. CASE q = r
    BY <1>1, <1>2, <2>1
  <2>2. CASE q # r
    BY <1>1, <1>2, <2>2
  <2> QED BY <2>1, <2>2
<1> QED BY <1>1, <1>3 DEF Typed, Driver, driver

\* Rank r ends call c; its output is "none", "output", "value" or "failed".
Finishes(r, c, what) ==
  /\ r \in alive /\ c # 0 /\ c = doing[r] /\ c = Len(got[r]) /\ c \in 1 .. Len(calls) /\ Together(c)
  /\ what \in Whats
  /\ calls[c] = "model" => what \in {"none", "failed"}
  /\ what = "output" => calls[c] = "sample" /\ r \in state
  /\ state' = IF calls[c] = "model" /\ what # "failed" THEN state \cup {r}
              ELSE IF calls[c] = "sample" THEN state \ {r} ELSE state
  /\ outbox' \in [Ranks -> Seq(AnyReply)]
  /\ \A q \in Ranks : q # r => outbox'[q] = outbox[q]
  /\ ~ Answers(r, c) => outbox'[r] = outbox[r]
  /\ Answers(r, c) => /\ Len(outbox'[r]) = Len(outbox[r]) + 1
                      /\ outbox'[r][Len(outbox[r]) + 1] = [call |-> c, what |-> what]
                      /\ \A i \in 1 .. Len(outbox[r]) : outbox'[r][i] = outbox[r][i]
  /\ doing' = [doing EXCEPT ![r] = 0]
  /\ Driver /\ UNCHANGED <<got, replies, alive>> /\ faults' \in 0 .. MaxFaults

LEMMA FinishIs ==
  ASSUME Typed, NEW r \in Ranks, Finish(r)
  PROVE  \E what : Finishes(r, doing[r], what)
<1> DEFINE c == doing[r]
           What(raised) == IF raised THEN "failed"
                           ELSE IF calls[c] = "model" \/ (calls[c] = "sample" /\ r \notin state) THEN "none"
                           ELSE IF calls[c] = "sample" THEN "output" ELSE "value"
<1>1. PICK raised \in BOOLEAN :
        /\ IF raised THEN Fault ELSE UNCHANGED faults
        /\ state' = IF calls[c] = "model" /\ ~ raised THEN state \cup {r}
                    ELSE IF calls[c] = "sample" THEN state \ {r} ELSE state
        /\ outbox' = IF Answers(r, c)
                     THEN [outbox EXCEPT ![r] = Append(outbox[r], [call |-> c, what |-> What(raised)])]
                     ELSE outbox
  BY DEF Finish
<1>2. /\ r \in alive /\ c # 0 /\ Together(c) /\ doing' = [doing EXCEPT ![r] = 0]
      /\ Driver /\ UNCHANGED <<got, replies, alive>>
  BY DEF Finish, Driver
<1>3. c = Len(got[r]) /\ c \in 1 .. Len(calls)
  BY <1>2 DEF Typed
<1> DEFINE what == What(raised)
<1>4. /\ what \in Whats /\ (what = "failed" <=> raised)
      /\ calls[c] = "model" => what \in {"none", "failed"}
      /\ what = "output" => calls[c] = "sample" /\ r \in state
  BY DEF Whats
<1>5. faults' \in 0 .. MaxFaults
  BY <1>1, FaultTyped DEF Typed
<1> DEFINE e == [call |-> c, what |-> what]
<1>6. e \in AnyReply /\ outbox[r] \in Seq(AnyReply) /\ outbox \in [Ranks -> Seq(AnyReply)]
  BY <1>3, <1>4 DEF AnyReply, Typed
<1>7. outbox' = IF Answers(r, c) THEN [outbox EXCEPT ![r] = Append(outbox[r], e)] ELSE outbox
  BY <1>1
<1> HIDE DEF e, what
<1>8. /\ outbox' \in [Ranks -> Seq(AnyReply)]
      /\ \A q \in Ranks : q # r => outbox'[q] = outbox[q]
      /\ ~ Answers(r, c) => outbox'[r] = outbox[r]
      /\ Answers(r, c) => outbox'[r] = Append(outbox[r], e)
  <2>1. Append(outbox[r], e) \in Seq(AnyReply)
    BY <1>6
  <2> QED BY <1>6, <1>7, <2>1
<1>9. Answers(r, c) => /\ Len(outbox'[r]) = Len(outbox[r]) + 1
                       /\ outbox'[r][Len(outbox[r]) + 1] = e
                       /\ \A i \in 1 .. Len(outbox[r]) : outbox'[r][i] = outbox[r][i]
  BY <1>6, <1>8
<1>10. Finishes(r, c, what)
  BY <1>1, <1>2, <1>3, <1>4, <1>5, <1>8, <1>9 DEF Finishes, e
<1> QED BY <1>10

LEMMA FinishTyped ==
  ASSUME Typed, NEW r \in Ranks, Finish(r)
  PROVE  Typed'
<1>1. PICK what : Finishes(r, doing[r], what)
  BY FinishIs
<1>2. /\ state' \subseteq Ranks /\ outbox' \in [Ranks -> Seq(AnyReply)]
      /\ doing' = [doing EXCEPT ![r] = 0]
      /\ Driver /\ UNCHANGED <<got, replies, alive>> /\ faults' \in 0 .. MaxFaults
  BY <1>1 DEF Finishes, Typed
<1>3. doing' \in [Ranks -> Nat] /\ \A q \in Ranks : doing'[q] \in {0, Len(got[q])}
  BY <1>2 DEF Typed
<1> QED BY <1>2, <1>3 DEF Typed, Driver, driver

LEMMA EnqueueIs ==
  ASSUME Typed, NEW r \in Ranks, EnqueueOutput(r)
  PROVE  /\ Driver /\ UNCHANGED <<got, doing, state, alive, faults>> /\ r \in alive
         /\ outbox' \in [Ranks -> Seq(AnyReply)] /\ replies' \in [Ranks -> Seq(AnyReply)]
         /\ \A q \in Ranks : q # r => outbox'[q] = outbox[q] /\ replies'[q] = replies[q]
         /\ Len(outbox[r]) \in Nat \ {0} /\ Len(replies[r]) \in Nat
         /\ Len(outbox'[r]) = Len(outbox[r]) - 1 /\ Len(replies'[r]) = Len(replies[r]) + 1
         /\ \A i \in 1 .. Len(outbox[r]) - 1 : outbox'[r][i] = outbox[r][i + 1]
         /\ \A i \in 1 .. Len(replies[r]) : replies'[r][i] = replies[r][i]
         /\ replies'[r][Len(replies[r]) + 1] = outbox[r][1]
<1> DEFINE o == outbox[r]
           p == replies[r]
<1>1. /\ outbox \in [Ranks -> Seq(AnyReply)] /\ replies \in [Ranks -> Seq(AnyReply)]
      /\ o \in Seq(AnyReply) /\ p \in Seq(AnyReply)
  BY DEF Typed
<1>2. /\ r \in alive /\ o # <<>> /\ outbox' = [outbox EXCEPT ![r] = Tail(o)]
      /\ replies' = [replies EXCEPT ![r] = Append(p, Head(o))]
      /\ Driver /\ UNCHANGED <<got, doing, state, alive, faults>>
  BY DEF EnqueueOutput, Driver
<1> HIDE DEF o, p
<1>3. /\ Len(o) \in Nat \ {0} /\ Head(o) = o[1] /\ Head(o) \in AnyReply
      /\ Tail(o) \in Seq(AnyReply) /\ Len(Tail(o)) = Len(o) - 1
      /\ \A i \in 1 .. Len(Tail(o)) : Tail(o)[i] = o[i + 1]
  BY <1>1, <1>2, HeadTailProperties
<1>4. /\ Append(p, Head(o)) \in Seq(AnyReply) /\ Len(p) \in Nat /\ Len(Append(p, Head(o))) = Len(p) + 1
      /\ \A i \in 1 .. Len(p) : Append(p, Head(o))[i] = p[i]
      /\ Append(p, Head(o))[Len(p) + 1] = Head(o)
  BY <1>1, <1>3
<1>5. /\ outbox' \in [Ranks -> Seq(AnyReply)] /\ replies' \in [Ranks -> Seq(AnyReply)]
      /\ outbox'[r] = Tail(o) /\ replies'[r] = Append(p, Head(o))
      /\ \A q \in Ranks : q # r => outbox'[q] = outbox[q] /\ replies'[q] = replies[q]
  BY <1>1, <1>2, <1>3, <1>4
<1>6. \A i \in 1 .. Len(o) - 1 : Tail(o)[i] = o[i + 1]
  BY <1>3
<1> QED BY <1>2, <1>3, <1>4, <1>5, <1>6 DEF o, p

LEMMA EnqueueTyped ==
  ASSUME Typed, NEW r \in Ranks, EnqueueOutput(r)
  PROVE  Typed'
<1>1. /\ Driver /\ UNCHANGED <<got, doing, state, alive, faults>>
      /\ outbox' \in [Ranks -> Seq(AnyReply)] /\ replies' \in [Ranks -> Seq(AnyReply)]
  BY EnqueueIs
<1> QED BY <1>1 DEF Typed, Driver, driver

\* The monitor thread, and a death: workers end, and queues are closed.
MonitorOrDeath ==
  /\ UNCHANGED <<aggregated, calls, got, doing, state, outbox, replies, place, driver>>
  /\ alive' \subseteq alive /\ monitor' \in {"watching", "failed", "terminated", "cancelled", "closed", "done"}
  /\ notice' \in BOOLEAN /\ faults' \in 0 .. MaxFaults
  /\ (Closed => Closed') /\ (Cancelled => Cancelled')
  /\ monitor' \notin {"watching", "failed"} => monitor \notin {"watching", "failed"} \/ alive' = {}

LEMMA MonitorIs ==
  ASSUME Typed, Monitor
  PROVE  MonitorOrDeath
BY DEF Typed, Monitor, Detect, Terminate, Cancel, Close, Callback, MonitorStep, MonitorOrDeath,
       Closed, Cancelled

LEMMA DieIs ==
  ASSUME Typed, NEW r \in Ranks, Die(r)
  PROVE  MonitorOrDeath
<1>1. faults' \in 0 .. MaxFaults
  BY FaultTyped DEF Die
<1> QED BY <1>1 DEF Typed, Die, MonitorOrDeath, Closed, Cancelled

LEMMA MonitorTyped ==
  ASSUME Typed, MonitorOrDeath
  PROVE  Typed'
BY DEF Typed, MonitorOrDeath, driver

\* Steps of the main thread that give up, look at a result, or take a batch.
Machine == UNCHANGED <<aggregated, calls, got, worker, asked, futures, replied, outcome, monitor>>

LEMMA DownIs ==
  ASSUME Typed, StepRefused \/ NoQueue \/ Noticed
  PROVE  /\ Machine /\ UNCHANGED <<wanted, batches>> /\ place \in {"loop", "sample", "future"}
         /\ place' = "down" /\ Typed'
BY DEF StepRefused, NoQueue, Noticed, Machine, driver, worker, Typed

LEMMA ResultIs ==
  ASSUME Typed, Result
  PROVE  /\ Machine /\ UNCHANGED batches /\ wanted' = 0 /\ Typed'
         /\ place = "wait" /\ outcome[wanted] # Pending /\ place' = ResultPlace
BY DEF Result, ResultPlace, Machine, driver, worker, Typed

LEMMA CollectIs ==
  ASSUME Typed, Collect
  PROVE  /\ Machine /\ place = "loop" /\ place' = "wait" /\ Typed'
         /\ Len(batches) \in Nat \ {0} /\ wanted' = batches[1] /\ wanted' \in Nat
         /\ Len(batches') = Len(batches) - 1
         /\ \A i \in 1 .. Len(batches') : batches'[i] = batches[i + 1]
<1>1. batches \in Seq(Nat) /\ batches # <<>> /\ place = "loop" /\ place' = "wait"
      /\ wanted' = Head(batches) /\ batches' = Tail(batches) /\ Machine
      /\ notice' = notice /\ faults' = faults
  BY DEF Collect, Machine, Typed
<1>2. /\ Len(batches) \in Nat \ {0} /\ Head(batches) = batches[1] /\ Head(batches) \in Nat
      /\ batches' \in Seq(Nat) /\ Len(batches') = Len(batches) - 1
      /\ \A i \in 1 .. Len(batches') : batches'[i] = batches[i + 1]
  BY <1>1, HeadTailProperties
<1>3. Typed'
  BY <1>1, <1>2 DEF Machine, worker, Typed
<1> QED BY <1>1, <1>2, <1>3
-----------------------------------------------------------------------------
(* The calls and their futures.                                            *)

LEMMA FuturesKept ==
  ASSUME NEW n, NEW m, Futures(n, m), alive' \subseteq alive,
         UNCHANGED <<aggregated, calls, place, futures, outcome, asked, replied, wanted>>,
         Closed => Closed',
         monitor' \notin {"watching", "failed"} => monitor \notin {"watching", "failed"} \/ alive' = {}
  PROVE  Futures(n, m)'
<1>1. \A c : Asked(c) => Asked(c)'
  BY DEF Asked, All
<1>2. monitor' \notin {"watching", "failed"} => alive' = {}
  BY DEF Futures
<1> QED BY <1>1, <1>2 DEF Futures

LEMMA FuturesMachine ==
  ASSUME NEW n, NEW m, Futures(n, m), Machine, wanted' \in Nat, wanted' <= m,
         place # "future" \/ place' = "down", place' # "future",
         place' = "wait" => wanted' # 0, place' \in {"loop", "sample"} => wanted' = 0,
         place \in {"loop", "sample", "wait"} \/ place' = "down"
  PROVE  Futures(n, m)'
<1>1. \A c : Asked(c) => Asked(c)'
  BY DEF Asked, All, Machine, Closed
<1> QED BY <1>1 DEF Futures, Machine, worker

LEMMA FuturesCall ==
  ASSUME Typed, NEW n, NEW m, Futures(n, m), NEW kind \in Kinds, Call(kind),
         place \in {"loop", "sample"}
  PROVE  Futures(n, m)' /\ Len(calls) = m
<1>1. /\ ~ Failed /\ place' = "future" /\ Len(calls') = Len(calls) + 1
      /\ outcome'[Len(calls) + 1] = Pending /\ Grown /\ Len(calls) \in Nat
      /\ \A c \in 1 .. Len(calls) : asked'[c] = asked[c] /\ outcome'[c] = outcome[c]
      /\ UNCHANGED <<aggregated, alive, futures, replied, wanted, monitor>>
  BY CallIs DEF worker
<1>2. /\ n \in Nat /\ m \in Nat /\ n <= m /\ Len(calls) = m /\ wanted = 0 /\ wanted \in Nat
  BY DEF Futures, Typed
<1>3. ASSUME NEW c \in 1 .. m PROVE Asked(c)'
  <2>1. Asked(c) /\ ~ Closed
    BY <1>1 DEF Futures, Failed, Closed
  <2>2. asked[c] = IF All(c) THEN AllRanks ELSE <<OutputRank>>
    BY <2>1 DEF Asked
  <2>3. asked'[c] = asked[c] /\ (All(c)' <=> All(c))
    BY <1>1, <1>2, AnswersStay
  <2> QED BY <2>2, <2>3 DEF Asked, AllRanks
<1>4. \A c \in 1 .. Len(calls') : /\ c <= n => outcome'[c].how # "pending"
                                  /\ c > n => outcome'[c] = Pending
  <2> SUFFICES ASSUME NEW c \in 1 .. Len(calls')
               PROVE  /\ c <= n => outcome'[c].how # "pending"
                      /\ c > n => outcome'[c] = Pending
    OBVIOUS
  <2>1. CASE c = Len(calls) + 1
    BY <1>1, <1>2, <2>1
  <2>2. CASE c # Len(calls) + 1
    <3>1. c \in 1 .. Len(calls)
      BY <1>1, <2>2
    <3> QED BY <1>1, <3>1 DEF Futures
  <2> QED BY <2>1, <2>2
<1>5. replied # <<>> => n < m /\ n + 1 \in 1 .. Len(calls) /\ Len(replied) < Len(asked[n + 1])
  BY <1>2 DEF Futures
<1>6. replied' # <<>> => n < m /\ Len(replied') < Len(asked'[n + 1])
  BY <1>1, <1>5
<1>7. Pending' = Pending
  BY DEF Pending
<1> QED BY <1>1, <1>2, <1>3, <1>4, <1>6, <1>7 DEF Futures

LEMMA FuturesMake ==
  ASSUME Typed, NEW n, NEW m, Futures(n, m), MakeFuture
  PROVE  Futures(n, m + 1)'
<1>1. /\ place = "future" /\ Len(calls) = m + 1 /\ Len(calls) \in Nat
      /\ asked'[m + 1] = IF Closed THEN <<>> ELSE IF All(m + 1) THEN AllRanks ELSE <<OutputRank>>
      /\ (All(m + 1) \/ ~ Closed)
      /\ \A c \in 1 .. m : asked'[c] = asked[c]
      /\ Len(futures') = (m + 1) - n /\ \A i \in 1 .. (m + 1) - n : futures'[i] = n + i
      /\ place' = IF calls[m + 1] = "model" THEN "sample" ELSE IF calls[m + 1] = "sample" THEN "loop"
                  ELSE "wait"
      /\ wanted' = IF calls[m + 1] = "utility" THEN m + 1 ELSE wanted
      /\ UNCHANGED <<aggregated, calls, alive, replied, outcome, monitor>>
  BY MakeFutureIs DEF worker
<1>2. n \in Nat /\ m \in Nat /\ n <= m /\ wanted = 0 /\ calls[m + 1] \in Kinds
  BY <1>1 DEF Futures, Typed
<1>3. ASSUME NEW c \in 1 .. m + 1 PROVE Asked(c)'
  <2>1. (All(c)' <=> All(c)) /\ (Closed' <=> Closed) /\ AllRanks' = AllRanks
    BY <1>1 DEF All, Closed, AllRanks
  <2>2. CASE c = m + 1
    BY <1>1, <2>1, <2>2 DEF Asked
  <2>3. CASE c # m + 1
    <3>1. c \in 1 .. m /\ Asked(c)
      BY <1>2, <2>3 DEF Futures
    <3> QED BY <1>1, <2>1, <3>1 DEF Asked
  <2> QED BY <2>2, <2>3
<1>4. replied' # <<>> => n < m + 1 /\ Len(replied') < Len(asked'[n + 1])
  <2>1. replied # <<>> => n + 1 \in 1 .. m /\ Len(replied) < Len(asked[n + 1])
    BY <1>2 DEF Futures
  <2> QED BY <1>1, <1>2, <2>1
<1>5. /\ wanted' <= m + 1 /\ (place' = "wait" => wanted' # 0)
      /\ place' \in {"loop", "sample", "future"} => wanted' = 0
      /\ place' # "future"
  BY <1>1, <1>2 DEF Kinds
<1>6. Pending' = Pending
  BY DEF Pending
<1>7. /\ n \in Nat /\ m + 1 \in Nat /\ n <= m + 1 /\ m + 1 <= Len(calls') /\ Len(calls') <= (m + 1) + 1
      /\ Len(calls') = m + 1
  BY <1>1, <1>2
<1>8. /\ \A c \in 1 .. Len(calls') : /\ c <= n => outcome'[c].how # "pending"
                                     /\ c > n => outcome'[c] = Pending'
      /\ \A i \in 1 .. Len(replied') : replied'[i].what # "failed"
      /\ monitor' \notin {"watching", "failed"} => alive' = {}
  BY <1>1, <1>6 DEF Futures
<1> QED BY <1>1, <1>3, <1>4, <1>5, <1>7, <1>8 DEF Futures

LEMMA FuturesSettle ==
  ASSUME Typed, NEW n, NEW m, Futures(n, m), NEW how, NEW from, Settles(n, m, how, from), Rest
  PROVE  Futures(n + 1, m)'
<1>1. /\ n < m /\ n + 1 \in 1 .. Len(calls) /\ how \in {"ok", "failed", "timeout"}
      /\ outcome'[n + 1].how = how
      /\ \A c \in 1 .. Len(outcome) : c # n + 1 => outcome'[c] = outcome[c]
      /\ Len(futures') = m - (n + 1) /\ \A i \in 1 .. m - (n + 1) : futures'[i] = (n + 1) + i
      /\ replied' = <<>>
  BY DEF Settles
<1>2. UNCHANGED <<aggregated, calls, alive, place, asked, wanted, monitor>>
  BY DEF Rest
<1>3. n \in Nat /\ m \in Nat /\ Len(outcome) = Len(calls)
  BY DEF Futures, Typed
<1>4. \A c : Asked(c) => Asked(c)'
  BY <1>2 DEF Asked, All, Closed
<1>5. \A c \in 1 .. Len(calls) : /\ c <= n + 1 => outcome'[c].how # "pending"
                                 /\ c > n + 1 => outcome'[c] = Pending
  <2> SUFFICES ASSUME NEW c \in 1 .. Len(calls)
               PROVE  /\ c <= n + 1 => outcome'[c].how # "pending"
                      /\ c > n + 1 => outcome'[c] = Pending
    OBVIOUS
  <2>1. CASE c = n + 1
    BY <1>1, <1>3, <2>1
  <2>2. CASE c # n + 1
    <3>1. outcome'[c] = outcome[c] /\ (c <= n + 1 => c <= n) /\ (c > n + 1 => c > n)
      BY <1>1, <1>3, <2>2
    <3> QED BY <3>1 DEF Futures
  <2> QED BY <2>1, <2>2
<1>6. Pending' = Pending /\ n + 1 \in Nat /\ n + 1 <= m
  BY <1>1, <1>3 DEF Pending
<1> QED BY <1>1, <1>2, <1>4, <1>5, <1>6 DEF Futures

LEMMA FuturesPartial ==
  ASSUME Typed, NEW n, NEW m, Futures(n, m), NEW r, NEW e, NEW rs, Reads(n, m, r, e, rs),
         Partial(n, e, rs)
  PROVE  Futures(n, m)'
<1>1. /\ n < m /\ e.what # "failed" /\ Len(rs) < Len(asked[n + 1]) /\ replied' = rs
      /\ UNCHANGED <<outcome, futures, aggregated, calls, alive, place, asked, wanted, monitor>>
      /\ Len(rs) = Len(replied) + 1 /\ rs[Len(replied) + 1] = e
      /\ \A i \in 1 .. Len(replied) : rs[i] = replied[i]
  BY DEF Partial, Reads
<1>2. Len(replied) \in Nat
  BY DEF Typed
<1>3. \A i \in 1 .. Len(rs) : rs[i].what # "failed"
  <2>1. \A i \in 1 .. Len(replied) : rs[i].what # "failed"
    BY <1>1 DEF Futures
  <2>2. rs[Len(replied) + 1].what # "failed"
    BY <1>1
  <2> QED BY <1>1, <1>2, <2>1, <2>2
<1>4. \A c : Asked(c) => Asked(c)'
  BY <1>1 DEF Asked, All, Closed
<1> QED BY <1>1, <1>3, <1>4 DEF Futures

-----------------------------------------------------------------------------
(* The program of the main thread.                                         *)

LEMMA ProgramKept ==
  ASSUME NEW n, NEW k, n \in Nat, k \in Nat, n <= k, Program(n), UNCHANGED <<calls, place, wanted>>
  PROVE  Program(k)'
BY DEF Program

LEMMA ProgramDown ==
  ASSUME NEW n, Program(n), UNCHANGED <<calls, wanted>>, place' = "down"
  PROVE  Program(n)'
BY DEF Program

LEMMA ProgramResult ==
  ASSUME Typed, NEW n, NEW m, Futures(n, m), Program(n), Result
  PROVE  Program(n)' /\ wanted \in 1 .. Len(calls) /\ wanted <= n
<1>1. /\ Machine /\ wanted' = 0 /\ place = "wait" /\ outcome[wanted] # Pending
      /\ place' \in {"loop", "down"}
  BY ResultIs DEF ResultPlace
<1>2. wanted \in 1 .. Len(calls) /\ n \in Nat
  BY <1>1 DEF Futures, Typed
<1>3. wanted <= n
  BY <1>1, <1>2 DEF Futures
<1>4. \A c \in 1 .. Len(calls) : calls[c] = "utility" => c <= n
  BY <1>1, <1>2, <1>3 DEF Program
<1>5. \A c \in 1 .. Len(calls) : c <= n => ~ (c > n)
  BY <1>2
<1> QED BY <1>1, <1>2, <1>3, <1>4, <1>5 DEF Program, Machine

LEMMA ProgramCollect ==
  ASSUME Typed, NEW n, NEW m, Futures(n, m), Program(n), Batches(n, m), Collect
  PROVE  Program(n)' /\ wanted' \in 1 .. m /\ calls[wanted'] = "sample"
<1>1. /\ Machine /\ place = "loop" /\ place' = "wait" /\ Len(batches) \in Nat \ {0}
      /\ wanted' = batches[1]
  BY CollectIs
<1>2. 1 \in 1 .. Len(batches)
  BY <1>1
<1>3. wanted' \in 1 .. m /\ calls[wanted'] = "sample" /\ wanted = 0
  BY <1>1, <1>2 DEF Batches, Futures
<1>4. \A c \in 1 .. Len(calls) : c # 0
  OBVIOUS
<1>5. \A c \in 1 .. Len(calls) : calls[c] = "utility" => ~ (c > n)
  BY <1>1, <1>3, <1>4 DEF Program
<1> QED BY <1>1, <1>3, <1>5 DEF Program, Machine

LEMMA ProgramMake ==
  ASSUME Typed, NEW n, NEW m, Futures(n, m), Program(n), MakeFuture
  PROVE  Program(n)'
<1>1. /\ place = "future" /\ Len(calls) = m + 1 /\ Len(calls) \in Nat
      /\ place' = IF calls[m + 1] = "model" THEN "sample" ELSE IF calls[m + 1] = "sample" THEN "loop"
                  ELSE "wait"
      /\ wanted' = IF calls[m + 1] = "utility" THEN m + 1 ELSE wanted
      /\ calls' = calls
  BY MakeFutureIs
<1>2. wanted = 0 /\ m \in Nat /\ calls[m + 1] \in Kinds /\ m + 1 \in 1 .. Len(calls) /\ calls # <<>>
  BY <1>1 DEF Futures, Typed
<1>3. ASSUME NEW c \in 1 .. Len(calls), calls[c] = "utility", c > n
      PROVE  c = Len(calls) /\ wanted' = c
  BY <1>1, <1>2, <1>3 DEF Program
<1>4. /\ place' = "sample" => calls[m + 1] = "model"
      /\ place' \in {"loop", "wait"} => calls[m + 1] # "model"
      /\ wanted' # 0 => wanted' = m + 1 /\ calls[m + 1] = "utility"
  BY <1>1, <1>2 DEF Kinds
<1> QED BY <1>1, <1>2, <1>3, <1>4 DEF Program

LEMMA ProgramCall ==
  ASSUME Typed, NEW n, NEW m, Futures(n, m), Program(n), NEW kind \in Kinds, Call(kind),
         place \in {"loop", "sample"}, place = "sample" <=> kind = "sample"
  PROVE  Program(n)'
<1> DEFINE l == Len(calls)
<1>1. /\ place' = "future" /\ Len(calls') = l + 1 /\ calls'[l + 1] = kind /\ l \in Nat
      /\ \A c \in 1 .. l : calls'[c] = calls[c]
      /\ wanted' = wanted
  BY CallIs DEF Grown
<1>2. wanted = 0 /\ calls \in Seq(Kinds)
  BY DEF Futures, Typed
<1>3. l # 0 => (calls[l] = "model" <=> kind = "sample")
  BY <1>2 DEF Program
<1>4. kind = "sample" => l # 0
  BY <1>2 DEF Program
<1>5. \A c \in 1 .. l : c # 0 /\ c <= l
  BY <1>1
<1>6. \A c \in 1 .. l : calls[c] = "utility" => ~ (c > n)
  BY <1>2, <1>5 DEF Program
<1>7. ASSUME NEW c \in 1 .. l + 1
      PROVE  /\ calls'[c] = "sample" => c > 1 /\ calls'[c - 1] = "model"
             /\ calls'[c] = "model" /\ c < l + 1 => calls'[c + 1] = "sample"
             /\ calls'[c] = "utility" /\ c > n => c = l + 1
  <2>1. CASE c = l + 1
    BY <1>1, <1>3, <1>4, <2>1
  <2>2. CASE c # l + 1
    <3>1. c \in 1 .. l /\ calls'[c] = calls[c]
      BY <1>1, <2>2
    <3>2. calls[c] = "sample" => c > 1 /\ calls'[c - 1] = "model"
      <4>1. calls[c] = "sample" => c > 1 /\ calls[c - 1] = "model"
        BY <3>1 DEF Program
      <4>2. c > 1 => c - 1 \in 1 .. l
        BY <1>1, <3>1
      <4> QED BY <1>1, <4>1, <4>2
    <3>3. CASE c = l
      BY <1>1, <1>3, <1>6, <3>1, <3>2, <3>3
    <3>4. CASE c # l
      <4>1. c < l /\ c + 1 \in 1 .. l
        BY <1>1, <3>1, <3>4
      <4>2. calls[c] = "model" => calls'[c + 1] = "sample"
        BY <1>1, <3>1, <4>1 DEF Program
      <4> QED BY <1>6, <3>1, <3>2, <4>2
    <3> QED BY <3>3, <3>4
  <2> QED BY <2>1, <2>2
<1> QED BY <1>1, <1>2, <1>7 DEF Program
-----------------------------------------------------------------------------
(* The batch queue.                                                        *)

LEMMA OutputStays ==
  ASSUME NEW c, aggregated' = aggregated, calls'[c] = calls[c], outcome'[c] = outcome[c]
  PROVE  Output(c)' <=> Output(c)
BY DEF Output, All

LEMMA BatchesKept ==
  ASSUME NEW n, NEW k, NEW m, n \in Nat, k \in Nat, n <= k, Batches(n, m),
         UNCHANGED <<aggregated, calls, batches, wanted, place>>,
         \A c \in 1 .. Len(calls) : c <= n => outcome'[c] = outcome[c]
  PROVE  Batches(k, m)'
<1>1. \A c : Collected(c)' <=> Collected(c)
  BY DEF Collected
<1>2. \A c \in 1 .. Len(calls) : c <= n /\ Output(c) => c <= k /\ Output(c)'
  BY OutputStays
<1> QED BY <1>1, <1>2 DEF Batches

LEMMA BatchesDown ==
  ASSUME NEW n, NEW m, Batches(n, m), UNCHANGED <<calls, batches, wanted>>, place' = "down"
  PROVE  Batches(n, m)'
BY DEF Batches

LEMMA BatchesCall ==
  ASSUME Typed, NEW n, NEW m, Futures(n, m), Batches(n, m), NEW kind \in Kinds, Call(kind),
         place \in {"loop", "sample"}
  PROVE  Batches(n, m)'
<1>2. Len(calls) = m /\ wanted = 0
  BY DEF Futures
<1>1. /\ place' = "future" /\ Len(calls') = m + 1 /\ m \in Nat
      /\ \A c \in 1 .. m : calls'[c] = calls[c] /\ outcome'[c] = outcome[c]
      /\ UNCHANGED <<aggregated, batches, wanted>>
  BY <1>2, CallIs
<1>3. \A c \in 1 .. m : Collected(c)' <=> Collected(c)
  BY <1>1, <1>2 DEF Collected
<1>4. ~ Collected(m + 1)'
  BY <1>1, <1>2 DEF Collected
<1>5. \A c \in 1 .. m : Output(c)' <=> Output(c)
  BY <1>1, OutputStays
<1>6. ASSUME NEW c \in 1 .. m + 1, calls'[c] = "sample", Collected(c)'
      PROVE  /\ c <= n /\ Output(c)'
             /\ \A d \in 1 .. c - 1 : calls'[d] = "sample" => Collected(d)'
  <2>1. c \in 1 .. m /\ calls[c] = "sample" /\ Collected(c)
    BY <1>1, <1>3, <1>4, <1>6
  <2>2. /\ c <= n /\ Output(c)
        /\ \A d \in 1 .. c - 1 : calls[d] = "sample" => Collected(d)
    <3>1. place # "down"
      OBVIOUS
    <3> QED BY <1>2, <2>1, <3>1 DEF Batches
  <2>3. \A d \in 1 .. c - 1 : d \in 1 .. m
    BY <1>1, <2>1
  <2> QED BY <1>1, <1>3, <1>5, <2>1, <2>2, <2>3
<1>7. \A i \in 1 .. Len(batches) : batches[i] \in 1 .. m /\ calls'[batches[i]] = "sample"
  BY <1>1, <1>2 DEF Batches
<1> QED BY <1>1, <1>2, <1>6, <1>7 DEF Batches

LEMMA BatchesMake ==
  ASSUME Typed, NEW n, NEW m, Futures(n, m), Batches(n, m), MakeFuture
  PROVE  Batches(n, m + 1)'
<1>1. /\ place = "future" /\ Len(calls) = m + 1 /\ Len(calls) \in Nat
      /\ place' = IF calls[m + 1] = "model" THEN "sample" ELSE IF calls[m + 1] = "sample" THEN "loop"
                  ELSE "wait"
      /\ batches' = IF calls[m + 1] = "sample" THEN Append(batches, m + 1) ELSE batches
      /\ wanted' = IF calls[m + 1] = "utility" THEN m + 1 ELSE wanted
      /\ UNCHANGED <<aggregated, calls, outcome>>
  BY MakeFutureIs
<1>2. /\ wanted = 0 /\ m \in Nat /\ calls[m + 1] \in Kinds /\ m + 1 \in 1 .. Len(calls)
      /\ batches \in Seq(Nat) /\ Len(batches) \in Nat
  BY <1>1 DEF Futures, Typed
<1>3. \A c : Output(c)' <=> Output(c)
  BY <1>1 DEF Output, All
<1>4. \A c \in 1 .. Len(calls) : calls[c] = "sample" => (Collected(c)' <=> Collected(c))
  <2> SUFFICES ASSUME NEW c \in 1 .. Len(calls), calls[c] = "sample"
               PROVE  Collected(c)' <=> Collected(c)
    OBVIOUS
  <2>1. c # 0 /\ place' # "future"
    BY <1>1
  <2>2. CASE calls[m + 1] = "sample"
    <3>1. batches' = Append(batches, m + 1)
      BY <1>1, <2>2
    <3>2. \A x : x \in ToSet(batches') <=> x \in ToSet(batches) \/ x = m + 1
      <4>1. /\ Len(batches') = Len(batches) + 1 /\ batches'[Len(batches) + 1] = m + 1
            /\ \A i \in 1 .. Len(batches) : batches'[i] = batches[i]
            /\ DOMAIN batches' = 1 .. Len(batches) + 1 /\ DOMAIN batches = 1 .. Len(batches)
        BY <1>2, <3>1
      <4>2. ASSUME NEW x, x \in ToSet(batches') PROVE x \in ToSet(batches) \/ x = m + 1
        <5>1. PICK i \in 1 .. Len(batches) + 1 : batches'[i] = x
          BY <4>1, <4>2 DEF ToSet
        <5>2. CASE i = Len(batches) + 1
          BY <4>1, <5>1, <5>2
        <5>3. CASE i # Len(batches) + 1
          <6>1. i \in 1 .. Len(batches)
            BY <1>2, <5>3
          <6> QED BY <4>1, <5>1, <6>1 DEF ToSet
        <5> QED BY <5>2, <5>3
      <4>3. ASSUME NEW x \in ToSet(batches) PROVE x \in ToSet(batches')
        <5>1. PICK i \in 1 .. Len(batches) : batches[i] = x
          BY <4>1 DEF ToSet
        <5>2. i \in 1 .. Len(batches) + 1
          BY <1>2
        <5> QED BY <4>1, <5>1, <5>2 DEF ToSet
      <4>4. m + 1 \in ToSet(batches')
        <5>1. Len(batches) + 1 \in 1 .. Len(batches) + 1
          BY <1>2
        <5> QED BY <4>1, <5>1 DEF ToSet
      <4> QED BY <4>2, <4>3, <4>4
    <3> QED BY <1>1, <1>2, <2>1, <2>2, <3>2 DEF Collected
  <2>3. CASE calls[m + 1] # "sample"
    <3>1. c # m + 1 /\ c # wanted' /\ c # wanted /\ batches' = batches
      BY <1>1, <1>2, <2>1, <2>3
    <3> QED BY <1>1, <2>1, <3>1 DEF Collected
  <2> QED BY <2>2, <2>3
<1>5. \A c \in 1 .. Len(calls) : calls[c] = "sample" /\ Collected(c)' =>
        /\ c <= n /\ Output(c)'
        /\ \A d \in 1 .. c - 1 : calls[d] = "sample" => Collected(d)'
  <2> SUFFICES ASSUME NEW c \in 1 .. Len(calls), calls[c] = "sample", Collected(c)'
               PROVE  /\ c <= n /\ Output(c)'
                      /\ \A d \in 1 .. c - 1 : calls[d] = "sample" => Collected(d)'
    OBVIOUS
  <2>1. /\ c <= n /\ Output(c)
        /\ \A d \in 1 .. c - 1 : calls[d] = "sample" => Collected(d)
    BY <1>1, <1>4 DEF Batches
  <2>2. \A d \in 1 .. c - 1 : d \in 1 .. Len(calls)
    BY <1>1
  <2> QED BY <1>3, <1>4, <2>1, <2>2
<1>6. /\ \A i \in 1 .. Len(batches) : batches[i] \in 1 .. m /\ calls[batches[i]] = "sample"
      /\ \A i, j \in 1 .. Len(batches) : i < j => batches[i] < batches[j]
  BY DEF Batches
<1>7. /\ \A i \in 1 .. Len(batches') : batches'[i] \in 1 .. m + 1 /\ calls[batches'[i]] = "sample"
      /\ \A i, j \in 1 .. Len(batches') : i < j => batches'[i] < batches'[j]
  <2>1. CASE calls[m + 1] = "sample"
    <3>1. /\ Len(batches') = Len(batches) + 1 /\ batches'[Len(batches) + 1] = m + 1
          /\ \A i \in 1 .. Len(batches) : batches'[i] = batches[i]
      <4>1. batches' = Append(batches, m + 1) /\ m + 1 \in Nat
        BY <1>1, <1>2, <2>1
      <4> QED BY <1>2, <4>1
    <3>2. ASSUME NEW i \in 1 .. Len(batches')
          PROVE  /\ batches'[i] \in 1 .. m + 1 /\ calls[batches'[i]] = "sample"
                 /\ i # Len(batches) + 1 => i \in 1 .. Len(batches) /\ batches'[i] \in 1 .. m
      <4>1. CASE i = Len(batches) + 1
        BY <1>2, <2>1, <3>1, <4>1
      <4>2. CASE i # Len(batches) + 1
        <5>1. i \in 1 .. Len(batches)
          BY <1>2, <3>1, <4>2
        <5>2. batches'[i] \in 1 .. m /\ calls[batches'[i]] = "sample"
          BY <1>6, <3>1, <5>1
        <5> QED BY <1>2, <4>2, <5>1, <5>2
      <4> QED BY <4>1, <4>2
    <3>3. ASSUME NEW i \in 1 .. Len(batches'), NEW j \in 1 .. Len(batches'), i < j
          PROVE  batches'[i] < batches'[j]
      <4>1. i # Len(batches) + 1
        BY <1>2, <3>1, <3>3
      <4>2. i \in 1 .. Len(batches) /\ batches'[i] \in 1 .. m
        BY <3>2, <4>1
      <4>3. CASE j = Len(batches) + 1
        BY <1>2, <3>1, <4>2, <4>3
      <4>4. CASE j # Len(batches) + 1
        <5>1. j \in 1 .. Len(batches)
          BY <3>2, <4>4
        <5> QED BY <1>6, <3>1, <3>3, <4>2, <5>1
      <4> QED BY <4>3, <4>4
    <3> QED BY <3>2, <3>3
  <2>2. CASE calls[m + 1] # "sample"
    <3>1. batches' = batches /\ \A x \in 1 .. m : x \in 1 .. m + 1
      BY <1>1, <1>2, <2>2
    <3> QED BY <1>6, <3>1
  <2> QED BY <2>1, <2>2
<1>8. ~ (wanted' # 0 /\ calls[wanted'] = "sample")
  BY <1>1, <1>2
<1> QED BY <1>1, <1>5, <1>7, <1>8 DEF Batches

LEMMA BatchesResult ==
  ASSUME Typed, NEW n, NEW m, Futures(n, m), Program(n), Batches(n, m), Result
  PROVE  Batches(n, m)'
<1>1. /\ Machine /\ UNCHANGED batches /\ wanted' = 0 /\ place = "wait" /\ place' = ResultPlace
  BY ResultIs
<1>2. wanted \in 1 .. Len(calls) /\ wanted <= n /\ Len(calls) \in Nat
  BY ProgramResult DEF Typed
<1>3. \A c : Output(c)' <=> Output(c)
  BY <1>1 DEF Output, All, Machine
<1>4. ASSUME place' # "down", NEW c \in 1 .. Len(calls), calls[c] = "sample", Collected(c)'
      PROVE  /\ c <= n /\ Output(c)
             /\ \A d \in 1 .. c - 1 : calls[d] = "sample" => Collected(d)'
  <2>1. calls[wanted] = "utility" \/ Output(wanted)
    BY <1>1, <1>4 DEF ResultPlace
  <2>2. \A d \in 1 .. Len(calls) : Collected(d) => Collected(d)'
    <3>1. place' # "future" /\ \A d \in 1 .. Len(calls) : d # 0
      BY <1>1 DEF ResultPlace
    <3> QED BY <1>1, <3>1 DEF Collected
  <2>3. \A d \in 1 .. c - 1 : d \in 1 .. Len(calls)
    BY <1>2
  <2>4. CASE c # wanted
    <3>1. Collected(c)
      BY <1>1, <1>4, <2>4 DEF Collected
    <3>2. /\ c <= n /\ Output(c)
          /\ \A d \in 1 .. c - 1 : calls[d] = "sample" => Collected(d)
      BY <1>1, <1>4, <3>1 DEF Batches
    <3> QED BY <2>2, <2>3, <3>2
  <2>5. CASE c = wanted
    <3>1. c <= n /\ Output(c)
      BY <1>2, <1>4, <2>1, <2>5
    <3>2. ASSUME NEW d \in 1 .. c - 1 PROVE Collected(d)
      <4>1. \A i \in 1 .. Len(batches) : wanted < batches[i] /\ batches[i] \in 1 .. m
        BY <1>2, <1>4, <2>5 DEF Batches
      <4>2. d < wanted /\ wanted \in Nat /\ d \in Nat
        BY <1>2, <2>5
      <4>3. \A i \in 1 .. Len(batches) : batches[i] # d
        BY <4>1, <4>2
      <4>4. DOMAIN batches = 1 .. Len(batches)
        BY DEF Typed
      <4> QED BY <1>1, <4>2, <4>3, <4>4 DEF Collected, ToSet
    <3> QED BY <2>2, <2>3, <3>1, <3>2
  <2> QED BY <2>4, <2>5
<1> QED BY <1>1, <1>3, <1>4 DEF Batches, Machine

LEMMA BatchesCollect ==
  ASSUME Typed, NEW n, NEW m, Futures(n, m), Batches(n, m), Collect
  PROVE  Batches(n, m)'
<1> DEFINE k == Len(batches)
<1>1. /\ Machine /\ place = "loop" /\ place' = "wait" /\ k \in Nat \ {0} /\ wanted' = batches[1]
      /\ Len(batches') = k - 1 /\ \A i \in 1 .. Len(batches') : batches'[i] = batches[i + 1]
  BY CollectIs
<1>2. /\ \A i \in 1 .. k : batches[i] \in 1 .. m /\ calls[batches[i]] = "sample"
      /\ \A i, j \in 1 .. k : i < j => batches[i] < batches[j]
  BY DEF Batches
<1>3. \A i \in 1 .. Len(batches') : i + 1 \in 1 .. k
  BY <1>1
<1>4. \A i \in 1 .. Len(batches') : batches'[i] \in 1 .. m /\ calls[batches'[i]] = "sample"
  BY <1>1, <1>2, <1>3
<1>5. ASSUME NEW i \in 1 .. Len(batches'), NEW j \in 1 .. Len(batches'), i < j
      PROVE  batches'[i] < batches'[j]
  <2>1. i + 1 \in 1 .. k /\ j + 1 \in 1 .. k /\ i + 1 < j + 1
    BY <1>3, <1>5
  <2> QED BY <1>1, <1>2, <2>1
<1>6. ASSUME NEW i \in 1 .. Len(batches') PROVE wanted' < batches'[i]
  <2>1. i + 1 \in 1 .. k /\ 1 < i + 1 /\ 1 \in 1 .. k
    BY <1>1, <1>3
  <2> QED BY <1>1, <1>2, <2>1
<1>7. wanted = 0
  BY <1>1 DEF Futures
<1>8. \A c \in 1 .. Len(calls) : Collected(c)' <=> Collected(c)
  <2>1. \A c : c \in ToSet(batches) <=> c \in ToSet(batches') \/ c = wanted'
    <3>0. Typed'
      BY CollectIs
    <3>1. DOMAIN batches = 1 .. k /\ DOMAIN batches' = 1 .. Len(batches')
      BY <3>0 DEF Typed
    <3>2. \A c : c \in ToSet(batches') => c \in ToSet(batches)
      BY <1>1, <1>3, <3>1 DEF ToSet
    <3>3. batches[1] \in ToSet(batches)
      BY <1>1, <3>1 DEF ToSet
    <3>4. ASSUME NEW i \in 1 .. k, i # 1 PROVE batches[i] \in ToSet(batches')
      <4>1. i - 1 \in 1 .. Len(batches') /\ (i - 1) + 1 = i
        BY <1>1, <3>4
      <4>2. batches'[i - 1] = batches[i]
        BY <1>1, <4>1
      <4> QED BY <3>1, <4>1, <4>2 DEF ToSet
    <3> QED BY <1>1, <3>1, <3>2, <3>3, <3>4 DEF ToSet
  <2> QED BY <1>1, <1>7, <2>1 DEF Collected
<1>9. \A c : Output(c)' <=> Output(c)
  BY <1>1 DEF Output, All, Machine
<1>10. \A c \in 1 .. Len(calls) : calls[c] = "sample" /\ Collected(c)' =>
         /\ c <= n /\ Output(c)'
         /\ \A d \in 1 .. c - 1 : calls[d] = "sample" => Collected(d)'
  <2> SUFFICES ASSUME NEW c \in 1 .. Len(calls), calls[c] = "sample", Collected(c)'
               PROVE  /\ c <= n /\ Output(c)'
                      /\ \A d \in 1 .. c - 1 : calls[d] = "sample" => Collected(d)'
    OBVIOUS
  <2>1. /\ c <= n /\ Output(c)
        /\ \A d \in 1 .. c - 1 : calls[d] = "sample" => Collected(d)
    BY <1>1, <1>8 DEF Batches
  <2>2. \A d \in 1 .. c - 1 : d \in 1 .. Len(calls)
    BY DEF Typed
  <2> QED BY <1>8, <1>9, <2>1, <2>2
<1> QED BY <1>1, <1>4, <1>5, <1>6, <1>10 DEF Batches, Machine
-----------------------------------------------------------------------------
(* How far the calls are ahead of their results.                           *)

LEMMA ExtraIs ==
  ASSUME Typed
  PROVE  /\ Extra \in 0 .. 2 /\ Len(calls) \in Nat /\ Len(batches) \in Nat /\ BatchQueue \in Nat
         /\ \A i \in 1 .. Len(batches) : batches[i] \in Nat
BY ExecutorAssumption DEF Typed, Extra

LEMMA AheadKept ==
  ASSUME Typed, NEW n \in Nat, NEW k \in Nat, n <= k, Ahead(n),
         UNCHANGED <<calls, place, wanted, batches>>
  PROVE  Ahead(k)'
<1>1. Extra' = Extra /\ (OneLess' <=> OneLess)
  BY DEF Extra, OneLess
<1>2. \A c, i \in Nat : Within(c, n, i) => Within(c, k, i)'
  BY <1>1, ExtraIs DEF Within
<1>3. place # "down" => \A i \in 1 .. Len(batches) : Within(batches[i], k, i)'
  BY <1>2, ExtraIs DEF Ahead
<1>4. place = "wait" /\ calls[wanted] = "sample" =>
        Within(wanted, k, 0)' /\ Len(calls) <= k + 2 * Len(batches) + 2
  <2>1. wanted \in Nat
    BY DEF Typed
  <2>2. place # "down" /\ place = "wait" /\ calls[wanted] = "sample" =>
          Within(wanted, n, 0) /\ Len(calls) <= n + 2 * Len(batches) + 2
    BY DEF Ahead
  <2> QED BY <1>2, <2>1, <2>2, ExtraIs
<1>5. place # "down" /\ ~ (place = "wait" /\ calls[wanted] = "sample") =>
        Len(calls) <= k + 2 * Len(batches) + Extra
  BY ExtraIs DEF Ahead
<1>6. /\ Len(calls) <= k + 2 * BatchQueue + 1 /\ Len(batches) <= BatchQueue
      /\ place # "down" /\ OneLess => Len(batches) < BatchQueue
  BY ExtraIs DEF Ahead
<1> QED BY <1>1, <1>3, <1>4, <1>5, <1>6 DEF Ahead

LEMMA AheadDown ==
  ASSUME NEW n, Ahead(n), UNCHANGED <<calls, batches>>, place' = "down"
  PROVE  Ahead(n)'
BY DEF Ahead

LEMMA AheadCall ==
  ASSUME Typed, NEW n \in Nat, Ahead(n), NEW kind \in Kinds, Call(kind),
         place \in {"loop", "sample"}, place = "sample" <=> kind = "sample",
         kind = "model" => Len(batches) < BatchQueue
  PROVE  Ahead(n)'
<1>1. /\ place' = "future" /\ Len(calls') = Len(calls) + 1 /\ calls'[Len(calls')] = kind
      /\ batches' = batches
  BY CallIs
<1>2. Extra' = Extra + 1 /\ (kind = "model" => Extra = 0)
  BY <1>1 DEF Extra, Kinds
<1>3. OneLess' <=> kind # "utility"
  BY <1>1 DEF OneLess
<1>4. kind # "utility" => Len(batches) < BatchQueue
  BY DEF Ahead, OneLess, Kinds
<1>5. ASSUME NEW c \in Nat, NEW i \in Nat, Within(c, n, i) PROVE Within(c, n, i)'
  <2>1. Len(calls) \in Nat /\ Len(batches) \in Nat /\ Extra \in Nat
    BY ExtraIs
  <2>2. PICK x \in Nat, y \in Nat, z \in Nat : x = Len(calls) /\ y = Len(batches) /\ z = Extra
    BY <2>1
  <2>3. x <= c + 2 * (y - i) + z \/ x <= n + 2 * (y - i) + z
    BY <1>5, <2>2 DEF Within
  <2>4. x + 1 <= c + 2 * (y - i) + (z + 1) \/ x + 1 <= n + 2 * (y - i) + (z + 1)
    BY <2>3
  <2>5. Len(calls') = x + 1 /\ Len(batches') = y /\ Extra' = z + 1
    BY <1>1, <1>2, <2>2
  <2> QED BY <2>4, <2>5 DEF Within
<1>6. \A i \in 1 .. Len(batches) : Within(batches[i], n, i)'
  <2>1. \A i \in 1 .. Len(batches) : Within(batches[i], n, i)
    BY DEF Ahead
  <2> QED BY <1>1, <1>5, <2>1, ExtraIs
<1>7. Len(calls) <= n + 2 * Len(batches) + Extra /\ Len(batches) <= BatchQueue
  BY DEF Ahead
<1>8. /\ Len(calls') <= n + 2 * Len(batches) + Extra'
      /\ Len(calls') <= n + 2 * BatchQueue + 1
  <2>1. Extra \in {0, 1} /\ (kind = "utility" => Extra = 0)
    BY DEF Extra
  <2> QED BY <1>1, <1>2, <1>4, <1>7, <2>1, ExtraIs DEF Kinds
<1> QED BY <1>1, <1>3, <1>4, <1>6, <1>7, <1>8 DEF Ahead

LEMMA AheadMake ==
  ASSUME Typed, NEW n, NEW m, Futures(n, m), Ahead(n), MakeFuture
  PROVE  Ahead(n)'
<1> DEFINE l == Len(calls)
           k == Len(batches)
<1>1. /\ place = "future" /\ l = m + 1 /\ calls' = calls
      /\ place' = IF calls[l] = "model" THEN "sample" ELSE IF calls[l] = "sample" THEN "loop"
                  ELSE "wait"
      /\ batches' = IF calls[l] = "sample" THEN Append(batches, l) ELSE batches
      /\ wanted' = IF calls[l] = "utility" THEN l ELSE wanted
  BY MakeFutureIs
<1>2. calls[l] \in Kinds /\ n \in Nat /\ l \in Nat /\ k \in Nat /\ BatchQueue \in Nat
  BY <1>1, ExtraIs DEF Futures, Typed
<1>3. /\ l <= n + 2 * BatchQueue + 1 /\ k <= BatchQueue
      /\ l <= n + 2 * k + Extra /\ (calls[l] # "utility" => k < BatchQueue)
      /\ \A i \in 1 .. k : Within(batches[i], n, i)
  BY <1>1 DEF Ahead, OneLess
<1>4. CASE calls[l] = "sample"
  <2>1. Extra = 2 /\ Extra' = 0 /\ ~ OneLess' /\ place' = "loop"
    BY <1>1, <1>4 DEF Extra, OneLess
  <2>2. batches \in Seq(Nat) /\ batches' = Append(batches, l)
    BY <1>1, <1>4 DEF Typed
  <2>3. /\ Len(batches') = k + 1 /\ batches'[k + 1] = l
        /\ \A i \in 1 .. k : batches'[i] = batches[i]
    BY <1>2, <2>2
  <2>4. \A c, i \in Nat : Within(c, n, i) => Within(c, n, i)'
    BY <1>1, <1>2, <2>1, <2>3 DEF Within
  <2>5. ASSUME NEW i \in 1 .. k + 1 PROVE Within(batches[i], n, i)'
    <3>1. CASE i = k + 1
      BY <1>1, <1>2, <2>1, <2>3, <3>1 DEF Within
    <3>2. CASE i # k + 1
      <4>1. i \in 1 .. k /\ batches[i] \in Nat /\ i \in Nat
        BY <1>2, <3>2, ExtraIs
      <4> QED BY <1>3, <2>3, <2>4, <4>1
    <3> QED BY <3>1, <3>2
  <2>6. l <= n + 2 * (k + 1) /\ k + 1 <= BatchQueue
    BY <1>2, <1>3, <1>4, <2>1
  <2> QED BY <1>1, <1>2, <1>3, <2>1, <2>3, <2>5, <2>6 DEF Ahead
<1>5. CASE calls[l] # "sample"
  <2>1. /\ batches' = batches /\ place' \in {"sample", "wait"} /\ Extra = 1 /\ Extra' = 1
        /\ (OneLess' => calls[l] # "utility")
        /\ ~ (place' = "wait" /\ calls'[wanted'] = "sample")
    BY <1>1, <1>2, <1>5 DEF Extra, OneLess, Kinds
  <2>2. \A c, i \in Nat : Within(c, n, i) => Within(c, n, i)'
    BY <1>1, <2>1 DEF Within
  <2>3. \A i \in 1 .. k : Within(batches[i], n, i)'
    BY <1>2, <1>3, <2>1, <2>2, ExtraIs
  <2> QED BY <1>1, <1>3, <2>1, <2>3 DEF Ahead
<1> QED BY <1>4, <1>5

LEMMA AheadResult ==
  ASSUME Typed, NEW n, NEW m, Futures(n, m), Program(n), Ahead(n), Result
  PROVE  Ahead(n)'
<1> DEFINE l == Len(calls)
           k == Len(batches)
<1>1. /\ calls' = calls /\ batches' = batches /\ wanted' = 0 /\ place = "wait"
      /\ place' \in {"loop", "down"} /\ wanted \in 1 .. l /\ wanted <= n
  BY ResultIs, ProgramResult DEF Machine, ResultPlace
<1>2. CASE place' = "down"
  BY <1>1, <1>2, AheadDown
<1>3. CASE place' = "loop"
  <2>1. n \in Nat /\ l \in Nat /\ k \in Nat /\ BatchQueue \in Nat
    BY ExtraIs DEF Futures
  <2>2. /\ l <= n + 2 * BatchQueue + 1 /\ k <= BatchQueue
        /\ \A i \in 1 .. k : Within(batches[i], n, i)
    BY <1>1 DEF Ahead
  <2>3. Extra' = 0 /\ ~ OneLess'
    BY <1>3 DEF Extra, OneLess
  <2>4. /\ calls[wanted] = "utility" => l <= n
        /\ calls[wanted] # "utility" => calls[wanted] = "sample"
    <3>1. wanted # 0 /\ calls[wanted] \in Kinds
      BY <1>1 DEF Typed
    <3> QED BY <1>1, <3>1 DEF Program, Kinds
  <2>5. calls[wanted] = "sample" => Extra = 0 /\ Within(wanted, n, 0)
    BY <1>1 DEF Extra, Ahead
  <2>6. l <= n + 2 * k
    BY <1>1, <2>1, <2>4, <2>5 DEF Within
  <2>7. \A i \in 1 .. k : Within(batches[i], n, i)'
    <3> SUFFICES ASSUME NEW i \in 1 .. k PROVE Within(batches[i], n, i)'
      OBVIOUS
    <3>1. Within(batches[i], n, i) /\ batches[i] \in Nat
      BY <2>2, ExtraIs
    <3> QED BY <1>1, <2>1, <2>3, <2>4, <2>5, <3>1 DEF Within
  <2> QED BY <1>1, <1>3, <2>1, <2>2, <2>3, <2>6, <2>7 DEF Ahead
<1> QED BY <1>1, <1>2, <1>3

LEMMA AheadCollect ==
  ASSUME Typed, NEW n, NEW m, Futures(n, m), Program(n), Batches(n, m), Ahead(n), Collect
  PROVE  Ahead(n)'
<1> DEFINE l == Len(calls)
           k == Len(batches)
<1>1. /\ calls' = calls /\ place = "loop" /\ place' = "wait" /\ k \in Nat \ {0}
      /\ wanted' = batches[1] /\ calls[wanted'] = "sample" /\ wanted' \in Nat
      /\ Len(batches') = k - 1 /\ \A i \in 1 .. Len(batches') : batches'[i] = batches[i + 1]
  BY CollectIs, ProgramCollect DEF Machine
<1>2. n \in Nat /\ l \in Nat /\ BatchQueue \in Nat
  BY ExtraIs DEF Futures
<1>3. Extra = 0 /\ Extra' = 0
  BY <1>1 DEF Extra
<1>4. /\ l <= n + 2 * BatchQueue + 1 /\ k <= BatchQueue /\ l <= n + 2 * k + Extra
      /\ \A i \in 1 .. k : Within(batches[i], n, i)
  BY <1>1 DEF Ahead
<1>5. \A c, i \in Nat : Within(c, n, i + 1) => Within(c, n, i)'
  BY <1>1, <1>2, <1>3 DEF Within
<1>6. \A i \in 1 .. k - 1 : Within(batches[i], n, i)'
  <2> SUFFICES ASSUME NEW i \in 1 .. k - 1 PROVE Within(batches[i], n, i)'
    OBVIOUS
  <2>1. i + 1 \in 1 .. k /\ i \in Nat
    BY <1>1
  <2>2. Within(batches[i + 1], n, i + 1) /\ batches[i + 1] \in Nat
    BY <1>4, <2>1, ExtraIs
  <2>3. batches'[i] = batches[i + 1]
    BY <1>1
  <2> QED BY <1>5, <2>1, <2>2, <2>3
<1>7. Within(wanted, n, 0)'
  <2>1. 1 \in 1 .. k /\ 0 \in Nat /\ 0 + 1 = 1
    BY <1>1
  <2>2. Within(batches[1], n, 0 + 1)
    BY <1>4, <2>1
  <2> QED BY <1>1, <1>5, <2>1, <2>2
<1>8. l <= n + 2 * (k - 1) + 2 /\ k - 1 < BatchQueue /\ k - 1 <= BatchQueue
  BY <1>1, <1>2, <1>3, <1>4
<1> QED BY <1>1, <1>3, <1>4, <1>6, <1>7, <1>8 DEF Ahead
-----------------------------------------------------------------------------
(* The replies of a rank.                                                  *)

LEMMA StreamIs ==
  ASSUME Typed, NEW r \in Ranks
  PROVE  /\ Sent(r) \in Nat /\ Kept(r) \in Nat /\ Begun(r) \in Nat /\ Len(calls) \in Nat
         /\ Through(r) \in Nat /\ Through(r) <= Begun(r) /\ Begun(r) <= Len(calls)
         /\ Begun(r) <= Through(r) + 1 /\ Begun(r) = Len(got[r])
         /\ \A i \in Unread(r) : i \in Nat /\ Stream(r, i) \in AnyReply
<1>1. /\ replies[r] \in Seq(AnyReply) /\ outbox[r] \in Seq(AnyReply)
      /\ Sent(r) \in Nat /\ Kept(r) \in Nat /\ Begun(r) \in Nat
      /\ doing[r] \in {0, Begun(r)} /\ Begun(r) <= Len(calls) /\ Len(calls) \in Nat
  BY DEF Typed, Sent, Kept, Begun
<1>2. Through(r) \in Nat /\ Through(r) <= Begun(r) /\ Begun(r) <= Through(r) + 1
  BY <1>1 DEF Through
<1>3. \A i \in Unread(r) : i \in Nat /\ Stream(r, i) \in AnyReply
  <2> SUFFICES ASSUME NEW i \in Unread(r) PROVE i \in Nat /\ Stream(r, i) \in AnyReply
    OBVIOUS
  <2>1. CASE i <= Sent(r)
    <3>1. i \in 1 .. Sent(r)
      BY <1>1, <2>1 DEF Unread
    <3>2. replies[r][i] \in AnyReply
      BY <1>1, <3>1 DEF Sent
    <3> QED BY <2>1, <3>1, <3>2 DEF Stream
  <2>2. CASE ~ (i <= Sent(r))
    <3>1. i - Sent(r) \in 1 .. Kept(r) /\ i \in Nat
      BY <1>1, <2>2 DEF Unread
    <3>2. outbox[r][i - Sent(r)] \in AnyReply
      BY <1>1, <3>1 DEF Kept
    <3> QED BY <2>2, <3>1, <3>2 DEF Stream
  <2> QED BY <2>1, <2>2
<1> QED BY <1>1, <1>2, <1>3 DEF Begun

\* Nothing happens to the replies of a rank.
SameRank(r) ==
  /\ Grown /\ Unread(r)' = Unread(r) /\ \A i \in Unread(r) : Stream(r, i)' = Stream(r, i)
  /\ Through(r)' = Through(r) /\ (r \in state' <=> r \in state)
  /\ \A q \in Ranks : Begun(q) <= Begun(q)'

LEMMA DullStays ==
  ASSUME NEW r, NEW c, SameRank(r)
  PROVE  Dull(r, c)' <=> Dull(r, c)
BY DEF Dull, SameRank

LEMMA InSequenceKept ==
  ASSUME Typed, NEW r \in Ranks, NEW b \in [Ranks -> Nat], InSequence(r, b), SameRank(r)
  PROVE  InSequence(r, b)'
<1>1. /\ Unread(r)' = Unread(r) /\ \A i \in Unread(r) : Stream(r, i)' = Stream(r, i)
      /\ Through(r)' = Through(r) /\ Len(calls) <= Len(calls')
      /\ \A c \in 1 .. Len(calls) : calls'[c] = calls[c] /\ (Answers(r, c)' <=> Answers(r, c))
  BY AnswersStay DEF SameRank, Grown
<1>2. /\ Through(r) \in Nat /\ Through(r) <= Len(calls) /\ Len(calls) \in Nat /\ b[r] \in Nat
      /\ \A i \in Unread(r) : Stream(r, i).call \in Nat
  BY StreamIs DEF AnyReply
<1>3. \A i \in Unread(r) : Stream(r, i).call \in 1 .. Len(calls)
  BY <1>2 DEF InSequence
<1>4. \A i \in Unread(r) :
        LET e == Stream(r, i)
        IN /\ b[r] < e.call /\ e.call <= Through(r) /\ Answers(r, e.call)'
           /\ calls'[e.call] = "model" => e.what \in {"none", "failed"}
           /\ e.what = "output" => calls'[e.call] = "sample"
  BY <1>1, <1>3 DEF InSequence
<1>5. \A c \in 1 .. Len(calls') : b[r] < c /\ c <= Through(r) /\ Answers(r, c)' =>
        \E i \in Unread(r) : Stream(r, i).call = c
  <2> SUFFICES ASSUME NEW c \in 1 .. Len(calls'), b[r] < c, c <= Through(r), Answers(r, c)'
               PROVE  \E i \in Unread(r) : Stream(r, i).call = c
    OBVIOUS
  <2>1. c \in 1 .. Len(calls)
    BY <1>2
  <2>2. Answers(r, c)
    BY <1>1, <2>1
  <2> QED BY <2>1, <2>2 DEF InSequence
<1>6. \A i, j \in Unread(r) : i < j => Stream(r, i).call < Stream(r, j).call
  BY DEF InSequence
<1> QED BY <1>1, <1>4, <1>5, <1>6 DEF InSequence

LEMMA WorkerKept ==
  ASSUME Typed, NEW r \in Ranks, NEW b \in [Ranks -> Nat], InSequence(r, b), Worker(r), SameRank(r),
         \A q \in Ranks : Begun(q)' \in Nat
  PROVE  Worker(r)'
<1>1. /\ Unread(r)' = Unread(r) /\ \A i \in Unread(r) : Stream(r, i)' = Stream(r, i)
      /\ Through(r)' = Through(r) /\ (r \in state' <=> r \in state)
      /\ \A c \in 1 .. Len(calls) : calls'[c] = calls[c]
      /\ \A q \in Ranks : Begun(q) <= Begun(q)'
  BY DEF SameRank, Grown
<1>2. /\ Through(r) \in Nat /\ Through(r) <= Len(calls) /\ Len(calls) \in Nat /\ b[r] \in Nat
      /\ \A i \in Unread(r) : Stream(r, i).call \in Nat
  BY StreamIs DEF AnyReply
<1>3. \A i \in Unread(r) : Stream(r, i).call \in 1 .. Len(calls)
  BY <1>2 DEF InSequence
<1>4. r \in state => Through(r) # 0 /\ calls'[Through(r)] = "model"
  <2>1. Through(r) # 0 => Through(r) \in 1 .. Len(calls)
    BY <1>2
  <2> QED BY <1>1, <2>1 DEF Worker
<1>5. \A i \in Unread(r) : Stream(r, i).what = "failed" /\ calls'[Stream(r, i).call] = "model"
                           => Dull(r, Stream(r, i).call + 1)'
  BY <1>1, <1>3, DullStays DEF Worker
<1>6. \A c \in 1 .. Through(r) : calls'[c] = "model" => \A q \in Ranks : c <= Begun(q)'
  <2> SUFFICES ASSUME NEW c \in 1 .. Through(r), calls'[c] = "model", NEW q \in Ranks
               PROVE  c <= Begun(q)'
    OBVIOUS
  <2>1. c \in 1 .. Len(calls) /\ c \in Nat /\ Begun(q) \in Nat /\ Begun(q)' \in Nat
    BY <1>2, StreamIs
  <2>2. c <= Begun(q)
    BY <1>1, <2>1 DEF Worker
  <2> QED BY <1>1, <2>1, <2>2
<1> QED BY <1>1, <1>4, <1>5, <1>6 DEF Worker

\* The oldest future has read what it had.
LEMMA RepliedIs ==
  ASSUME Typed, NEW n, NEW m, Futures(n, m), NEW i \in 1 .. Len(replied)
  PROVE  /\ n \in Nat /\ n < m /\ n + 1 \in 1 .. m /\ n + 1 \in 1 .. Len(calls)
         /\ asked[n + 1] # <<>> /\ i \in 1 .. Len(asked[n + 1])
         /\ asked[n + 1][i] \in Ranks /\ Answers(asked[n + 1][i], n + 1)
         /\ replied[i] \in AnyReply
<1>1. replied \in Seq(AnyReply) /\ Len(replied) \in Nat /\ Len(calls) \in Nat
  BY DEF Typed
<1>2. replied # <<>>
  BY <1>1
<1>3. /\ n \in Nat /\ m \in Nat /\ n < m /\ m <= Len(calls) /\ Len(replied) < Len(asked[n + 1])
  BY <1>2 DEF Futures
<1>4. n + 1 \in 1 .. m /\ n + 1 \in 1 .. Len(calls)
  BY <1>1, <1>3
<1>5. asked[n + 1] # <<>> /\ Asked(n + 1)
  <2>1. Asked(n + 1)
    BY <1>4 DEF Futures
  <2>2. asked[n + 1] # <<>>
    BY <1>1, <1>3
  <2> QED BY <2>1, <2>2
<1>6. /\ Len(asked[n + 1]) \in Nat
      /\ \A j \in 1 .. Len(asked[n + 1]) : asked[n + 1][j] \in Ranks /\ Answers(asked[n + 1][j], n + 1)
  BY <1>5, AskedIs
<1>7. i \in 1 .. Len(asked[n + 1])
  BY <1>1, <1>3, <1>6
<1> QED BY <1>1, <1>3, <1>4, <1>5, <1>6, <1>7

\* Nothing happens to the replies of any rank.
LEMMA StreamsKept ==
  ASSUME Typed, NEW n, NEW m, Futures(n, m), NEW b \in [Ranks -> Nat], Streams(n, b),
         \A r \in Ranks : SameRank(r), replied' = replied,
         replied # <<>> => asked'[n + 1] = asked[n + 1], \A q \in Ranks : Begun(q)' \in Nat
  PROVE  Streams(n, b)'
<1>1. \A r \in Ranks : InSequence(r, b)' /\ Worker(r)' /\ Through(r)' = Through(r)
  BY InSequenceKept, WorkerKept DEF Streams, SameRank
<1>2. \A i \in 1 .. Len(replied) : asked'[n + 1][i] = asked[n + 1][i]
  <2>1. \A i \in 1 .. Len(replied) : replied # <<>>
    BY DEF Typed
  <2> QED BY <2>1
<1>3. \A r \in Ranks : ReadFrom(r, n)' <=> ReadFrom(r, n)
  BY <1>2 DEF ReadFrom
<1>4. \A r \in Ranks : b[r] <= Through(r)' /\ b[r] <= n + 1 /\ (b[r] = n + 1 => ReadFrom(r, n)')
  BY <1>1, <1>3 DEF Streams
<1>5. ASSUME NEW i \in 1 .. Len(replied)
      PROVE  /\ replied[i].call = b[asked'[n + 1][i]] /\ replied[i].call # 0
             /\ calls'[replied[i].call] = "model" => replied[i].what \in {"none", "failed"}
             /\ replied[i].what = "output" => calls'[replied[i].call] = "sample"
  <2> DEFINE r == asked[n + 1][i]
             c == replied[i].call
  <2>1. r \in Ranks /\ replied[i] \in AnyReply
    BY RepliedIs
  <2>2. c = b[r] /\ c # 0 /\ b[r] <= Through(r)
    BY <2>1 DEF Streams
  <2>3. c \in 1 .. Len(calls) /\ Grown
    BY <2>1, <2>2, StreamIs DEF SameRank
  <2>4. calls'[c] = calls[c]
    BY <2>3 DEF Grown
  <2> QED BY <1>2, <2>2, <2>4 DEF Streams
<1> QED BY <1>1, <1>4, <1>5 DEF Streams
LEMMA GrownStays ==
  ASSUME UNCHANGED <<aggregated, calls>>, Typed
  PROVE  Grown
<1>1. Len(calls) \in Nat
  BY DEF Typed
<1> QED BY <1>1 DEF Grown

\* A rank that begins a call, and the ranks that look on.
LEMMA DequeueSame ==
  ASSUME Typed, NEW r \in Ranks, Dequeue(r)
  PROVE  \A q \in Ranks : SameRank(q) /\ Begun(q)' \in Nat
<1>1. /\ UNCHANGED <<aggregated, calls, asked, replied, state, outbox, replies>>
      /\ doing[r] = 0 /\ Begun(r) \in Nat /\ Begun(r)' = Begun(r) + 1
      /\ doing'[r] = Begun(r) + 1
      /\ \A q \in Ranks : q # r => Begun(q)' = Begun(q) /\ doing'[q] = doing[q]
  BY DequeueIs DEF Driver, driver, Begun
<1>2. Grown
  BY <1>1, GrownStays
<1>3. ASSUME NEW q \in Ranks
      PROVE  Through(q)' = Through(q) /\ Begun(q) <= Begun(q)' /\ Begun(q)' \in Nat
  <2>1. CASE q = r
    BY <1>1, <2>1 DEF Through
  <2>2. CASE q # r
    BY <1>1, <2>2, StreamIs DEF Through
  <2> QED BY <2>1, <2>2
<1>4. ASSUME NEW q \in Ranks PROVE SameRank(q)
  <2>1. Unread(q)' = Unread(q) /\ \A i \in Unread(q) : Stream(q, i)' = Stream(q, i)
    BY <1>1 DEF Unread, Stream, Sent, Kept
  <2> QED BY <1>1, <1>2, <1>3, <2>1 DEF SameRank
<1> QED BY <1>3, <1>4

\* The output thread: a reply changes from one queue to the other.
LEMMA EnqueueSame ==
  ASSUME Typed, NEW r \in Ranks, EnqueueOutput(r)
  PROVE  \A q \in Ranks : SameRank(q) /\ Begun(q)' \in Nat
<1> DEFINE o == Kept(r)
           p == Sent(r)
<1>1. /\ UNCHANGED <<aggregated, calls, asked, replied, got, doing, state>>
      /\ o \in Nat \ {0} /\ p \in Nat
      /\ Kept(r)' = o - 1 /\ Sent(r)' = p + 1
      /\ \A i \in 1 .. o - 1 : outbox'[r][i] = outbox[r][i + 1]
      /\ \A i \in 1 .. p : replies'[r][i] = replies[r][i]
      /\ replies'[r][p + 1] = outbox[r][1]
      /\ \A q \in Ranks : q # r => outbox'[q] = outbox[q] /\ replies'[q] = replies[q]
  BY EnqueueIs DEF Driver, driver, Sent, Kept
<1>2. Grown
  BY <1>1, GrownStays
<1>3. \A q \in Ranks : Through(q)' = Through(q) /\ Begun(q) <= Begun(q)' /\ Begun(q)' \in Nat
  BY <1>1, StreamIs DEF Through, Begun
<1>4. /\ Unread(r)' = Unread(r) /\ Unread(r) = 1 .. p + o
      /\ \A i \in Unread(r) : Stream(r, i)' = Stream(r, i)
  <2>1. Unread(r)' = 1 .. (p + 1) + (o - 1) /\ Unread(r) = 1 .. p + o
    BY <1>1 DEF Unread
  <2>2. (p + 1) + (o - 1) = p + o
    BY <1>1
  <2>3. ASSUME NEW i \in 1 .. p + o PROVE Stream(r, i)' = Stream(r, i)
    <3>1. CASE i \in 1 .. p
      <4>1. i <= p /\ i <= p + 1
        BY <1>1, <3>1
      <4> QED BY <1>1, <3>1, <4>1 DEF Stream
    <3>2. CASE i = p + 1
      <4>1. i <= p + 1 /\ ~ (i <= p) /\ i - p = 1
        BY <1>1, <3>2
      <4> QED BY <1>1, <3>2, <4>1 DEF Stream
    <3>3. CASE i \notin 1 .. p /\ i # p + 1
      <4>1. /\ ~ (i <= p) /\ ~ (i <= p + 1) /\ i - (p + 1) \in 1 .. o - 1
            /\ (i - (p + 1)) + 1 = i - p
        BY <1>1, <3>3
      <4> QED BY <1>1, <4>1 DEF Stream
    <3> QED BY <3>1, <3>2, <3>3
  <2> QED BY <2>1, <2>2, <2>3
<1>5. ASSUME NEW q \in Ranks PROVE SameRank(q)
  <2>1. Unread(q)' = Unread(q) /\ \A i \in Unread(q) : Stream(q, i)' = Stream(q, i)
    <3>1. CASE q = r
      BY <1>4, <3>1
    <3>2. CASE q # r
      BY <1>1, <3>2 DEF Unread, Stream, Sent, Kept
    <3> QED BY <3>1, <3>2
  <2> QED BY <1>1, <1>2, <1>3, <2>1 DEF SameRank
<1> QED BY <1>3, <1>5

\* The end of a call: its reply comes last, if the rank has to answer.
Ended(r, c, what, w) ==
  /\ Through(r) = c - 1 /\ Through(r)' = c /\ c \in 1 .. Len(calls)
  /\ Unread(r) = 1 .. w
  /\ \A i \in 1 .. w : Stream(r, i)' = Stream(r, i)
  /\ IF Answers(r, c)
     THEN Unread(r)' = 1 .. w + 1 /\ Stream(r, w + 1)' = [call |-> c, what |-> what]
     ELSE Unread(r)' = 1 .. w

LEMMA FinishEnds ==
  ASSUME Typed, NEW r \in Ranks, NEW c, NEW what, Finishes(r, c, what)
  PROVE  \E w \in Nat : Ended(r, c, what, w)
<1>0. PICK o \in Nat, p \in Nat : o = Kept(r) /\ p = Sent(r)
  BY StreamIs
<1> DEFINE w == p + o
<1>1. /\ c # 0 /\ c = doing[r] /\ c = Begun(r) /\ c \in 1 .. Len(calls)
      /\ ~ Answers(r, c) => outbox'[r] = outbox[r] /\ Kept(r)' = o
      /\ Answers(r, c) => /\ Kept(r)' = o + 1
                          /\ outbox'[r][o + 1] = [call |-> c, what |-> what]
                          /\ \A i \in 1 .. o : outbox'[r][i] = outbox[r][i]
      /\ doing' = [doing EXCEPT ![r] = 0] /\ Begun(r)' = Begun(r) /\ replies' = replies
      /\ Sent(r)' = p
  BY <1>0 DEF Finishes, Begun, Sent, Kept
<1>2. Through(r) = c - 1 /\ Through(r)' = c
  <2>1. doing'[r] = 0
    BY <1>1 DEF Typed
  <2> QED BY <1>1, <2>1 DEF Through
<1>3. Unread(r) = 1 .. w
  BY <1>0 DEF Unread
<1>4. ASSUME NEW i \in 1 .. w PROVE Stream(r, i)' = Stream(r, i)
  <2>1. CASE i <= p
    BY <1>0, <1>1, <2>1 DEF Stream
  <2>2. CASE ~ (i <= p)
    <3>1. i - p \in 1 .. o
      BY <1>0, <2>2
    <3>2. outbox'[r][i - p] = outbox[r][i - p]
      BY <1>1, <3>1
    <3> QED BY <1>0, <1>1, <2>2, <3>2 DEF Stream
  <2> QED BY <2>1, <2>2
<1>5. CASE Answers(r, c)
  <2>1. Unread(r)' = 1 .. w + 1
    <3>1. Unread(r)' = 1 .. p + (o + 1) /\ p + (o + 1) = w + 1
      BY <1>0, <1>1, <1>5 DEF Unread
    <3> QED BY <3>1
  <2>2. ~ (w + 1 <= p) /\ (w + 1) - p = o + 1
    BY <1>0
  <2>3. Stream(r, w + 1)' = [call |-> c, what |-> what]
    BY <1>1, <1>5, <2>2 DEF Stream
  <2> QED BY <1>0, <1>1, <1>2, <1>3, <1>4, <1>5, <2>1, <2>3 DEF Ended
<1>6. CASE ~ Answers(r, c)
  <2>1. Unread(r)' = 1 .. w
    BY <1>0, <1>1, <1>6 DEF Unread
  <2> QED BY <1>0, <1>1, <1>2, <1>3, <1>4, <1>6, <2>1 DEF Ended
<1> QED BY <1>5, <1>6

LEMMA InSequenceFinish ==
  ASSUME Typed, NEW r \in Ranks, NEW b \in [Ranks -> Nat], InSequence(r, b), b[r] <= Through(r),
         NEW c, NEW what, Finishes(r, c, what)
  PROVE  InSequence(r, b)'
<1>0. PICK w \in Nat : Ended(r, c, what, w)
  BY FinishEnds
<1> DEFINE e == [call |-> c, what |-> what]
<1>1. /\ Through(r) = c - 1 /\ Through(r)' = c /\ c \in 1 .. Len(calls)
      /\ Unread(r) = 1 .. w
      /\ \A i \in 1 .. w : Stream(r, i)' = Stream(r, i)
      /\ IF Answers(r, c)
         THEN Unread(r)' = 1 .. w + 1 /\ Stream(r, w + 1)' = e
         ELSE Unread(r)' = 1 .. w
  BY <1>0 DEF Ended
<1>2. /\ calls[c] = "model" => what \in {"none", "failed"}
      /\ what = "output" => calls[c] = "sample"
      /\ UNCHANGED <<aggregated, calls>>
      /\ \A d : Answers(r, d)' <=> Answers(r, d)
  BY DEF Finishes, Driver, Answers, All
<1>3. /\ b[r] \in Nat /\ Through(r) \in Nat
      /\ \A i \in 1 .. w : Stream(r, i).call \in Nat
  BY <1>1, StreamIs DEF AnyReply
<1>4. \A i \in 1 .. w : Stream(r, i).call < c /\ Stream(r, i).call <= c
  <2>1. \A i \in 1 .. w : Stream(r, i).call <= c - 1
    BY <1>1 DEF InSequence
  <2> QED BY <1>1, <1>3, <2>1
<1>5. \A i \in 1 .. w : /\ b[r] < Stream(r, i).call /\ Answers(r, Stream(r, i).call)
                        /\ calls[Stream(r, i).call] = "model" => Stream(r, i).what \in {"none", "failed"}
                        /\ Stream(r, i).what = "output" => calls[Stream(r, i).call] = "sample"
  BY <1>1 DEF InSequence
<1>6. ASSUME NEW i \in Unread(r)', i \notin 1 .. w
      PROVE  i = w + 1 /\ Stream(r, i)' = e /\ Answers(r, c)
  <2>1. Answers(r, c)
    BY <1>1, <1>6
  <2>2. i = w + 1
    BY <1>1, <1>6, <2>1
  <2> QED BY <1>1, <2>1, <2>2
<1>7. ASSUME NEW i \in Unread(r)'
      PROVE  /\ b[r] < Stream(r, i)'.call /\ Stream(r, i)'.call <= c
             /\ Answers(r, Stream(r, i)'.call)
             /\ calls[Stream(r, i)'.call] = "model" => Stream(r, i)'.what \in {"none", "failed"}
             /\ Stream(r, i)'.what = "output" => calls[Stream(r, i)'.call] = "sample"
  <2>1. CASE i \in 1 .. w
    BY <1>1, <1>4, <1>5, <2>1
  <2>2. CASE i \notin 1 .. w
    <3>1. Stream(r, i)'.call = c /\ Stream(r, i)'.what = what /\ Answers(r, c)
      BY <1>6, <2>2
    <3> QED BY <1>1, <1>2, <1>3, <3>1
  <2> QED BY <2>1, <2>2
<1>8. ASSUME NEW i \in Unread(r)', NEW j \in Unread(r)', i < j
      PROVE  Stream(r, i)'.call < Stream(r, j)'.call
  <2>1. CASE j \in 1 .. w
    <3>1. i \in 1 .. w
      BY <1>1, <1>6, <1>8, <2>1
    <3>2. Stream(r, i).call < Stream(r, j).call
      BY <1>1, <1>8, <2>1, <3>1 DEF InSequence
    <3> QED BY <1>1, <2>1, <3>1, <3>2
  <2>2. CASE j \notin 1 .. w
    <3>1. j = w + 1 /\ Stream(r, j)'.call = c
      BY <1>6, <2>2
    <3>2. i \in 1 .. w
      BY <1>1, <1>6, <1>8, <3>1
    <3> QED BY <1>1, <1>4, <3>1, <3>2
  <2> QED BY <2>1, <2>2
<1>9. ASSUME NEW d \in 1 .. Len(calls), b[r] < d, d <= c, Answers(r, d)
      PROVE  \E i \in Unread(r)' : Stream(r, i)'.call = d
  <2>1. CASE d = c
    <3>1. w + 1 \in Unread(r)' /\ Stream(r, w + 1)'.call = c
      BY <1>1, <1>9, <2>1
    <3> QED BY <2>1, <3>1
  <2>2. CASE d # c
    <3>1. d <= Through(r)
      BY <1>1, <1>9, <2>2
    <3>2. PICK i \in 1 .. w : Stream(r, i).call = d
      BY <1>1, <1>9, <3>1 DEF InSequence
    <3>3. i \in Unread(r)'
      BY <1>1
    <3> QED BY <1>1, <3>2, <3>3
  <2> QED BY <2>1, <2>2
<1> QED BY <1>1, <1>2, <1>7, <1>8, <1>9 DEF InSequence
\* A call that can have no output still has none when it ends.
LEMMA DullFinish ==
  ASSUME Typed, NEW r \in Ranks, NEW b \in [Ranks -> Nat], InSequence(r, b),
         NEW c, NEW what, Finishes(r, c, what), NEW d \in Nat, d <= c, Dull(r, d)
  PROVE  Dull(r, d)'
<1>0. PICK w \in Nat : Ended(r, c, what, w)
  BY FinishEnds
<1>1. /\ Through(r) = c - 1 /\ Through(r)' = c /\ c \in 1 .. Len(calls)
      /\ Unread(r) = 1 .. w
      /\ \A i \in 1 .. w : Stream(r, i)' = Stream(r, i)
      /\ IF Answers(r, c)
         THEN Unread(r)' = 1 .. w + 1 /\ Stream(r, w + 1)' = [call |-> c, what |-> what]
         ELSE Unread(r)' = 1 .. w
  BY <1>0 DEF Ended
<1>2. what = "output" => r \in state
  BY DEF Finishes
<1>3. \A i \in 1 .. w : Stream(r, i).call \in Nat /\ Stream(r, i).call <= c - 1
  <2>1. \A i \in 1 .. w : Stream(r, i).call <= c - 1
    BY <1>1 DEF InSequence
  <2>2. \A i \in 1 .. w : Stream(r, i) \in AnyReply
    BY <1>1, StreamIs
  <2> QED BY <2>1, <2>2 DEF AnyReply
<1>4. ASSUME NEW j \in Unread(r)', Stream(r, j)'.call = d, Stream(r, j)'.what = "output" PROVE FALSE
  <2>1. CASE j \in 1 .. w
    <3>1. Stream(r, j)' = Stream(r, j) /\ d <= Through(r)
      BY <1>1, <1>3, <1>4, <2>1
    <3> QED BY <1>1, <1>4, <2>1, <3>1 DEF Dull
  <2>2. CASE j \notin 1 .. w
    <3>1. j = w + 1 /\ Stream(r, w + 1)' = [call |-> c, what |-> what]
      BY <1>1, <2>2
    <3>2. d = c /\ what = "output"
      BY <1>4, <3>1
    <3>3. r \in state /\ ~ (d <= Through(r))
      BY <1>1, <1>2, <3>2
    <3> QED BY <3>3 DEF Dull
  <2> QED BY <2>1, <2>2
<1> QED BY <1>1, <1>4 DEF Dull

LEMMA WorkerFinish ==
  ASSUME Typed, NEW n, Program(n), NEW r \in Ranks, NEW b \in [Ranks -> Nat], InSequence(r, b),
         Worker(r), NEW c, NEW what, Finishes(r, c, what)
  PROVE  Worker(r)'
<1>0. PICK w \in Nat : Ended(r, c, what, w)
  BY FinishEnds
<1>1. /\ Through(r) = c - 1 /\ Through(r)' = c /\ c \in 1 .. Len(calls)
      /\ Unread(r) = 1 .. w
      /\ \A i \in 1 .. w : Stream(r, i)' = Stream(r, i)
      /\ IF Answers(r, c)
         THEN Unread(r)' = 1 .. w + 1 /\ Stream(r, w + 1)' = [call |-> c, what |-> what]
         ELSE Unread(r)' = 1 .. w
  BY <1>0 DEF Ended
<1>2. /\ Together(c) /\ calls' = calls /\ got' = got
      /\ calls[c] = "model" => what \in {"none", "failed"}
      /\ what = "output" => calls[c] = "sample" /\ r \in state
      /\ state' = IF calls[c] = "model" /\ what # "failed" THEN state \cup {r}
                  ELSE IF calls[c] = "sample" THEN state \ {r} ELSE state
  BY DEF Finishes, Driver
<1>3. \A i \in 1 .. w : Stream(r, i).call \in Nat /\ Stream(r, i).call <= c - 1
  <2>1. \A i \in 1 .. w : Stream(r, i).call <= c - 1
    BY <1>1 DEF InSequence
  <2>2. \A i \in 1 .. w : Stream(r, i) \in AnyReply
    BY <1>1, StreamIs
  <2> QED BY <2>1, <2>2 DEF AnyReply
<1>4. ASSUME NEW i \in Unread(r)', i \notin 1 .. w
      PROVE  Stream(r, i)'.call = c /\ Stream(r, i)'.what = what
  <2>1. i = w + 1 /\ Stream(r, w + 1)' = [call |-> c, what |-> what]
    BY <1>1, <1>4
  <2> QED BY <2>1
<1>5. r \in state => calls[c] = "sample"
  <2> SUFFICES ASSUME r \in state PROVE calls[c] = "sample"
    OBVIOUS
  <2>1. c - 1 # 0 /\ calls[c - 1] = "model"
    BY <1>1 DEF Worker
  <2>2. c - 1 \in 1 .. Len(calls) /\ c - 1 < Len(calls) /\ (c - 1) + 1 = c
    <3>1. Len(calls) \in Nat
      BY DEF Typed
    <3> QED BY <1>1, <2>1, <3>1
  <2> QED BY <2>1, <2>2 DEF Program
<1>6. r \in state' => c # 0 /\ calls[c] = "model"
  BY <1>1, <1>2, <1>5
<1>7. ASSUME NEW i \in Unread(r)', Stream(r, i)'.what = "failed", calls[Stream(r, i)'.call] = "model"
      PROVE  Dull(r, Stream(r, i).call + 1)'
  <2>1. CASE i \notin 1 .. w
    <3>1. Stream(r, i)'.call = c /\ what = "failed" /\ calls[c] = "model"
      BY <1>4, <1>7, <2>1
    <3>2. r \notin state' /\ ~ (c + 1 <= c)
      BY <1>1, <1>2, <1>5, <3>1
    <3> QED BY <1>1, <3>1, <3>2 DEF Dull
  <2>2. CASE i \in 1 .. w
    <3>1. Stream(r, i)' = Stream(r, i)
      BY <1>1, <2>2
    <3>2. PICK d : d = Stream(r, i).call + 1
      OBVIOUS
    <3>3. d \in Nat /\ d <= c
      BY <1>1, <1>3, <2>2, <3>2
    <3>4. Dull(r, d)
      BY <1>1, <1>7, <2>2, <3>1, <3>2 DEF Worker
    <3>5. Dull(r, d)'
      BY <3>3, <3>4, DullFinish
    <3> QED BY <3>1, <3>2, <3>5
  <2> QED BY <2>1, <2>2
<1>8. ASSUME NEW d \in 1 .. c, calls[d] = "model", NEW q \in Ranks PROVE d <= Begun(q)
  <2>1. CASE d = c
    BY <1>2, <1>8, <2>1 DEF Together, Begun
  <2>2. CASE d # c
    <3>1. d \in 1 .. Through(r)
      BY <1>1, <2>2
    <3> QED BY <1>8, <3>1 DEF Worker
  <2> QED BY <2>1, <2>2
<1>9. \A q \in Ranks : Begun(q)' = Begun(q)
  BY <1>2 DEF Begun
<1> QED BY <1>1, <1>2, <1>6, <1>7, <1>8, <1>9 DEF Worker

LEMMA StreamsFinish ==
  ASSUME Typed, NEW n, NEW m, Futures(n, m), Program(n), NEW b \in [Ranks -> Nat], Streams(n, b),
         NEW r \in Ranks, NEW c, NEW what, Finishes(r, c, what)
  PROVE  Streams(n, b)'
<1>1. /\ UNCHANGED <<aggregated, calls, asked, replied, got, replies>>
      /\ doing' = [doing EXCEPT ![r] = 0]
      /\ \A q \in Ranks : q # r => outbox'[q] = outbox[q] /\ (q \in state' <=> q \in state)
  BY DEF Finishes, Driver, driver
<1>2. Grown
  BY <1>1, GrownStays
<1>3. \A q \in Ranks : Begun(q)' = Begun(q) /\ Begun(q) \in Nat /\ Begun(q) <= Begun(q)'
  BY <1>1, StreamIs DEF Begun
<1>4. ASSUME NEW q \in Ranks
      PROVE  InSequence(q, b)' /\ Worker(q)' /\ b[q] <= Through(q)'
  <2>1. InSequence(q, b) /\ Worker(q) /\ b[q] <= Through(q)
    BY DEF Streams
  <2>2. CASE q = r
    <3>1. InSequence(r, b)'
      BY <2>1, <2>2, InSequenceFinish
    <3>2. Worker(r)'
      BY <2>1, <2>2, WorkerFinish
    <3>3. PICK w \in Nat : Ended(r, c, what, w)
      BY FinishEnds
    <3>4. b[r] <= Through(r)'
      <4>1. Through(r) = c - 1 /\ Through(r)' = c /\ c \in 1 .. Len(calls) /\ b[r] \in Nat
        BY <3>3 DEF Ended
      <4> QED BY <2>1, <2>2, <4>1
    <3> QED BY <2>2, <3>1, <3>2, <3>4
  <2>3. CASE q # r
    <3>1. Unread(q)' = Unread(q) /\ \A i \in Unread(q) : Stream(q, i)' = Stream(q, i)
      BY <1>1, <2>3 DEF Unread, Stream, Sent, Kept
    <3>2. doing'[q] = doing[q]
      BY <1>1, <2>3 DEF Typed
    <3>3. Through(q)' = Through(q)
      BY <1>3, <3>2 DEF Through
    <3>4. SameRank(q)
      BY <1>1, <1>2, <1>3, <2>3, <3>1, <3>3 DEF SameRank
    <3>5. InSequence(q, b)'
      BY <2>1, <3>4, InSequenceKept
    <3>6. Worker(q)'
      BY <1>3, <2>1, <3>4, WorkerKept
    <3> QED BY <2>1, <3>3, <3>5, <3>6
  <2> QED BY <2>2, <2>3
<1>5. \A q : ReadFrom(q, n)' <=> ReadFrom(q, n)
  BY <1>1 DEF ReadFrom
<1> QED BY <1>1, <1>4, <1>5 DEF Streams
\* The first reply of rank r is gone.
Shifted(r, e) ==
  /\ 1 \in Unread(r) /\ Stream(r, 1) = e
  /\ \A i \in Unread(r)' : i \in Nat /\ i + 1 \in Unread(r) /\ Stream(r, i)' = Stream(r, i + 1)
  /\ \A i \in Unread(r) : i # 1 => i \in Nat /\ i - 1 \in Unread(r)' /\ (i - 1) + 1 = i
  /\ Through(r)' = Through(r)

LEMMA ReadShifts ==
  ASSUME Typed, NEW n, NEW m, NEW r, NEW e, NEW rs, Reads(n, m, r, e, rs)
  PROVE  /\ Shifted(r, e) /\ r \in Ranks /\ e \in AnyReply
         /\ \A q \in Ranks : q # r => SameRank(q)
         /\ \A q \in Ranks : Begun(q)' = Begun(q) /\ Begun(q) \in Nat
<1>1. /\ r \in Ranks /\ replies[r] # <<>> /\ e = replies[r][1] /\ e \in AnyReply
      /\ replies' = [replies EXCEPT ![r] = Tail(replies[r])]
      /\ UNCHANGED <<aggregated, calls, got, doing, state, outbox>>
  BY DEF Reads
<1>2. replies \in [Ranks -> Seq(AnyReply)] /\ replies[r] \in Seq(AnyReply)
  BY <1>1 DEF Typed
<1>3. PICK p \in Nat, o \in Nat : p = Sent(r) /\ o = Kept(r)
  BY <1>1, StreamIs
<1>4. /\ p # 0 /\ Sent(r)' = p - 1 /\ Kept(r)' = o
      /\ \A i \in 1 .. p - 1 : replies'[r][i] = replies[r][i + 1]
      /\ \A q \in Ranks : q # r => replies'[q] = replies[q]
  <2>1. replies'[r] = Tail(replies[r]) /\ \A q \in Ranks : q # r => replies'[q] = replies[q]
    BY <1>1, <1>2
  <2>2. /\ Len(replies[r]) # 0 /\ Len(Tail(replies[r])) = Len(replies[r]) - 1
        /\ \A i \in 1 .. Len(Tail(replies[r])) : Tail(replies[r])[i] = replies[r][i + 1]
    BY <1>1, <1>2, HeadTailProperties
  <2>3. Len(replies[r]) = p /\ Sent(r)' = Len(replies'[r]) /\ Kept(r)' = Kept(r)
    BY <1>1, <1>3 DEF Sent, Kept
  <2> QED BY <1>3, <2>1, <2>2, <2>3
<1>5. Unread(r) = 1 .. p + o /\ Unread(r)' = 1 .. (p - 1) + o
  BY <1>3, <1>4 DEF Unread
<1>6. Through(r)' = Through(r) /\ \A q \in Ranks : Begun(q)' = Begun(q) /\ Begun(q) \in Nat
  BY <1>1, StreamIs DEF Through, Begun
<1>7. 1 \in Unread(r) /\ Stream(r, 1) = e
  <2>1. 1 <= p
    BY <1>4
  <2> QED BY <1>1, <1>3, <1>5, <2>1 DEF Stream
<1>8. ASSUME NEW i \in 1 .. (p - 1) + o
      PROVE  i \in Nat /\ i + 1 \in 1 .. p + o /\ Stream(r, i)' = Stream(r, i + 1)
  <2>1. i \in Nat /\ i + 1 \in 1 .. p + o
    BY <1>4
  <2>2. CASE i <= p - 1
    <3>1. i + 1 <= p /\ i \in 1 .. p - 1
      BY <1>4, <2>1, <2>2
    <3> QED BY <1>3, <1>4, <2>1, <2>2, <3>1 DEF Stream
  <2>3. CASE ~ (i <= p - 1)
    <3>1. ~ (i + 1 <= p) /\ i - (p - 1) = (i + 1) - p
      BY <1>4, <2>1, <2>3
    <3> QED BY <1>1, <1>3, <1>4, <2>1, <2>3, <3>1 DEF Stream
  <2> QED BY <2>1, <2>2, <2>3
<1>9. \A i \in 1 .. p + o : i # 1 => i \in Nat /\ i - 1 \in 1 .. (p - 1) + o /\ (i - 1) + 1 = i
  BY <1>4
<1>10. Grown
  BY <1>1, GrownStays
<1>11. ASSUME NEW q \in Ranks, q # r PROVE SameRank(q)
  <2>1. Unread(q)' = Unread(q) /\ \A i \in Unread(q) : Stream(q, i)' = Stream(q, i)
    BY <1>1, <1>4, <1>11 DEF Unread, Stream, Sent, Kept
  <2>2. Through(q)' = Through(q) /\ \A x \in Ranks : Begun(x) <= Begun(x)'
    BY <1>1, <1>6 DEF Through
  <2> QED BY <1>1, <1>10, <2>1, <2>2 DEF SameRank
<1> QED BY <1>1, <1>5, <1>6, <1>7, <1>8, <1>9, <1>11 DEF Shifted

\* The rank's replies up to this one have been read.
Onward(b, r, e) == [b EXCEPT ![r] = e.call]

LEMMA InSequenceRead ==
  ASSUME Typed, NEW r \in Ranks, NEW b \in [Ranks -> Nat], InSequence(r, b), NEW e \in AnyReply,
         Shifted(r, e), UNCHANGED <<aggregated, calls>>
  PROVE  InSequence(r, Onward(b, r, e))' /\ b[r] < e.call /\ e.call <= Through(r)
<1>1. /\ 1 \in Unread(r) /\ Stream(r, 1) = e
      /\ \A i \in Unread(r)' : i \in Nat /\ i + 1 \in Unread(r) /\ Stream(r, i)' = Stream(r, i + 1)
      /\ \A i \in Unread(r) : i # 1 => i \in Nat /\ i - 1 \in Unread(r)' /\ (i - 1) + 1 = i
      /\ Through(r)' = Through(r)
  BY DEF Shifted
<1>2. PICK c \in Nat : c = e.call
  BY DEF AnyReply
<1>3. Onward(b, r, e)[r] = c
  BY <1>2 DEF Onward
<1>4. \A d : Answers(r, d)' <=> Answers(r, d)
  BY DEF Answers, All
<1>5. b[r] < c /\ c <= Through(r)
  BY <1>1, <1>2 DEF InSequence
<1>6. ASSUME NEW i \in Unread(r)', NEW j \in Unread(r)', i < j
      PROVE  Stream(r, i)'.call < Stream(r, j)'.call
  <2>1. i + 1 \in Unread(r) /\ j + 1 \in Unread(r) /\ i + 1 < j + 1
    BY <1>1, <1>6
  <2> QED BY <1>1, <2>1 DEF InSequence
<1>7. ASSUME NEW i \in Unread(r)'
      PROVE  LET x == Stream(r, i)'
             IN /\ c < x.call /\ x.call <= Through(r) /\ Answers(r, x.call)
                /\ calls[x.call] = "model" => x.what \in {"none", "failed"}
                /\ x.what = "output" => calls[x.call] = "sample"
  <2>1. i + 1 \in Unread(r) /\ Stream(r, i)' = Stream(r, i + 1) /\ 1 < i + 1
    <3>1. i \in Nat /\ i # 0
      BY <1>1 DEF Unread
    <3> QED BY <1>1, <3>1
  <2>2. Stream(r, 1).call < Stream(r, i + 1).call
    BY <1>1, <2>1 DEF InSequence
  <2> QED BY <1>1, <1>2, <2>1, <2>2 DEF InSequence
<1>8. ASSUME NEW d \in 1 .. Len(calls), c < d, d <= Through(r), Answers(r, d)
      PROVE  \E i \in Unread(r)' : Stream(r, i)'.call = d
  <2>1. b[r] < d /\ b[r] \in Nat /\ d \in Nat
    BY <1>5, <1>8
  <2>2. PICK i \in Unread(r) : Stream(r, i).call = d
    BY <1>8, <2>1 DEF InSequence
  <2>3. i # 1
    BY <1>1, <1>2, <1>8, <2>1, <2>2
  <2>4. i - 1 \in Unread(r)' /\ Stream(r, i - 1)' = Stream(r, i)
    BY <1>1, <2>3
  <2> QED BY <2>2, <2>4
<1> QED BY <1>1, <1>2, <1>3, <1>4, <1>5, <1>6, <1>7, <1>8 DEF InSequence

LEMMA WorkerRead ==
  ASSUME Typed, NEW r \in Ranks, Worker(r), NEW e, Shifted(r, e), UNCHANGED <<calls, got, state>>
  PROVE  Worker(r)'
<1>1. /\ \A i \in Unread(r)' : i \in Nat /\ i + 1 \in Unread(r) /\ Stream(r, i)' = Stream(r, i + 1)
      /\ Through(r)' = Through(r)
  BY DEF Shifted
<1>2. \A c : Dull(r, c) => Dull(r, c)'
  BY <1>1 DEF Dull
<1>3. ASSUME NEW i \in Unread(r)', Stream(r, i)'.what = "failed", calls[Stream(r, i)'.call] = "model"
      PROVE  Dull(r, Stream(r, i).call + 1)'
  <2>1. i + 1 \in Unread(r) /\ Stream(r, i)' = Stream(r, i + 1)
    BY <1>1
  <2>2. PICK c : c = Stream(r, i + 1).call + 1
    OBVIOUS
  <2>3. Dull(r, c)
    BY <1>3, <2>1, <2>2 DEF Worker
  <2>4. Dull(r, c)'
    BY <1>2, <2>3
  <2> QED BY <2>1, <2>2, <2>4
<1>4. \A q \in Ranks : Begun(q)' = Begun(q)
  BY DEF Begun
<1> QED BY <1>1, <1>3, <1>4 DEF Worker
\* The reply that is read is that to the next call which the rank answers.
NextReply(n, r, e, b) ==
  /\ e.call \in 1 .. Len(calls) /\ e.call <= n + 1 /\ e.call <= Through(r)
  /\ b[r] < e.call /\ b[r] < n + 1
  /\ Answers(r, e.call) /\ Answers(r, n + 1)
  /\ \A c \in 1 .. Len(calls) : b[r] < c /\ c < e.call => ~ Answers(r, c)
  /\ calls[e.call] = "model" => e.what \in {"none", "failed"}
  /\ e.what = "output" => calls[e.call] = "sample"

LEMMA ReadsNext ==
  ASSUME Typed, NEW n, NEW m, Futures(n, m), NEW b \in [Ranks -> Nat], Streams(n, b),
         NEW r, NEW e, NEW rs, Reads(n, m, r, e, rs)
  PROVE  NextReply(n, r, e, b)
<1>1. /\ r \in Ranks /\ e \in AnyReply /\ 1 \in Unread(r) /\ Stream(r, 1) = e
  BY ReadShifts DEF Shifted
<1>2. /\ ~ ReadFrom(r, n) /\ asked[n + 1] # <<>> /\ n + 1 \in 1 .. Len(calls) /\ n < m
      /\ Len(replied) + 1 \in 1 .. Len(asked[n + 1]) /\ asked[n + 1][Len(replied) + 1] = r
  BY DEF Reads
<1>3. n \in Nat /\ m \in Nat /\ b[r] \in Nat /\ Through(r) \in Nat /\ Through(r) <= Len(calls)
      /\ Len(calls) \in Nat /\ e.call \in Nat
  BY <1>1, StreamIs DEF Futures, AnyReply
<1>4. Answers(r, n + 1)
  <2>1. n + 1 \in 1 .. m
    BY <1>2, <1>3
  <2>2. Asked(n + 1)
    BY <2>1 DEF Futures
  <2> QED BY <1>2, <2>2, AskedIs
<1>5. b[r] <= n + 1 /\ b[r] # n + 1
  BY <1>1, <1>2 DEF Streams
<1>6. InSequence(r, b)
  BY <1>1 DEF Streams
<1>7. /\ b[r] < e.call /\ e.call <= Through(r) /\ Answers(r, e.call)
      /\ calls[e.call] = "model" => e.what \in {"none", "failed"}
      /\ e.what = "output" => calls[e.call] = "sample"
  BY <1>1, <1>6 DEF InSequence
<1>8. ASSUME NEW c \in 1 .. Len(calls), b[r] < c, c < e.call, Answers(r, c) PROVE FALSE
  <2>1. c <= Through(r)
    BY <1>3, <1>7, <1>8
  <2>2. PICK i \in Unread(r) : Stream(r, i).call = c
    BY <1>6, <1>8, <2>1 DEF InSequence
  <2>3. i # 1 /\ i \in Nat /\ i # 0
    <3>1. i # 1
      BY <1>1, <1>3, <1>8, <2>2
    <3> QED BY <1>1, <3>1, StreamIs DEF Unread
  <2>4. Stream(r, 1).call < Stream(r, i).call
    <3>1. 1 < i
      BY <2>3
    <3> QED BY <1>1, <1>6, <3>1 DEF InSequence
  <2> QED BY <1>1, <1>3, <1>8, <2>2, <2>4
<1>9. e.call \in 1 .. Len(calls) /\ b[r] < n + 1
  BY <1>3, <1>5, <1>7
<1>10. e.call <= n + 1
  <2> SUFFICES ASSUME n + 1 < e.call PROVE FALSE
    BY <1>3
  <2> QED BY <1>2, <1>4, <1>8, <1>9
<1> QED BY <1>4, <1>7, <1>8, <1>9, <1>10 DEF NextReply

\* The ranks after a reply has been read.
LEMMA RanksRead ==
  ASSUME Typed, NEW n, NEW m, Futures(n, m), NEW b \in [Ranks -> Nat], Streams(n, b),
         NEW r, NEW e, NEW rs, Reads(n, m, r, e, rs), NEW bb, bb = Onward(b, r, e)
  PROVE  /\ bb \in [Ranks -> Nat] /\ bb[r] = e.call /\ \A q \in Ranks : q # r => bb[q] = b[q]
         /\ \A q \in Ranks : /\ InSequence(q, bb)' /\ Worker(q)' /\ bb[q] <= Through(q)'
                             /\ bb[q] <= n + 1 /\ (bb[q] = n + 1 => q = r \/ ReadFrom(q, n))
<1>1. /\ Shifted(r, e) /\ r \in Ranks /\ e \in AnyReply
      /\ \A q \in Ranks : q # r => SameRank(q)
      /\ \A q \in Ranks : Begun(q)' = Begun(q) /\ Begun(q) \in Nat
  BY ReadShifts
<1>2. UNCHANGED <<aggregated, calls, got, state>>
  BY DEF Reads
<1>3. e.call \in Nat
  BY <1>1 DEF AnyReply
<1>4. bb \in [Ranks -> Nat] /\ bb[r] = e.call /\ \A q \in Ranks : q # r => bb[q] = b[q]
  BY <1>1, <1>3 DEF Onward
<1>5. e.call <= n + 1
  BY ReadsNext DEF NextReply
<1>6. ASSUME NEW q \in Ranks
      PROVE  /\ InSequence(q, bb)' /\ Worker(q)' /\ bb[q] <= Through(q)'
             /\ bb[q] <= n + 1 /\ (bb[q] = n + 1 => q = r \/ ReadFrom(q, n))
  <2>1. /\ InSequence(q, b) /\ Worker(q) /\ b[q] <= Through(q) /\ b[q] <= n + 1
        /\ b[q] = n + 1 => ReadFrom(q, n)
    BY DEF Streams
  <2>2. CASE q = r
    <3>1. InSequence(r, bb)' /\ e.call <= Through(r)
      BY <1>1, <1>2, <2>1, <2>2, InSequenceRead
    <3>2. Worker(r)'
      BY <1>1, <1>2, <2>1, <2>2, WorkerRead
    <3>3. Through(r)' = Through(r)
      BY <1>1 DEF Shifted
    <3> QED BY <1>4, <1>5, <2>2, <3>1, <3>2, <3>3
  <2>3. CASE q # r
    <3>1. InSequence(q, bb)
      BY <1>4, <2>1, <2>3 DEF InSequence
    <3>2. InSequence(q, bb)'
      BY <1>1, <1>4, <2>3, <3>1, InSequenceKept
    <3>3. Worker(q)'
      BY <1>1, <1>4, <2>1, <2>3, <3>1, WorkerKept
    <3>4. Through(q)' = Through(q)
      BY <1>1, <2>3 DEF SameRank
    <3> QED BY <1>4, <2>1, <2>3, <3>2, <3>3, <3>4
  <2> QED BY <2>2, <2>3
<1> QED BY <1>4, <1>6

\* The replies that the oldest future has, with the new one.
LEMMA ReadsAre ==
  ASSUME Typed, NEW n, NEW m, Futures(n, m), NEW b \in [Ranks -> Nat], Streams(n, b),
         NEW r, NEW e, NEW rs, Reads(n, m, r, e, rs), NEW bb, bb = Onward(b, r, e)
  PROVE  \A i \in 1 .. Len(rs) :
           /\ rs[i].call = bb[asked[n + 1][i]] /\ rs[i].call # 0
           /\ calls[rs[i].call] = "model" => rs[i].what \in {"none", "failed"}
           /\ rs[i].what = "output" => calls[rs[i].call] = "sample"
<1>1. bb[r] = e.call /\ \A q \in Ranks : q # r => bb[q] = b[q]
  BY RanksRead
<1>2. /\ Len(rs) = Len(replied) + 1 /\ rs[Len(replied) + 1] = e
      /\ \A i \in 1 .. Len(replied) : rs[i] = replied[i]
      /\ asked[n + 1][Len(replied) + 1] = r /\ ~ ReadFrom(r, n)
  BY DEF Reads
<1>3. Len(replied) \in Nat
  BY DEF Typed
<1>4. \A i \in 1 .. Len(rs) : i = Len(replied) + 1 \/ i \in 1 .. Len(replied)
  BY <1>2, <1>3
<1>5. e.call \in 1 .. Len(calls)
  BY ReadsNext DEF NextReply
<1>6. /\ e.call # 0 /\ (calls[e.call] = "model" => e.what \in {"none", "failed"})
      /\ e.what = "output" => calls[e.call] = "sample"
  BY <1>5, ReadsNext DEF NextReply
<1>7. ASSUME NEW i \in 1 .. Len(rs)
      PROVE  /\ rs[i].call = bb[asked[n + 1][i]] /\ rs[i].call # 0
             /\ calls[rs[i].call] = "model" => rs[i].what \in {"none", "failed"}
             /\ rs[i].what = "output" => calls[rs[i].call] = "sample"
  <2>1. CASE i = Len(replied) + 1
    BY <1>1, <1>2, <1>6, <2>1
  <2>2. CASE i \in 1 .. Len(replied)
    <3>1. asked[n + 1][i] # r /\ asked[n + 1][i] \in Ranks
      BY <1>2, <2>2, RepliedIs DEF ReadFrom
    <3>2. /\ replied[i].call = b[asked[n + 1][i]] /\ replied[i].call # 0
          /\ calls[replied[i].call] = "model" => replied[i].what \in {"none", "failed"}
          /\ replied[i].what = "output" => calls[replied[i].call] = "sample"
      BY <2>2 DEF Streams
    <3> QED BY <1>1, <1>2, <2>2, <3>1, <3>2
  <2> QED BY <1>4, <2>1, <2>2
<1> QED BY <1>7

LEMMA StreamsPartial ==
  ASSUME Typed, NEW n, NEW m, Futures(n, m), NEW b \in [Ranks -> Nat], Streams(n, b),
         NEW r, NEW e, NEW rs, Reads(n, m, r, e, rs), NEW bb, bb = Onward(b, r, e),
         Partial(n, e, rs)
  PROVE  Streams(n, bb)'
<1>1. /\ bb \in [Ranks -> Nat] /\ bb[r] = e.call /\ \A q \in Ranks : q # r => bb[q] = b[q]
      /\ \A q \in Ranks : /\ InSequence(q, bb)' /\ Worker(q)' /\ bb[q] <= Through(q)'
                          /\ bb[q] <= n + 1 /\ (bb[q] = n + 1 => q = r \/ ReadFrom(q, n))
  BY RanksRead
<1>2. /\ replied' = rs /\ Len(rs) = Len(replied) + 1 /\ rs[Len(replied) + 1] = e
      /\ \A i \in 1 .. Len(replied) : rs[i] = replied[i]
      /\ asked' = asked /\ calls' = calls /\ asked[n + 1][Len(replied) + 1] = r
      /\ ~ ReadFrom(r, n) /\ r \in Ranks
  BY DEF Reads, Partial
<1>3. Len(replied) \in Nat
  BY DEF Typed
<1>5. \A q : q = r \/ ReadFrom(q, n) => ReadFrom(q, n)'
  <2>1. \A i \in 1 .. Len(replied) : i \in 1 .. Len(rs)
    BY <1>2, <1>3
  <2>2. Len(replied) + 1 \in 1 .. Len(rs)
    BY <1>2, <1>3
  <2> QED BY <1>2, <2>1, <2>2 DEF ReadFrom
<1>6. \A i \in 1 .. Len(rs) :
        /\ rs[i].call = bb[asked[n + 1][i]] /\ rs[i].call # 0
        /\ calls[rs[i].call] = "model" => rs[i].what \in {"none", "failed"}
        /\ rs[i].what = "output" => calls[rs[i].call] = "sample"
  BY ReadsAre
<1>7. \A q \in Ranks : bb[q] = n + 1 => ReadFrom(q, n)'
  BY <1>1, <1>5
<1> QED BY <1>1, <1>2, <1>6, <1>7 DEF Streams

\* A call that is settled, with its last reply or without.
LEMMA StreamsSettleRead ==
  ASSUME Typed, NEW n, NEW m, Futures(n, m), NEW b \in [Ranks -> Nat], Streams(n, b),
         NEW r, NEW e, NEW rs, Reads(n, m, r, e, rs), NEW bb, bb = Onward(b, r, e),
         replied' = <<>>
  PROVE  Streams(n + 1, bb)'
<1>1. /\ bb \in [Ranks -> Nat]
      /\ \A q \in Ranks : /\ InSequence(q, bb)' /\ Worker(q)' /\ bb[q] <= Through(q)'
                          /\ bb[q] <= n + 1
  BY RanksRead
<1>2. n \in Nat
  BY DEF Futures
<1>3. \A q \in Ranks : bb[q] <= (n + 1) + 1 /\ bb[q] # (n + 1) + 1
  BY <1>1, <1>2
<1>4. Len(replied') = 0
  OBVIOUS
<1> QED BY <1>1, <1>3, <1>4 DEF Streams

LEMMA StreamsSettle ==
  ASSUME Typed, NEW n, NEW m, Futures(n, m), NEW b \in [Ranks -> Nat], Streams(n, b),
         UNCHANGED <<aggregated, calls, got, doing, state, outbox, replies>>, replied' = <<>>
  PROVE  Streams(n + 1, b)'
<1>1. Grown /\ \A q \in Ranks : Begun(q)' = Begun(q) /\ Begun(q) \in Nat
  BY GrownStays, StreamIs DEF Begun
<1>2. ASSUME NEW q \in Ranks
      PROVE  InSequence(q, b)' /\ Worker(q)' /\ b[q] <= Through(q)' /\ b[q] <= n + 1
  <2>1. InSequence(q, b) /\ Worker(q) /\ b[q] <= Through(q) /\ b[q] <= n + 1
    BY DEF Streams
  <2>2. Through(q)' = Through(q) /\ \A x \in Ranks : Begun(x) <= Begun(x)'
    BY <1>1 DEF Through
  <2>3. SameRank(q)
    BY <1>1, <2>2 DEF SameRank, Unread, Stream, Sent, Kept
  <2>4. InSequence(q, b)'
    BY <2>1, <2>3, InSequenceKept
  <2>5. Worker(q)'
    BY <1>1, <2>1, <2>3, WorkerKept
  <2> QED BY <2>1, <2>2, <2>4, <2>5
<1>3. n \in Nat
  BY DEF Futures
<1>4. \A q \in Ranks : b[q] <= (n + 1) + 1 /\ b[q] # (n + 1) + 1
  BY <1>2, <1>3
<1>5. Len(replied') = 0
  OBVIOUS
<1> QED BY <1>2, <1>4, <1>5 DEF Streams
-----------------------------------------------------------------------------
(* Replies are read by the calls they answer.                              *)

LEMMA SpoiledStays ==
  ASSUME NEW n \in Nat, \A c \in 1 .. n : outcome'[c] = outcome[c] /\ asked'[c] = asked[c]
  PROVE  \A c \in 1 .. n + 1 : Spoiled(c)' <=> Spoiled(c)
<1> SUFFICES ASSUME NEW c \in 1 .. n + 1 PROVE Spoiled(c)' <=> Spoiled(c)
  OBVIOUS
<1>1. \A d \in 1 .. c - 1 : d \in 1 .. n
  OBVIOUS
<1> QED BY <1>1 DEF Spoiled

LEMMA OwnKept ==
  ASSUME Typed, NEW n, NEW m, Futures(n, m), NEW b \in [Ranks -> Nat], Own(n, b), Grown,
         \A c \in 1 .. n : outcome'[c] = outcome[c] /\ asked'[c] = asked[c], replied' = replied,
         Cancelled => Cancelled' /\ replies' = replies, Closed => Closed' /\ calls' = calls,
         \A r \in Ranks : Begun(r) <= Begun(r)' /\ Begun(r)' \in Nat
  PROVE  Own(n, b)'
<1>1. n \in Nat /\ n <= Len(calls) /\ Len(calls) \in Nat
  BY DEF Futures, Typed
<1>2. \A c \in 1 .. n : c \in 1 .. Len(calls) /\ c \in 1 .. n + 1
  BY <1>1
<1>3. \A c \in 1 .. n + 1 : Spoiled(c)' <=> Spoiled(c)
  BY <1>1, SpoiledStays
<1>4. Spoiled(n + 1)' <=> Spoiled(n + 1)
  BY <1>1, <1>3
<1>5. ASSUME NEW c \in 1 .. n
      PROVE  /\ \A i \in 1 .. Len(outcome'[c].from) : outcome'[c].from[i].call \in 1 .. Len(calls')
             /\ outcome'[c].how = "ok" => Len(outcome'[c].from) = Len(asked'[c])
             /\ outcome'[c].how = "ok" /\ ~ Spoiled(c)' =>
                  \A i \in 1 .. Len(outcome'[c].from) : outcome'[c].from[i].call = c
  <2>1. /\ \A i \in 1 .. Len(outcome[c].from) : outcome[c].from[i].call \in 1 .. Len(calls)
        /\ outcome[c].how = "ok" => Len(outcome[c].from) = Len(asked[c])
        /\ outcome[c].how = "ok" /\ ~ Spoiled(c) =>
             \A i \in 1 .. Len(outcome[c].from) : outcome[c].from[i].call = c
    BY DEF Own
  <2>2. \A i \in 1 .. Len(calls) : i \in 1 .. Len(calls')
    BY <1>1 DEF Grown
  <2>3. outcome'[c] = outcome[c] /\ asked'[c] = asked[c] /\ (Spoiled(c)' <=> Spoiled(c))
    BY <1>2, <1>3
  <2> QED BY <2>1, <2>2, <2>3
<1>6. ASSUME ~ Spoiled(n + 1)
      PROVE  /\ \A i \in 1 .. Len(replied) : replied[i].call = n + 1
             /\ \A r \in Ranks : \/ UpToDate(r, n, b)'
                                 \/ Cancelled' /\ replies'[r] = <<>>
                                 \/ Closed' /\ n = Len(calls')
             /\ ~ Cancelled' => \A c \in 1 .. n : calls'[c] # "sample" =>
                                  \A r \in Ranks : c <= Begun(r)'
  <2>1. /\ \A i \in 1 .. Len(replied) : replied[i].call = n + 1
        /\ \A r \in Ranks : \/ UpToDate(r, n, b)
                            \/ Cancelled /\ replies[r] = <<>>
                            \/ Closed /\ n = Len(calls)
        /\ ~ Cancelled => \A c \in 1 .. n : calls[c] # "sample" => \A r \in Ranks : c <= Begun(r)
    BY <1>6 DEF Own
  <2>2. \A r : UpToDate(r, n, b) => UpToDate(r, n, b)'
    BY <1>2, AnswersStay DEF UpToDate
  <2>3. ASSUME ~ Cancelled', NEW c \in 1 .. n, calls'[c] # "sample", NEW r \in Ranks
        PROVE  c <= Begun(r)'
    <3>1. ~ Cancelled /\ calls[c] # "sample"
      BY <1>2, <2>3 DEF Grown
    <3>2. c <= Begun(r) /\ c \in Nat /\ Begun(r) \in Nat
      BY <2>1, <3>1, StreamIs
    <3> QED BY <3>2
  <2> QED BY <2>1, <2>2, <2>3
<1> QED BY <1>4, <1>5, <1>6 DEF Own

\* What has to be known of a call that is settled.
Owned(n, how, from, b) ==
  /\ \A i \in 1 .. Len(from) : from[i].call \in 1 .. Len(calls)
  /\ how = "ok" => Len(from) = Len(asked[n + 1])
  /\ how = "ok" /\ ~ Spoiled(n + 1) => \A i \in 1 .. Len(from) : from[i].call = n + 1
  /\ ~ Spoiled(n + 1) /\ how # "timeout" /\ ~ (how = "failed" /\ Len(asked[n + 1]) > 1) =>
       /\ \A r \in Ranks : \/ UpToDate(r, n + 1, b)
                           \/ Cancelled /\ replies'[r] = <<>>
                           \/ Closed /\ n + 1 = Len(calls)
       /\ ~ Cancelled /\ calls[n + 1] # "sample" => \A r \in Ranks : n + 1 <= Begun(r)

LEMMA OwnSettle ==
  ASSUME Typed, NEW n, NEW m, Futures(n, m), NEW b, NEW bb, Own(n, b),
         NEW how, NEW from, Settles(n, m, how, from), Rest, Owned(n, how, from, bb)
  PROVE  Own(n + 1, bb)'
<1>1. n \in Nat /\ n + 1 \in 1 .. Len(calls) /\ Len(outcome) = Len(calls) /\ Len(calls) \in Nat
  BY DEF Futures, Settles, Typed
<1>2. /\ outcome'[n + 1].how = how /\ outcome'[n + 1].from = from /\ replied' = <<>>
      /\ \A c \in 1 .. Len(outcome) : c # n + 1 => outcome'[c] = outcome[c]
  BY DEF Settles
<1>3. UNCHANGED <<aggregated, calls, asked, got, monitor>>
  BY DEF Rest
<1>4. \A c \in 1 .. n : outcome'[c] = outcome[c] /\ asked'[c] = asked[c]
  BY <1>1, <1>2, <1>3
<1>5. \A c \in 1 .. n + 1 : Spoiled(c)' <=> Spoiled(c)
  BY <1>1, <1>4, SpoiledStays
<1>6. ASSUME NEW c \in 1 .. n + 1
      PROVE  /\ \A i \in 1 .. Len(outcome'[c].from) : outcome'[c].from[i].call \in 1 .. Len(calls)
             /\ outcome'[c].how = "ok" => Len(outcome'[c].from) = Len(asked[c])
             /\ outcome'[c].how = "ok" /\ ~ Spoiled(c)' =>
                  \A i \in 1 .. Len(outcome'[c].from) : outcome'[c].from[i].call = c
  <2>1. CASE c = n + 1
    BY <1>2, <1>5, <2>1 DEF Owned
  <2>2. CASE c # n + 1
    <3>1. c \in 1 .. n
      BY <1>1, <2>2
    <3> QED BY <1>4, <1>5, <3>1 DEF Own
  <2> QED BY <2>1, <2>2
<1>7. ASSUME ~ Spoiled((n + 1) + 1)'
      PROVE  ~ Spoiled(n + 1) /\ how # "timeout" /\ ~ (how = "failed" /\ Len(asked[n + 1]) > 1)
  <2>1. /\ \A d \in 1 .. n : d \in 1 .. ((n + 1) + 1) - 1
        /\ n + 1 \in 1 .. ((n + 1) + 1) - 1 /\ (n + 1) - 1 = n
    BY <1>1
  <2>2. how # "timeout" /\ ~ (how = "failed" /\ Len(asked[n + 1]) > 1)
    BY <1>2, <1>3, <1>7, <2>1 DEF Spoiled
  <2>3. ~ Spoiled(n + 1)
    BY <1>3, <1>4, <1>7, <2>1 DEF Spoiled
  <2> QED BY <2>2, <2>3
<1>8. ASSUME ~ Spoiled((n + 1) + 1)'
      PROVE  /\ \A r \in Ranks : \/ UpToDate(r, n + 1, bb)
                                 \/ Cancelled /\ replies'[r] = <<>>
                                 \/ Closed /\ n + 1 = Len(calls)
             /\ ~ Cancelled => \A c \in 1 .. n + 1 : calls[c] # "sample" =>
                                 \A r \in Ranks : c <= Begun(r)
  <2>1. ~ Spoiled(n + 1) /\ how # "timeout" /\ ~ (how = "failed" /\ Len(asked[n + 1]) > 1)
    BY <1>7, <1>8
  <2>2. /\ \A r \in Ranks : \/ UpToDate(r, n + 1, bb)
                            \/ Cancelled /\ replies'[r] = <<>>
                            \/ Closed /\ n + 1 = Len(calls)
        /\ ~ Cancelled /\ calls[n + 1] # "sample" => \A r \in Ranks : n + 1 <= Begun(r)
    BY <2>1 DEF Owned
  <2>3. ~ Cancelled => \A c \in 1 .. n : calls[c] # "sample" => \A r \in Ranks : c <= Begun(r)
    BY <2>1 DEF Own
  <2>4. \A c \in 1 .. n + 1 : c = n + 1 \/ c \in 1 .. n
    BY <1>1
  <2> QED BY <2>2, <2>3, <2>4
<1>9. /\ \A r : UpToDate(r, n + 1, bb)' <=> UpToDate(r, n + 1, bb)
      /\ \A r : Begun(r)' = Begun(r)
      /\ (Cancelled' <=> Cancelled) /\ (Closed' <=> Closed)
  BY <1>3 DEF UpToDate, Answers, All, Begun, Cancelled, Closed
<1>10. Len(replied') = 0
  BY <1>2
<1> QED BY <1>3, <1>6, <1>8, <1>9, <1>10 DEF Own
\* A rank that is up to date answers the oldest call.
LEMMA ReadsOwn ==
  ASSUME Typed, NEW n, NEW m, Futures(n, m), NEW b \in [Ranks -> Nat], Streams(n, b), Own(n, b),
         ~ Spoiled(n + 1), NEW r, NEW e, NEW rs, Reads(n, m, r, e, rs)
  PROVE  e.call = n + 1 /\ \A i \in 1 .. Len(rs) : rs[i].call = n + 1
<1>1. /\ r \in Ranks /\ replies[r] # <<>> /\ n < m /\ Len(rs) = Len(replied) + 1
      /\ rs[Len(replied) + 1] = e /\ \A i \in 1 .. Len(replied) : rs[i] = replied[i]
  BY DEF Reads
<1>2. n \in Nat /\ m \in Nat /\ m <= Len(calls) /\ Len(calls) \in Nat /\ n # Len(calls)
  BY <1>1 DEF Futures, Typed
<1>3. UpToDate(r, n, b)
  BY <1>1, <1>2 DEF Own
<1>4. /\ e.call \in 1 .. Len(calls) /\ e.call <= n + 1 /\ b[r] < e.call /\ Answers(r, e.call)
  BY ReadsNext DEF NextReply
<1>5. e.call = n + 1
  <2> SUFFICES ASSUME e.call # n + 1 PROVE FALSE
    OBVIOUS
  <2>1. e.call \in 1 .. n
    BY <1>2, <1>4
  <2> QED BY <1>3, <1>4, <2>1 DEF UpToDate
<1>6. \A i \in 1 .. Len(rs) : i = Len(replied) + 1 \/ i \in 1 .. Len(replied)
  <2>1. Len(replied) \in Nat
    BY DEF Typed
  <2> QED BY <1>1, <2>1
<1>7. \A i \in 1 .. Len(replied) : replied[i].call = n + 1
  BY DEF Own
<1> QED BY <1>1, <1>5, <1>6, <1>7

LEMMA OwnPartial ==
  ASSUME Typed, NEW n, NEW m, Futures(n, m), NEW b \in [Ranks -> Nat], Streams(n, b), Own(n, b),
         NEW r, NEW e, NEW rs, Reads(n, m, r, e, rs), NEW bb, bb = Onward(b, r, e), Partial(n, e, rs)
  PROVE  Own(n, bb)'
<1>1. /\ r \in Ranks /\ replied' = rs /\ n < m /\ replies' = [replies EXCEPT ![r] = Tail(replies[r])]
      /\ UNCHANGED <<aggregated, calls, got, monitor, asked, outcome>>
  BY DEF Reads, Partial
<1>2. bb[r] = e.call /\ \A q \in Ranks : q # r => bb[q] = b[q]
  BY RanksRead
<1>3. /\ n \in Nat /\ m <= Len(calls) /\ n # Len(calls)
      /\ \A c : Spoiled(c)' <=> Spoiled(c)
      /\ \A q, x : UpToDate(q, n, x)' <=> UpToDate(q, n, x)
      /\ \A q : Begun(q)' = Begun(q)
      /\ (Cancelled' <=> Cancelled) /\ (Closed' <=> Closed)
  <2>1. m \in Nat /\ n \in Nat /\ m <= Len(calls) /\ Len(calls) \in Nat
    BY DEF Futures, Typed
  <2> QED BY <1>1, <2>1 DEF Spoiled, UpToDate, Answers, All, Begun, Cancelled, Closed
<1>4. ASSUME ~ Spoiled(n + 1), NEW q \in Ranks
      PROVE  UpToDate(q, n, bb) \/ (Cancelled /\ replies'[q] = <<>>)
  <2>1. CASE q = r
    <3>1. e.call = n + 1
      BY <1>4, ReadsOwn
    <3>2. \A c \in 1 .. n : ~ (n + 1 < c)
      BY <1>3
    <3> QED BY <1>2, <2>1, <3>1, <3>2 DEF UpToDate
  <2>2. CASE q # r
    <3>1. UpToDate(q, n, b) \/ (Cancelled /\ replies[q] = <<>>)
      BY <1>3, <1>4 DEF Own
    <3>2. replies'[q] = replies[q]
      BY <1>1, <2>2 DEF Typed
    <3> QED BY <1>2, <2>2, <3>1, <3>2 DEF UpToDate
  <2> QED BY <2>1, <2>2
<1>5. ~ Spoiled(n + 1) => \A i \in 1 .. Len(rs) : rs[i].call = n + 1
  BY ReadsOwn
<1>6. /\ \A c \in 1 .. n :
           /\ \A i \in 1 .. Len(outcome[c].from) : outcome[c].from[i].call \in 1 .. Len(calls)
           /\ outcome[c].how = "ok" => Len(outcome[c].from) = Len(asked[c])
           /\ outcome[c].how = "ok" /\ ~ Spoiled(c) =>
                \A i \in 1 .. Len(outcome[c].from) : outcome[c].from[i].call = c
      /\ ~ Spoiled(n + 1) =>
           (~ Cancelled => \A c \in 1 .. n : calls[c] # "sample" => \A q \in Ranks : c <= Begun(q))
  BY DEF Own
<1> QED BY <1>1, <1>3, <1>4, <1>5, <1>6 DEF Own

\* The calls that the replies answer have been made.
LEMMA RepliesAreTo ==
  ASSUME Typed, NEW n, NEW m, Futures(n, m), NEW b \in [Ranks -> Nat], Streams(n, b)
  PROVE  \A i \in 1 .. Len(replied) : replied[i].call \in 1 .. Len(calls)
<1> SUFFICES ASSUME NEW i \in 1 .. Len(replied) PROVE replied[i].call \in 1 .. Len(calls)
  OBVIOUS
<1> DEFINE q == asked[n + 1][i]
<1>1. q \in Ranks /\ replied[i].call = b[q] /\ replied[i].call # 0
  BY RepliedIs DEF Streams
<1>2. b[q] \in Nat /\ b[q] <= Through(q)
  BY <1>1 DEF Streams
<1>3. Through(q) \in Nat /\ Through(q) <= Len(calls) /\ Len(calls) \in Nat
  BY <1>1, StreamIs
<1> QED BY <1>1, <1>2, <1>3

LEMMA OwnedRead ==
  ASSUME Typed, NEW n, NEW m, Futures(n, m), NEW b \in [Ranks -> Nat], Streams(n, b), Own(n, b),
         NEW r, NEW e, NEW rs, Reads(n, m, r, e, rs), NEW bb, bb = Onward(b, r, e),
         NEW how \in {"ok", "failed"}, e.what # "failed" => Len(rs) = Len(asked[n + 1]),
         how = "ok" => e.what # "failed"
  PROVE  Owned(n, how, rs, bb)
<1>1. /\ r \in Ranks /\ n < m /\ replies' = [replies EXCEPT ![r] = Tail(replies[r])]
      /\ Len(rs) = Len(replied) + 1 /\ rs[Len(replied) + 1] = e
      /\ \A i \in 1 .. Len(replied) : rs[i] = replied[i]
      /\ asked[n + 1] # <<>> /\ Len(replied) + 1 \in 1 .. Len(asked[n + 1])
      /\ asked[n + 1][Len(replied) + 1] = r
  BY DEF Reads
<1>2. bb[r] = e.call /\ \A q \in Ranks : q # r => bb[q] = b[q]
  BY RanksRead
<1>3. n \in Nat /\ m <= Len(calls) /\ n # Len(calls) /\ Len(replied) \in Nat /\ Asked(n + 1)
  <2>1. m \in Nat /\ n \in Nat /\ m <= Len(calls) /\ Len(calls) \in Nat /\ Len(replied) \in Nat
    BY DEF Futures, Typed
  <2>2. n + 1 \in 1 .. m
    BY <1>1, <2>1
  <2> QED BY <1>1, <2>1, <2>2 DEF Futures
<1>4. \A i \in 1 .. Len(rs) : i = Len(replied) + 1 \/ i \in 1 .. Len(replied)
  BY <1>1, <1>3
<1>5. \A i \in 1 .. Len(rs) : rs[i].call \in 1 .. Len(calls)
  <2>1. e.call \in 1 .. Len(calls)
    BY ReadsNext DEF NextReply
  <2> QED BY <1>1, <1>4, <2>1, RepliesAreTo
<1>6. ~ Spoiled(n + 1) => e.call = n + 1 /\ \A i \in 1 .. Len(rs) : rs[i].call = n + 1
  BY ReadsOwn
<1>7. ASSUME ~ Spoiled(n + 1), ~ (how = "failed" /\ Len(asked[n + 1]) > 1)
      PROVE  /\ \A q \in Ranks : UpToDate(q, n + 1, bb) \/ (Cancelled /\ replies'[q] = <<>>)
             /\ calls[n + 1] # "sample" => \A q \in Ranks : n + 1 <= Begun(q)
  <2>1. /\ Len(asked[n + 1]) \in Nat
        /\ \A q \in Ranks : Answers(q, n + 1) => \E i \in 1 .. Len(asked[n + 1]) : asked[n + 1][i] = q
    BY <1>1, <1>3, AskedIs
  <2>2. Len(rs) = Len(asked[n + 1])
    <3>1. CASE e.what # "failed"
      BY <3>1
    <3>2. CASE e.what = "failed"
      <4>1. ~ (Len(asked[n + 1]) > 1)
        BY <1>7, <3>2
      <4> QED BY <1>1, <1>3, <2>1, <4>1
    <3> QED BY <3>1, <3>2
  <2>3. ASSUME NEW q \in Ranks, Answers(q, n + 1) PROVE bb[q] = n + 1
    <3>1. PICK i \in 1 .. Len(rs) : asked[n + 1][i] = q
      BY <2>1, <2>2, <2>3
    <3>2. CASE q = r
      BY <1>2, <1>6, <1>7, <3>2
    <3>3. CASE q # r
      <4>1. i \in 1 .. Len(replied)
        BY <1>1, <1>4, <3>1, <3>3
      <4>2. replied[i].call = b[q] /\ replied[i].call = n + 1
        BY <1>1, <1>6, <1>7, <3>1, <4>1 DEF Streams
      <4> QED BY <1>2, <3>3, <4>2
    <3> QED BY <3>2, <3>3
  <2>4. ASSUME NEW q \in Ranks PROVE UpToDate(q, n + 1, bb) \/ (Cancelled /\ replies'[q] = <<>>)
    <3>1. CASE Answers(q, n + 1)
      <4>1. \A c \in 1 .. n + 1 : ~ (n + 1 < c)
        BY <1>3
      <4> QED BY <2>3, <3>1, <4>1 DEF UpToDate
    <3>2. CASE ~ Answers(q, n + 1)
      <4>1. q # r
        BY <3>2, ReadsNext DEF NextReply
      <4>2. UpToDate(q, n, b) \/ (Cancelled /\ replies[q] = <<>>)
        BY <1>3, <1>7 DEF Own
      <4>3. replies'[q] = replies[q] /\ bb[q] = b[q]
        BY <1>1, <1>2, <4>1 DEF Typed
      <4>4. \A c \in 1 .. n + 1 : c = n + 1 \/ c \in 1 .. n
        BY <1>3
      <4>5. UpToDate(q, n, b) => UpToDate(q, n + 1, bb)
        BY <3>2, <4>3, <4>4 DEF UpToDate
      <4> QED BY <4>2, <4>3, <4>5
    <3> QED BY <3>1, <3>2
  <2>5. ASSUME calls[n + 1] # "sample", NEW q \in Ranks PROVE n + 1 <= Begun(q)
    <3>1. e.call = n + 1 /\ e.call <= Through(r) /\ n + 1 \in 1 .. Len(calls)
      BY <1>6, <1>7, ReadsNext DEF NextReply
    <3>2. CASE calls[n + 1] = "model"
      <4>1. n + 1 \in 1 .. Through(r)
        BY <1>1, <1>3, <3>1, StreamIs
      <4> QED BY <1>1, <3>2, <4>1 DEF Streams, Worker
    <3>3. CASE calls[n + 1] = "utility"
      <4>1. bb[q] = n + 1
        BY <2>3, <3>3 DEF Answers, All
      <4>2. n + 1 <= Through(q)
        <5>1. CASE q = r
          BY <3>1, <5>1
        <5>2. CASE q # r
          BY <1>2, <4>1, <5>2 DEF Streams
        <5> QED BY <5>1, <5>2
      <4> QED BY <1>3, <4>2, StreamIs
    <3> QED BY <2>5, <3>1, <3>2, <3>3 DEF Typed, Kinds
  <2> QED BY <2>4, <2>5
<1>8. how = "ok" => Len(rs) = Len(asked[n + 1])
  OBVIOUS
<1> QED BY <1>5, <1>6, <1>7, <1>8 DEF Owned

LEMMA OwnedNothing ==
  ASSUME Typed, NEW n, NEW m, Futures(n, m), NEW b, Own(n, b), n < m, asked[n + 1] = <<>>,
         NEW how
  PROVE  Owned(n, how, <<>>, b)
<1>1. n \in Nat /\ n + 1 \in 1 .. m
  BY DEF Futures
<1>2. Asked(n + 1)
  BY <1>1 DEF Futures
<1>3. AllRanks # <<>> /\ <<OutputRank>> # <<>>
  BY RanksAre
<1>4. Closed /\ n + 1 = Len(calls) /\ Cancelled
  BY <1>2, <1>3 DEF Asked, Closed, Cancelled
<1>5. Len(<<>>) = 0 /\ \A i \in 1 .. 0 : FALSE
  OBVIOUS
<1> QED BY <1>4, <1>5 DEF Owned

LEMMA OwnedFails ==
  ASSUME Typed, NEW n, NEW m, Futures(n, m), NEW b \in [Ranks -> Nat], Streams(n, b), Own(n, b),
         n < m, asked[n + 1] # <<>>, replies' = replies,
         replies[asked[n + 1][Len(replied) + 1]] = <<>>,
         NEW how, how = "timeout" \/ (how = "failed" /\ Cancelled)
  PROVE  Owned(n, how, replied, b)
<1>1. /\ n \in Nat /\ n + 1 \in 1 .. m /\ n # Len(calls) /\ Len(replied) \in Nat
      /\ replied \in Seq(AnyReply)
  <2>1. /\ n \in Nat /\ m \in Nat /\ m <= Len(calls) /\ Len(calls) \in Nat
        /\ Len(replied) \in Nat /\ replied \in Seq(AnyReply)
    BY DEF Futures, Typed
  <2> QED BY <2>1
<1>2. Asked(n + 1)
  BY <1>1 DEF Futures
<1>3. ASSUME ~ Spoiled(n + 1), how = "failed", ~ (Len(asked[n + 1]) > 1), NEW q \in Ranks
      PROVE  UpToDate(q, n + 1, b) \/ (Cancelled /\ replies[q] = <<>>)
  <2>1. CASE Answers(q, n + 1)
    <3>1. PICK i \in 1 .. Len(asked[n + 1]) : asked[n + 1][i] = q
      BY <1>2, <2>1, AskedIs
    <3>2. Len(asked[n + 1]) = 1
      BY <1>2, <1>3, AskedIs
    <3>3. Len(replied) = 0
      <4>1. replied # <<>> => Len(replied) < Len(asked[n + 1])
        BY DEF Futures
      <4> QED BY <1>1, <3>2, <4>1
    <3>4. i = Len(replied) + 1
      BY <3>1, <3>2, <3>3
    <3> QED BY <1>3, <3>1, <3>4
  <2>2. CASE ~ Answers(q, n + 1)
    <3>1. UpToDate(q, n, b) \/ (Cancelled /\ replies[q] = <<>>)
      BY <1>1, <1>3 DEF Own
    <3>2. \A c \in 1 .. n + 1 : c = n + 1 \/ c \in 1 .. n
      BY <1>1
    <3> QED BY <2>2, <3>1, <3>2 DEF UpToDate
  <2> QED BY <2>1, <2>2
<1>4. \A i \in 1 .. Len(replied) : replied[i].call \in 1 .. Len(calls)
  BY RepliesAreTo
<1> QED BY <1>3, <1>4 DEF Owned
-----------------------------------------------------------------------------
(* Failures surface.                                                       *)

OutputAt == IF aggregated THEN OutputRank + 1 ELSE 1

LEMMA StepIs ==
  ASSUME NEW c, calls[c] # "utility"
  PROVE  /\ All(c) <=> aggregated
         /\ \A r \in Ranks : Answers(r, c) <=> r \in Relevant
         /\ Output(c) <=> outcome[c].how = "ok" /\ outcome[c].from[OutputAt].what = "output"
         /\ (IF All(c) THEN OutputRank + 1 ELSE 1) = OutputAt
BY DEF All, Answers, Relevant, Output, OutputAt

LEMMA BrokenStays ==
  ASSUME Typed, NEW n \in Nat, n <= Len(calls), Grown, \A c \in 1 .. n : outcome'[c] = outcome[c]
  PROVE  Broken(n)' <=> Broken(n)
<1>1. \A c \in 1 .. n : c \in 1 .. Len(calls)
  BY DEF Typed
<1>2. \A c \in 1 .. n : calls'[c] = calls[c] /\ (Output(c)' <=> Output(c))
  BY <1>1, OutputStays DEF Grown
<1> QED BY <1>2 DEF Broken

LEMMA SurfaceKept ==
  ASSUME Typed, NEW n, NEW m, Futures(n, m), Program(n), NEW b, Surface(n, b), Grown,
         \A c \in 1 .. n : outcome'[c] = outcome[c], replied' = replied,
         replied # <<>> => asked'[n + 1] = asked[n + 1],
         \A r \in Ranks : b[r] < n \/ (Dull(r, n + 1) => Dull(r, n + 1)')
  PROVE  Surface(n, b)'
<1>1. n \in Nat /\ n <= Len(calls) /\ Len(calls) \in Nat /\ (replied # <<>> => n + 1 \in 1 .. Len(calls))
  <2>1. /\ n \in Nat /\ m \in Nat /\ n <= m /\ m <= Len(calls) /\ Len(calls) \in Nat
        /\ replied # <<>> => n < m
    BY DEF Futures, Typed
  <2> QED BY <2>1
<1>2. \A c \in 1 .. n : c \in 1 .. Len(calls)
  BY <1>1
<1>3. /\ \A c \in 1 .. n : calls'[c] = calls[c] /\ (Output(c)' <=> Output(c)) /\ (All(c)' <=> All(c))
      /\ aggregated' = aggregated
  BY <1>2, OutputStays, AnswersStay DEF Grown
<1>4. Broken(n)' <=> Broken(n)
  BY <1>1, BrokenStays
<1>5. ASSUME NEW s \in 1 .. n, calls'[s] = "sample",
             \A c \in 1 .. s : calls'[c] = "sample" => Output(c)'
      PROVE  /\ outcome'[s - 1].how = "ok"
             /\ outcome'[s].from[IF All(s)' THEN OutputRank + 1 ELSE 1].call = s
  <2>1. \A c \in 1 .. s : c \in 1 .. n
    BY <1>1
  <2>2. calls[s] = "sample" /\ \A c \in 1 .. s : calls[c] = "sample" => Output(c)
    BY <1>3, <1>5, <2>1
  <2>3. /\ outcome[s - 1].how = "ok"
        /\ outcome[s].from[IF All(s) THEN OutputRank + 1 ELSE 1].call = s
    BY <2>2 DEF Surface
  <2>4. s > 1
    BY <1>2, <2>2 DEF Program
  <2>5. s - 1 \in 1 .. n
    BY <1>1, <2>4
  <2> QED BY <1>3, <2>3, <2>5
<1>6. \A i \in 1 .. Len(replied) : replied # <<>>
  BY DEF Typed
<1>7. \A r \in Ranks : Doomed(r, n, b) => Doomed(r, n, b)'
  <2>1. \A i \in 1 .. Len(replied) : asked'[n + 1][i] = asked[n + 1][i]
    BY <1>6
  <2>2. \A r : ReadFrom(r, n)' <=> ReadFrom(r, n)
    BY <2>1 DEF ReadFrom
  <2> QED BY <2>1, <2>2 DEF Doomed
<1>8. ASSUME ~ Broken(n)
      PROVE  /\ \A r \in Relevant' : \A c \in 1 .. n : b[r] < c => calls'[c] # "sample"
             /\ n < Len(calls') /\ calls'[n + 1] = "sample" =>
                  \A i \in 1 .. Len(replied) : replied[i].what = "output" => replied[i].call = n + 1
             /\ n # 0 /\ calls'[n] = "model" /\ outcome'[n].how # "ok" =>
                  \E r \in Relevant' : Doomed(r, n, b)'
  <2>1. /\ \A r \in Relevant : \A c \in 1 .. n : b[r] < c => calls[c] # "sample"
        /\ n < Len(calls) /\ calls[n + 1] = "sample" =>
             \A i \in 1 .. Len(replied) : replied[i].what = "output" => replied[i].call = n + 1
        /\ n # 0 /\ calls[n] = "model" /\ outcome[n].how # "ok" => \E r \in Relevant : Doomed(r, n, b)
    BY <1>8 DEF Surface
  <2>2. Relevant' = Relevant /\ Relevant \subseteq Ranks
    BY <1>3, ExecutorAssumption DEF Relevant
  <2>3. ASSUME calls'[n + 1] = "sample", NEW i \in 1 .. Len(replied), replied[i].what = "output"
        PROVE  replied[i].call = n + 1
    <3>1. n + 1 \in 1 .. Len(calls) /\ n < Len(calls)
      BY <1>1, <1>6
    <3>2. calls'[n + 1] = calls[n + 1]
      BY <3>1 DEF Grown
    <3> QED BY <2>1, <2>3, <3>1, <3>2
  <2>4. n # 0 => n \in 1 .. n
    BY <1>1
  <2> QED BY <1>3, <1>7, <2>1, <2>2, <2>3, <2>4
<1> QED BY <1>4, <1>5, <1>8 DEF Surface
LEMMA SurfaceFinish ==
  ASSUME Typed, NEW n, NEW m, Futures(n, m), Program(n), NEW b \in [Ranks -> Nat], Streams(n, b),
         Surface(n, b), NEW r \in Ranks, NEW c, NEW what, Finishes(r, c, what)
  PROVE  Surface(n, b)'
<1>1. /\ UNCHANGED <<aggregated, calls, asked, replied, outcome, replies, got>>
      /\ doing' = [doing EXCEPT ![r] = 0]
      /\ \A q \in Ranks : q # r => outbox'[q] = outbox[q] /\ (q \in state' <=> q \in state)
  BY DEF Finishes, Driver, driver
<1>2. Grown
  BY <1>1, GrownStays
<1>3. ASSUME NEW q \in Ranks, Dull(q, n + 1), ~ (b[q] < n) PROVE Dull(q, n + 1)'
  <2>1. CASE q = r
    <3>1. PICK w \in Nat : Ended(r, c, what, w)
      BY FinishEnds
    <3>2. Through(r) = c - 1 /\ c \in 1 .. Len(calls)
      BY <3>1 DEF Ended
    <3>3. b[r] <= Through(r) /\ b[r] \in Nat /\ n \in Nat /\ InSequence(r, b)
      BY DEF Streams, Futures
    <3>4. n + 1 \in Nat /\ n + 1 <= c
      BY <1>3, <2>1, <3>2, <3>3
    <3> QED BY <1>3, <2>1, <3>3, <3>4, DullFinish
  <2>2. CASE q # r
    <3>1. Unread(q)' = Unread(q) /\ \A i \in Unread(q) : Stream(q, i)' = Stream(q, i)
      BY <1>1, <2>2 DEF Unread, Stream, Sent, Kept
    <3>2. doing'[q] = doing[q] /\ Begun(q)' = Begun(q)
      BY <1>1, <2>2 DEF Typed, Begun
    <3>3. Through(q)' = Through(q) /\ (q \in state' <=> q \in state)
      BY <1>1, <2>2, <3>2 DEF Through
    <3> QED BY <1>3, <3>1, <3>3 DEF Dull
  <2> QED BY <2>1, <2>2
<1> QED BY <1>1, <1>2, <1>3, SurfaceKept

\* A reply with an output, read for a sample, is the sample's.
LEMMA OutputIsOwn ==
  ASSUME Typed, NEW n, NEW m, Futures(n, m), NEW b \in [Ranks -> Nat], Streams(n, b), Surface(n, b),
         ~ Broken(n), calls[n + 1] = "sample", NEW r, NEW e, NEW rs, Reads(n, m, r, e, rs)
  PROVE  \A i \in 1 .. Len(rs) : rs[i].what = "output" => rs[i].call = n + 1
<1>1. /\ r \in Ranks /\ n < m /\ Len(rs) = Len(replied) + 1 /\ rs[Len(replied) + 1] = e
      /\ \A i \in 1 .. Len(replied) : rs[i] = replied[i]
  BY DEF Reads
<1>2. n \in Nat /\ n < Len(calls) /\ Len(replied) \in Nat
  <2>1. n \in Nat /\ m \in Nat /\ m <= Len(calls) /\ Len(calls) \in Nat /\ Len(replied) \in Nat
    BY DEF Futures, Typed
  <2> QED BY <1>1, <2>1
<1>3. /\ e.call \in 1 .. Len(calls) /\ e.call <= n + 1 /\ b[r] < e.call /\ Answers(r, n + 1)
      /\ e.what = "output" => calls[e.call] = "sample"
  BY ReadsNext DEF NextReply
<1>4. r \in Relevant
  BY <1>1, <1>3, StepIs
<1>5. ASSUME e.what = "output" PROVE e.call = n + 1
  <2> SUFFICES ASSUME e.call # n + 1 PROVE FALSE
    OBVIOUS
  <2>1. e.call \in 1 .. n
    BY <1>2, <1>3
  <2> QED BY <1>3, <1>4, <1>5, <2>1 DEF Surface
<1>6. \A i \in 1 .. Len(rs) : i = Len(replied) + 1 \/ i \in 1 .. Len(replied)
  BY <1>1, <1>2
<1>7. \A i \in 1 .. Len(replied) : replied[i].what = "output" => replied[i].call = n + 1
  BY <1>2 DEF Surface
<1> QED BY <1>1, <1>5, <1>6, <1>7

\* A rank from which no output can come for a sample has not sent one.
LEMMA DoomedReply ==
  ASSUME Typed, NEW n, NEW m, Futures(n, m), NEW b \in [Ranks -> Nat], Streams(n, b), Surface(n, b),
         ~ Broken(n), calls[n + 1] = "sample", n # 0, calls[n] = "model",
         NEW r, NEW e, NEW rs, Reads(n, m, r, e, rs), Doomed(r, n, b)
  PROVE  e.what # "output"
<1>1. /\ r \in Ranks /\ ~ ReadFrom(r, n) /\ Len(rs) = Len(replied) + 1 /\ rs[Len(replied) + 1] = e
  BY DEF Reads
<1>2. Shifted(r, e)
  BY ReadShifts
<1>3. /\ e.call \in 1 .. Len(calls) /\ e.call <= Through(r) /\ Answers(r, n + 1)
      /\ \A c \in 1 .. Len(calls) : b[r] < c /\ c < e.call => ~ Answers(r, c)
  BY ReadsNext DEF NextReply
<1>4. n \in 1 .. Len(calls) /\ n \in Nat /\ Len(replied) \in Nat
  <2>1. n \in Nat /\ m \in Nat /\ n <= m /\ m <= Len(calls) /\ Len(calls) \in Nat /\ Len(replied) \in Nat
    BY DEF Futures, Typed
  <2> QED BY <2>1
<1>5. Answers(r, n)
  BY <1>1, <1>3, StepIs
<1> SUFFICES ASSUME e.what = "output" PROVE FALSE
  OBVIOUS
<1>6. e.call = n + 1
  <2>1. Len(replied) + 1 \in 1 .. Len(rs)
    BY <1>1, <1>4
  <2> QED BY <1>1, <2>1, OutputIsOwn
<1>7. b[r] < n \/ Dull(r, n + 1)
  BY <1>1 DEF Doomed, ReadFrom
<1>8. CASE b[r] < n
  <2>1. n < e.call
    BY <1>4, <1>6
  <2> QED BY <1>3, <1>4, <1>5, <1>8, <2>1
<1>9. CASE Dull(r, n + 1)
  <2>1. 1 \in Unread(r) /\ Stream(r, 1) = e /\ n + 1 <= Through(r)
    BY <1>2, <1>3, <1>6 DEF Shifted
  <2> QED BY <1>6, <1>9, <2>1 DEF Dull
<1> QED BY <1>7, <1>8, <1>9

LEMMA SurfacePartial ==
  ASSUME Typed, NEW n, NEW m, Futures(n, m), Program(n), NEW b \in [Ranks -> Nat], Streams(n, b),
         Surface(n, b), NEW r, NEW e, NEW rs, Reads(n, m, r, e, rs), NEW bb, bb = Onward(b, r, e),
         Partial(n, e, rs)
  PROVE  Surface(n, bb)'
<1>1. /\ r \in Ranks /\ n < m /\ ~ ReadFrom(r, n) /\ replied' = rs
      /\ Len(rs) = Len(replied) + 1 /\ rs[Len(replied) + 1] = e
      /\ \A i \in 1 .. Len(replied) : rs[i] = replied[i]
      /\ asked[n + 1][Len(replied) + 1] = r
      /\ UNCHANGED <<aggregated, calls, asked, outcome>>
  BY DEF Reads, Partial
<1>2. n \in Nat /\ n < Len(calls) /\ Len(replied) \in Nat /\ Len(calls) \in Nat
  <2>1. n \in Nat /\ m \in Nat /\ m <= Len(calls) /\ Len(calls) \in Nat /\ Len(replied) \in Nat
    BY DEF Futures, Typed
  <2> QED BY <1>1, <2>1
<1>3. /\ bb \in [Ranks -> Nat] /\ bb[r] = e.call /\ \A q \in Ranks : q # r => bb[q] = b[q]
  BY RanksRead
<1>4. \A q \in Ranks : \A c \in 1 .. n : bb[q] < c => b[q] < c
  <2>1. b[r] < e.call /\ e.call \in 1 .. Len(calls) /\ b[r] \in Nat
    BY <1>1, ReadsNext DEF NextReply
  <2>2. \A c \in 1 .. n : e.call < c => b[r] < c
    BY <2>1
  <2> QED BY <1>1, <1>3, <2>2
<1>5. /\ Len(replied) + 1 \in 1 .. Len(rs) /\ \A i \in 1 .. Len(replied) : i \in 1 .. Len(rs)
  BY <1>1, <1>2
<1>6. ASSUME ~ Broken(n), n # 0, calls[n] = "model", NEW q \in Ranks, Doomed(q, n, b)
      PROVE  Doomed(q, n, bb)'
  <2>1. calls[n + 1] = "sample"
    <3>1. n \in 1 .. Len(calls)
      BY <1>2, <1>6
    <3> QED BY <1>2, <1>6, <3>1 DEF Program
  <2>2. CASE q = r
    <3>1. e.what # "output"
      BY <1>6, <2>1, <2>2, DoomedReply
    <3> QED BY <1>1, <1>5, <2>2, <3>1 DEF Doomed
  <2>3. CASE q # r
    <3>1. CASE \E i \in 1 .. Len(replied) : asked[n + 1][i] = q /\ replied[i].what # "output"
      BY <1>1, <1>5, <3>1 DEF Doomed
    <3>2. CASE ~ ReadFrom(q, n) /\ (b[q] < n \/ Dull(q, n + 1))
      <4>1. ~ ReadFrom(q, n)'
        <5>1. \A i \in 1 .. Len(rs) : i = Len(replied) + 1 \/ i \in 1 .. Len(replied)
          BY <1>1, <1>2
        <5> QED BY <1>1, <2>3, <3>2, <5>1 DEF ReadFrom
      <4>2. Dull(q, n + 1) => Dull(q, n + 1)'
        BY <2>3, ReadShifts, DullStays
      <4> QED BY <1>3, <2>3, <3>2, <4>1, <4>2 DEF Doomed
    <3> QED BY <1>6, <3>1, <3>2 DEF Doomed
  <2> QED BY <2>2, <2>3
<1>7. /\ (Broken(n)' <=> Broken(n)) /\ Relevant' = Relevant /\ Relevant \subseteq Ranks
      /\ \A c : (Output(c)' <=> Output(c)) /\ (All(c)' <=> All(c))
  BY <1>1, ExecutorAssumption DEF Broken, Relevant, Output, All
<1>8. ASSUME ~ Broken(n)
      PROVE  /\ \A q \in Relevant : \A c \in 1 .. n : bb[q] < c => calls[c] # "sample"
             /\ calls[n + 1] = "sample" =>
                  \A i \in 1 .. Len(rs) : rs[i].what = "output" => rs[i].call = n + 1
             /\ n # 0 /\ calls[n] = "model" /\ outcome[n].how # "ok" =>
                  \E q \in Relevant : Doomed(q, n, bb)'
  <2>1. /\ \A q \in Relevant : \A c \in 1 .. n : b[q] < c => calls[c] # "sample"
        /\ n # 0 /\ calls[n] = "model" /\ outcome[n].how # "ok" => \E q \in Relevant : Doomed(q, n, b)
    BY <1>8 DEF Surface
  <2>2. calls[n + 1] = "sample" =>
          \A i \in 1 .. Len(rs) : rs[i].what = "output" => rs[i].call = n + 1
    BY <1>8, OutputIsOwn
  <2> QED BY <1>4, <1>6, <1>7, <1>8, <2>1, <2>2
<1>9. \A s \in 1 .. n :
        calls[s] = "sample" /\ (\A c \in 1 .. s : calls[c] = "sample" => Output(c)) =>
          /\ outcome[s - 1].how = "ok"
          /\ outcome[s].from[IF All(s) THEN OutputRank + 1 ELSE 1].call = s
  BY DEF Surface
<1> QED BY <1>1, <1>7, <1>8, <1>9 DEF Surface
\* What has to be known of a call that is settled.
Surfaces(n, how, from, b) ==
  /\ calls[n + 1] = "model" /\ how # "ok" =>
       \E q \in Relevant : b[q] < n + 1 \/ Dull(q, (n + 1) + 1)'
  /\ calls[n + 1] = "sample" /\ how = "ok" /\ from[OutputAt].what = "output" =>
       /\ outcome[n].how = "ok" /\ from[OutputAt].call = n + 1
       /\ \A q \in Relevant : b[q] = n + 1

LEMMA SurfaceSettle ==
  ASSUME Typed, NEW n, NEW m, Futures(n, m), Program(n), NEW b \in [Ranks -> Nat],
         NEW bb \in [Ranks -> Nat], \A q \in Ranks : b[q] <= bb[q], Surface(n, b),
         NEW how, NEW from, Settles(n, m, how, from), UNCHANGED <<aggregated, calls>>,
         ~ Broken(n) => Surfaces(n, how, from, bb)
  PROVE  Surface(n + 1, bb)'
<1>1. n \in Nat /\ n + 1 \in 1 .. Len(calls) /\ Len(outcome) = Len(calls) /\ Len(calls) \in Nat
  BY DEF Futures, Settles, Typed
<1>2. /\ outcome'[n + 1].how = how /\ outcome'[n + 1].from = from /\ replied' = <<>>
      /\ \A c \in 1 .. Len(outcome) : c # n + 1 => outcome'[c] = outcome[c]
  BY DEF Settles
<1>3. /\ \A c \in 1 .. n : outcome'[c] = outcome[c] /\ c # n + 1 /\ c \in 1 .. n + 1
      /\ \A c \in 1 .. n + 1 : c = n + 1 \/ c \in 1 .. n
  BY <1>1, <1>2
<1>4. /\ Relevant' = Relevant /\ Relevant \subseteq Ranks /\ OutputAt' = OutputAt
      /\ \A c : All(c)' <=> All(c)
      /\ \A c \in 1 .. n : Output(c)' <=> Output(c)
  BY <1>3, OutputStays, ExecutorAssumption DEF Relevant, All, OutputAt
<1>5. calls[n + 1] = "sample" =>
        /\ Output(n + 1)' <=> how = "ok" /\ from[OutputAt].what = "output"
        /\ (IF All(n + 1) THEN OutputRank + 1 ELSE 1) = OutputAt
  BY <1>2, <1>4 DEF Output, OutputAt, All
<1>6. Broken(n + 1)' <=> Broken(n) \/ (calls[n + 1] = "sample" /\ ~ Output(n + 1)')
  <2>1. Broken(n + 1)' <=> \E c \in 1 .. n + 1 : calls[c] = "sample" /\ ~ Output(c)'
    BY DEF Broken
  <2>2. Broken(n) <=> \E c \in 1 .. n : calls[c] = "sample" /\ ~ Output(c)'
    BY <1>4 DEF Broken
  <2>3. n + 1 \in 1 .. n + 1 /\ \A c \in 1 .. n : c \in 1 .. n + 1
    BY <1>1
  <2> QED BY <1>3, <2>1, <2>2, <2>3
<1>7. ASSUME NEW s \in 1 .. n + 1, calls[s] = "sample",
             \A c \in 1 .. s : calls[c] = "sample" => Output(c)'
      PROVE  /\ outcome'[s - 1].how = "ok"
             /\ outcome'[s].from[IF All(s) THEN OutputRank + 1 ELSE 1].call = s
  <2>1. s > 1 /\ s \in Nat
    <3>1. s \in 1 .. Len(calls)
      BY <1>1
    <3> QED BY <1>7, <3>1 DEF Program
  <2>2. s - 1 \in 1 .. n
    BY <1>1, <2>1
  <2>3. CASE s = n + 1
    <3>1. ~ Broken(n)
      <4>1. \A c \in 1 .. n : c \in 1 .. s
        BY <1>3, <2>3
      <4> QED BY <1>4, <1>7, <4>1 DEF Broken
    <3>2. how = "ok" /\ from[OutputAt].what = "output"
      <4>1. s \in 1 .. s
        BY <2>1
      <4> QED BY <1>5, <1>7, <2>3, <4>1
    <3>3. outcome[n].how = "ok" /\ from[OutputAt].call = n + 1
      BY <1>7, <2>3, <3>1, <3>2 DEF Surfaces
    <3>4. s - 1 = n
      BY <1>1, <2>3
    <3> QED BY <1>2, <1>3, <1>5, <1>7, <2>2, <2>3, <3>3, <3>4
  <2>4. CASE s # n + 1
    <3>1. s \in 1 .. n
      BY <1>3, <2>4
    <3>2. \A c \in 1 .. s : c \in 1 .. n
      BY <1>1, <3>1
    <3>3. \A c \in 1 .. s : calls[c] = "sample" => Output(c)
      BY <1>4, <1>7, <3>2
    <3> QED BY <1>3, <1>7, <2>2, <3>1, <3>3 DEF Surface
  <2> QED BY <2>3, <2>4
<1>8. ASSUME ~ Broken(n + 1)'
      PROVE  /\ \A q \in Relevant : \A c \in 1 .. n + 1 : bb[q] < c => calls[c] # "sample"
             /\ calls[n + 1] = "model" /\ outcome'[n + 1].how # "ok" =>
                  \E q \in Relevant : Doomed(q, n + 1, bb)'
  <2>1. ~ Broken(n) /\ (calls[n + 1] = "sample" => how = "ok" /\ from[OutputAt].what = "output")
    BY <1>5, <1>6, <1>8
  <2>2. Surfaces(n, how, from, bb) /\ \A q \in Relevant : \A c \in 1 .. n : b[q] < c => calls[c] # "sample"
    BY <2>1 DEF Surface
  <2>3. ASSUME NEW q \in Relevant, NEW c \in 1 .. n + 1, bb[q] < c PROVE calls[c] # "sample"
    <3>1. CASE c = n + 1
      BY <1>1, <2>1, <2>2, <2>3, <3>1 DEF Surfaces
    <3>2. CASE c # n + 1
      <4>1. c \in 1 .. n /\ b[q] \in Nat /\ bb[q] \in Nat /\ b[q] <= bb[q]
        BY <1>3, <1>4, <3>2
      <4>2. b[q] < c
        BY <2>3, <4>1
      <4> QED BY <2>2, <4>1, <4>2
    <3> QED BY <3>1, <3>2
  <2>4. ASSUME calls[n + 1] = "model", how # "ok" PROVE \E q \in Relevant : Doomed(q, n + 1, bb)'
    <3>1. PICK q \in Relevant : bb[q] < n + 1 \/ Dull(q, (n + 1) + 1)'
      BY <2>2, <2>4 DEF Surfaces
    <3>2. ~ ReadFrom(q, n + 1)'
      <4>1. Len(replied') = 0
        BY <1>2
      <4> QED BY <4>1 DEF ReadFrom
    <3> QED BY <3>1, <3>2 DEF Doomed
  <2> QED BY <1>2, <2>3, <2>4
<1>9. Len(replied') = 0
  BY <1>2
<1> QED BY <1>4, <1>7, <1>8, <1>9 DEF Surface

LEMMA OutputAtIs ==
  ASSUME Typed, NEW n, Asked(n + 1), asked[n + 1] # <<>>, calls[n + 1] # "utility"
  PROVE  /\ OutputAt \in 1 .. Len(asked[n + 1]) /\ asked[n + 1][OutputAt] = OutputRank
         /\ OutputRank \in Relevant /\ Relevant \subseteq Ranks
         /\ \A q \in Relevant : \E i \in 1 .. Len(asked[n + 1]) : asked[n + 1][i] = q
         /\ ~ aggregated => Len(asked[n + 1]) = 1
<1>1. asked[n + 1] = IF aggregated THEN AllRanks ELSE <<OutputRank>>
  BY AskedIs, StepIs
<1>2. OutputRank \in Relevant /\ Relevant \subseteq Ranks /\ OutputRank \in Ranks
  BY ExecutorAssumption DEF Relevant
<1>3. \A q \in Relevant : \E i \in 1 .. Len(asked[n + 1]) : asked[n + 1][i] = q
  <2>1. \A q \in Relevant : q \in Ranks /\ Answers(q, n + 1)
    BY <1>2, StepIs
  <2> QED BY <2>1, AskedIs
<1>4. CASE aggregated
  BY <1>1, <1>2, <1>3, <1>4, RanksAre DEF OutputAt
<1>5. CASE ~ aggregated
  <2>1. asked[n + 1] = <<OutputRank>> /\ Len(asked[n + 1]) = 1 /\ asked[n + 1][1] = OutputRank
    BY <1>1, <1>5
  <2> QED BY <1>2, <1>3, <1>5, <2>1 DEF OutputAt
<1> QED BY <1>4, <1>5
LEMMA SurfacesRead ==
  ASSUME Typed, NEW n, NEW m, Futures(n, m), Program(n), NEW b \in [Ranks -> Nat], Streams(n, b),
         Surface(n, b), ~ Broken(n), NEW r, NEW e, NEW rs, Reads(n, m, r, e, rs),
         NEW bb, bb = Onward(b, r, e), NEW how,
         \/ e.what = "failed" /\ how = "failed"
         \/ /\ e.what # "failed" /\ Len(rs) = Len(asked[n + 1])
            /\ how = IF Aggregable(n + 1, rs) THEN "ok" ELSE "failed"
  PROVE  Surfaces(n, how, rs, bb)
<1>1. /\ r \in Ranks /\ n < m /\ n + 1 \in 1 .. Len(calls) /\ ~ ReadFrom(r, n)
      /\ Len(rs) = Len(replied) + 1 /\ rs[Len(replied) + 1] = e
      /\ \A i \in 1 .. Len(replied) : rs[i] = replied[i]
      /\ asked[n + 1] # <<>> /\ asked[n + 1][Len(replied) + 1] = r /\ rs \in Seq(AnyReply)
  BY DEF Reads
<1>2. n \in Nat /\ Asked(n + 1) /\ Len(replied) \in Nat
  <2>1. n \in Nat /\ m \in Nat /\ n + 1 \in 1 .. m /\ Len(replied) \in Nat
    BY <1>1 DEF Futures, Typed
  <2> QED BY <2>1 DEF Futures
<1>3. \A i \in 1 .. Len(rs) : i = Len(replied) + 1 \/ i \in 1 .. Len(replied)
  BY <1>1, <1>2
<1>4. \A i \in 1 .. Len(rs) :
        /\ rs[i].call = bb[asked[n + 1][i]]
        /\ calls[rs[i].call] = "model" => rs[i].what \in {"none", "failed"}
  BY ReadsAre
<1>5. bb \in [Ranks -> Nat] /\ bb[r] = e.call /\ \A q \in Ranks : bb[q] <= n + 1
  BY RanksRead
<1>6. e.what # "failed" => \A i \in 1 .. Len(rs) : rs[i].what # "failed"
  BY <1>1, <1>3 DEF Futures
<1>7. ASSUME calls[n + 1] = "model", how # "ok"
      PROVE  \E q \in Relevant : bb[q] < n + 1 \/ Dull(q, (n + 1) + 1)'
  <2>1. CASE e.what = "failed"
    <3>1. r \in Relevant
      BY <1>1, <1>7, StepIs, ReadsNext DEF NextReply
    <3>2. CASE e.call = n + 1
      <4>1. 1 \in Unread(r) /\ Stream(r, 1) = e /\ Shifted(r, e)
        BY ReadShifts DEF Shifted
      <4>2. Dull(r, (n + 1) + 1)
        BY <1>1, <1>7, <2>1, <3>2, <4>1 DEF Streams, Worker
      <4>3. Dull(r, (n + 1) + 1)'
        <5>1. state' = state
          BY DEF Reads
        <5> QED BY <4>1, <4>2, <5>1 DEF Dull, Shifted
      <4> QED BY <3>1, <4>3
    <3>3. CASE e.call # n + 1
      BY <1>1, <1>2, <1>5, <3>1, <3>3
    <3> QED BY <3>2, <3>3
  <2>2. CASE e.what # "failed"
    <3>1. Len(rs) = Len(asked[n + 1]) /\ ~ Aggregable(n + 1, rs)
      BY <1>7, <2>2
    <3>2. aggregated /\ rs[OutputAt].what # "none"
      BY <3>1 DEF Aggregable, OutputAt
    <3>3. /\ OutputAt \in 1 .. Len(rs) /\ asked[n + 1][OutputAt] = OutputRank
          /\ OutputRank \in Relevant /\ OutputRank \in Ranks
      BY <1>1, <1>2, <1>7, <3>1, OutputAtIs, ExecutorAssumption
    <3>4. calls[rs[OutputAt].call] # "model"
      BY <1>4, <1>6, <2>2, <3>2, <3>3
    <3>5. bb[OutputRank] # n + 1
      BY <1>4, <1>7, <3>3, <3>4
    <3>6. bb[OutputRank] < n + 1
      BY <1>2, <1>5, <3>3, <3>5
    <3> QED BY <3>3, <3>6
  <2> QED BY <2>1, <2>2
<1>8. ASSUME calls[n + 1] = "sample", how = "ok", rs[OutputAt].what = "output"
      PROVE  /\ outcome[n].how = "ok" /\ rs[OutputAt].call = n + 1
             /\ \A q \in Relevant : bb[q] = n + 1
  <2>1. Len(rs) = Len(asked[n + 1]) /\ Aggregable(n + 1, rs)
    BY <1>8
  <2>2. /\ OutputAt \in 1 .. Len(rs) /\ Relevant \subseteq Ranks
        /\ \A q \in Relevant : \E i \in 1 .. Len(rs) : asked[n + 1][i] = q
        /\ ~ aggregated => Len(rs) = 1
    BY <1>1, <1>2, <1>8, <2>1, OutputAtIs
  <2>3. \A i \in 1 .. Len(rs) : rs[i].what = "output"
    <3>1. CASE aggregated
      <4>1. rs[OutputRank + 1].what # "none" /\ DOMAIN rs = 1 .. Len(rs)
        BY <1>1, <1>8, <3>1 DEF OutputAt
      <4> QED BY <1>8, <2>1, <3>1, <4>1 DEF Aggregable
    <3>2. CASE ~ aggregated
      <4>1. Len(rs) = 1 /\ OutputAt = 1
        BY <2>2, <3>2 DEF OutputAt
      <4>2. \A i \in 1 .. 1 : i = 1
        OBVIOUS
      <4> QED BY <1>8, <4>1, <4>2
    <3> QED BY <3>1, <3>2
  <2>4. \A i \in 1 .. Len(rs) : rs[i].call = n + 1
    BY <1>8, <2>3, OutputIsOwn
  <2>5. \A q \in Relevant : bb[q] = n + 1
    BY <1>4, <2>2, <2>4
  <2>6. outcome[n].how = "ok"
    <3> SUFFICES ASSUME outcome[n].how # "ok" PROVE FALSE
      OBVIOUS
    <3>1. n # 0 /\ calls[n] = "model"
      <4>1. n + 1 > 1 /\ calls[(n + 1) - 1] = "model" /\ (n + 1) - 1 = n
        BY <1>1, <1>2, <1>8 DEF Program
      <4> QED BY <1>2, <4>1
    <3>2. PICK q \in Relevant : Doomed(q, n, b)
      BY <3>1 DEF Surface
    <3>3. CASE \E i \in 1 .. Len(replied) : asked[n + 1][i] = q /\ replied[i].what # "output"
      <4>1. \A i \in 1 .. Len(replied) : i \in 1 .. Len(rs)
        BY <1>1, <1>2
      <4> QED BY <1>1, <2>3, <3>3, <4>1
    <3>4. CASE ~ ReadFrom(q, n)
      <4>1. PICK i \in 1 .. Len(rs) : asked[n + 1][i] = q
        BY <2>2
      <4>2. i = Len(replied) + 1
        BY <1>3, <3>4, <4>1 DEF ReadFrom
      <4>3. q = r /\ e.what = "output"
        BY <1>1, <2>3, <4>1, <4>2
      <4> QED BY <1>8, <3>1, <3>2, <4>3, DoomedReply
    <3> QED BY <3>2, <3>3, <3>4 DEF Doomed
  <2>7. rs[OutputAt].call = n + 1
    BY <2>2, <2>4
  <2> QED BY <2>5, <2>6, <2>7
<1> QED BY <1>7, <1>8 DEF Surfaces

LEMMA SurfacesNothing ==
  ASSUME Typed, NEW n, NEW m, Futures(n, m), NEW b \in [Ranks -> Nat], Streams(n, b),
         asked[n + 1] = <<>>, NEW how, calls[n + 1] = "sample" => how # "ok"
  PROVE  Surfaces(n, how, <<>>, b)
<1>1. n \in Nat /\ b[OutputRank] \in Nat /\ OutputRank \in Relevant /\ OutputRank \in Ranks
  BY ExecutorAssumption DEF Futures, Relevant
<1>2. replied = <<>>
  <2>1. Len(asked[n + 1]) = 0 /\ Len(replied) \in Nat
    BY DEF Typed
  <2> QED BY <2>1 DEF Futures
<1>3. ~ ReadFrom(OutputRank, n)
  BY <1>2 DEF ReadFrom
<1>4. b[OutputRank] <= n + 1 /\ b[OutputRank] # n + 1
  BY <1>1, <1>3 DEF Streams
<1>5. b[OutputRank] < n + 1
  BY <1>1, <1>4
<1> QED BY <1>1, <1>5 DEF Surfaces

LEMMA SurfacesFails ==
  ASSUME Typed, NEW n, NEW m, Futures(n, m), NEW b \in [Ranks -> Nat], Streams(n, b),
         n < m, asked[n + 1] # <<>>, NEW how, how # "ok"
  PROVE  Surfaces(n, how, replied, b)
<1> DEFINE r == asked[n + 1][Len(replied) + 1]
<1>1. n \in Nat /\ Asked(n + 1) /\ Len(replied) \in Nat
  <2>1. n \in Nat /\ m \in Nat /\ n + 1 \in 1 .. m /\ Len(replied) \in Nat
    BY DEF Futures, Typed
  <2> QED BY <2>1 DEF Futures
<1>2. /\ Len(asked[n + 1]) \in Nat \ {0}
      /\ \A i \in 1 .. Len(asked[n + 1]) : asked[n + 1][i] \in Ranks /\ Answers(asked[n + 1][i], n + 1)
      /\ \A i, j \in 1 .. Len(asked[n + 1]) : asked[n + 1][i] = asked[n + 1][j] => i = j
  BY <1>1, AskedIs
<1>3. Len(replied) < Len(asked[n + 1])
  <2>1. CASE replied = <<>>
    BY <1>2, <2>1
  <2>2. CASE replied # <<>>
    BY <2>2 DEF Futures
  <2> QED BY <2>1, <2>2
<1>4. Len(replied) + 1 \in 1 .. Len(asked[n + 1])
  BY <1>1, <1>2, <1>3
<1>5. r \in Ranks /\ Answers(r, n + 1)
  BY <1>2, <1>4
<1>6. ~ ReadFrom(r, n)
  <2>1. \A i \in 1 .. Len(replied) : i \in 1 .. Len(asked[n + 1]) /\ i # Len(replied) + 1
    BY <1>1, <1>2, <1>3
  <2> QED BY <1>2, <1>4, <2>1 DEF ReadFrom
<1>7. b[r] < n + 1
  <2>1. b[r] \in Nat /\ b[r] <= n + 1 /\ b[r] # n + 1
    BY <1>5, <1>6 DEF Streams
  <2> QED BY <1>1, <2>1
<1>8. calls[n + 1] = "model" => r \in Relevant
  BY <1>5, StepIs
<1> QED BY <1>7, <1>8 DEF Surfaces
-----------------------------------------------------------------------------
(* The invariant is inductive.                                             *)

LEMMA InitIsGood ==
  ASSUME Init
  PROVE  IInv
<1> DEFINE b == [r \in Ranks |-> 0]
<1>1. /\ aggregated \in BOOLEAN /\ calls = <<>> /\ got = [r \in Ranks |-> <<>>]
      /\ doing = [r \in Ranks |-> 0] /\ state = {}
      /\ outbox = [r \in Ranks |-> <<>>] /\ replies = [r \in Ranks |-> <<>>]
      /\ alive = Ranks /\ place = "loop" /\ asked = <<>> /\ futures = <<>> /\ replied = <<>>
      /\ outcome = <<>> /\ wanted = 0 /\ batches = <<>>
      /\ monitor = "watching" /\ notice = FALSE /\ faults = 0
  BY DEF Init, Queue!Init
<1>2. /\ Len(calls) = 0 /\ Len(asked) = 0 /\ Len(outcome) = 0 /\ Len(futures) = 0 /\ Len(batches) = 0
      /\ Len(replied) = 0 /\ \A r \in Ranks : Len(got[r]) = 0 /\ doing[r] = 0
  BY <1>1
<1>3. \A r \in Ranks : b[r] = 0 /\ Begun(r) = 0 /\ Sent(r) = 0 /\ Kept(r) = 0 /\ Through(r) = 0
  BY <1>1 DEF Begun, Sent, Kept, Through
<1>4. b \in [Ranks -> Nat] /\ \A i \in 1 .. 0 : FALSE
  OBVIOUS
<1>5. Typed
  <2>1. /\ calls \in Seq(Kinds) /\ got \in [Ranks -> Seq(Nat)] /\ doing \in [Ranks -> Nat]
        /\ outbox \in [Ranks -> Seq(AnyReply)] /\ replies \in [Ranks -> Seq(AnyReply)]
        /\ asked \in Seq(Seq(Ranks)) /\ outcome \in Seq([how : Hows, from : Seq(AnyReply)])
        /\ futures \in Seq(Nat) /\ batches \in Seq(Nat) /\ replied \in Seq(AnyReply)
    BY <1>1
  <2>2. faults \in 0 .. MaxFaults
    BY <1>1, ExecutorAssumption
  <2>3. /\ \A r \in Ranks : Len(got[r]) <= Len(calls) /\ doing[r] \in {0, Len(got[r])}
        /\ Len(asked) = Len(calls) /\ Len(outcome) = Len(calls) /\ wanted \in Nat
    BY <1>1, <1>2
  <2>4. /\ state \subseteq Ranks /\ alive \subseteq Ranks /\ notice \in BOOLEAN
        /\ place \in {"loop", "sample", "future", "wait", "down"}
        /\ monitor \in {"watching", "failed", "terminated", "cancelled", "closed", "done"}
    BY <1>1
  <2> QED BY <1>1, <2>1, <2>2, <2>3, <2>4 DEF Typed
<1>6. Futures(0, 0)
  BY <1>1, <1>2 DEF Futures
<1>7. Program(0)
  BY <1>1, <1>2 DEF Program
<1>8. Batches(0, 0)
  BY <1>1, <1>2 DEF Batches
<1>9. Ahead(0)
  <2>1. Extra = 0 /\ ~ OneLess
    BY <1>1 DEF Extra, OneLess
  <2> QED BY <1>1, <1>2, <2>1, ExecutorAssumption DEF Ahead
<1> HIDE DEF b
<1>10. Streams(0, b)
  <2>1. ASSUME NEW r \in Ranks PROVE Unread(r) = 1 .. 0 /\ b[r] = 0 /\ Through(r) = 0 /\ r \notin state
    BY <1>1, <1>3, <2>1 DEF Unread
  <2>2. ASSUME NEW r \in Ranks PROVE InSequence(r, b)
    BY <1>2, <1>4, <2>1 DEF InSequence
  <2>3. ASSUME NEW r \in Ranks PROVE Worker(r)
    BY <1>4, <2>1 DEF Worker
  <2> QED BY <1>2, <1>4, <2>1, <2>2, <2>3 DEF Streams
<1>11. Own(0, b)
  <2>1. \A r : UpToDate(r, 0, b)
    BY <1>4 DEF UpToDate
  <2> QED BY <1>2, <1>4, <2>1 DEF Own
<1>12. Surface(0, b)
  BY <1>2, <1>4 DEF Surface
<1>13. Parts(0, 0, b)
  BY <1>5, <1>6, <1>7, <1>8, <1>9, <1>10, <1>11, <1>12 DEF Parts
<1> QED BY <1>4, <1>13 DEF IInv

\* The workers' side of the invariant in a step of the main thread or the monitor.
LEMMA WorkersKept ==
  ASSUME NEW n, NEW m, NEW b \in [Ranks -> Nat], Parts(n, m, b), Grown,
         UNCHANGED <<got, doing, state, outbox, replies, replied>>,
         \A c \in 1 .. n : outcome'[c] = outcome[c] /\ asked'[c] = asked[c],
         replied # <<>> => asked'[n + 1] = asked[n + 1],
         Cancelled => Cancelled', Closed => Closed' /\ calls' = calls
  PROVE  Streams(n, b)' /\ Own(n, b)' /\ Surface(n, b)'
<1>1. Typed /\ Futures(n, m) /\ Program(n) /\ Streams(n, b) /\ Own(n, b) /\ Surface(n, b)
  BY DEF Parts
<1>2. \A q \in Ranks : Begun(q)' = Begun(q) /\ Begun(q) \in Nat /\ Begun(q) <= Begun(q)'
  BY <1>1, StreamIs DEF Begun
<1>3. ASSUME NEW q \in Ranks PROVE SameRank(q)
  <2>1. Through(q)' = Through(q) /\ Unread(q)' = Unread(q)
    BY <1>2 DEF Through, Unread, Sent, Kept
  <2>2. \A i \in Unread(q) : Stream(q, i)' = Stream(q, i)
    BY DEF Stream, Sent
  <2> QED BY <1>2, <2>1, <2>2 DEF SameRank
<1>4. Streams(n, b)'
  BY <1>1, <1>2, <1>3, StreamsKept
<1>5. Own(n, b)'
  BY <1>1, <1>2, OwnKept
<1>6. \A r \in Ranks : b[r] < n \/ (Dull(r, n + 1) => Dull(r, n + 1)')
  BY <1>3, DullStays
<1>7. Surface(n, b)'
  BY <1>1, <1>6, SurfaceKept
<1> QED BY <1>4, <1>5, <1>7

LEMMA CallGood ==
  ASSUME NEW n, NEW m, NEW b \in [Ranks -> Nat], Parts(n, m, b), NEW kind \in Kinds, Call(kind),
         place \in {"loop", "sample"}, place = "sample" <=> kind = "sample",
         kind = "model" => Len(batches) < BatchQueue
  PROVE  Parts(n, m, b)'
<1>1. Typed /\ Futures(n, m) /\ Program(n) /\ Batches(n, m) /\ Ahead(n) /\ n \in Nat
  BY DEF Parts, Futures
<1>2. Typed'
  BY <1>1, CallTyped
<1>3. Futures(n, m)' /\ Len(calls) = m
  BY <1>1, FuturesCall
<1>4. Program(n)'
  BY <1>1, ProgramCall
<1>5. Batches(n, m)'
  BY <1>1, BatchesCall
<1>6. Ahead(n)'
  BY <1>1, AheadCall
<1>7. /\ ~ Failed /\ Grown /\ UNCHANGED <<got, doing, state, outbox, replies, replied>>
      /\ \A c \in 1 .. Len(calls) : asked'[c] = asked[c] /\ outcome'[c] = outcome[c]
  BY <1>1, CallIs DEF worker
<1>8. /\ \A c \in 1 .. n : c \in 1 .. Len(calls)
      /\ replied # <<>> => n + 1 \in 1 .. Len(calls)
  <2>1. n \in Nat /\ m \in Nat /\ n <= m /\ (replied # <<>> => n < m)
    BY <1>1 DEF Futures
  <2> QED BY <1>3, <2>1
<1>9. ~ Cancelled /\ ~ Closed
  BY <1>7 DEF Failed, Cancelled, Closed
<1>10. Streams(n, b)' /\ Own(n, b)' /\ Surface(n, b)'
  BY <1>7, <1>8, <1>9, WorkersKept
<1> QED BY <1>2, <1>3, <1>4, <1>5, <1>6, <1>10 DEF Parts

LEMMA MakeGood ==
  ASSUME NEW n, NEW m, NEW b \in [Ranks -> Nat], Parts(n, m, b), MakeFuture
  PROVE  Parts(n, m + 1, b)'
<1>1. Typed /\ Futures(n, m) /\ Program(n) /\ Batches(n, m) /\ Ahead(n)
  BY DEF Parts
<1>2. Typed'
  BY <1>1, MakeFutureTyped
<1>3. Futures(n, m + 1)'
  BY <1>1, FuturesMake
<1>4. Program(n)'
  BY <1>1, ProgramMake
<1>5. Batches(n, m + 1)'
  BY <1>1, BatchesMake
<1>6. Ahead(n)'
  BY <1>1, AheadMake
<1>7. /\ UNCHANGED <<aggregated, calls, got, doing, state, outbox, replies, replied, outcome, monitor>>
      /\ \A c \in 1 .. m : asked'[c] = asked[c]
  BY <1>1, MakeFutureIs DEF worker
<1>8. /\ \A c \in 1 .. n : c \in 1 .. m
      /\ replied # <<>> => n + 1 \in 1 .. m
  <2>1. n \in Nat /\ m \in Nat /\ n <= m /\ (replied # <<>> => n < m)
    BY <1>1 DEF Futures
  <2> QED BY <2>1
<1>9. Grown /\ (Cancelled => Cancelled') /\ (Closed => Closed')
  BY <1>1, <1>7, GrownStays DEF Cancelled, Closed
<1>10. Streams(n, b)' /\ Own(n, b)' /\ Surface(n, b)'
  BY <1>7, <1>8, <1>9, WorkersKept
<1> QED BY <1>2, <1>3, <1>4, <1>5, <1>6, <1>10 DEF Parts

LEMMA MachineKept ==
  ASSUME NEW n, NEW m, NEW b \in [Ranks -> Nat], Parts(n, m, b), Machine
  PROVE  Streams(n, b)' /\ Own(n, b)' /\ Surface(n, b)'
<1>1. UNCHANGED <<aggregated, calls, got, doing, state, outbox, replies, replied, asked, outcome, monitor>>
  BY DEF Machine, worker
<1>2. Grown /\ (Cancelled => Cancelled') /\ (Closed => Closed')
  BY <1>1, GrownStays DEF Cancelled, Closed, Parts
<1> QED BY <1>1, <1>2, WorkersKept

LEMMA DownGood ==
  ASSUME NEW n, NEW m, NEW b \in [Ranks -> Nat], Parts(n, m, b), StepRefused \/ NoQueue \/ Noticed
  PROVE  Parts(n, m, b)'
<1>1. Typed /\ Futures(n, m) /\ Program(n) /\ Batches(n, m) /\ Ahead(n)
  BY DEF Parts
<1>2. /\ Machine /\ UNCHANGED <<wanted, batches, calls>> /\ place \in {"loop", "sample", "future"}
      /\ place' = "down" /\ Typed'
  BY <1>1, DownIs DEF Machine
<1>3. Futures(n, m)'
  <2>1. wanted' \in Nat /\ wanted' <= m
    BY <1>1, <1>2 DEF Typed, Futures
  <2> QED BY <1>1, <1>2, <2>1, FuturesMachine
<1>4. Program(n)' /\ Batches(n, m)' /\ Ahead(n)'
  BY <1>1, <1>2, ProgramDown, BatchesDown, AheadDown
<1>5. Streams(n, b)' /\ Own(n, b)' /\ Surface(n, b)'
  BY <1>2, MachineKept
<1> QED BY <1>2, <1>3, <1>4, <1>5 DEF Parts

LEMMA ResultGood ==
  ASSUME NEW n, NEW m, NEW b \in [Ranks -> Nat], Parts(n, m, b), Result
  PROVE  Parts(n, m, b)'
<1>1. Typed /\ Futures(n, m) /\ Program(n) /\ Batches(n, m) /\ Ahead(n)
  BY DEF Parts
<1>2. /\ Machine /\ wanted' = 0 /\ place = "wait" /\ place' \in {"loop", "down"} /\ Typed'
  BY <1>1, ResultIs DEF ResultPlace
<1>3. Futures(n, m)'
  <2>1. wanted' \in Nat /\ wanted' <= m
    BY <1>1, <1>2 DEF Futures
  <2> QED BY <1>1, <1>2, <2>1, FuturesMachine
<1>4. Program(n)' /\ Batches(n, m)' /\ Ahead(n)'
  BY <1>1, ProgramResult, BatchesResult, AheadResult
<1>5. Streams(n, b)' /\ Own(n, b)' /\ Surface(n, b)'
  BY <1>2, MachineKept
<1> QED BY <1>2, <1>3, <1>4, <1>5 DEF Parts

LEMMA CollectGood ==
  ASSUME NEW n, NEW m, NEW b \in [Ranks -> Nat], Parts(n, m, b), Collect
  PROVE  Parts(n, m, b)'
<1>1. Typed /\ Futures(n, m) /\ Program(n) /\ Batches(n, m) /\ Ahead(n)
  BY DEF Parts
<1>2. /\ Machine /\ place = "loop" /\ place' = "wait" /\ Typed'
  BY <1>1, CollectIs
<1>3. Program(n)' /\ wanted' \in 1 .. m
  BY <1>1, ProgramCollect
<1>4. Futures(n, m)'
  <2>1. wanted' \in Nat /\ wanted' <= m /\ wanted' # 0
    BY <1>1, <1>3 DEF Futures
  <2> QED BY <1>1, <1>2, <2>1, FuturesMachine
<1>5. Batches(n, m)' /\ Ahead(n)'
  BY <1>1, BatchesCollect, AheadCollect
<1>6. Streams(n, b)' /\ Own(n, b)' /\ Surface(n, b)'
  BY <1>2, MachineKept
<1> QED BY <1>2, <1>3, <1>4, <1>5, <1>6 DEF Parts
\* A reply is read: the call waits for the next one, or is settled.
LEMMA SettledGood ==
  ASSUME NEW n, NEW m, NEW b \in [Ranks -> Nat], Parts(n, m, b), NEW how, NEW from,
         Settles(n, m, how, from), Rest
  PROVE  Futures(n + 1, m)' /\ Program(n + 1)' /\ Batches(n + 1, m)' /\ Ahead(n + 1)'
<1>1. Typed /\ Futures(n, m) /\ Program(n) /\ Batches(n, m) /\ Ahead(n)
  BY DEF Parts
<1>2. n \in Nat /\ n + 1 \in Nat /\ n <= n + 1
  BY <1>1 DEF Futures
<1>3. UNCHANGED <<aggregated, calls, place, wanted, batches>>
  BY DEF Rest
<1>4. \A c \in 1 .. Len(calls) : c <= n => outcome'[c] = outcome[c]
  <2>1. \A c \in 1 .. Len(calls) : c <= n => c # n + 1
    BY <1>2
  <2> QED BY <1>1, <2>1 DEF Settles, Typed
<1> QED BY <1>1, <1>2, <1>3, <1>4, FuturesSettle, ProgramKept, BatchesKept, AheadKept

LEMMA PartialGood ==
  ASSUME NEW n, NEW m, NEW b \in [Ranks -> Nat], Parts(n, m, b), NEW r, NEW e, NEW rs,
         Reads(n, m, r, e, rs), Partial(n, e, rs), NEW bb, bb = Onward(b, r, e), Typed'
  PROVE  Parts(n, m, bb)'
<1>1. /\ Typed /\ Futures(n, m) /\ Program(n) /\ Batches(n, m) /\ Ahead(n)
      /\ Streams(n, b) /\ Own(n, b) /\ Surface(n, b)
  BY DEF Parts
<1>2. n \in Nat /\ n <= n /\ UNCHANGED <<aggregated, calls, place, wanted, batches, outcome>>
  BY <1>1 DEF Futures, Reads, Partial
<1>3. Futures(n, m)'
  BY <1>1, FuturesPartial
<1>4. Program(n)' /\ Batches(n, m)' /\ Ahead(n)'
  BY <1>1, <1>2, ProgramKept, BatchesKept, AheadKept
<1>5. Streams(n, bb)'
  BY <1>1, StreamsPartial
<1>6. Own(n, bb)'
  BY <1>1, OwnPartial
<1>7. Surface(n, bb)'
  BY <1>1, SurfacePartial
<1> QED BY <1>3, <1>4, <1>5, <1>6, <1>7 DEF Parts

LEMMA ReadSettledGood ==
  ASSUME NEW n, NEW m, NEW b \in [Ranks -> Nat], Parts(n, m, b), NEW r, NEW e, NEW rs,
         Reads(n, m, r, e, rs), NEW how, Settles(n, m, how, rs),
         NEW bb, bb = Onward(b, r, e), Typed',
         \/ e.what = "failed" /\ how = "failed"
         \/ /\ e.what # "failed" /\ Len(rs) = Len(asked[n + 1])
            /\ how = IF Aggregable(n + 1, rs) THEN "ok" ELSE "failed"
  PROVE  Parts(n + 1, m, bb)'
<1>1. /\ Typed /\ Futures(n, m) /\ Program(n) /\ Streams(n, b) /\ Own(n, b) /\ Surface(n, b)
  BY DEF Parts
<1>2. Rest
  BY DEF Reads, Rest
<1>3. Futures(n + 1, m)' /\ Program(n + 1)' /\ Batches(n + 1, m)' /\ Ahead(n + 1)'
  BY <1>2, SettledGood
<1>4. Streams(n + 1, bb)'
  BY <1>1, StreamsSettleRead DEF Settles
<1>5. Own(n + 1, bb)'
  <2>1. /\ how \in {"ok", "failed"} /\ (e.what # "failed" => Len(rs) = Len(asked[n + 1]))
        /\ how = "ok" => e.what # "failed"
    OBVIOUS
  <2>2. Owned(n, how, rs, bb)
    BY <1>1, <2>1, OwnedRead
  <2> QED BY <1>1, <1>2, <2>2, OwnSettle
<1>6. Surface(n + 1, bb)'
  <2>1. bb \in [Ranks -> Nat] /\ \A q \in Ranks : b[q] <= bb[q]
    <3>1. bb \in [Ranks -> Nat] /\ bb[r] = e.call /\ \A q \in Ranks : q # r => bb[q] = b[q]
      BY <1>1, RanksRead
    <3>2. b[r] < e.call
      BY <1>1, ReadsNext DEF NextReply
    <3>3. \A q \in Ranks : bb[q] \in Nat /\ b[q] \in Nat
      BY <3>1
    <3>4. ASSUME NEW q \in Ranks PROVE b[q] <= bb[q]
      <4>1. CASE q = r
        <5>1. bb[q] = e.call /\ b[q] < e.call
          BY <3>1, <3>2, <4>1
        <5> QED BY <3>3, <5>1
      <4>2. CASE q # r
        BY <3>1, <3>3, <4>2
      <4> QED BY <4>1, <4>2
    <3> QED BY <3>1, <3>4
  <2>2. ~ Broken(n) => Surfaces(n, how, rs, bb)
    BY <1>1, SurfacesRead
  <2>3. UNCHANGED <<aggregated, calls>>
    BY <1>2 DEF Rest
  <2> QED BY <1>1, <2>1, <2>2, <2>3, SurfaceSettle
<1> QED BY <1>3, <1>4, <1>5, <1>6 DEF Parts

LEMMA ReadReplyGood ==
  ASSUME NEW n \in Nat, NEW m \in Nat, NEW b \in [Ranks -> Nat], Parts(n, m, b), ReadReply
  PROVE  IInv'
<1>1. Typed /\ Futures(n, m) /\ Streams(n, b)
  BY DEF Parts
<1>2. Typed'
  BY <1>1, ReadReplyTyped
<1>3. PICK r, e, rs : Reads(n, m, r, e, rs) /\ (Partial(n, e, rs) \/ Settling(n, m, e, rs))
  BY <1>1, ReadReplyIs
<1>4. PICK bb : bb = Onward(b, r, e)
  OBVIOUS
<1>5. bb \in [Ranks -> Nat] /\ n + 1 \in Nat
  BY <1>1, <1>3, <1>4, RanksRead
<1>6. CASE Partial(n, e, rs)
  <2>1. Parts(n, m, bb)'
    BY <1>2, <1>3, <1>4, <1>6, PartialGood
  <2> QED BY <1>5, <2>1 DEF IInv
<1>7. CASE Settling(n, m, e, rs)
  <2>1. CASE e.what = "failed" /\ Settles(n, m, "failed", rs)
    <3>1. Parts(n + 1, m, bb)'
      BY <1>2, <1>3, <1>4, <2>1, ReadSettledGood
    <3> QED BY <1>5, <3>1 DEF IInv
  <2>2. CASE /\ e.what # "failed" /\ Len(rs) = Len(asked[n + 1])
             /\ Settles(n, m, IF Aggregable(n + 1, rs) THEN "ok" ELSE "failed", rs)
    <3>1. PICK how : how = IF Aggregable(n + 1, rs) THEN "ok" ELSE "failed"
      OBVIOUS
    <3>2. Parts(n + 1, m, bb)'
      BY <1>2, <1>3, <1>4, <2>2, <3>1, ReadSettledGood
    <3> QED BY <1>5, <3>2 DEF IInv
  <2> QED BY <1>7, <2>1, <2>2 DEF Settling
<1> QED BY <1>3, <1>6, <1>7

\* A call that is settled without a reply.
LEMMA SettledWithout ==
  ASSUME NEW n, NEW m, NEW b \in [Ranks -> Nat], Parts(n, m, b), NEW how, NEW from,
         Settles(n, m, how, from), Rest, replies' = replies, Typed',
         Owned(n, how, from, b), Surfaces(n, how, from, b)
  PROVE  Parts(n + 1, m, b)'
<1>1. /\ Typed /\ Futures(n, m) /\ Program(n) /\ Streams(n, b) /\ Own(n, b) /\ Surface(n, b)
  BY DEF Parts
<1>2. /\ UNCHANGED <<aggregated, calls, got, doing, state, outbox, replies>> /\ replied' = <<>>
      /\ \A q \in Ranks : b[q] <= b[q]
  BY DEF Rest, Settles
<1>3. Futures(n + 1, m)' /\ Program(n + 1)' /\ Batches(n + 1, m)' /\ Ahead(n + 1)'
  BY SettledGood
<1>4. Streams(n + 1, b)'
  BY <1>1, <1>2, StreamsSettle
<1>5. Own(n + 1, b)'
  BY <1>1, OwnSettle
<1>6. Surface(n + 1, b)'
  BY <1>1, <1>2, SurfaceSettle
<1> QED BY <1>3, <1>4, <1>5, <1>6 DEF Parts

LEMMA ReadNothingGood ==
  ASSUME NEW n, NEW m, NEW b \in [Ranks -> Nat], Parts(n, m, b), ReadNothing
  PROVE  Parts(n + 1, m, b)'
<1>1. /\ Typed /\ Futures(n, m) /\ Streams(n, b) /\ Own(n, b)
  BY DEF Parts
<1>2. PICK how : how = IF calls[n + 1] = "utility" THEN "ok" ELSE "failed"
  OBVIOUS
<1>3. /\ asked[n + 1] = <<>> /\ Rest /\ replies' = replies /\ faults' = faults
      /\ Settles(n, m, how, <<>>)
  BY <1>1, <1>2, ReadNothingIs
<1>4. n < m /\ replies' \in [Ranks -> Seq(AnyReply)] /\ faults' \in 0 .. MaxFaults
  BY <1>1, <1>3 DEF Settles, Typed
<1>5. Typed'
  BY <1>1, <1>3, <1>4, SettledTyped
<1>6. Owned(n, how, <<>>, b)
  BY <1>1, <1>3, <1>4, OwnedNothing
<1>7. Surfaces(n, how, <<>>, b)
  BY <1>1, <1>2, <1>3, SurfacesNothing
<1> QED BY <1>3, <1>5, <1>6, <1>7, SettledWithout

LEMMA ReadFailsGood ==
  ASSUME NEW n, NEW m, NEW b \in [Ranks -> Nat], Parts(n, m, b), ReadFails
  PROVE  Parts(n + 1, m, b)'
<1>1. /\ Typed /\ Futures(n, m) /\ Streams(n, b) /\ Own(n, b)
  BY DEF Parts
<1>2. /\ asked[n + 1] # <<>> /\ Rest /\ replies' = replies /\ faults' \in 0 .. MaxFaults
      /\ replies[asked[n + 1][Len(replied) + 1]] = <<>>
  BY <1>1, ReadFailsIs
<1>3. PICK how : /\ how = "timeout" \/ (how = "failed" /\ Cancelled)
                 /\ Settles(n, m, how, replied)
  BY <1>1, ReadFailsIs
<1>4. n < m /\ replies' \in [Ranks -> Seq(AnyReply)] /\ how # "ok"
  BY <1>1, <1>2, <1>3 DEF Settles, Typed
<1>5. Typed'
  BY <1>1, <1>2, <1>3, <1>4, SettledTyped
<1>6. Owned(n, how, replied, b)
  BY <1>1, <1>2, <1>3, <1>4, OwnedFails
<1>7. Surfaces(n, how, replied, b)
  BY <1>1, <1>2, <1>4, SurfacesFails
<1> QED BY <1>2, <1>3, <1>5, <1>6, <1>7, SettledWithout

\* The steps of a worker leave the main thread's side alone.
LEMMA DriverKept ==
  ASSUME NEW n, NEW m, NEW b, Parts(n, m, b), Driver, alive' = alive
  PROVE  Futures(n, m)' /\ Program(n)' /\ Batches(n, m)' /\ Ahead(n)' /\ Grown
<1>1. Typed /\ Futures(n, m) /\ Program(n) /\ Batches(n, m) /\ Ahead(n)
  BY DEF Parts
<1>2. n \in Nat /\ n <= n
  BY <1>1 DEF Futures
<1>3. UNCHANGED <<aggregated, calls, place, asked, futures, replied, outcome, wanted, batches, monitor, alive>>
  BY DEF Driver, driver
<1>4. Futures(n, m)'
  BY <1>1, <1>3, FuturesKept DEF Closed
<1>5. Program(n)' /\ Batches(n, m)' /\ Ahead(n)'
  BY <1>1, <1>2, <1>3, ProgramKept, BatchesKept, AheadKept
<1>6. Grown
  BY <1>1, <1>3, GrownStays
<1> QED BY <1>4, <1>5, <1>6

\* A worker that lives has not been terminated.
LEMMA AliveNotCancelled ==
  ASSUME NEW n, NEW m, Futures(n, m), NEW r, r \in alive
  PROVE  ~ Cancelled
BY DEF Futures, Cancelled

\* A call is dequeued, or an output sent: the replies of a rank are the same.
LEMMA SameGood ==
  ASSUME NEW n, NEW m, NEW b \in [Ranks -> Nat], Parts(n, m, b), Driver, alive' = alive, Typed',
         NEW r, r \in alive, \A q \in Ranks : SameRank(q) /\ Begun(q)' \in Nat
  PROVE  Parts(n, m, b)'
<1>1. Typed /\ Futures(n, m) /\ Program(n) /\ Streams(n, b) /\ Own(n, b) /\ Surface(n, b)
  BY DEF Parts
<1>2. Futures(n, m)' /\ Program(n)' /\ Batches(n, m)' /\ Ahead(n)' /\ Grown
  BY DriverKept
<1>3. UNCHANGED <<calls, asked, outcome, replied, monitor>> /\ ~ Cancelled
  BY <1>1, AliveNotCancelled DEF Driver, driver
<1>4. Streams(n, b)'
  BY <1>1, <1>3, StreamsKept
<1>5. \A q \in Ranks : Begun(q) <= Begun(q)'
  BY DEF SameRank
<1>6. Own(n, b)'
  BY <1>1, <1>2, <1>3, <1>5, OwnKept DEF Closed
<1>7. \A q \in Ranks : b[q] < n \/ (Dull(q, n + 1) => Dull(q, n + 1)')
  BY DullStays
<1>8. Surface(n, b)'
  BY <1>1, <1>2, <1>3, <1>7, SurfaceKept
<1> QED BY <1>2, <1>4, <1>6, <1>8 DEF Parts

LEMMA FinishGood ==
  ASSUME NEW n, NEW m, NEW b \in [Ranks -> Nat], Parts(n, m, b), NEW r \in Ranks, Finish(r)
  PROVE  Parts(n, m, b)'
<1>1. Typed /\ Futures(n, m) /\ Program(n) /\ Streams(n, b) /\ Own(n, b) /\ Surface(n, b)
  BY DEF Parts
<1>2. PICK what : Finishes(r, doing[r], what)
  BY <1>1, FinishIs
<1>3. PICK c : c = doing[r]
  OBVIOUS
<1>4. Finishes(r, c, what)
  BY <1>2, <1>3
<1>5. Driver /\ UNCHANGED <<got, replies, alive>> /\ r \in alive
  BY <1>4 DEF Finishes
<1>6. Typed'
  BY <1>1, FinishTyped
<1>7. Futures(n, m)' /\ Program(n)' /\ Batches(n, m)' /\ Ahead(n)' /\ Grown
  BY <1>5, DriverKept
<1>8. UNCHANGED <<calls, asked, outcome, replied, monitor>> /\ ~ Cancelled
  BY <1>1, <1>5, AliveNotCancelled DEF Driver, driver
<1>9. Streams(n, b)'
  BY <1>1, <1>4, StreamsFinish
<1>10. \A q \in Ranks : Begun(q) <= Begun(q)' /\ Begun(q)' \in Nat
  BY <1>1, <1>5, StreamIs DEF Begun
<1>11. Own(n, b)'
  BY <1>1, <1>7, <1>8, <1>10, OwnKept DEF Closed
<1>12. Surface(n, b)'
  BY <1>1, <1>4, SurfaceFinish
<1> QED BY <1>6, <1>7, <1>9, <1>11, <1>12 DEF Parts

LEMMA WorkGood ==
  ASSUME NEW n, NEW m, NEW b \in [Ranks -> Nat], Parts(n, m, b), NEW r \in Ranks, Work(r)
  PROVE  Parts(n, m, b)'
<1>1. Typed
  BY DEF Parts
<1>2. CASE Dequeue(r)
  <2>1. Driver /\ alive' = alive /\ r \in alive
    BY <1>1, <1>2, DequeueIs
  <2>2. \A q \in Ranks : SameRank(q) /\ Begun(q)' \in Nat
    BY <1>1, <1>2, DequeueSame
  <2>3. Typed'
    BY <1>1, <1>2, DequeueTyped
  <2> QED BY <2>1, <2>2, <2>3, SameGood
<1>3. CASE Finish(r)
  BY <1>3, FinishGood
<1>4. CASE EnqueueOutput(r)
  <2>1. Driver /\ alive' = alive /\ r \in alive
    BY <1>1, <1>4, EnqueueIs
  <2>2. \A q \in Ranks : SameRank(q) /\ Begun(q)' \in Nat
    BY <1>1, <1>4, EnqueueSame
  <2>3. Typed'
    BY <1>1, <1>4, EnqueueTyped
  <2> QED BY <2>1, <2>2, <2>3, SameGood
<1> QED BY <1>2, <1>3, <1>4 DEF Work

LEMMA MonitorGood ==
  ASSUME NEW n, NEW m, NEW b \in [Ranks -> Nat], Parts(n, m, b), MonitorOrDeath
  PROVE  Parts(n, m, b)'
<1>1. Typed /\ Futures(n, m) /\ Program(n) /\ Batches(n, m) /\ Ahead(n)
  BY DEF Parts
<1>2. n \in Nat /\ n <= n
  BY <1>1 DEF Futures
<1>3. /\ UNCHANGED <<aggregated, calls, got, doing, state, outbox, replies, place, asked, futures, replied,
                     outcome, wanted, batches>>
      /\ alive' \subseteq alive /\ (Closed => Closed') /\ (Cancelled => Cancelled')
      /\ monitor' \notin {"watching", "failed"} => monitor \notin {"watching", "failed"} \/ alive' = {}
  BY DEF MonitorOrDeath, driver
<1>4. Typed'
  BY <1>1, MonitorTyped
<1>5. Futures(n, m)'
  BY <1>1, <1>3, FuturesKept
<1>6. Program(n)' /\ Batches(n, m)' /\ Ahead(n)'
  BY <1>1, <1>2, <1>3, ProgramKept, BatchesKept, AheadKept
<1>7. Grown
  BY <1>1, <1>3, GrownStays
<1>8. Streams(n, b)' /\ Own(n, b)' /\ Surface(n, b)'
  BY <1>3, <1>7, WorkersKept
<1> QED BY <1>4, <1>5, <1>6, <1>8 DEF Parts

LEMMA StepIsGood ==
  ASSUME IInv, [Next]_vars
  PROVE  IInv'
<1>1. PICK n \in Nat, m \in Nat, b \in [Ranks -> Nat] : Parts(n, m, b)
  BY DEF IInv
<1>2. m + 1 \in Nat /\ n + 1 \in Nat
  OBVIOUS
<1>3. CASE UNCHANGED vars
  <2>1. MonitorOrDeath
    <3>1. Typed
      BY <1>1 DEF Parts
    <3> QED BY <1>3, <3>1 DEF MonitorOrDeath, vars, worker, driver, Typed, Closed, Cancelled
  <2> QED BY <1>1, <2>1, MonitorGood DEF IInv
<1>4. CASE Schedule
  <2>1. Call("model") /\ place = "loop" /\ Len(batches) < BatchQueue /\ "model" \in Kinds
    BY <1>4 DEF Schedule, Kinds
  <2> QED BY <1>1, <2>1, CallGood DEF IInv
<1>5. CASE Utility
  <2>1. Call("utility") /\ place = "loop" /\ "utility" \in Kinds
    BY <1>5 DEF Utility, Kinds
  <2> QED BY <1>1, <2>1, CallGood DEF IInv
<1>6. CASE Sample
  <2>1. Call("sample") /\ place = "sample" /\ "sample" \in Kinds
    BY <1>6 DEF Sample, Kinds
  <2> QED BY <1>1, <2>1, CallGood DEF IInv
<1>7. CASE StepRefused \/ NoQueue \/ Noticed
  BY <1>1, <1>7, DownGood DEF IInv
<1>8. CASE Collect
  BY <1>1, <1>8, CollectGood DEF IInv
<1>9. CASE MakeFuture
  BY <1>1, <1>2, <1>9, MakeGood DEF IInv
<1>10. CASE ReadReply
  BY <1>1, <1>10, ReadReplyGood
<1>11. CASE ReadNothing
  BY <1>1, <1>2, <1>11, ReadNothingGood DEF IInv
<1>12. CASE Result
  BY <1>1, <1>12, ResultGood DEF IInv
<1>13. CASE ReadFails
  BY <1>1, <1>2, <1>13, ReadFailsGood DEF IInv
<1>14. CASE Monitor
  <2>1. MonitorOrDeath
    BY <1>1, <1>14, MonitorIs DEF Parts
  <2> QED BY <1>1, <2>1, MonitorGood DEF IInv
<1>15. ASSUME NEW r \in Ranks, Work(r) PROVE IInv'
  BY <1>1, <1>15, WorkGood DEF IInv
<1>16. ASSUME NEW r \in Ranks, Die(r) PROVE IInv'
  <2>1. MonitorOrDeath
    BY <1>1, <1>16, DieIs DEF Parts
  <2> QED BY <1>1, <2>1, MonitorGood DEF IInv
<1>17. CASE Quiet
  BY <1>3, <1>17 DEF Quiet
<1> QED BY <1>3, <1>4, <1>5, <1>6, <1>7, <1>8, <1>9, <1>10, <1>11, <1>12, <1>13, <1>14, <1>15, <1>16, <1>17
        DEF Next, Engine
-----------------------------------------------------------------------------
(* The theorems.                                                           *)

\* Every reply is to a call that has been made.
LEMMA RepliesTyped ==
  ASSUME NEW s \in Seq(AnyReply), \A i \in 1 .. Len(s) : s[i].call \in CallIds
  PROVE  s \in Seq(Reply)
<1>1. s \in [1 .. Len(s) -> AnyReply] /\ Len(s) \in Nat
  OBVIOUS
<1>2. ASSUME NEW i \in 1 .. Len(s) PROVE s[i] \in Reply
  BY <1>1, <1>2 DEF AnyReply, Reply, Whats
<1>3. s \in [1 .. Len(s) -> Reply]
  BY <1>1, <1>2
<1> QED BY <1>1, <1>3

LEMMA RankTyped ==
  ASSUME NEW n, NEW m, NEW b \in [Ranks -> Nat], Parts(n, m, b), NEW r \in Ranks
  PROVE  outbox[r] \in Seq(Reply) /\ replies[r] \in Seq(Reply)
<1>1. Typed /\ Streams(n, b)
  BY DEF Parts
<1>2. /\ Sent(r) \in Nat /\ Kept(r) \in Nat /\ Through(r) \in Nat /\ Len(calls) \in Nat
      /\ Through(r) <= Len(calls)
      /\ \A i \in Unread(r) : Stream(r, i) \in AnyReply
  BY <1>1, StreamIs
<1>3. ASSUME NEW i \in Unread(r) PROVE Stream(r, i).call \in CallIds
  <2>1. b[r] < Stream(r, i).call /\ Stream(r, i).call <= Through(r)
    BY <1>1, <1>3 DEF Streams, InSequence
  <2>2. Stream(r, i).call \in Nat /\ b[r] \in Nat
    BY <1>2, <1>3 DEF AnyReply
  <2> QED BY <1>2, <2>1, <2>2 DEF CallIds
<1>4. ASSUME NEW i \in 1 .. Sent(r) PROVE replies[r][i].call \in CallIds
  <2>1. i \in Unread(r) /\ i <= Sent(r)
    BY <1>2, <1>4 DEF Unread
  <2>2. Stream(r, i) = replies[r][i]
    BY <2>1 DEF Stream
  <2> QED BY <1>3, <2>1, <2>2
<1>5. ASSUME NEW i \in 1 .. Kept(r) PROVE outbox[r][i].call \in CallIds
  <2>1. Sent(r) + i \in Unread(r) /\ ~ (Sent(r) + i <= Sent(r)) /\ (Sent(r) + i) - Sent(r) = i
    BY <1>2, <1>5 DEF Unread
  <2>2. Stream(r, Sent(r) + i) = outbox[r][i]
    BY <2>1 DEF Stream
  <2> QED BY <1>3, <2>1, <2>2
<1>6. outbox[r] \in Seq(AnyReply) /\ replies[r] \in Seq(AnyReply)
  BY <1>1 DEF Typed
<1> QED BY <1>4, <1>5, <1>6, RepliesTyped DEF Sent, Kept

LEMMA OutcomeTyped ==
  ASSUME NEW n, NEW m, NEW b \in [Ranks -> Nat], Parts(n, m, b), NEW c \in CallIds
  PROVE  /\ outcome[c].how \in Hows /\ outcome[c].from \in Seq(Reply) /\ asked[c] \in Seq(Ranks)
         /\ outcome[c].from \in Seq(AnyReply)
<1>1. Typed /\ Futures(n, m) /\ Own(n, b)
  BY DEF Parts
<1>2. n \in Nat /\ c \in 1 .. Len(calls) /\ c \in Nat /\ Len(calls) \in Nat
  BY <1>1 DEF Futures, CallIds, Typed
<1>3. /\ outcome[c].how \in Hows /\ outcome[c].from \in Seq(AnyReply)
      /\ asked[c] \in Seq(Ranks)
  <2>1. /\ outcome \in Seq(Results) /\ c \in 1 .. Len(outcome)
        /\ asked \in Seq(Seq(Ranks)) /\ c \in 1 .. Len(asked)
    BY <1>1, <1>2 DEF Typed, Results
  <2>2. outcome[c] \in Results
    BY <2>1
  <2>3. asked[c] \in Seq(Ranks)
    BY <2>1
  <2> QED BY <2>2, <2>3 DEF Results
<1>4. \A i \in 1 .. Len(outcome[c].from) : outcome[c].from[i].call \in CallIds
  <2>1. CASE c <= n
    <3>1. c \in 1 .. n
      BY <1>2, <2>1
    <3> QED BY <1>1, <3>1 DEF Own, CallIds
  <2>2. CASE ~ (c <= n)
    <3>1. outcome[c] = Pending
      BY <1>1, <1>2, <2>2 DEF Futures
    <3>2. Len(outcome[c].from) = 0
      BY <3>1 DEF Pending
    <3> QED BY <3>2
  <2> QED BY <2>1, <2>2
<1> QED BY <1>3, <1>4, RepliesTyped

\* What waits, waits in the order of the calls.
LEMMA OrderTyped ==
  ASSUME NEW n, NEW m, NEW b \in [Ranks -> Nat], Parts(n, m, b)
  PROVE  \A q \in {futures, batches} :
           \A i, j \in DOMAIN q : q[i] \in CallIds /\ (i < j => q[i] < q[j])
<1>1. Typed /\ Futures(n, m) /\ Batches(n, m)
  BY DEF Parts
<1>2. n \in Nat /\ m \in Nat /\ m <= Len(calls) /\ Len(calls) \in Nat /\ n <= m
  BY <1>1 DEF Typed, Futures
<1>3. DOMAIN futures = 1 .. m - n /\ DOMAIN batches = 1 .. Len(batches)
  BY <1>1 DEF Typed, Futures
<1>4. \A i \in DOMAIN futures : futures[i] = n + i
  BY <1>1, <1>3 DEF Futures
<1>5. \A i, j \in DOMAIN futures : futures[i] \in CallIds /\ (i < j => futures[i] < futures[j])
  <2>1. TAKE i, j \in DOMAIN futures
  <2>2. i \in 1 .. m - n /\ j \in 1 .. m - n /\ futures[i] = n + i /\ futures[j] = n + j
    BY <1>3, <1>4
  <2>3. n + i \in 1 .. Len(calls) /\ (i < j => n + i < n + j)
    BY <1>2, <2>2
  <2> QED BY <2>2, <2>3 DEF CallIds
<1>6. \A i, j \in DOMAIN batches : batches[i] \in CallIds /\ (i < j => batches[i] < batches[j])
  <2>1. \A i \in 1 .. Len(batches) : batches[i] \in 1 .. m
    BY <1>1 DEF Batches
  <2>2. \A k \in 1 .. m : k \in CallIds
    BY <1>2 DEF CallIds
  <2> QED BY <1>1, <1>3, <2>1, <2>2 DEF Batches
<1> QED BY <1>5, <1>6

LEMMA TypeFollows ==
  ASSUME IInv
  PROVE  TypeOK
<1>1. PICK n \in Nat, m \in Nat, b \in [Ranks -> Nat] : Parts(n, m, b)
  BY DEF IInv
<1>2. Typed /\ Futures(n, m) /\ Streams(n, b)
  BY <1>1 DEF Parts
<1>3. /\ aggregated \in BOOLEAN /\ calls \in Seq({"model", "sample", "utility"})
      /\ state \subseteq Ranks /\ alive \subseteq Ranks
      /\ place \in {"loop", "sample", "future", "wait", "down"}
      /\ Len(asked) = Len(calls) /\ Len(outcome) = Len(calls)
      /\ monitor \in {"watching", "failed", "terminated", "cancelled", "closed", "done"}
      /\ notice \in BOOLEAN /\ faults \in 0 .. MaxFaults
  BY <1>2 DEF Typed, Kinds
<1>4. \A r \in Ranks : doing[r] \in {0, Len(got[r])} /\ Len(got[r]) <= Len(calls)
  BY <1>2 DEF Typed
<1>5. \A r \in Ranks : outbox[r] \in Seq(Reply) /\ replies[r] \in Seq(Reply)
  BY <1>1, RankTyped
<1>6. \A c \in CallIds : /\ outcome[c].how \in {"pending", "ok", "failed", "timeout"}
                         /\ outcome[c].from \in Seq(Reply) /\ asked[c] \in Seq(Ranks)
  BY <1>1, OutcomeTyped DEF Hows
<1>7. wanted \in {0} \cup CallIds
  <2>1. wanted \in Nat /\ m \in Nat /\ Len(calls) \in Nat /\ wanted <= m /\ m <= Len(calls)
    BY <1>2 DEF Typed, Futures
  <2> QED BY <2>1 DEF CallIds
<1>8. replied \in Seq(Reply)
  <2>1. replied \in Seq(AnyReply)
    BY <1>2 DEF Typed
  <2>2. \A i \in 1 .. Len(replied) : replied[i].call \in CallIds
    BY <1>2, RepliesAreTo DEF CallIds
  <2> QED BY <2>1, <2>2, RepliesTyped
<1>9. \A q \in {futures, batches} :
        \A i, j \in DOMAIN q : q[i] \in CallIds /\ (i < j => q[i] < q[j])
  BY <1>1, OrderTyped
<1> QED BY <1>3, <1>4, <1>5, <1>6, <1>7, <1>8, <1>9 DEF TypeOK

LEMMA OwnFollows ==
  ASSUME IInv
  PROVE  OwnReplies
<1>1. PICK n \in Nat, m \in Nat, b \in [Ranks -> Nat] : Parts(n, m, b)
  BY DEF IInv
<1>2. Futures(n, m) /\ Own(n, b)
  BY <1>1 DEF Parts
<1>3. SUFFICES ASSUME NEW c \in CallIds, outcome[c].how = "ok", ~ Spoiled(c)
               PROVE  outcome[c].from = [i \in DOMAIN asked[c] |->
                                           [outcome[c].from[i] EXCEPT !.call = c]]
  BY DEF OwnReplies
<1>4. c \in 1 .. Len(calls) /\ outcome[c].from \in Seq(AnyReply) /\ asked[c] \in Seq(Ranks)
  BY <1>1, OutcomeTyped DEF CallIds
<1>5. c \in 1 .. n
  <2>1. c <= n
    BY <1>2, <1>3, <1>4 DEF Futures, Pending
  <2> QED BY <1>4, <2>1
<1>6. /\ Len(outcome[c].from) = Len(asked[c])
      /\ \A i \in 1 .. Len(outcome[c].from) : outcome[c].from[i].call = c
  BY <1>2, <1>3, <1>5 DEF Own
<1> DEFINE s == outcome[c].from
<1>7. DOMAIN s = DOMAIN asked[c] /\ DOMAIN s = 1 .. Len(s) /\ s = [i \in DOMAIN s |-> s[i]]
  BY <1>4, <1>6
<1>8. ASSUME NEW i \in DOMAIN s PROVE s[i] = [s[i] EXCEPT !.call = c]
  <2>1. s[i] \in AnyReply /\ s[i].call = c
    BY <1>4, <1>6, <1>7, <1>8
  <2>2. PICK x : x = s[i]
    OBVIOUS
  <2>3. x = [x EXCEPT !.call = c]
    BY <2>1, <2>2 DEF AnyReply
  <2> QED BY <2>2, <2>3
<1> QED BY <1>7, <1>8

LEMMA SurfaceFollows ==
  ASSUME IInv
  PROVE  FailuresSurface
<1>1. PICK n \in Nat, m \in Nat, b \in [Ranks -> Nat] : Parts(n, m, b)
  BY DEF IInv
<1>2. Typed /\ Futures(n, m) /\ Program(n) /\ Batches(n, m) /\ Surface(n, b)
  BY <1>1 DEF Parts
<1>3. SUFFICES ASSUME NEW c \in CallIds, calls[c] = "sample", place # "down", wanted # c,
                      outcome[c] # Pending, c \notin ToSet(batches)
               PROVE  /\ Output(c) /\ outcome[c - 1].how = "ok"
                      /\ outcome[c].from[IF All(c) THEN OutputRank + 1 ELSE 1].call = c
  BY DEF FailuresSurface
<1>4. c \in 1 .. Len(calls) /\ c \in Nat /\ m \in Nat /\ m <= Len(calls) /\ Len(calls) \in Nat /\ n <= m
  BY <1>2 DEF CallIds, Futures, Typed
<1>5. c <= n
  BY <1>2, <1>3, <1>4 DEF Futures
<1>6. Collected(c)
  <2>1. CASE place = "future"
    <3>1. Len(calls) = m + 1
      BY <1>2, <2>1 DEF Futures
    <3>2. c # Len(calls)
      BY <1>4, <1>5, <3>1
    <3> QED BY <1>3, <3>2 DEF Collected
  <2>2. CASE place # "future"
    BY <1>3, <2>2 DEF Collected
  <2> QED BY <2>1, <2>2
<1>7. /\ Output(c)
      /\ \A d \in 1 .. c - 1 : calls[d] = "sample" => Collected(d)
  BY <1>2, <1>3, <1>4, <1>6 DEF Batches
<1>8. \A d \in 1 .. c : calls[d] = "sample" => Output(d)
  <2>1. ASSUME NEW d \in 1 .. c, calls[d] = "sample" PROVE Output(d)
    <3>1. CASE d = c
      BY <1>7, <3>1
    <3>2. CASE d # c
      <4>1. d \in 1 .. c - 1 /\ d \in 1 .. Len(calls)
        BY <1>4, <3>2
      <4> QED BY <1>2, <1>3, <1>7, <2>1, <4>1 DEF Batches
    <3> QED BY <3>1, <3>2
  <2> QED BY <2>1
<1>9. c \in 1 .. n
  BY <1>4, <1>5
<1> QED BY <1>2, <1>3, <1>7, <1>8, <1>9 DEF Surface

\* No worker is more than a call behind the calls that have their results.
LEMMA WorkersKeepUp ==
  ASSUME NEW n, NEW m, NEW b \in [Ranks -> Nat], Parts(n, m, b), ~ Spoiled(n + 1), ~ Cancelled,
         NEW r \in Ranks
  PROVE  n <= Begun(r) + 1
<1>1. Typed /\ Futures(n, m) /\ Program(n) /\ Own(n, b)
  BY DEF Parts
<1>2. n \in Nat /\ m \in Nat /\ n <= m /\ m <= Len(calls) /\ Len(calls) \in Nat /\ Begun(r) \in Nat
  BY <1>1, StreamIs DEF Futures
<1>3. \A c \in 1 .. n : calls[c] # "sample" => c <= Begun(r)
  BY <1>1 DEF Own
<1>4. CASE n = 0
  BY <1>2, <1>4
<1>5. CASE n # 0 /\ calls[n] # "sample"
  BY <1>2, <1>3, <1>5
<1>6. CASE n # 0 /\ calls[n] = "sample"
  <2>1. n \in 1 .. Len(calls)
    BY <1>2, <1>6
  <2>2. n > 1 /\ calls[n - 1] = "model"
    BY <1>1, <1>6, <2>1 DEF Program
  <2>3. n - 1 \in 1 .. n
    BY <1>2, <2>2
  <2>4. n - 1 <= Begun(r)
    BY <1>3, <2>2, <2>3
  <2> QED BY <1>2, <2>4
<1> QED BY <1>4, <1>5, <1>6

LEMMA ViewsFollow ==
  ASSUME IInv, 2 * BatchQueue + 3 <= Chunks
  PROVE  ViewsStable
<1>1. PICK n \in Nat, m \in Nat, b \in [Ranks -> Nat] : Parts(n, m, b)
  BY DEF IInv
<1>2. Typed /\ Futures(n, m) /\ Ahead(n)
  BY <1>1 DEF Parts
<1>3. SUFFICES ASSUME NEW r \in alive, doing[r] # 0, ~ Spoiled(Len(calls) + 1)
               PROVE  Len(calls) < doing[r] + Chunks
  BY DEF ViewsStable
<1>4. r \in Ranks /\ doing[r] = Begun(r) /\ Begun(r) \in Nat /\ Len(calls) \in Nat
  BY <1>2, <1>3, StreamIs DEF Typed
<1>5. ~ Spoiled(n + 1)
  <2>1. n <= Len(calls)
    BY <1>2, <1>4 DEF Futures
  <2>2. \A d \in 1 .. (n + 1) - 1 : d \in 1 .. (Len(calls) + 1) - 1
    BY <1>4, <2>1
  <2> QED BY <1>3, <2>2 DEF Spoiled
<1>6. n <= Begun(r) + 1
  BY <1>1, <1>2, <1>3, <1>4, <1>5, AliveNotCancelled, WorkersKeepUp
<1>7. Len(calls) <= n + 2 * BatchQueue + 1 /\ BatchQueue \in Nat /\ Chunks \in Nat
  BY <1>2, ExecutorAssumption DEF Ahead
<1> QED BY <1>4, <1>6, <1>7

\* The invariant that the theorems rest on holds of the executor.
LEMMA InvariantHolds == Spec => []IInv
<1>1. Init => IInv
  BY InitIsGood
<1>2. IInv /\ [Next]_vars => IInv'
  BY StepIsGood
<1> QED BY <1>1, <1>2, PTL DEF Spec

\* For any workers, sizes of the queues and bounds: futures and batches wait in
\* the order of the calls (collective_rpc, step_with_batch_queue); what a call
\* returns are the replies to it, one of every rank it asked, as long as no call
\* before it was left with unread replies (get_response); and a step whose
\* output reaches the scheduler failed on no rank, with the output its own, even
\* after timeouts and failures (handle_output, sample_tokens).
THEOREM ResultsAreRight == Spec => []Safe
<1>1. IInv => Safe
  BY TypeFollows, OwnFollows, SurfaceFollows DEF Safe
<1> QED BY <1>1, InvariantHolds, PTL

\* With chunks for two calls of every batch and three more, no chunk of the
\* message queue is written again while a worker executes the call whose
\* argument is a view of it (execute_model and sample_tokens of
\* step_with_batch_queue, the collectives of a forward pass, waiting utility
\* calls).
THEOREM ArgumentsLast ==
  ASSUME 2 * BatchQueue + 3 <= Chunks
  PROVE  Spec => []ViewsStable
<1>1. IInv => ViewsStable
  BY ViewsFollow
<1> QED BY <1>1, InvariantHolds, PTL
=============================================================================
