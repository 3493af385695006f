------------------------- MODULE MessageQueueProofs -------------------------
(***************************************************************************)
(* The message queue delivers every message whole, once and in order, for  *)
(* any number of readers, of chunks and of messages, with time-outs and    *)
(* shutdowns, on a processor that keeps the order of stores; and it        *)
(* implements the broadcast for the readers that never time out.  With     *)
(* Relaxed the first claim is false, as TLC shows.                         *)
(***************************************************************************)
EXTENDS MessageQueue, FiniteSetTheorems, SequenceTheorems, TLAPS

StoreSet == {<<"unwrite">>, <<"tear">>, <<"fill">>} \cup ({"clear"} \X Readers)

TypedShared ==
  /\ written \in [Chunks -> BOOLEAN] /\ read \in [Chunks -> SUBSET Readers]
  /\ data \in [Chunks -> Messages \cup {Torn, Over}]
  /\ pending \in Seq(StoreSet)

TypedWriter ==
  /\ wpc \in WriterPlaces /\ sent \in 0 .. MaxMessages /\ large \subseteq Messages
  /\ alive \in BOOLEAN

TypedReader ==
  /\ rpc \in [Readers -> ReaderPlaces] /\ rflag \in [Readers -> BOOLEAN]
  /\ hold \in [Readers -> Messages \cup {Torn, Over}]
  /\ taken \in [Readers -> Nat] /\ lost \in [Readers -> Nat]
  /\ got \in [Readers \cup Remotes -> Seq(Messages)]

TypedSockets ==
  /\ pipe \in [Readers \cup Remotes -> Seq(Messages)]
  /\ notified \subseteq Readers /\ cancelled \subseteq shutting /\ shutting \subseteq Stopping

Typed == TypedShared /\ TypedWriter /\ TypedReader /\ TypedSockets

\* The chunk of message k + 1 is not being overwritten.
Intact(k) == sent <= k + MaxChunks /\ (wpc = "fence" => sent < k + MaxChunks)

\* The last messages are in their chunks, with the flags of the readers that
\* have taken them, and the chunks that were never written look like it.
Ring ==
  /\ \A k \in Nat : k < sent /\ Intact(k) =>
       /\ written[Chunk(k)] /\ data[Chunk(k)] = Content(k + 1)
       /\ \A r \in Readers : r \in read[Chunk(k)] <=> k < taken[r]
  /\ \A k \in Nat : sent <= k /\ k < MaxChunks => ~written[k] /\ read[k] = {}

\* No reader is ahead of the writer, or waits for a message that is gone.
Near == \A r \in Readers : taken[r] <= sent /\ Intact(taken[r])

\* The stores of the write in progress that are visible.
Done == Len(Stores) - Len(pending)

\* The writer between its two fences: the written flag goes down first, the
\* data comes next, then the flags of the readers.
Writing ==
  /\ pending # <<>> => wpc = "fence"
  /\ wpc \in {"acquire", "fence"} => sent < MaxMessages
  /\ wpc \in {"send", "notify", "remote"} => sent > 0
  /\ wpc = "send" => sent \in large
  /\ \A m \in large : m <= sent \/ (m = Message /\ wpc \in {"acquire", "fence"})
  /\ wpc = "fence" =>
       /\ Done \in Nat
       /\ \A i \in 1 .. Len(pending) : pending[i] = Stores[Done + i]
       /\ Done = 0 => (written[Chunk(sent)] => read[Chunk(sent)] = Readers)
       /\ Done > 0 => ~written[Chunk(sent)]
       /\ Done > 2 => data[Chunk(sent)] = Content(Message)
       /\ \A i \in 4 .. Done : Stores[i][2] \notin read[Chunk(sent)]

\* What a reader has found out about its chunk is still so.
Reading ==
  \A r \in Readers :
    /\ rpc[r] = "check written" /\ taken[r] = sent /\ ~rflag[r] => ~written[Chunk(sent)]
    /\ rpc[r] \in {"copy", "mark"} => taken[r] < sent
    /\ rpc[r] = "mark" => hold[r] = Content(taken[r] + 1)
    /\ rpc[r] = "receive" => taken[r] \in large

\* The large messages that have gone out through the sockets.
Piped == IF wpc = "send" THEN sent - 1 ELSE sent

\* A socket holds large messages in order, all after those the reader has got.
SocketOf(r) ==
  /\ \A i \in 1 .. Len(pipe[r]) : pipe[r][i] \in large /\ pipe[r][i] <= Piped
  /\ \A i, j \in 1 .. Len(pipe[r]) : i < j => pipe[r][i] < pipe[r][j]
  /\ \A i \in 1 .. Len(got[r]) :
       IF got[r][i] \in large
       THEN got[r][i] <= Piped /\ \A j \in 1 .. Len(pipe[r]) : got[r][i] < pipe[r][j]
       ELSE got[r][i] <= taken[r]

\* The chunks a reader has marked as read are the messages it has got, the ones
\* it has lost and the one it is receiving; and without a loss the messages it
\* has got are the first ones, and its socket holds the next large ones.
AccountOf(r) ==
  /\ Len(got[r]) + lost[r] + (IF rpc[r] = "receive" THEN 1 ELSE 0) = taken[r]
  /\ r \notin Timed => lost[r] = 0
  /\ lost[r] = 0 =>
       /\ \A i \in 1 .. Len(got[r]) : got[r][i] = i
       /\ \A j \in 1 .. Len(pipe[r]) : Len(got[r]) < pipe[r][j]
       /\ \A m \in large : Len(got[r]) < m /\ m <= Piped =>
            \E j \in 1 .. Len(pipe[r]) : pipe[r][j] = m

\* What a reader has got is in order, the small and the large each.
OrderOf(r) ==
  \A i, j \in 1 .. Len(got[r]) :
    i < j /\ (got[r][i] \in large <=> got[r][j] \in large) => got[r][i] < got[r][j]

Mail(r) == SocketOf(r) /\ AccountOf(r) /\ OrderOf(r)

IInv ==
  /\ Typed /\ Ring /\ Near /\ Writing /\ Reading
  /\ \A r \in Readers : Mail(r)

-----------------------------------------------------------------------------
(* Lemmas on the helpers.                                                  *)

\* Only zero has a multiple closer to zero than the factor.
LEMMA NoMultiple ==
  ASSUME NEW n \in Nat, n > 0, NEW d \in Int, n * d < n, 0 - n < n * d
  PROVE  d = 0
<1>1. n * d \in Int
  OBVIOUS
<1>2. CASE d >= 1
  <2>1. n * d >= n
    BY <1>2
  <2> QED BY <1>1, <2>1
<1>3. CASE d <= -1
  <2>1. n * d <= 0 - n
    BY <1>3
  <2> QED BY <1>1, <2>1
<1> QED BY <1>2, <1>3

\* Numbers that are less than n apart have different remainders, numbers that
\* are n apart have the same one.
LEMMA Remainders ==
  ASSUME NEW n \in Nat, n > 0, NEW a \in Nat, NEW b \in Nat, a < b, b <= a + n
  PROVE  a % n = b % n <=> b = a + n
<1> DEFINE p == a \div n
<1> DEFINE q == b \div n
<1> DEFINE x == a % n
<1> DEFINE y == b % n
<1>1. /\ p \in Int /\ q \in Int
      /\ a = n * p + x /\ b = n * q + y
      /\ x \in 0 .. n - 1 /\ y \in 0 .. n - 1
  OBVIOUS
<1> SUFFICES x = y <=> b = a + n
  OBVIOUS
<1> HIDE DEF p, q, x, y
<1>2. /\ n * (q - p) = n * q - n * p /\ n * (q - p - 1) = n * q - n * p - n
      /\ n * q \in Int /\ n * p \in Int
  BY <1>1
<1>3. ASSUME x = y PROVE b = a + n
  <2>1. n * (q - p - 1) = b - a - n
    BY <1>1, <1>2, <1>3
  <2>2. CASE b = a + n
    BY <2>2
  <2>3. CASE b < a + n
    <3>1. n * (q - p - 1) < n /\ 0 - n < n * (q - p - 1)
      BY <2>1, <2>3
    <3>2. q - p - 1 = 0
      BY <1>1, <3>1, NoMultiple
    <3> QED BY <1>1, <1>2, <2>1, <3>2
  <2> QED BY <2>2, <2>3
<1>4. ASSUME b = a + n PROVE x = y
  <2>1. n * (q - p - 1) = x - y
    BY <1>1, <1>2, <1>4
  <2>2. n * (q - p - 1) < n /\ 0 - n < n * (q - p - 1)
    BY <1>1, <2>1
  <2>3. q - p - 1 = 0
    BY <1>1, <2>2, NoMultiple
  <2> QED BY <1>1, <1>2, <2>1, <2>3
<1> QED BY <1>3, <1>4

\* A chunk is used again after MaxChunks messages, and not before; the first
\* messages have the chunks of their numbers.
LEMMA ChunkAgain ==
  ASSUME NEW k \in Nat
  PROVE  /\ Chunk(k) \in Chunks
         /\ Chunk(k + MaxChunks) = Chunk(k)
         /\ k < MaxChunks => Chunk(k) = k
<1>1. MaxChunks \in Nat /\ MaxChunks > 0
  BY QueueAssumption
<1>2. Chunk(k) \in Chunks /\ (k < MaxChunks => Chunk(k) = k)
  BY <1>1 DEF Chunk, Chunks
<1>3. k + MaxChunks \in Nat /\ k < k + MaxChunks /\ k + MaxChunks <= k + MaxChunks
  BY <1>1
<1>4. k % MaxChunks = (k + MaxChunks) % MaxChunks
  BY <1>1, <1>3, Remainders
<1> QED BY <1>2, <1>4 DEF Chunk

LEMMA ChunkDistinct ==
  ASSUME NEW a \in Nat, NEW b \in Nat, a < b, b < a + MaxChunks
  PROVE  Chunk(a) # Chunk(b)
<1>1. MaxChunks \in Nat /\ MaxChunks > 0
  BY QueueAssumption
<1>2. b <= a + MaxChunks /\ b # a + MaxChunks
  BY <1>1
<1>3. a % MaxChunks # b % MaxChunks
  BY <1>1, <1>2, Remainders
<1> QED BY <1>3 DEF Chunk

\* The stores of a write: the written flag, the data in two stores, and then the
\* flag of every reader.
LEMMA StoresAre ==
  /\ Stores \in Seq(StoreSet) /\ Len(Stores) \in Nat /\ Len(Stores) >= 3
  /\ Stores[1] = <<"unwrite">> /\ Stores[2] = <<"tear">> /\ Stores[3] = <<"fill">>
  /\ \A i \in 4 .. Len(Stores) : Stores[i][1] = "clear" /\ Stores[i][2] \in Readers
  /\ \A r \in Readers : \E i \in 4 .. Len(Stores) : Stores[i][2] = r
<1> DEFINE n == Cardinality(Readers)
<1> DEFINE s == SetToSeq(Readers)
<1> DEFINE first == <<<<"unwrite">>, <<"tear">>, <<"fill">>>>
<1>1. IsFiniteSet(Readers) /\ n \in Nat
  BY QueueAssumption, FS_CardinalityType
<1>2. s \in Injection(1 .. n, Readers)
  <2>1. ExistsBijection(1 .. n, Readers)
    BY <1>1, FS_CardinalityType
  <2>2. \E f \in [1 .. n -> Readers] : IsInjective(f)
    BY <2>1 DEF ExistsBijection, Bijection, Injection
  <2>3. s \in [1 .. n -> Readers] /\ IsInjective(s)
    BY <2>2 DEF SetToSeq
  <2> QED BY <2>3 DEF Injection
<1>3. s \in Surjection(1 .. n, Readers)
  <2>1. IsFiniteSet(1 .. n) /\ Cardinality(1 .. n) = n
    BY <1>1, FS_Interval
  <2> QED BY <1>1, <1>2, <2>1, FS_Injection
<1>4. Len(s) = n /\ s \in Seq(Readers)
  BY <1>1, <1>2 DEF Injection
<1> HIDE DEF s
<1>5. Clears = [i \in 1 .. n |-> <<"clear", s[i]>>]
  BY <1>4 DEF Clears, s
<1>6. Clears \in Seq({"clear"} \X Readers) /\ Len(Clears) = n
  <2>1. \A i \in 1 .. n : <<"clear", s[i]>> \in {"clear"} \X Readers
    BY <1>4
  <2> QED BY <1>1, <1>5, <2>1
<1>7. first \in Seq(StoreSet) /\ Clears \in Seq(StoreSet) /\ Len(first) = 3
  BY <1>6 DEF StoreSet
<1>8. /\ Stores \in Seq(StoreSet) /\ Len(Stores) = 3 + n
      /\ \A i \in 1 .. 3 + n : Stores[i] = IF i <= 3 THEN first[i] ELSE Clears[i - 3]
  BY <1>1, <1>6, <1>7, ConcatProperties DEF Stores
<1>9. Stores[1] = <<"unwrite">> /\ Stores[2] = <<"tear">> /\ Stores[3] = <<"fill">>
  BY <1>1, <1>8
<1>10. \A i \in 4 .. Len(Stores) : Stores[i] = <<"clear", s[i - 3]>> /\ s[i - 3] \in Readers
  BY <1>1, <1>4, <1>5, <1>8
<1>11. ASSUME NEW r \in Readers PROVE \E i \in 4 .. Len(Stores) : Stores[i][2] = r
  <2>1. PICK j \in 1 .. n : s[j] = r
    BY <1>3 DEF Surjection
  <2>2. j + 3 \in 4 .. Len(Stores)
    BY <1>1, <1>8
  <2>3. Stores[j + 3][2] = r
    BY <1>1, <1>10, <2>1, <2>2
  <2> QED BY <2>2, <2>3
<1> QED BY <1>1, <1>8, <1>9, <1>10, <1>11

-----------------------------------------------------------------------------
(* The types.                                                              *)

\* On a processor that keeps the order of stores the first waiting store is the
\* one that becomes visible.
LEMMA VisibleInOrder ==
  ASSUME ~Relaxed, Typed, NEW i \in 1 .. Len(pending), Visible(i)
  PROVE  /\ i = 1 /\ Len(pending) > 0
         /\ pending' \in Seq(StoreSet) /\ Len(pending') = Len(pending) - 1
         /\ \A j \in 1 .. Len(pending') : pending'[j] = pending[j + 1]
<1>1. i = 1 /\ Len(pending) \in Nat /\ Len(pending) > 0
  BY DEF Visible, Typed, TypedShared
<1>2. pending' = SubSeq(pending, 1, 0) \o SubSeq(pending, 2, Len(pending))
  BY <1>1 DEF Visible, RemoveAt
<1>3. SubSeq(pending, 1, 0) = <<>>
  BY SubSeqEmpty
<1>4. /\ SubSeq(pending, 2, Len(pending)) \in Seq(StoreSet)
      /\ Len(SubSeq(pending, 2, Len(pending))) = Len(pending) - 1
      /\ \A j \in 1 .. Len(pending) - 1 : SubSeq(pending, 2, Len(pending))[j] = pending[j + 1]
  <2>1. pending \in Seq(StoreSet) /\ pending # <<>>
    BY <1>1 DEF Typed, TypedShared
  <2>2. SubSeq(pending, 2, Len(pending)) = Tail(pending)
    BY <2>1, TailIsSubSeq
  <2>3. /\ Tail(pending) \in Seq(StoreSet) /\ Len(Tail(pending)) = Len(pending) - 1
        /\ \A j \in 1 .. Len(Tail(pending)) : Tail(pending)[j] = pending[j + 1]
    BY <2>1, HeadTailProperties
  <2> QED BY <2>2, <2>3
<1>5. pending' = SubSeq(pending, 2, Len(pending))
  BY <1>2, <1>3, <1>4, ConcatEmptySeq
<1> QED BY <1>1, <1>4, <1>5

\* Every step keeps the types.
LEMMA TypedStep ==
  ASSUME ~Relaxed, IInv, [Next]_vars
  PROVE  Typed'
<1> USE DEF IInv, Typed
<1>s. UNCHANGED shared => TypedShared'
  BY DEF shared, TypedShared
<1>w. UNCHANGED writer => TypedWriter'
  BY DEF writer, TypedWriter
<1>r. UNCHANGED reader => TypedReader'
  BY DEF reader, TypedReader
<1>o. UNCHANGED sockets => TypedSockets'
  BY DEF sockets, TypedSockets
<1>1. CASE Enqueue
  <2>1. TypedWriter'
    BY <1>1, QueueAssumption
       DEF AtWriter, Message, Messages, Enqueue, TypedWriter, WriterPlaces, writer
  <2> QED BY <1>1, <2>1, <1>s, <1>r, <1>o DEF AtWriter, Enqueue
<1>2. CASE AcquireWrite
  <2>1. TypedShared'
    BY <1>2, StoresAre DEF AtWriter, AcquireWrite, TypedShared, shared
  <2>2. TypedWriter'
    BY <1>2 DEF AtWriter, AcquireWrite, TypedWriter, WriterPlaces, writer
  <2> QED BY <1>2, <2>1, <2>2, <1>r, <1>o DEF AtWriter, AcquireWrite
<1>3. CASE WriterTimesOut
  <2>1. TypedWriter'
    BY <1>3 DEF AtWriter, Message, WriterTimesOut, TypedWriter, WriterPlaces, writer
  <2> QED BY <1>3, <2>1, <1>s, <1>r, <1>o DEF AtWriter, WriterTimesOut
<1>4. CASE Publish
  <2>1. TypedShared'
    BY <1>4, ChunkAgain DEF AtWriter, TypedWriter, Publish, TypedShared, shared
  <2>2. TypedWriter'
    BY <1>4, QueueAssumption DEF AtWriter, Writing, Publish, TypedWriter, WriterPlaces, writer
  <2> QED BY <1>4, <2>1, <2>2, <1>r, <1>o DEF AtWriter, Publish
<1>5. CASE SendLarge
  <2>1. TypedWriter'
    BY <1>5 DEF AtWriter, SendLarge, TypedWriter, WriterPlaces, writer
  <2>2. TypedSockets'
    <3>1. sent \in Messages
      BY <1>5 DEF AtWriter, Writing, TypedWriter, Messages, SendLarge
    <3>2. \A q \in Readers \cup Remotes : Append(pipe[q], sent) \in Seq(Messages)
      BY <3>1 DEF TypedSockets
    <3> QED BY <1>5, <3>2 DEF AtWriter, SendLarge, TypedSockets
  <2> QED BY <1>5, <2>1, <2>2, <1>s, <1>r DEF AtWriter, SendLarge
<1>6. CASE Notify
  <2>1. TypedWriter'
    BY <1>6 DEF AtWriter, Notify, TypedWriter, WriterPlaces, writer
  <2>2. TypedSockets'
    BY <1>6 DEF AtWriter, Notify, TypedSockets, sockets
  <2> QED BY <1>6, <2>1, <2>2, <1>s, <1>r DEF AtWriter, Notify
<1>7. CASE SendRemote
  <2>1. TypedWriter'
    BY <1>7 DEF AtWriter, SendRemote, TypedWriter, WriterPlaces, writer
  <2>2. TypedSockets'
    <3>1. sent \in Messages
      BY <1>7 DEF AtWriter, Writing, TypedWriter, Messages, SendRemote
    <3>2. \A q \in Readers \cup Remotes : Append(pipe[q], sent) \in Seq(Messages)
      BY <3>1 DEF TypedSockets
    <3> QED BY <1>7, <3>2 DEF AtWriter, SendRemote, TypedSockets
  <2> QED BY <1>7, <2>1, <2>2, <1>s, <1>r DEF AtWriter, SendRemote
<1>8. ASSUME NEW r \in Readers, LoadReadFlag(r) PROVE Typed'
  <2>1. TypedReader'
    <3>1. rpc' \in [Readers -> ReaderPlaces]
      BY <1>8 DEF LoadReadFlag, TypedReader, ReaderPlaces, At
    <3>2. \/ rflag' = [rflag EXCEPT ![r] = TRUE]
          \/ rflag' = [rflag EXCEPT ![r] = FALSE]
      <4>1. (r \in read[Chunk(taken[r])]) = TRUE \/ (r \in read[Chunk(taken[r])]) = FALSE
        OBVIOUS
      <4> QED BY <1>8, <4>1, Zenon DEF LoadReadFlag
    <3> QED BY <1>8, <3>1, <3>2 DEF LoadReadFlag, TypedReader
  <2> QED BY <1>8, <2>1, <1>s, <1>w, <1>o DEF LoadReadFlag
<1>9. ASSUME NEW r \in Readers, LoadWrittenFlag(r) PROVE Typed'
  <2>1. TypedReader'
    BY <1>9 DEF LoadWrittenFlag, TypedReader, reader, ReaderPlaces, At
  <2> QED BY <1>9, <2>1, <1>s, <1>w, <1>o DEF LoadWrittenFlag
<1>10. ASSUME NEW r \in Readers, Spin(r) PROVE Typed'
  <2>1. TypedReader'
    BY <1>10 DEF Waited, Spin, TypedReader, reader, ReaderPlaces, At
  <2> QED BY <1>10, <2>1, <1>s, <1>w, <1>o DEF Spin
<1>11. ASSUME NEW r \in Readers, GoIdle(r) PROVE Typed'
  <2>1. TypedReader'
    BY <1>11 DEF GoIdle, TypedReader, reader, ReaderPlaces, At
  <2> QED BY <1>11, <2>1, <1>s, <1>w, <1>o DEF GoIdle
<1>12. ASSUME NEW r \in Readers, Woken(r) PROVE Typed'
  <2>1. TypedReader'
    BY <1>12 DEF Waited, Woken, TypedReader, reader, ReaderPlaces, At
  <2>2. TypedSockets'
    BY <1>12 DEF Woken, TypedSockets, sockets
  <2> QED BY <1>12, <2>1, <2>2, <1>s, <1>w DEF Woken
<1>13. ASSUME NEW r \in Readers, CopyOut(r) PROVE Typed'
  <2>1. TypedReader'
    BY <1>13, ChunkAgain DEF TypedShared, CopyOut, TypedReader, reader, ReaderPlaces, At
  <2> QED BY <1>13, <2>1, <1>s, <1>w, <1>o DEF CopyOut
<1>14. ASSUME NEW r \in Readers, MarkRead(r) PROVE Typed'
  <2>1. TypedShared'
    BY <1>14, ChunkAgain DEF TypedReader, MarkRead, TypedShared, shared
  <2>2. TypedReader'
    <3>1. hold[r] = Over \/ hold[r] \in Messages
      <4>1. hold[r] = Content(taken[r] + 1) /\ taken[r] < sent
        BY <1>14 DEF MarkRead, At, Reading
      <4>2. taken[r] + 1 \in Messages
        BY <4>1, QueueAssumption DEF Messages, TypedWriter, TypedReader
      <4> QED BY <4>1, <4>2 DEF Content
    <3>2. hold[r] # Over => Append(got[r], hold[r]) \in Seq(Messages)
      BY <3>1 DEF TypedReader
    <3>3. rpc' \in [Readers -> ReaderPlaces] /\ got' \in [Readers \cup Remotes -> Seq(Messages)]
      BY <1>14, <3>2 DEF MarkRead, At, TypedReader, ReaderPlaces
    <3>4. taken' \in [Readers -> Nat]
      BY <1>14 DEF MarkRead, TypedReader
    <3> QED BY <1>14, <3>3, <3>4 DEF MarkRead, TypedReader
  <2> QED BY <1>14, <2>1, <2>2, <1>w, <1>o DEF MarkRead
<1>15. ASSUME NEW r \in Readers, ReceiveLarge(r) PROVE Typed'
  <2>1. TypedReader'
    <3>1. Append(got[r], Head(pipe[r])) \in Seq(Messages)
      BY <1>15 DEF ReceiveLarge, TypedReader, TypedSockets
    <3> QED BY <1>15, <3>1 DEF ReceiveLarge, TypedReader, ReaderPlaces, At
  <2>2. TypedSockets'
    BY <1>15, HeadTailProperties DEF ReceiveLarge, TypedSockets, sockets
  <2> QED BY <1>15, <2>1, <2>2, <1>s, <1>w DEF ReceiveLarge
<1>16. ASSUME NEW r \in Readers, ReadTimesOut(r) PROVE Typed'
  <2>1. TypedReader'
    BY <1>16 DEF ReadTimesOut, TypedReader, reader, ReaderPlaces, At
  <2> QED BY <1>16, <2>1, <1>s, <1>w, <1>o DEF ReadTimesOut
<1>17. ASSUME NEW r \in Readers, SocketTimesOut(r) PROVE Typed'
  <2>1. TypedReader'
    <3>1. lost[r] + 1 \in Nat
      BY DEF TypedReader
    <3>2. lost' \in [Readers -> Nat]
      BY <1>17, <3>1 DEF SocketTimesOut, TypedReader
    <3> QED BY <1>17, <3>2 DEF SocketTimesOut, TypedReader, ReaderPlaces, At
  <2> QED BY <1>17, <2>1, <1>s, <1>w, <1>o DEF SocketTimesOut
<1>18. ASSUME NEW r \in Readers, ShutDown(r) PROVE Typed'
  <2>1. TypedSockets'
    BY <1>18 DEF ShutDown, TypedSockets, sockets
  <2> QED BY <1>18, <2>1, <1>s, <1>w, <1>r DEF ShutDown
<1>19. ASSUME NEW r \in Readers, Cancel(r) PROVE Typed'
  <2>1. TypedSockets'
    BY <1>19 DEF Cancel, TypedSockets, sockets
  <2> QED BY <1>19, <2>1, <1>s, <1>w, <1>r DEF Cancel
<1>20. ASSUME NEW i \in 1 .. Len(pending), Visible(i) PROVE Typed'
  <2>1. TypedShared'
    <3> DEFINE c == Chunk(sent)
    <3> DEFINE u == pending[i]
    <3>1. c \in Chunks
      BY ChunkAgain DEF TypedWriter
    <3>2. read[c] \ {u[2]} \in SUBSET Readers
      BY <3>1 DEF TypedShared
    <3>3. u[1] = "fill" => Content(Message) \in Messages \cup {Torn, Over}
      <4>1. wpc = "fence"
        BY DEF Writing, TypedShared
      <4> QED BY <4>1, QueueAssumption DEF Writing, TypedWriter, Content, Message, Messages
    <3> HIDE DEF c, u
    <3>4. written' \in [Chunks -> BOOLEAN]
      BY <1>20, <3>1 DEF Visible, TypedShared, c, u
    <3>5. read' \in [Chunks -> SUBSET Readers]
      BY <1>20, <3>1, <3>2 DEF Visible, TypedShared, c, u
    <3>6. data' \in [Chunks -> Messages \cup {Torn, Over}]
      BY <1>20, <3>1, <3>3 DEF Visible, TypedShared, c, u
    <3> QED BY <1>20, <3>4, <3>5, <3>6, VisibleInOrder DEF TypedShared
  <2> QED BY <1>20, <2>1, <1>w, <1>r, <1>o DEF Visible
<1>21. ASSUME NEW r \in Remotes, RemoteDequeue(r) PROVE Typed'
  <2>1. /\ Append(got[r], Head(pipe[r])) \in Seq(Messages)
        /\ Tail(pipe[r]) \in Seq(Messages)
    BY <1>21 DEF RemoteDequeue, TypedReader, TypedSockets
  <2>2. TypedReader'
    BY <1>21, <2>1 DEF RemoteDequeue, TypedReader
  <2>3. TypedSockets'
    BY <1>21, <2>1 DEF RemoteDequeue, TypedSockets
  <2> QED BY <1>21, <2>2, <2>3, <1>s, <1>w DEF RemoteDequeue
<1>22. CASE UNCHANGED vars
  BY <1>22, <1>s, <1>w, <1>r, <1>o DEF vars
<1>23. CASE WriterDies
  <2>1. TypedWriter'
    BY <1>23 DEF WriterDies, TypedWriter
  <2> QED BY <1>23, <2>1, <1>s, <1>r, <1>o DEF WriterDies
<1> QED
  BY <1>1, <1>2, <1>3, <1>4, <1>5, <1>6, <1>7, <1>8, <1>9, <1>10, <1>11, <1>12, <1>13, <1>14,
     <1>15, <1>16, <1>17, <1>18, <1>19, <1>20, <1>21, <1>22, <1>23
     DEF Next, Fenced, Drain, Step, Quiet

-----------------------------------------------------------------------------
(* The ring.                                                               *)

RingInv == Ring /\ Near /\ Writing /\ Reading

\* The types that the arithmetic of the ring needs.
LEMMA RingTypes ==
  ASSUME Typed
  PROVE  /\ sent \in Nat /\ sent <= MaxMessages /\ MaxMessages \in Nat
         /\ MaxChunks \in Nat /\ MaxChunks > 0
         /\ \A r \in Readers : taken[r] \in Nat
         /\ Chunk(sent) \in Chunks /\ \A r \in Readers : Chunk(taken[r]) \in Chunks
<1>1. /\ sent \in Nat /\ sent <= MaxMessages /\ MaxMessages \in Nat
      /\ MaxChunks \in Nat /\ MaxChunks > 0
      /\ \A r \in Readers : taken[r] \in Nat
  BY QueueAssumption DEF Typed, TypedWriter, TypedReader
<1> QED BY <1>1, ChunkAgain

\* The content of a published message does not change with the next one.
LEMMA ContentStays ==
  ASSUME Typed, Enqueue \/ WriterTimesOut
  PROVE  /\ \A m \in Nat : m <= sent => Content(m)' = Content(m)
         /\ \A m \in Nat : m <= sent => (m \in large' <=> m \in large)
<1>1. \A m \in Nat : m <= sent => (m \in large' <=> m \in large)
  BY RingTypes DEF AtWriter, Enqueue, WriterTimesOut, Message
<1> QED BY <1>1 DEF Content, Over

\* The writer may overwrite the chunk only when all readers have taken what is
\* in it.
LEMMA WritableIsTaken ==
  ASSUME Typed, Ring, Near, wpc = "acquire", Writable(Chunk(sent))
  PROVE  \A r \in Readers : sent < taken[r] + MaxChunks
<1> SUFFICES ASSUME NEW r \in Readers PROVE sent < taken[r] + MaxChunks
  OBVIOUS
<1>1. CASE sent < MaxChunks
  BY <1>1, RingTypes
<1>2. CASE sent >= MaxChunks
  <2> DEFINE k == sent - MaxChunks
  <2>1. k \in Nat /\ k + MaxChunks = sent
    BY <1>2, RingTypes
  <2>2. Chunk(k) = Chunk(sent)
    BY <2>1, ChunkAgain
  <2>3. k < sent /\ Intact(k)
    BY <2>1, RingTypes DEF Intact
  <2> HIDE DEF k
  <2>4. written[Chunk(k)] /\ (r \in read[Chunk(k)] <=> k < taken[r])
    BY <2>1, <2>3 DEF Ring
  <2>5. k < taken[r]
    BY <2>2, <2>4 DEF Writable
  <2> QED BY <2>1, <2>5, RingTypes
<1> QED BY <1>1, <1>2, RingTypes

\* A message that a reader may still want is not in the chunk being written,
\* and no two of them are in the same chunk.
LEMMA IntactIsElsewhere ==
  ASSUME Typed, NEW k \in Nat, k < sent, Intact(k)
  PROVE  /\ wpc = "fence" => Chunk(k) # Chunk(sent)
         /\ \A j \in Nat : j < sent /\ Intact(j) /\ j # k => Chunk(j) # Chunk(k)
         /\ \A j \in Nat : sent <= j /\ j < MaxChunks => Chunk(k) # j
<1>1. wpc = "fence" => Chunk(k) # Chunk(sent)
  BY RingTypes, ChunkDistinct DEF Intact
<1>2. ASSUME NEW j \in Nat, j < sent, Intact(j), j # k PROVE Chunk(j) # Chunk(k)
  <2>1. CASE j < k
    BY <1>2, <2>1, RingTypes, ChunkDistinct DEF Intact
  <2>2. CASE k < j
    BY <1>2, <2>2, RingTypes, ChunkDistinct DEF Intact
  <2> QED BY <1>2, <2>1, <2>2
<1>3. ASSUME NEW j \in Nat, sent <= j, j < MaxChunks PROVE Chunk(k) # j
  BY <1>3, ChunkAgain, RingTypes
<1> QED BY <1>1, <1>2, <1>3
\* Starting a write, or giving it up, does not touch the ring.
LEMMA EnqueueRing ==
  ASSUME Typed, RingInv, Enqueue \/ WriterTimesOut
  PROVE  RingInv'
<1> USE DEF RingInv
<1>1. /\ UNCHANGED <<written, read, data, pending, sent, rpc, taken, rflag, hold>>
      /\ wpc' \in {"idle", "acquire"} /\ wpc \in {"idle", "acquire"}
  BY DEF AtWriter, Enqueue, WriterTimesOut, shared, reader
<1>2. \A k \in Nat : Intact(k)' <=> Intact(k)
  BY <1>1 DEF Intact
<1>3. Ring'
  <2>1. ASSUME NEW k \in Nat, k < sent', Intact(k)'
        PROVE  /\ written'[Chunk(k)] /\ data'[Chunk(k)] = Content(k + 1)'
               /\ \A r \in Readers : r \in read'[Chunk(k)] <=> k < taken'[r]
    <3>1. /\ written[Chunk(k)] /\ data[Chunk(k)] = Content(k + 1)
          /\ \A r \in Readers : r \in read[Chunk(k)] <=> k < taken[r]
      BY <1>1, <1>2, <2>1 DEF Ring
    <3>2. Content(k + 1)' = Content(k + 1)
      BY <1>1, <2>1, ContentStays, RingTypes
    <3> QED BY <1>1, <3>1, <3>2
  <2>2. \A k \in Nat : sent' <= k /\ k < MaxChunks => ~written'[k] /\ read'[k] = {}
    BY <1>1 DEF Ring
  <2> QED BY <2>1, <2>2 DEF Ring
<1>4. Near'
  BY <1>1 DEF Near, Intact
<1>5. Writing'
  <2>1. pending = <<>>
    BY <1>1 DEF Writing
  <2>2. wpc' = "acquire" => sent' < MaxMessages
    BY <1>1, RingTypes DEF AtWriter, Enqueue, WriterTimesOut
  <2>3. \A m \in large' : m <= sent' \/ (m = Message' /\ wpc' \in {"acquire", "fence"})
    BY <1>1, RingTypes DEF AtWriter, Enqueue, WriterTimesOut, Message, Writing
  <2> QED BY <1>1, <2>1, <2>2, <2>3 DEF Writing
<1>6. Reading'
  <2>1. ASSUME NEW r \in Readers, taken[r] < sent PROVE Content(taken[r] + 1)' = Content(taken[r] + 1)
    <3>1. taken[r] + 1 \in Nat /\ taken[r] + 1 <= sent
      BY <2>1, RingTypes
    <3>2. taken[r] + 1 \in large' <=> taken[r] + 1 \in large
      BY <3>1, ContentStays
    <3> QED BY <1>1, <3>2 DEF Content, Over
  <2>2. ASSUME NEW r \in Readers, taken[r] \in large PROVE taken[r] \in large'
    BY <2>2, ContentStays, RingTypes DEF Near
  <2> QED BY <1>1, <2>1, <2>2 DEF Reading, Content
<1> QED BY <1>3, <1>4, <1>5, <1>6

\* The writer gets its chunk.
LEMMA AcquireRing ==
  ASSUME Typed, RingInv, AcquireWrite
  PROVE  RingInv'
<1> USE DEF RingInv
<1>1. /\ UNCHANGED <<written, read, data, sent, large, rpc, taken, rflag, hold>>
      /\ wpc = "acquire" /\ wpc' = "fence" /\ pending' = Stores
  BY DEF AtWriter, AcquireWrite, reader
<1>2. \A k \in Nat : Intact(k)' => Intact(k)
  BY <1>1 DEF Intact
<1>3. Ring'
  BY <1>1, <1>2 DEF Ring, Content
<1>4. Near'
  BY <1>1, WritableIsTaken DEF AtWriter, Near, Intact, AcquireWrite
<1>5. Writing'
  <2>1. Done' = 0
    BY <1>1, StoresAre DEF Done
  <2>2. written[Chunk(sent)] => read[Chunk(sent)] = Readers
    BY DEF AtWriter, AcquireWrite, Writable
  <2>3. \A i \in 1 .. Len(pending') : pending'[i] = Stores[Done' + i]
    BY <1>1, <2>1, StoresAre
  <2> QED BY <1>1, <2>1, <2>2, <2>3 DEF Writing, Message
<1>6. Reading'
  BY <1>1 DEF Reading, Content
<1> QED BY <1>3, <1>4, <1>5, <1>6

\* The chunk is marked as written: it holds the message, and no reader has
\* taken it.
LEMMA PublishRing ==
  ASSUME Typed, RingInv, Publish
  PROVE  RingInv'
<1> USE DEF RingInv
<1> DEFINE c == Chunk(sent)
<1>1. /\ UNCHANGED <<read, data, pending, large, rpc, taken, rflag, hold>>
      /\ written' = [written EXCEPT ![c] = TRUE] /\ sent' = sent + 1
      /\ wpc = "fence" /\ pending = <<>>
      /\ wpc' = IF Message \in large THEN "send" ELSE "notify"
  BY DEF AtWriter, Publish, reader
<1>2. /\ sent \in Nat /\ c \in Chunks /\ written \in [Chunks -> BOOLEAN]
      /\ read \in [Chunks -> SUBSET Readers]
  BY RingTypes DEF Typed, TypedShared
<1>3. data[c] = Content(Message) /\ read[c] = {}
  <2>1. Done = Len(Stores)
    BY <1>1, StoresAre DEF Done
  <2>2. data[c] = Content(Message) /\ \A i \in 4 .. Len(Stores) : Stores[i][2] \notin read[c]
    BY <1>1, <2>1, StoresAre DEF Writing
  <2> QED BY <1>2, <2>2, StoresAre
<1>4. \A r \in Readers : taken[r] <= sent /\ sent < taken[r] + MaxChunks
  BY <1>1 DEF Near, Intact
<1> HIDE DEF c
<1>5. Ring'
  <2>1. ASSUME NEW k \in Nat, k < sent', Intact(k)'
        PROVE  /\ written'[Chunk(k)] /\ data'[Chunk(k)] = Content(k + 1)'
               /\ \A r \in Readers : r \in read'[Chunk(k)] <=> k < taken'[r]
    <3>1. CASE k = sent
      BY <1>1, <1>2, <1>3, <1>4, <3>1, RingTypes DEF c, Content, Message
    <3>2. CASE k < sent
      <4>1. Intact(k)
        BY <1>1, <1>2, <2>1, RingTypes DEF Intact
      <4>2. Chunk(k) # c
        BY <1>1, <3>2, <4>1, IntactIsElsewhere DEF c
      <4>3. /\ written[Chunk(k)] /\ data[Chunk(k)] = Content(k + 1)
            /\ \A r \in Readers : r \in read[Chunk(k)] <=> k < taken[r]
        BY <3>2, <4>1 DEF Ring
      <4> QED BY <1>1, <1>2, <4>2, <4>3, ChunkAgain DEF Content
    <3> QED BY <1>1, <1>2, <2>1, <3>1, <3>2
  <2>2. ASSUME NEW k \in Nat, sent' <= k, k < MaxChunks PROVE ~written'[k] /\ read'[k] = {}
    <3>1. k # c
      BY <1>1, <1>2, <2>2, ChunkAgain, RingTypes DEF c
    <3>2. k \in Chunks /\ sent <= k
      BY <1>1, <1>2, <2>2, RingTypes DEF Chunks
    <3> QED BY <1>1, <1>2, <2>2, <3>1, <3>2 DEF Ring
  <2> QED BY <2>1, <2>2 DEF Ring
<1>6. Near'
  BY <1>1, <1>2, <1>4, RingTypes DEF Near, Intact
<1>7. Writing'
  <2>1. wpc' = "send" => sent' \in large'
    BY <1>1 DEF Message
  <2>2. \A m \in large : m <= sent \/ m = sent + 1
    BY DEF Message, Writing
  <2>3. \A m \in large' : m <= sent'
    BY <1>1, <1>2, <2>2 DEF Typed, TypedWriter, Messages
  <2> QED BY <1>1, <1>2, <2>1, <2>3 DEF Writing
<1>8. Reading'
  <2>1. ASSUME NEW r \in Readers PROVE taken[r] \in Nat /\ taken[r] # sent'
    BY <1>1, <1>2, <1>4, RingTypes
  <2>2. \A r \in Readers : taken[r] < sent => taken[r] < sent'
    BY <1>1, <1>2, <2>1
  <2> QED BY <1>1, <2>1, <2>2 DEF Reading, Content
<1> QED BY <1>5, <1>6, <1>7, <1>8

\* The sockets are not the ring.
LEMMA SendRing ==
  ASSUME Typed, RingInv, SendLarge \/ Notify \/ SendRemote
  PROVE  RingInv'
<1> USE DEF RingInv
<1>1. /\ UNCHANGED <<written, read, data, pending, sent, large, rpc, taken, rflag, hold>>
      /\ wpc \in {"send", "notify", "remote"} /\ wpc' \in {"notify", "remote", "idle"}
  BY DEF AtWriter, SendLarge, Notify, SendRemote, shared, reader
<1>2. Ring' /\ Near'
  BY <1>1 DEF Ring, Near, Intact, Content
<1>3. Writing'
  BY <1>1, RingTypes DEF Writing
<1>4. Reading'
  BY <1>1 DEF Reading, Content
<1> QED BY <1>2, <1>3, <1>4

\* A store becomes visible in the chunk that is being written, and nowhere else.
LEMMA VisibleRing ==
  ASSUME ~Relaxed, Typed, RingInv, NEW i \in 1 .. Len(pending), Visible(i)
  PROVE  RingInv'
<1> USE DEF RingInv
<1> DEFINE c == Chunk(sent)
<1> DEFINE u == pending[i]
<1> DEFINE d == Done
<1>1. /\ i = 1 /\ Len(pending) \in Nat /\ Len(pending) > 0
      /\ Len(pending') = Len(pending) - 1
      /\ \A j \in 1 .. Len(pending') : pending'[j] = pending[j + 1]
  BY VisibleInOrder DEF Typed, TypedShared
<1>2. wpc = "fence"
  BY <1>1 DEF Writing
<1>3. /\ d \in Nat /\ u = Stores[d + 1] /\ d + 1 <= Len(Stores) /\ Done' = d + 1
      /\ \A j \in 1 .. Len(pending') : pending'[j] = Stores[Done' + j]
      /\ d = 0 => (written[c] => read[c] = Readers)
      /\ d > 0 => ~written[c]
      /\ d > 2 => data[c] = Content(Message)
      /\ \A j \in 4 .. d : Stores[j][2] \notin read[c]
  <2>1. d \in Nat
    BY <1>2 DEF Writing
  <2>2. Len(Stores)' = Len(Stores)
    BY DEF Stores, Clears
  <2>3. Done' = d + 1 /\ d + 1 <= Len(Stores)
    BY <1>1, <2>1, <2>2, StoresAre DEF Done
  <2>4. \A j \in 1 .. Len(pending) : pending[j] = Stores[d + j]
    BY <1>2 DEF Writing
  <2>5. \A j \in 1 .. Len(pending') : pending'[j] = Stores[Done' + j]
    BY <1>1, <2>1, <2>3, <2>4
  <2>6. u = Stores[d + 1]
    BY <1>1, <2>4
  <2> QED BY <1>2, <2>1, <2>3, <2>5, <2>6 DEF Writing
<1>4. /\ UNCHANGED <<wpc, sent, large, rpc, taken, rflag, hold>>
      /\ written' = IF u[1] = "unwrite" THEN [written EXCEPT ![c] = FALSE] ELSE written
      /\ data' = CASE u[1] = "tear" -> [data EXCEPT ![c] = Torn]
                   [] u[1] = "fill" -> [data EXCEPT ![c] = Content(Message)]
                   [] OTHER -> data
      /\ read' = IF u[1] = "clear" THEN [read EXCEPT ![c] = @ \ {u[2]}] ELSE read
  BY DEF Visible, writer, reader
<1>5. /\ sent \in Nat /\ c \in Chunks /\ written \in [Chunks -> BOOLEAN]
      /\ read \in [Chunks -> SUBSET Readers]
      /\ data \in [Chunks -> Messages \cup {Torn, Over}]
  BY RingTypes DEF Typed, TypedShared
<1> HIDE DEF c, u, d
<1>6. \/ d = 0 /\ u[1] = "unwrite"
      \/ d = 1 /\ u[1] = "tear"
      \/ d = 2 /\ u[1] = "fill"
      \/ d > 2 /\ u[1] = "clear"
  <2>1. d > 2 => u[1] = "clear"
    <3>1. d > 2 => d + 1 \in 4 .. Len(Stores)
      BY <1>3, StoresAre
    <3> QED BY <1>3, <3>1, StoresAre
  <2> QED BY <1>3, <2>1, StoresAre
<1>7. \A x \in Chunks :
        /\ written'[x] => written[x]
        /\ read'[x] \subseteq read[x]
        /\ x # c => written'[x] = written[x] /\ read'[x] = read[x] /\ data'[x] = data[x]
  BY <1>4, <1>5, <1>6
<1>8. \A k \in Nat : Intact(k)' <=> Intact(k)
  BY <1>4 DEF Intact
<1>9. Ring'
  <2>1. ASSUME NEW k \in Nat, k < sent', Intact(k)'
        PROVE  /\ written'[Chunk(k)] /\ data'[Chunk(k)] = Content(k + 1)'
               /\ \A r \in Readers : r \in read'[Chunk(k)] <=> k < taken'[r]
    <3>1. k < sent /\ Intact(k)
      BY <1>4, <1>8, <2>1
    <3>2. Chunk(k) # c /\ Chunk(k) \in Chunks
      BY <1>2, <3>1, IntactIsElsewhere, ChunkAgain DEF c
    <3>3. /\ written[Chunk(k)] /\ data[Chunk(k)] = Content(k + 1)
          /\ \A r \in Readers : r \in read[Chunk(k)] <=> k < taken[r]
      BY <3>1 DEF Ring
    <3> QED BY <1>4, <1>7, <3>2, <3>3 DEF Content
  <2>2. ASSUME NEW k \in Nat, sent' <= k, k < MaxChunks PROVE ~written'[k] /\ read'[k] = {}
    <3>1. k \in Chunks
      BY <1>5, <2>2, RingTypes DEF Chunks
    <3> QED BY <1>4, <1>7, <2>2, <3>1 DEF Ring
  <2> QED BY <2>1, <2>2 DEF Ring
<1>10. Near'
  BY <1>4 DEF Near, Intact
<1>11. Writing'
  <2>1. d + 1 \in Nat /\ d + 1 > 0 /\ d + 1 # 0
    BY <1>3
  <2>2. ~written'[c]
    BY <1>3, <1>4, <1>5, <1>6
  <2>3. d + 1 > 2 => data'[c] = Content(Message)
    BY <1>3, <1>4, <1>5, <1>6
  <2>4. \A j \in 4 .. d + 1 : Stores[j][2] \notin read'[c]
    <3>1. SUFFICES ASSUME NEW j \in 4 .. d + 1 PROVE Stores[j][2] \notin read'[c]
      OBVIOUS
    <3>2. CASE j \in 4 .. d
      BY <1>3, <1>5, <1>7, <3>2
    <3>3. CASE j = d + 1
      BY <1>3, <1>4, <1>5, <1>6, <3>3
    <3> QED BY <1>3, <3>2, <3>3
  <2> QED BY <1>2, <1>3, <1>4, <2>1, <2>2, <2>3, <2>4 DEF Writing, Message, Content, c
<1>12. Reading'
  BY <1>4, <1>5, <1>7 DEF Reading, Content, c
<1> QED BY <1>9, <1>10, <1>11, <1>12

\* What the ring says does not change while the chunks, the writer and the
\* readers' counts do not.
LEMMA RingFrame ==
  ASSUME RingInv, UNCHANGED <<shared, wpc, sent, large, taken>>
  PROVE  Ring' /\ Near' /\ Writing'
<1>1. UNCHANGED <<written, read, data, pending, wpc, sent, large, taken>>
  BY DEF shared
<1>2. Ring' /\ Near'
  BY <1>1 DEF RingInv, Ring, Near, Intact, Content
<1>3. Done' = Done
  BY <1>1 DEF Done, Stores, Clears
<1>4. Writing'
  BY <1>1, <1>3 DEF RingInv, Writing, Message, Content, Stores, Clears
<1> QED BY <1>2, <1>4

\* A reader that has taken all there is and finds its flag down will find the
\* written flag down: either it has been, or the writer is taking it down.
LEMMA ReadFlagTells ==
  ASSUME Typed, RingInv, NEW r \in Readers, taken[r] = sent, r \notin read[Chunk(sent)]
  PROVE  ~written[Chunk(sent)]
<1> USE DEF RingInv
<1>1. CASE wpc = "fence"
  BY <1>1 DEF Writing
<1>2. CASE wpc # "fence" /\ sent < MaxChunks
  BY <1>2, RingTypes, ChunkAgain DEF Ring
<1>3. CASE wpc # "fence" /\ sent >= MaxChunks
  <2> DEFINE k == sent - MaxChunks
  <2>1. k \in Nat /\ k + MaxChunks = sent /\ k < sent
    BY <1>3, RingTypes
  <2>2. Chunk(k) = Chunk(sent) /\ Intact(k)
    BY <1>3, <2>1, ChunkAgain, RingTypes DEF Intact
  <2> HIDE DEF k
  <2>3. r \in read[Chunk(k)]
    BY <2>1, <2>2 DEF Ring
  <2> QED BY <2>2, <2>3
<1> QED BY <1>1, <1>2, <1>3, RingTypes

\* A reader that looks at its chunk, waits, or receives from its socket.
LEMMA LookRing ==
  ASSUME Typed, RingInv, NEW r \in Readers,
         \/ LoadReadFlag(r) \/ LoadWrittenFlag(r) \/ Spin(r) \/ GoIdle(r) \/ Woken(r)
         \/ CopyOut(r) \/ ReceiveLarge(r) \/ ReadTimesOut(r) \/ SocketTimesOut(r)
  PROVE  RingInv'
<1> USE DEF RingInv
<1>1. UNCHANGED <<shared, writer, taken>>
  BY DEF LoadReadFlag, LoadWrittenFlag, Spin, GoIdle, Woken, CopyOut, ReceiveLarge,
         ReadTimesOut, SocketTimesOut
<1>2. Ring' /\ Near' /\ Writing'
  BY <1>1, RingFrame DEF writer
<1>3. /\ UNCHANGED <<written, data, sent, large, taken>>
      /\ \A m : Content(m)' = Content(m)
  BY <1>1 DEF shared, writer, Content
<1>4. /\ rpc \in [Readers -> ReaderPlaces] /\ hold \in [Readers -> Messages \cup {Torn, Over}]
      /\ rflag \in [Readers -> BOOLEAN]
  BY DEF Typed, TypedReader
<1>5. CASE LoadReadFlag(r)
  <2>1. rpc' = [rpc EXCEPT ![r] = "check written"] /\ hold' = hold
    BY <1>5 DEF LoadReadFlag, At
  <2>2. (~rflag'[r]) => r \notin read[Chunk(taken[r])]
    <3>1. rflag'[r] = (r \in read[Chunk(taken[r])])
      BY <1>4, <1>5, Zenon DEF LoadReadFlag
    <3> QED BY <3>1
  <2>3. \A q \in Readers : q # r => rflag'[q] = rflag[q]
    BY <1>4, <1>5, Zenon DEF LoadReadFlag
  <2>4. taken[r] = sent /\ ~rflag'[r] => ~written[Chunk(sent)]
    BY <2>2, ReadFlagTells
  <2>5. Reading'
    BY <1>3, <1>4, <2>1, <2>3, <2>4 DEF Reading
  <2> QED BY <1>2, <2>5
<1>6. CASE LoadWrittenFlag(r)
  <2>1. /\ rpc[r] = "check written" /\ hold' = hold /\ rflag' = [rflag EXCEPT ![r] = FALSE]
        /\ rpc' = [rpc EXCEPT ![r] = IF Readable(r) THEN "copy" ELSE "wait"]
    BY <1>6 DEF LoadWrittenFlag, At
  <2>2. Readable(r) => taken[r] < sent
    <3>1. Readable(r) => taken[r] # sent
      BY <2>1 DEF Reading, Readable
    <3>2. taken[r] <= sent /\ taken[r] \in Nat /\ sent \in Nat
      BY RingTypes DEF Near
    <3> QED BY <3>1, <3>2
  <2>3. Reading'
    BY <1>3, <1>4, <2>1, <2>2 DEF Reading
  <2> QED BY <1>2, <2>3
<1>7. CASE CopyOut(r)
  <2>1. /\ rpc[r] = "copy" /\ rpc' = [rpc EXCEPT ![r] = "mark"] /\ rflag' = rflag
        /\ hold' = [hold EXCEPT ![r] = data[Chunk(taken[r])]]
    BY <1>7 DEF CopyOut, At
  <2>2. taken[r] < sent
    BY <2>1 DEF Reading
  <2>3. data[Chunk(taken[r])] = Content(taken[r] + 1)
    BY <2>2, RingTypes DEF Ring, Near
  <2>4. Reading'
    BY <1>3, <1>4, <2>1, <2>2, <2>3 DEF Reading
  <2> QED BY <1>2, <2>4
<1>8. ASSUME \/ Spin(r) \/ GoIdle(r) \/ Woken(r)
             \/ ReceiveLarge(r) \/ ReadTimesOut(r) \/ SocketTimesOut(r)
      PROVE  RingInv'
  <2>1. /\ UNCHANGED <<rflag, hold>>
        /\ \E there \in {"poll", "check", "stopped"} : rpc' = [rpc EXCEPT ![r] = there]
    BY <1>8 DEF Spin, GoIdle, Woken, ReceiveLarge, ReadTimesOut, SocketTimesOut, At, Waited
  <2>2. Reading'
    BY <1>3, <1>4, <2>1 DEF Reading
  <2> QED BY <1>2, <2>2
<1> QED BY <1>5, <1>6, <1>7, <1>8

\* A reader marks its chunk as read.
LEMMA MarkRing ==
  ASSUME Typed, RingInv, NEW r \in Readers, MarkRead(r)
  PROVE  RingInv'
<1> USE DEF RingInv
<1> DEFINE t == taken[r]
<1>1. /\ rpc[r] = "mark" /\ UNCHANGED <<rflag, written, data, pending, wpc, sent, large>>
      /\ rpc' = [rpc EXCEPT ![r] = IF hold[r] = Over THEN "receive" ELSE "check"]
      /\ read' = [read EXCEPT ![Chunk(t)] = @ \cup {r}]
      /\ taken' = [taken EXCEPT ![r] = t + 1]
      /\ hold' = [hold EXCEPT ![r] = Torn]
  BY DEF MarkRead, At, writer
<1>2. /\ t \in Nat /\ sent \in Nat /\ Chunk(t) \in Chunks /\ t < sent /\ Intact(t)
      /\ hold[r] = Content(t + 1)
  BY <1>1, RingTypes DEF Reading, Near
<1>3. /\ read \in [Chunks -> SUBSET Readers] /\ taken \in [Readers -> Nat]
      /\ rpc \in [Readers -> ReaderPlaces] /\ hold \in [Readers -> Messages \cup {Torn, Over}]
  BY DEF Typed, TypedShared, TypedReader
<1>4. \A m : Content(m)' = Content(m)
  BY <1>1 DEF Content
<1>5. \A k \in Nat : Intact(k)' <=> Intact(k)
  BY <1>1 DEF Intact
<1> HIDE DEF t
<1>6. Ring'
  <2>1. ASSUME NEW k \in Nat, k < sent', Intact(k)'
        PROVE  /\ written'[Chunk(k)] /\ data'[Chunk(k)] = Content(k + 1)'
               /\ \A q \in Readers : q \in read'[Chunk(k)] <=> k < taken'[q]
    <3>1. k < sent /\ Intact(k)
      BY <1>1, <1>5, <2>1
    <3>2. /\ written[Chunk(k)] /\ data[Chunk(k)] = Content(k + 1)
          /\ \A q \in Readers : q \in read[Chunk(k)] <=> k < taken[q]
      BY <3>1 DEF Ring
    <3>3. ASSUME NEW q \in Readers PROVE q \in read'[Chunk(k)] <=> k < taken'[q]
      <4>1. CASE k = t
        BY <1>1, <1>2, <1>3, <3>2, <4>1 DEF t
      <4>2. CASE k # t
        <5>1. Chunk(k) # Chunk(t) /\ Chunk(k) \in Chunks
          BY <1>2, <3>1, <4>2, IntactIsElsewhere, ChunkAgain
        <5>2. read'[Chunk(k)] = read[Chunk(k)]
          BY <1>1, <1>3, <5>1
        <5>3. k < t + 1 <=> k < t
          BY <1>2, <4>2
        <5> QED BY <1>1, <1>3, <3>2, <5>2, <5>3 DEF t
      <4> QED BY <4>1, <4>2
    <3> QED BY <1>1, <1>4, <3>2, <3>3
  <2>2. ASSUME NEW k \in Nat, sent' <= k, k < MaxChunks PROVE ~written'[k] /\ read'[k] = {}
    <3>1. Chunk(t) # k
      BY <1>1, <1>2, <2>2, IntactIsElsewhere
    <3>2. k \in Chunks
      BY <2>2, RingTypes DEF Chunks
    <3> QED BY <1>1, <1>3, <2>2, <3>1, <3>2 DEF Ring
  <2> QED BY <2>1, <2>2 DEF Ring
<1>7. Near'
  <2>1. t + 1 <= sent /\ Intact(t + 1)
    BY <1>2, RingTypes DEF Intact
  <2>2. ASSUME NEW q \in Readers PROVE taken'[q] <= sent /\ Intact(taken'[q])
    <3>1. q = r => taken'[q] = t + 1
      BY <1>1, <1>3
    <3>2. q # r => taken'[q] = taken[q]
      BY <1>1, <1>3
    <3> QED BY <2>1, <3>1, <3>2 DEF Near
  <2> QED BY <1>1, <2>2 DEF Near, Intact
<1>8. Writing'
  <2>1. Done' = Done /\ Stores' = Stores
    BY <1>1 DEF Done, Stores, Clears
  <2>2. wpc = "fence" => read'[Chunk(sent)] = read[Chunk(sent)]
    BY <1>1, <1>2, <1>3, IntactIsElsewhere, RingTypes
  <2> QED BY <1>1, <1>4, <2>1, <2>2 DEF Writing, Message
<1>9. Reading'
  <2>1. hold[r] = Over => t + 1 \in large
    BY <1>2, RingTypes DEF Content, Over
  <2>2. ASSUME NEW q \in Readers, q # r
        PROVE  rpc'[q] = rpc[q] /\ taken'[q] = taken[q] /\ hold'[q] = hold[q] /\ rflag'[q] = rflag[q]
    BY <1>1, <1>3, <2>2
  <2>3. /\ rpc'[r] \in {"receive", "check"} /\ taken'[r] = t + 1
        /\ rpc'[r] = "receive" => hold[r] = Over
    BY <1>1, <1>3
  <2>4. ASSUME NEW q \in Readers
        PROVE  /\ rpc'[q] = "check written" /\ taken'[q] = sent /\ ~rflag'[q] => ~written[Chunk(sent)]
               /\ rpc'[q] \in {"copy", "mark"} => taken'[q] < sent
               /\ rpc'[q] = "mark" => hold'[q] = Content(taken'[q] + 1)
               /\ rpc'[q] = "receive" => taken'[q] \in large
    <3>1. CASE q = r
      BY <2>1, <2>3, <3>1
    <3>2. CASE q # r
      BY <2>2, <3>2 DEF Reading
    <3> QED BY <3>1, <3>2
  <2>5. UNCHANGED <<written, sent, large>>
    BY <1>1
  <2> HIDE DEF t
  <2> QED BY <2>4, <2>5 DEF Reading, Content
<1> QED BY <1>6, <1>7, <1>8, <1>9

\* Every step keeps the ring.
LEMMA RingStep ==
  ASSUME ~Relaxed, Typed, RingInv, [Next]_vars
  PROVE  RingInv'
<1>1. ASSUME UNCHANGED <<shared, wpc, sent, large, rpc, taken, rflag, hold>> PROVE RingInv'
  <2>1. Ring' /\ Near' /\ Writing'
    BY <1>1, RingFrame
  <2>2. Reading'
    BY <1>1 DEF RingInv, Reading, shared, Content
  <2> QED BY <2>1, <2>2 DEF RingInv
<1>2. ASSUME NEW r \in Readers, ShutDown(r) \/ Cancel(r) PROVE RingInv'
  BY <1>1, <1>2 DEF ShutDown, Cancel, reader, writer
<1>3. ASSUME NEW r \in Remotes, RemoteDequeue(r) PROVE RingInv'
  BY <1>1, <1>3 DEF RemoteDequeue, writer
<1>4. ASSUME UNCHANGED vars \/ WriterDies PROVE RingInv'
  BY <1>1, <1>4 DEF vars, reader, writer, WriterDies
<1>5. ASSUME Fenced PROVE RingInv'
  BY <1>5, AcquireRing, PublishRing, SendRing DEF Fenced
<1>6. ASSUME Drain PROVE RingInv'
  BY <1>6, VisibleRing DEF Drain
<1>7. ASSUME NEW r \in Readers, Step(r) \/ ReadTimesOut(r) \/ SocketTimesOut(r) PROVE RingInv'
  BY <1>7, LookRing, MarkRing DEF Step
<1> QED BY <1>2, <1>3, <1>4, <1>5, <1>6, <1>7, EnqueueRing DEF Next, Quiet

-----------------------------------------------------------------------------
(* The sockets.                                                            *)

\* The types of a reader's mail.
LEMMA MailTypes ==
  ASSUME Typed, Writing, NEW r \in Readers
  PROVE  /\ got[r] \in Seq(Messages) /\ pipe[r] \in Seq(Messages)
         /\ Len(got[r]) \in Nat /\ Len(pipe[r]) \in Nat
         /\ \A i \in 1 .. Len(got[r]) : got[r][i] \in Nat /\ got[r][i] > 0
         /\ \A i \in 1 .. Len(pipe[r]) : pipe[r][i] \in Nat /\ pipe[r][i] > 0
         /\ taken[r] \in Nat /\ lost[r] \in Nat /\ sent \in Nat
         /\ Piped \in Nat /\ Piped <= sent
<1>1. got[r] \in Seq(Messages) /\ pipe[r] \in Seq(Messages)
  BY DEF Typed, TypedReader, TypedSockets
<1>2. /\ \A i \in 1 .. Len(got[r]) : got[r][i] \in Nat /\ got[r][i] > 0
      /\ \A i \in 1 .. Len(pipe[r]) : pipe[r][i] \in Nat /\ pipe[r][i] > 0
  <2>1. \A m \in Messages : m \in Nat /\ m > 0
    BY DEF Messages
  <2>2. \A s \in Seq(Messages) : \A i \in 1 .. Len(s) : s[i] \in Messages
    OBVIOUS
  <2> QED BY <1>1, <2>1, <2>2
<1>3. taken[r] \in Nat /\ lost[r] \in Nat
  BY DEF Typed, TypedReader
<1>4. sent \in Nat /\ Piped \in Nat /\ Piped <= sent
  BY RingTypes DEF Piped, Writing
<1> QED BY <1>1, <1>2, <1>3, <1>4

\* Nothing is wrong with the mail of a reader when no large message comes or
\* goes.
LEMMA MailFrame ==
  ASSUME Typed, Writing, Near, NEW r \in Readers, Mail(r),
         UNCHANGED <<got[r], pipe[r], taken[r], lost[r]>>,
         rpc'[r] = "receive" <=> rpc[r] = "receive",
         Piped' \in Nat, Piped <= Piped',
         \A m \in Nat : m <= sent => (m \in large' <=> m \in large),
         \A m \in large' : m <= Piped' => m <= Piped /\ m \in large
  PROVE  Mail(r)'
<1>1. \A i \in 1 .. Len(got[r]) : got[r][i] \in Nat /\ got[r][i] <= sent
  <2>1. \A i \in 1 .. Len(got[r]) : got[r][i] <= Piped \/ got[r][i] <= taken[r]
    BY DEF Mail, SocketOf
  <2>2. taken[r] <= sent /\ taken[r] \in Nat /\ sent \in Nat /\ Piped \in Nat /\ Piped <= sent
    BY MailTypes DEF Near
  <2>3. \A i \in 1 .. Len(got[r]) : got[r][i] \in Nat
    BY MailTypes
  <2> QED BY <2>1, <2>2, <2>3
<1>2. \A i \in 1 .. Len(pipe[r]) : pipe[r][i] \in Nat /\ pipe[r][i] <= Piped /\ pipe[r][i] \in large
  BY MailTypes DEF Mail, SocketOf
<1>3. SocketOf(r)'
  <2>1. \A i \in 1 .. Len(pipe[r]) : pipe[r][i] \in large' /\ pipe[r][i] <= Piped'
    BY <1>2, MailTypes
  <2>2. ASSUME NEW i \in 1 .. Len(got[r])
        PROVE  IF got[r][i] \in large'
               THEN got[r][i] <= Piped' /\ \A j \in 1 .. Len(pipe[r]) : got[r][i] < pipe[r][j]
               ELSE got[r][i] <= taken[r]
    <3>1. got[r][i] \in large' <=> got[r][i] \in large
      BY <1>1
    <3> QED BY <3>1, <1>1, MailTypes DEF Mail, SocketOf
  <2> QED BY <2>1, <2>2 DEF Mail, SocketOf
<1>4. AccountOf(r)'
  BY DEF Mail, AccountOf
<1>5. OrderOf(r)'
  BY <1>1 DEF Mail, OrderOf
<1> QED BY <1>3, <1>4, <1>5 DEF Mail

\* The writer sends a large message through the sockets.
LEMMA SendMail ==
  ASSUME Typed, Writing, Near, NEW r \in Readers, Mail(r), SendLarge
  PROVE  Mail(r)'
<1>1. /\ wpc = "send" /\ wpc' = "notify" /\ UNCHANGED <<sent, large, got, rpc, taken, lost>>
      /\ pipe'[r] = Append(pipe[r], sent)
  BY DEF AtWriter, SendLarge, reader, Typed, TypedSockets
<1>2. /\ sent > 0 /\ sent \in large /\ Piped = sent - 1 /\ Piped' = sent
      /\ Len(got[r]) \in Nat /\ Len(pipe[r]) \in Nat /\ sent \in Nat
      /\ taken[r] \in Nat /\ lost[r] \in Nat /\ taken[r] <= sent
      /\ \A i \in 1 .. Len(got[r]) : got[r][i] \in Nat
      /\ \A i \in 1 .. Len(pipe[r]) : pipe[r][i] \in Nat
  BY <1>1, MailTypes DEF Writing, Piped, Near
<1>3. /\ Len(pipe'[r]) = Len(pipe[r]) + 1
      /\ pipe'[r][Len(pipe[r]) + 1] = sent
      /\ \A i \in 1 .. Len(pipe[r]) : pipe'[r][i] = pipe[r][i]
  BY <1>1, <1>2, MailTypes, AppendProperties
<1>4. SocketOf(r)'
  <2>1. ASSUME NEW i \in 1 .. Len(pipe'[r]) PROVE pipe'[r][i] \in large /\ pipe'[r][i] <= sent
    <3>1. CASE i \in 1 .. Len(pipe[r])
      <4>1. pipe[r][i] \in large /\ pipe[r][i] <= Piped
        BY <3>1 DEF Mail, SocketOf
      <4> QED BY <1>2, <1>3, <3>1, <4>1
    <3> QED BY <1>2, <1>3, <3>1
  <2>2. ASSUME NEW i \in 1 .. Len(pipe'[r]), NEW j \in 1 .. Len(pipe'[r]), i < j
        PROVE  pipe'[r][i] < pipe'[r][j]
    <3>1. i \in 1 .. Len(pipe[r]) /\ (j \in 1 .. Len(pipe[r]) \/ j = Len(pipe[r]) + 1)
      BY <1>2, <1>3, <2>2
    <3>2. pipe[r][i] <= Piped /\ (j \in 1 .. Len(pipe[r]) => pipe[r][i] < pipe[r][j])
      BY <2>2, <3>1 DEF Mail, SocketOf
    <3>3. CASE j \in 1 .. Len(pipe[r])
      BY <1>3, <3>1, <3>2, <3>3
    <3>4. CASE j = Len(pipe[r]) + 1
      <4>1. pipe[r][i] \in Nat /\ pipe[r][i] <= sent - 1 /\ sent \in Nat
        BY <1>2, <3>1, <3>2
      <4>2. pipe'[r][i] = pipe[r][i] /\ pipe'[r][j] = sent
        BY <1>3, <3>1, <3>4
      <4>3. pipe[r][i] < sent
        BY <4>1
      <4> QED BY <4>2, <4>3
    <3> QED BY <3>1, <3>3, <3>4
  <2>3. ASSUME NEW i \in 1 .. Len(got[r])
        PROVE  IF got[r][i] \in large
               THEN got[r][i] <= sent /\ \A j \in 1 .. Len(pipe'[r]) : got[r][i] < pipe'[r][j]
               ELSE got[r][i] <= taken[r]
    <3>1. IF got[r][i] \in large
          THEN got[r][i] <= Piped /\ \A j \in 1 .. Len(pipe[r]) : got[r][i] < pipe[r][j]
          ELSE got[r][i] <= taken[r]
      BY DEF Mail, SocketOf
    <3>2. \A j \in 1 .. Len(pipe'[r]) : j \in 1 .. Len(pipe[r]) \/ j = Len(pipe[r]) + 1
      BY <1>2, <1>3
    <3>3. ASSUME got[r][i] \in large, NEW j \in 1 .. Len(pipe'[r]) PROVE got[r][i] < pipe'[r][j]
      <4>1. CASE j \in 1 .. Len(pipe[r])
        BY <1>3, <3>1, <3>3, <4>1
      <4>2. CASE j = Len(pipe[r]) + 1
        BY <1>2, <1>3, <3>1, <3>3, <4>2
      <4> QED BY <3>2, <4>1, <4>2
    <3>4. got[r][i] \in large => got[r][i] <= sent
      BY <1>2, <3>1
    <3> QED BY <3>1, <3>3, <3>4
  <2> QED BY <1>1, <1>2, <2>1, <2>2, <2>3 DEF SocketOf
<1>5. AccountOf(r)'
  <2>1. ASSUME lost[r] = 0 PROVE Len(got[r]) < sent
    <3>1. Len(got[r]) <= sent
      BY <1>2 DEF Mail, AccountOf
    <3>2. Len(got[r]) # sent
      <4>1. SUFFICES ASSUME Len(got[r]) = sent PROVE FALSE
        OBVIOUS
      <4>2. got[r][sent] = sent
        BY <1>2, <2>1, <4>1 DEF Mail, AccountOf
      <4>3. got[r][sent] <= Piped
        BY <1>2, <4>1, <4>2 DEF Mail, SocketOf
      <4> QED BY <1>2, <4>2, <4>3
    <3> QED BY <1>2, <3>1, <3>2
  <2>2. ASSUME lost[r] = 0, NEW j \in 1 .. Len(pipe'[r]) PROVE Len(got[r]) < pipe'[r][j]
    <3>1. CASE j \in 1 .. Len(pipe[r])
      BY <1>3, <2>2, <3>1 DEF Mail, AccountOf
    <3>2. CASE j \notin 1 .. Len(pipe[r])
      <4>1. Len(pipe[r]) \in Nat /\ j \in 1 .. Len(pipe[r]) + 1
        BY <1>2, <1>3
      <4>2. j = Len(pipe[r]) + 1
        BY <3>2, <4>1
      <4>3. pipe'[r][j] = sent
        BY <1>3, <4>2
      <4> QED BY <2>1, <2>2, <4>3
    <3> QED BY <3>1, <3>2
  <2>3. ASSUME lost[r] = 0, NEW m \in large, Len(got[r]) < m, m <= sent
        PROVE  \E j \in 1 .. Len(pipe'[r]) : pipe'[r][j] = m
    <3>1. CASE m = sent
      BY <1>2, <1>3, <3>1
    <3>2. CASE m # sent
      <4>m. m \in Nat
        BY DEF Typed, TypedWriter, Messages
      <4>1. m <= Piped
        BY <1>2, <2>3, <3>2, <4>m
      <4>2. PICK j \in 1 .. Len(pipe[r]) : pipe[r][j] = m
        BY <2>3, <4>1 DEF Mail, AccountOf
      <4>3. j \in 1 .. Len(pipe'[r])
        BY <1>2, <1>3
      <4> QED BY <1>3, <4>2, <4>3
    <3> QED BY <3>1, <3>2
  <2> QED BY <1>1, <1>2, <2>2, <2>3 DEF Mail, AccountOf
<1>6. OrderOf(r)'
  BY <1>1 DEF Mail, OrderOf
<1> QED BY <1>4, <1>5, <1>6 DEF Mail

\* A reader marks its chunk as read: a small message is the next one it gets.
LEMMA MarkMail ==
  ASSUME Typed, RingInv, NEW r \in Readers, Mail(r), MarkRead(r)
  PROVE  Mail(r)'
<1> DEFINE n == Len(got[r])
<1>1. /\ rpc[r] = "mark" /\ rpc'[r] = (IF hold[r] = Over THEN "receive" ELSE "check")
      /\ taken'[r] = taken[r] + 1 /\ UNCHANGED <<wpc, sent, large, pipe, lost>>
      /\ got'[r] = IF hold[r] = Over THEN got[r] ELSE Append(got[r], hold[r])
  BY DEF MarkRead, At, writer, sockets, Typed, TypedReader
<1>2. /\ n \in Nat /\ got[r] \in Seq(Messages) /\ taken[r] \in Nat /\ lost[r] \in Nat
      /\ \A i \in 1 .. n : got[r][i] \in Nat
      /\ \A i \in 1 .. Len(pipe[r]) : pipe[r][i] \in Nat
  BY MailTypes DEF RingInv
<1>3. Piped' = Piped
  BY <1>1 DEF Piped
<1>4. /\ taken[r] < sent /\ hold[r] = Content(taken[r] + 1)
      /\ hold[r] = Over <=> taken[r] + 1 \in large
      /\ hold[r] # Over => hold[r] = taken[r] + 1
  <2>1. taken[r] < sent /\ hold[r] = Content(taken[r] + 1)
    BY <1>1 DEF RingInv, Reading
  <2>2. taken[r] + 1 # MaxMessages + 1
    BY <1>2, <2>1, RingTypes
  <2> QED BY <2>1, <2>2 DEF Content, Over
<1>5. n + lost[r] = taken[r] /\ (lost[r] = 0 => n = taken[r])
  BY <1>1, <1>2 DEF Mail, AccountOf
<1>6. CASE hold[r] = Over
  <2>1. /\ got'[r] = got[r] /\ rpc'[r] = "receive"
    BY <1>1, <1>6
  <2>2. SocketOf(r)'
    <3>1. \A i \in 1 .. n : got[r][i] <= taken[r] => got[r][i] <= taken[r] + 1
      BY <1>2
    <3> QED BY <1>1, <1>3, <2>1, <3>1 DEF Mail, SocketOf
  <2>3. AccountOf(r)'
    BY <1>1, <1>2, <1>3, <1>5, <2>1 DEF Mail, AccountOf
  <2>4. OrderOf(r)'
    BY <1>1, <2>1 DEF Mail, OrderOf
  <2> QED BY <2>2, <2>3, <2>4 DEF Mail
<1>7. CASE hold[r] # Over
  <2>1. /\ got'[r] = Append(got[r], taken[r] + 1) /\ rpc'[r] = "check"
        /\ taken[r] + 1 \notin large
    BY <1>1, <1>4, <1>7
  <2>2. /\ Len(got'[r]) = n + 1 /\ got'[r][n + 1] = taken[r] + 1
        /\ \A i \in 1 .. n : got'[r][i] = got[r][i]
        /\ \A i \in 1 .. Len(got'[r]) : i \in 1 .. n \/ i = n + 1
    BY <1>2, <2>1, AppendProperties
  <2>3. SocketOf(r)'
    <3>1. ASSUME NEW i \in 1 .. Len(got'[r])
          PROVE  IF got'[r][i] \in large
                 THEN got'[r][i] <= Piped /\ \A j \in 1 .. Len(pipe[r]) : got'[r][i] < pipe[r][j]
                 ELSE got'[r][i] <= taken[r] + 1
      <4>1. CASE i \in 1 .. n
        <5>1. IF got[r][i] \in large
              THEN got[r][i] <= Piped /\ \A j \in 1 .. Len(pipe[r]) : got[r][i] < pipe[r][j]
              ELSE got[r][i] <= taken[r]
          BY <4>1 DEF Mail, SocketOf
        <5> QED BY <1>2, <2>2, <4>1, <5>1
      <4>2. CASE i = n + 1
        BY <1>2, <2>1, <2>2, <4>2
      <4> QED BY <2>2, <4>1, <4>2
    <3> QED BY <1>1, <1>3, <3>1 DEF Mail, SocketOf
  <2>4. AccountOf(r)'
    <3>1. ASSUME lost[r] = 0, NEW i \in 1 .. Len(got'[r]) PROVE got'[r][i] = i
      <4>1. CASE i \in 1 .. n
        BY <2>2, <3>1, <4>1 DEF Mail, AccountOf
      <4> QED BY <1>5, <2>2, <3>1, <4>1
    <3>2. ASSUME lost[r] = 0, NEW j \in 1 .. Len(pipe[r]) PROVE n + 1 < pipe[r][j]
      <4>1. n < pipe[r][j] /\ pipe[r][j] \in large
        BY <3>2 DEF Mail, AccountOf, SocketOf
      <4> QED BY <1>2, <1>5, <2>1, <3>2, <4>1
    <3>3. ASSUME lost[r] = 0, NEW m \in large, n + 1 < m, m <= Piped
          PROVE  \E j \in 1 .. Len(pipe[r]) : pipe[r][j] = m
      <4>1. m \in Nat
        BY DEF Typed, TypedWriter, Messages
      <4>2. n < m
        BY <1>2, <3>3, <4>1
      <4> QED BY <3>3, <4>2 DEF Mail, AccountOf
    <3>4. n + 1 + lost[r] + 0 = taken[r] + 1
      BY <1>2, <1>5
    <3>5. r \notin Timed => lost[r] = 0
      BY DEF Mail, AccountOf
    <3> QED BY <1>1, <1>3, <2>1, <2>2, <3>1, <3>2, <3>3, <3>4, <3>5 DEF AccountOf
  <2>5. OrderOf(r)'
    <3>1. ASSUME NEW i \in 1 .. Len(got'[r]), NEW j \in 1 .. Len(got'[r]), i < j,
                 got'[r][i] \in large <=> got'[r][j] \in large
          PROVE  got'[r][i] < got'[r][j]
      <4>1. i \in 1 .. n
        BY <1>2, <2>2, <3>1
      <4>2. CASE j \in 1 .. n
        BY <2>2, <3>1, <4>1, <4>2 DEF Mail, OrderOf
      <4>3. CASE j = n + 1
        <5>1. got[r][i] \notin large
          BY <2>1, <2>2, <3>1, <4>1, <4>3
        <5>2. got[r][i] <= taken[r]
          BY <4>1, <5>1 DEF Mail, SocketOf
        <5>3. got[r][i] \in Nat /\ taken[r] \in Nat
          BY <1>2, <4>1
        <5>4. got'[r][i] = got[r][i] /\ got'[r][j] = taken[r] + 1
          BY <2>2, <4>1, <4>3
        <5>5. got[r][i] < taken[r] + 1
          BY <5>2, <5>3
        <5> QED BY <5>4, <5>5
      <4> QED BY <2>2, <4>2, <4>3
    <3> QED BY <1>1, <3>1 DEF OrderOf
  <2> QED BY <2>3, <2>4, <2>5 DEF Mail
<1> QED BY <1>6, <1>7

\* A reader takes a large message out of its socket: the next one, if it has
\* lost none.
LEMMA ReceiveMail ==
  ASSUME Typed, RingInv, NEW r \in Readers, Mail(r), ReceiveLarge(r)
  PROVE  Mail(r)'
<1> DEFINE n == Len(got[r])
<1> DEFINE p == Len(pipe[r])
<1>1. /\ rpc[r] = "receive" /\ rpc'[r] = "check" /\ pipe[r] # <<>>
      /\ UNCHANGED <<wpc, sent, large, taken, lost>>
      /\ got'[r] = Append(got[r], Head(pipe[r])) /\ pipe'[r] = Tail(pipe[r])
  BY DEF ReceiveLarge, At, writer, Typed, TypedReader, TypedSockets
<1>2. /\ n \in Nat /\ p \in Nat /\ got[r] \in Seq(Messages) /\ pipe[r] \in Seq(Messages)
      /\ taken[r] \in Nat /\ lost[r] \in Nat /\ sent \in Nat
      /\ \A i \in 1 .. n : got[r][i] \in Nat
      /\ \A i \in 1 .. p : pipe[r][i] \in Nat
  BY MailTypes DEF RingInv
<1>3. Piped' = Piped
  BY <1>1 DEF Piped
<1>4. /\ p > 0 /\ Len(pipe'[r]) = p - 1
      /\ \A j \in 1 .. p - 1 : pipe'[r][j] = pipe[r][j + 1]
  BY <1>1, <1>2, HeadTailProperties
<1> DEFINE h == pipe[r][1]
<1>5. /\ Len(got'[r]) = n + 1 /\ got'[r][n + 1] = h
      /\ \A i \in 1 .. n : got'[r][i] = got[r][i]
      /\ \A i \in 1 .. Len(got'[r]) : i \in 1 .. n \/ i = n + 1
  <2>1. Head(pipe[r]) = h /\ h \in Messages
    BY <1>1, <1>2, <1>4
  <2> QED BY <1>1, <1>2, <2>1, AppendProperties
<1>6. /\ h \in Nat /\ h \in large /\ h <= Piped
      /\ \A j \in 1 .. Len(pipe'[r]) : j + 1 \in 1 .. p /\ pipe'[r][j] = pipe[r][j + 1]
  BY <1>2, <1>4 DEF Mail, SocketOf
<1>7. \A j \in 1 .. Len(pipe'[r]) : h < pipe'[r][j]
  <2>1. ASSUME NEW j \in 1 .. Len(pipe'[r]) PROVE h < pipe[r][j + 1]
    <3>1. 1 \in 1 .. p /\ j + 1 \in 1 .. p /\ 1 < j + 1
      BY <1>2, <1>4, <1>6
    <3> QED BY <3>1 DEF Mail, SocketOf
  <2> QED BY <1>6, <2>1
<1>8. \A i \in 1 .. n : got[r][i] \in large => got[r][i] < h
  BY <1>2, <1>4 DEF Mail, SocketOf
<1>9. n + lost[r] + 1 = taken[r]
  BY <1>1, <1>2 DEF Mail, AccountOf
<1>10. ASSUME lost[r] = 0 PROVE h = n + 1
  <2>1. n < h /\ n + 1 = taken[r]
    BY <1>2, <1>4, <1>9, <1>10 DEF Mail, AccountOf
  <2>2. taken[r] \in large /\ taken[r] <= sent
    BY <1>1 DEF RingInv, Reading, Near
  <2>3. taken[r] <= Piped
    BY <1>2, <1>6, <2>1, <2>2 DEF Piped
  <2>4. PICK j \in 1 .. p : pipe[r][j] = taken[r]
    BY <1>2, <1>10, <2>1, <2>2, <2>3 DEF Mail, AccountOf
  <2>5. h <= taken[r]
    <3>1. CASE j = 1
      BY <2>4, <3>1, <1>2
    <3>2. CASE j # 1
      <4>1. 1 \in 1 .. p /\ 1 < j
        BY <1>2, <1>4, <3>2
      <4> QED BY <1>2, <1>6, <2>4, <4>1 DEF Mail, SocketOf
    <3> QED BY <3>1, <3>2
  <2> QED BY <1>2, <1>6, <2>1, <2>5
<1> HIDE DEF h
<1>11. SocketOf(r)'
  <2>1. \A j \in 1 .. Len(pipe'[r]) : pipe'[r][j] \in large /\ pipe'[r][j] <= Piped
    BY <1>6 DEF Mail, SocketOf
  <2>2. ASSUME NEW i \in 1 .. Len(pipe'[r]), NEW j \in 1 .. Len(pipe'[r]), i < j
        PROVE  pipe'[r][i] < pipe'[r][j]
    <3>1. i + 1 \in 1 .. p /\ j + 1 \in 1 .. p /\ i + 1 < j + 1
      BY <1>2, <1>4, <1>6, <2>2
    <3>2. pipe[r][i + 1] < pipe[r][j + 1]
      BY <3>1 DEF Mail, SocketOf
    <3> QED BY <1>6, <3>2
  <2>3. ASSUME NEW i \in 1 .. Len(got'[r])
        PROVE  IF got'[r][i] \in large
               THEN got'[r][i] <= Piped /\ \A j \in 1 .. Len(pipe'[r]) : got'[r][i] < pipe'[r][j]
               ELSE got'[r][i] <= taken[r]
    <3>1. CASE i = n + 1
      BY <1>5, <1>6, <1>7, <3>1
    <3>2. CASE i \in 1 .. n
      <4>1. IF got[r][i] \in large
            THEN got[r][i] <= Piped /\ \A j \in 1 .. p : got[r][i] < pipe[r][j]
            ELSE got[r][i] <= taken[r]
        BY <3>2 DEF Mail, SocketOf
      <4> QED BY <1>5, <1>6, <3>2, <4>1
    <3> QED BY <1>5, <3>1, <3>2
  <2> QED BY <1>1, <1>3, <2>1, <2>2, <2>3 DEF SocketOf
<1>12. AccountOf(r)'
  <2>1. ASSUME lost[r] = 0, NEW i \in 1 .. Len(got'[r]) PROVE got'[r][i] = i
    <3>1. CASE i \in 1 .. n
      BY <1>5, <2>1, <3>1 DEF Mail, AccountOf
    <3>2. CASE i = n + 1
      BY <1>5, <1>10, <2>1, <3>2
    <3> QED BY <1>5, <3>1, <3>2
  <2>2. ASSUME lost[r] = 0, NEW j \in 1 .. Len(pipe'[r]) PROVE n + 1 < pipe'[r][j]
    BY <1>7, <1>10, <2>2
  <2>3. ASSUME lost[r] = 0, NEW m \in large, n + 1 < m, m <= Piped
        PROVE  \E j \in 1 .. Len(pipe'[r]) : pipe'[r][j] = m
    <3>m. m \in Nat
      BY DEF Typed, TypedWriter, Messages
    <3>1. m \in Nat /\ n < m
      BY <1>2, <2>3, <3>m
    <3>2. PICK j \in 1 .. p : pipe[r][j] = m
      BY <2>3, <3>1 DEF Mail, AccountOf
    <3>3. j # 1
      BY <1>2, <1>10, <2>3, <3>1, <3>2 DEF h
    <3>4. j - 1 \in 1 .. Len(pipe'[r]) /\ j - 1 + 1 = j
      BY <1>2, <1>4, <3>3
    <3> QED BY <1>6, <3>2, <3>4
  <2>4. n + 1 + lost[r] + 0 = taken[r]
    <3>1. n \in Nat /\ lost[r] \in Nat /\ taken[r] \in Nat
      BY <1>2
    <3> HIDE DEF n
    <3> QED BY <1>9, <3>1
  <2>5. r \notin Timed => lost[r] = 0
    BY DEF Mail, AccountOf
  <2> QED BY <1>1, <1>3, <1>5, <2>1, <2>2, <2>3, <2>4, <2>5 DEF AccountOf
<1>13. OrderOf(r)'
  <2>1. ASSUME NEW i \in 1 .. Len(got'[r]), NEW j \in 1 .. Len(got'[r]), i < j,
               got'[r][i] \in large <=> got'[r][j] \in large
        PROVE  got'[r][i] < got'[r][j]
    <3>1. i \in 1 .. n
      BY <1>2, <1>5, <2>1
    <3>2. CASE j \in 1 .. n
      BY <1>5, <2>1, <3>1, <3>2 DEF Mail, OrderOf
    <3>3. CASE j = n + 1
      BY <1>5, <1>6, <1>8, <2>1, <3>1, <3>3
    <3> QED BY <1>5, <3>2, <3>3
  <2> QED BY <1>1, <2>1 DEF OrderOf
<1> QED BY <1>11, <1>12, <1>13 DEF Mail

\* A reader leaves a message in its socket.
LEMMA SocketTimesOutMail ==
  ASSUME Typed, RingInv, NEW r \in Readers, Mail(r), SocketTimesOut(r)
  PROVE  Mail(r)'
<1>1. /\ rpc[r] = "receive" /\ rpc'[r] = "check" /\ lost'[r] = lost[r] + 1 /\ r \in Timed
      /\ UNCHANGED <<wpc, sent, large, taken, got, pipe>>
  BY DEF SocketTimesOut, At, writer, sockets, Typed, TypedReader
<1>2. Len(got[r]) \in Nat /\ taken[r] \in Nat /\ lost[r] \in Nat
  BY MailTypes DEF RingInv
<1>3. SocketOf(r)' /\ OrderOf(r)'
  BY <1>1 DEF Mail, SocketOf, OrderOf, Piped
<1>4. AccountOf(r)'
  BY <1>1, <1>2 DEF Mail, AccountOf
<1> QED BY <1>3, <1>4 DEF Mail

\* Every step keeps the mail of every reader.
LEMMA MailStep ==
  ASSUME ~Relaxed, IInv, [Next]_vars, NEW r \in Readers
  PROVE  Mail(r)'
<1> USE DEF IInv, RingInv
<1>f. ASSUME UNCHANGED <<got[r], pipe[r], taken[r], lost[r], sent, large>>,
             rpc'[r] = "receive" <=> rpc[r] = "receive",
             wpc' = "send" <=> wpc = "send"
      PROVE  Mail(r)'
  <2>1. Piped' = Piped /\ Piped \in Nat
    BY <1>f, MailTypes DEF Piped
  <2> QED BY <1>f, <2>1, MailFrame
<1>1. ASSUME Enqueue \/ WriterTimesOut PROVE Mail(r)'
  <2>1. /\ UNCHANGED <<got, pipe, taken, lost, rpc, sent>>
        /\ wpc # "send" /\ wpc' # "send"
    BY <1>1 DEF AtWriter, Enqueue, WriterTimesOut, reader, sockets
  <2>2. Piped' = sent /\ Piped = sent /\ sent \in Nat
    BY <2>1, MailTypes DEF Piped
  <2>3. \A m \in Nat : m <= sent => (m \in large' <=> m \in large)
    BY <1>1, ContentStays
  <2>4. \A m \in large' : m \in Nat
    BY TypedStep DEF Typed, TypedWriter, Messages
  <2> QED BY <2>1, <2>2, <2>3, <2>4, MailFrame
<1>2. CASE AcquireWrite
  BY <1>2, <1>f DEF AtWriter, AcquireWrite, reader, sockets
<1>3. CASE Publish
  <2>1. /\ UNCHANGED <<got, pipe, taken, lost, rpc, large>> /\ sent' = sent + 1 /\ wpc = "fence"
        /\ wpc' = IF Message \in large THEN "send" ELSE "notify"
    BY <1>3 DEF AtWriter, Publish, reader, sockets
  <2>2. sent \in Nat /\ Piped = sent /\ \A m \in large : m \in Nat
    BY <2>1, MailTypes DEF Piped, Typed, TypedWriter, Messages
  <2>3. Piped' = IF sent + 1 \in large THEN sent ELSE sent + 1
    BY <2>1, <2>2 DEF Piped, Message
  <2>4. \A m \in large' : m <= Piped' => m <= Piped /\ m \in large
    BY <2>1, <2>2, <2>3
  <2>5. Piped' \in Nat /\ Piped <= Piped'
    BY <2>2, <2>3
  <2> QED BY <2>1, <2>4, <2>5, MailFrame
<1>4. CASE SendLarge
  BY <1>4, SendMail
<1>5. CASE Notify
  BY <1>5, <1>f DEF AtWriter, Notify, reader
<1>6. CASE SendRemote
  <2>1. pipe'[r] = pipe[r]
    BY <1>6, QueueAssumption DEF AtWriter, SendRemote, Typed, TypedSockets
  <2> QED BY <1>6, <2>1, <1>f DEF AtWriter, SendRemote, reader
<1>7. CASE Drain
  BY <1>7, <1>f DEF Drain, Visible, writer, reader, sockets
<1>8. ASSUME NEW q \in Readers,
             \/ LoadReadFlag(q) \/ LoadWrittenFlag(q) \/ Spin(q) \/ GoIdle(q) \/ Woken(q)
             \/ CopyOut(q) \/ ReadTimesOut(q)
      PROVE  Mail(r)'
  <2>1. UNCHANGED <<got, pipe, taken, lost, sent, large, wpc>>
    BY <1>8 DEF LoadReadFlag, LoadWrittenFlag, Spin, GoIdle, Woken, CopyOut, ReadTimesOut,
                writer, sockets
  <2>2. /\ rpc[q] # "receive"
        /\ \E there \in ReaderPlaces \ {"receive"} : rpc' = [rpc EXCEPT ![q] = there]
    BY <1>8 DEF LoadReadFlag, LoadWrittenFlag, Spin, GoIdle, Woken, CopyOut, ReadTimesOut,
                At, Waited, ReaderPlaces
  <2>3. rpc'[r] = "receive" <=> rpc[r] = "receive"
    BY <2>2 DEF Typed, TypedReader
  <2> QED BY <2>1, <2>3, <1>f
<1>9. ASSUME NEW q \in Readers, MarkRead(q) \/ ReceiveLarge(q) \/ SocketTimesOut(q)
      PROVE  Mail(r)'
  <2>1. CASE q = r
    BY <1>9, <2>1, MarkMail, ReceiveMail, SocketTimesOutMail
  <2>2. CASE q # r
    <3>1. /\ UNCHANGED <<sent, large, wpc>>
          /\ UNCHANGED <<got[r], pipe[r], taken[r], lost[r], rpc[r]>>
      BY <1>9, <2>2 DEF MarkRead, ReceiveLarge, SocketTimesOut, At, writer, sockets,
                        Typed, TypedReader, TypedSockets
    <3> QED BY <3>1, <1>f
  <2> QED BY <2>1, <2>2
<1>10. ASSUME NEW q \in Readers, ShutDown(q) \/ Cancel(q) PROVE Mail(r)'
  BY <1>10, <1>f DEF ShutDown, Cancel, writer, reader
<1>11. ASSUME NEW q \in Remotes, RemoteDequeue(q) PROVE Mail(r)'
  <2>1. q # r
    BY QueueAssumption
  <2>2. got'[r] = got[r] /\ pipe'[r] = pipe[r]
    BY <1>11, <2>1 DEF RemoteDequeue, Typed, TypedReader, TypedSockets
  <2> QED BY <1>11, <2>2, <1>f DEF RemoteDequeue, writer
<1>12. CASE UNCHANGED vars \/ WriterDies
  BY <1>12, <1>f DEF vars, writer, reader, sockets, WriterDies
<1> QED
  BY <1>1, <1>2, <1>3, <1>4, <1>5, <1>6, <1>7, <1>8, <1>9, <1>10, <1>11, <1>12
     DEF Next, Fenced, Step, Quiet

-----------------------------------------------------------------------------
(* The invariant.                                                          *)

\* It holds at the start.
LEMMA InitIInv ==
  ASSUME Init
  PROVE  IInv
<1> USE DEF Init
<1>1. TypedShared
  BY DEF TypedShared
<1>2. TypedWriter
  BY QueueAssumption DEF TypedWriter, WriterPlaces
<1>3. TypedReader
  BY DEF TypedReader, ReaderPlaces
<1>4. TypedSockets
  BY DEF TypedSockets
<1>5. Ring
  BY QueueAssumption DEF Ring, Chunks
<1>6. Near
  BY QueueAssumption DEF Near, Intact
<1>7. Writing /\ Reading
  BY DEF Writing, Reading
<1>8. ASSUME NEW r \in Readers PROVE Mail(r)
  <2>1. got[r] = <<>> /\ pipe[r] = <<>> /\ taken[r] = 0 /\ lost[r] = 0 /\ rpc[r] = "check"
    OBVIOUS
  <2>2. \A m \in large : FALSE
    OBVIOUS
  <2> QED BY <2>1, <2>2 DEF Mail, SocketOf, AccountOf, OrderOf
<1> QED BY <1>1, <1>2, <1>3, <1>4, <1>5, <1>6, <1>7, <1>8 DEF IInv, Typed

\* Every step keeps it.
LEMMA StepIInv ==
  ASSUME ~Relaxed, IInv, [Next]_vars
  PROVE  IInv'
<1>1. Typed'
  BY TypedStep
<1>2. RingInv'
  BY RingStep DEF IInv, RingInv
<1>3. \A r \in Readers : Mail(r)'
  BY MailStep
<1> QED BY <1>1, <1>2, <1>3 DEF IInv, RingInv

\* It is inductive on a processor that keeps the order of stores.
LEMMA Inductive == ~Relaxed /\ Spec => []IInv
<1>1. Init => IInv
  BY InitIInv
<1>2. ~Relaxed /\ IInv /\ [Next]_vars => IInv'
  BY StepIInv
<1>3. CASE Relaxed
  BY <1>3
<1>4. CASE ~Relaxed
  <2>1. IInv /\ [Next]_vars => IInv'
    BY <1>2, <1>4
  <2> QED BY <1>1, <2>1, PTL DEF Spec
<1> QED BY <1>3, <1>4

\* The queue is safe, for any number of readers, chunks and messages, with
\* time-outs and shutdowns of any of the readers, as long as stores become
\* visible in their order: what acquire_write and acquire_read promise of each
\* other.
THEOREM QueueIsSafe == ~Relaxed /\ Spec => []Safe
<1>1. ASSUME IInv PROVE TypeOK
  <2>1. ASSUME NEW r \in Readers PROVE taken[r] \in 0 .. sent /\ lost[r] \in 0 .. taken[r]
    <3>1. Len(got[r]) + lost[r] <= taken[r] /\ taken[r] <= sent
      BY <1>1, MailTypes DEF IInv, Mail, AccountOf, Near
    <3> QED BY <1>1, <3>1, MailTypes DEF IInv
  <2>2. \A r \in Readers \cup Remotes : got[r] \in Seq(Messages) /\ pipe[r] \in Seq(Messages)
    BY <1>1 DEF IInv, Typed, TypedReader, TypedSockets
  <2> QED BY <1>1, <2>1, <2>2
          DEF IInv, Typed, TypedShared, TypedWriter, TypedReader, TypedSockets, Writing, TypeOK
<1>2. ASSUME IInv PROVE ReadsNext /\ NeverTwice
  BY <1>2 DEF IInv, Reading, ReadsNext, Mail, OrderOf, NeverTwice
<1>3. ASSUME IInv PROVE InOrderUnlessLost
  BY <1>3, QueueAssumption DEF IInv, Mail, AccountOf, InOrderUnlessLost
<1>4. IInv => Safe
  BY <1>1, <1>2, <1>3 DEF Safe
<1> QED BY <1>4, Inductive, PTL

-----------------------------------------------------------------------------
(* The broadcast.                                                          *)

Waiting == Readers \ Timed
GotOf   == [r \in Waiting |-> got[r]]

\* The writer sends when it marks a chunk as written: a reader that waits as
\* long as it takes is one window behind at the most.
LEMMA PublishSends ==
  ASSUME IInv, Publish
  PROVE  B!Send
<1>1. ASSUME NEW r \in Waiting PROVE sent - Len(GotOf[r]) < MaxChunks + 1
  <2>1. r \in Readers /\ r \notin Timed /\ GotOf[r] = got[r]
    BY DEF Waiting, GotOf
  <2>2. sent < taken[r] + MaxChunks
    BY <2>1 DEF AtWriter, IInv, Near, Intact, Publish
  <2>3. taken[r] <= Len(got[r]) + 1
    <3>1. AccountOf(r) /\ Typed /\ Writing
      BY <2>1 DEF IInv, Mail
    <3>2. Len(got[r]) \in Nat /\ lost[r] \in Nat /\ taken[r] \in Nat
      BY <2>1, <3>1, MailTypes
    <3>3. CASE rpc[r] = "receive"
      <4>1. Len(got[r]) + lost[r] + 1 = taken[r] /\ lost[r] = 0
        BY <2>1, <3>1, <3>3 DEF AccountOf
      <4> QED BY <3>2, <4>1
    <3>4. CASE rpc[r] # "receive"
      <4>1. Len(got[r]) + lost[r] + 0 = taken[r] /\ lost[r] = 0
        BY <2>1, <3>1, <3>4 DEF AccountOf
      <4> QED BY <3>2, <4>1
    <3> QED BY <3>3, <3>4
  <2> QED BY <2>1, <2>2, <2>3, MailTypes, RingTypes DEF IInv
<1>2. sent' = sent + 1 /\ UNCHANGED got
  BY DEF AtWriter, Publish, reader
<1> QED BY <1>1, <1>2 DEF B!Send, Waiting, GotOf

\* A reader receives when it appends a message to those it has got, from its
\* chunk or from its socket: the invariant says which message that is.
LEMMA GetReceives ==
  ASSUME IInv, IInv', NEW r \in Readers, NEW x \in Messages,
         got' = [got EXCEPT ![r] = Append(@, x)], UNCHANGED sent
  PROVE  B!Next \/ UNCHANGED <<sent, GotOf>>
<1>1. CASE r \in Timed
  <2>1. \A q \in Waiting : got'[q] = got[q]
    BY <1>1 DEF Waiting
  <2> QED BY <2>1 DEF GotOf
<1>2. CASE r \notin Timed
  <2>1. /\ got \in [Readers \cup Remotes -> Seq(Messages)] /\ got[r] \in Seq(Messages)
        /\ Len(got[r]) \in Nat /\ r \in Waiting
    BY <1>2 DEF IInv, Typed, TypedReader, Waiting
  <2>2. got'[r] = Append(got[r], x)
    BY <2>1
  <2>3. Len(got'[r]) = Len(got[r]) + 1 /\ got'[r][Len(got[r]) + 1] = x
    BY <2>1, <2>2, AppendProperties
  <2>4. \A i \in 1 .. Len(got'[r]) : got'[r][i] = i
    BY <1>2 DEF IInv, Mail, AccountOf
  <2>5. x = Len(got[r]) + 1
    BY <2>1, <2>3, <2>4
  <2>6. Len(got[r]) < sent
    <3>1. Typed' /\ Writing' /\ Mail(r)' /\ Near'
      BY DEF IInv
    <3>2. Len(got'[r]) <= taken'[r] /\ taken'[r] <= sent' /\ taken'[r] \in Nat /\ sent' \in Nat
      <4>1. taken'[r] \in Nat /\ lost'[r] \in Nat /\ sent' \in Nat
        BY <3>1 DEF Typed, TypedReader, TypedWriter
      <4>2. Len(got'[r]) + lost'[r] + (IF rpc'[r] = "receive" THEN 1 ELSE 0) = taken'[r]
        BY <3>1 DEF Mail, AccountOf
      <4> QED BY <2>1, <2>3, <3>1, <4>1, <4>2 DEF Near
    <3> QED BY <2>1, <2>3, <3>2
  <2>7. GotOf' = [GotOf EXCEPT ![r] = Append(@, Len(@) + 1)]
    BY <2>1, <2>2, <2>5 DEF GotOf, Waiting
  <2>8. B!Receive(r)
    BY <2>1, <2>6, <2>7 DEF B!Receive, GotOf, Waiting
  <2> QED BY <2>1, <2>8 DEF B!Next, Waiting
<1> QED BY <1>1, <1>2

\* Every step of the queue is a step of the broadcast, or none.
LEMMA StepBroadcasts ==
  ASSUME IInv, IInv', [Next]_vars
  PROVE  B!Next \/ UNCHANGED <<sent, GotOf>>
<1>1. ASSUME UNCHANGED <<sent, got>> PROVE UNCHANGED <<sent, GotOf>>
  BY <1>1 DEF GotOf
<1>2. CASE Publish
  BY <1>2, PublishSends DEF B!Next
<1>3. ASSUME NEW r \in Readers, MarkRead(r) PROVE B!Next \/ UNCHANGED <<sent, GotOf>>
  <2>1. CASE hold[r] = Over
    BY <1>1, <1>3, <2>1 DEF MarkRead, writer
  <2>2. CASE hold[r] # Over
    <3>1. hold[r] = Content(taken[r] + 1) /\ taken[r] < sent
      BY <1>3 DEF MarkRead, At, IInv, Reading
    <3>2. hold[r] \in Messages
      BY <2>2, <3>1, RingTypes DEF Content, Messages, IInv
    <3> QED BY <1>3, <2>2, <3>2, GetReceives DEF MarkRead, writer
  <2> QED BY <2>1, <2>2
<1>4. ASSUME NEW r \in Readers, ReceiveLarge(r) PROVE B!Next \/ UNCHANGED <<sent, GotOf>>
  <2>1. Head(pipe[r]) \in Messages
    BY <1>4 DEF ReceiveLarge, IInv, Typed, TypedSockets
  <2> QED BY <1>4, <2>1, GetReceives DEF ReceiveLarge, writer
<1>5. ASSUME NEW r \in Remotes, RemoteDequeue(r) PROVE UNCHANGED <<sent, GotOf>>
  <2>1. \A q \in Waiting : got'[q] = got[q]
    BY <1>5, QueueAssumption DEF RemoteDequeue, Waiting, IInv, Typed, TypedReader
  <2> QED BY <1>5, <2>1 DEF RemoteDequeue, writer, GotOf
<1>6. ASSUME \/ Enqueue \/ WriterTimesOut \/ AcquireWrite \/ SendLarge \/ Notify \/ SendRemote
             \/ WriterDies \/ Drain \/ UNCHANGED vars
      PROVE  UNCHANGED <<sent, got>>
  BY <1>6 DEF AtWriter, Enqueue, WriterTimesOut, AcquireWrite, SendLarge, Notify, SendRemote,
              WriterDies, Drain, Visible, vars, reader, writer
<1>7. ASSUME NEW r \in Readers,
             \/ LoadReadFlag(r) \/ LoadWrittenFlag(r) \/ Spin(r) \/ GoIdle(r) \/ Woken(r)
             \/ CopyOut(r) \/ ReadTimesOut(r) \/ SocketTimesOut(r) \/ ShutDown(r) \/ Cancel(r)
      PROVE  UNCHANGED <<sent, got>>
  BY <1>7 DEF LoadReadFlag, LoadWrittenFlag, Spin, GoIdle, Woken, CopyOut, ReadTimesOut,
              SocketTimesOut, ShutDown, Cancel, writer, reader
<1> QED
  BY <1>1, <1>2, <1>3, <1>4, <1>5, <1>6, <1>7 DEF Next, Fenced, Step, Quiet

\* The ring of chunks, the flags and the sockets implement the broadcast, for
\* the readers that wait as long as it takes, on a processor that keeps the
\* order of stores.
THEOREM QueueBroadcasts == ~Relaxed /\ Spec => ImplementsBroadcast
<1>1. Init => B!Init
  BY DEF Init, B!Init
<1>2. IInv /\ IInv' /\ [Next]_vars => [B!Next]_<<sent, GotOf>>
  BY StepBroadcasts
<1>3. ~Relaxed /\ Spec => [][B!Next]_<<sent, GotOf>>
  BY <1>2, Inductive, PTL DEF Spec
<1>4. Spec => B!Init
  BY <1>1, PTL DEF Spec
<1> QED BY <1>3, <1>4, PTL DEF ImplementsBroadcast, B!Spec, GotOf, Waiting
=============================================================================
