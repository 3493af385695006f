---------------------------- MODULE MessageQueue ----------------------------
(***************************************************************************)
(* MessageQueue of vLLM's shm_broadcast.py: a ring of chunks in shared     *)
(* memory with one writer and one flag per reader, a socket beside it for  *)
(* messages that do not fit into a chunk, and a socket that wakes readers  *)
(* that have gone idle.  No lock is taken; all that orders the two sides   *)
(* are the stores to the flags and the fences between them.                *)
(*                                                                         *)
(* A message is its number in the order of the enqueues.  `current_idx' of *)
(* either side is a count here, the chunk is that count modulo MaxChunks.  *)
(* Stores wait in `pending' until they are visible: in the order of the    *)
(* program, or, with Relaxed, in any order between two fences.             *)
(***************************************************************************)
EXTENDS Naturals, Sequences, SequencesExt

CONSTANTS
  Readers,      \* the local readers
  Timed,        \* those that dequeue with a timeout
  Stopping,     \* those that another thread may shut down
  Remotes,      \* the remote readers, which only have a socket
  MaxChunks,
  MaxMessages,  \* bound on the messages written
  MayBeLarge,   \* those that may not fit into a chunk
  Relaxed       \* a processor that reorders stores

ASSUME QueueAssumption ==
  /\ Timed \cup Stopping \subseteq Readers /\ Readers \cap Remotes = {}
  /\ IsFiniteSet(Readers)
  /\ MaxChunks \in Nat \ {0} /\ MaxMessages \in Nat
  /\ MayBeLarge \subseteq 1 .. MaxMessages /\ Relaxed \in BOOLEAN

VARIABLES
  written,   \* chunk -> its written flag
  read,      \* chunk -> the readers whose flag is set
  data,      \* chunk -> what is in it
  pending,   \* the writer's stores that are not visible yet
  wpc, sent, \* the writer: place in enqueue, messages made visible
  large,     \* the messages that do not fit into a chunk
  alive,     \* the writer's process lives
  rpc, taken, \* a reader: place in dequeue, chunks it has marked as read
  rflag,     \* its own flag as it loaded it
  hold,      \* what it copied out of the chunk
  got,       \* the messages dequeue has returned to it
  lost,      \* messages it left in its socket by timing out
  pipe,      \* reader -> what its socket holds
  notified,  \* the readers whose notification socket holds a message
  shutting, cancelled  \* readers being shut down; those with a cancel message

shared  == <<written, read, data, pending>>
writer  == <<wpc, sent, large, alive>>
reader  == <<rpc, taken, rflag, hold, got, lost>>
sockets == <<pipe, notified, shutting, cancelled>>
vars    == <<shared, writer, reader, sockets>>

Chunks == 0 .. MaxChunks - 1
Torn   == 0                \* a chunk in the middle of a write
Over   == MaxMessages + 1  \* the chunk says that the message is in the socket
Chunk(n)   == n % MaxChunks
Message    == sent + 1   \* the message being written
Content(m) == IF m \in large THEN Over ELSE m

Init ==
  /\ written = [c \in Chunks |-> FALSE] /\ read = [c \in Chunks |-> {}]
  /\ data = [c \in Chunks |-> Torn] /\ pending = <<>>
  /\ wpc = "idle" /\ sent = 0 /\ large = {} /\ alive = TRUE
  /\ rpc = [r \in Readers |-> "check"] /\ taken = [r \in Readers |-> 0]
  /\ rflag = [r \in Readers |-> FALSE] /\ hold = [r \in Readers |-> Torn]
  /\ got = [r \in Readers \cup Remotes |-> <<>>]
  /\ lost = [r \in Readers |-> 0]
  /\ pipe = [r \in Readers \cup Remotes |-> <<>>]
  /\ notified = {} /\ shutting = {} /\ cancelled = {}

-----------------------------------------------------------------------------
(* The writer. *)

AtWriter(here, there) == alive /\ wpc = here /\ wpc' = there /\ UNCHANGED alive

Enqueue ==
  /\ AtWriter("idle", "acquire") /\ sent < MaxMessages
  /\ \E big \in SUBSET ({Message} \cap MayBeLarge) : large' = large \cup big
  /\ UNCHANGED <<sent, shared, reader, sockets>>

\* Mutant: a chunk that nobody has read is not waited for.
WritableAnyway(c) == TRUE

\* acquire_write's check.  A reader's flag only goes up while the written
\* flag is up, so the loads of the flags are as good as one.
Writable(c) == ~ (written[c] /\ read[c] # Readers)

\* The flags of the readers are cleared one by one, after the data and before
\* the written flag goes up again behind a fence.
Clears == [i \in 1 .. Len(SetToSeq(Readers)) |-> <<"clear", SetToSeq(Readers)[i]>>]
Stores == <<<<"unwrite">>, <<"tear">>, <<"fill">>>> \o Clears

AcquireWrite ==
  /\ AtWriter("acquire", "fence") /\ Writable(Chunk(sent))
  /\ pending' = Stores
  /\ UNCHANGED <<written, read, data, sent, large, reader, sockets>>

\* Nothing has been written yet: the caller gets the exception.
WriterTimesOut ==
  /\ AtWriter("acquire", "idle") /\ ~ Writable(Chunk(sent))
  /\ large' = large \ {Message}
  /\ UNCHANGED <<sent, shared, reader, sockets>>

\* The i-th waiting store becomes visible.  Two stores to the data keep their
\* order on every processor.
Visible(i) ==
  /\ i \in 1 .. Len(pending)
  /\ \/ i = 1
     \/ Relaxed /\ (pending[i][1] = "fill" => <<"tear">> \notin ToSet(pending))
  /\ LET s == pending[i]
         c == Chunk(sent)
     IN /\ written' = IF s[1] = "unwrite" THEN [written EXCEPT ![c] = FALSE] ELSE written
        /\ data' = CASE s[1] = "tear" -> [data EXCEPT ![c] = Torn]
                     [] s[1] = "fill" -> [data EXCEPT ![c] = Content(Message)]
                     [] OTHER -> data
        /\ read' = IF s[1] = "clear" THEN [read EXCEPT ![c] = @ \ {s[2]}] ELSE read
  /\ pending' = RemoveAt(pending, i)
  /\ UNCHANGED <<writer, reader, sockets>>

\* Mutant: no fence before the written flag.
PublishUnfenced ==
  /\ AtWriter("fence", IF Message \in large THEN "send" ELSE "notify")
  /\ written' = [written EXCEPT ![Chunk(sent)] = TRUE]
  /\ sent' = sent + 1
  /\ UNCHANGED <<read, data, pending, large, reader, sockets>>

\* The fence waits for the stores, then the chunk is marked as written.
Publish ==
  /\ AtWriter("fence", IF Message \in large THEN "send" ELSE "notify")
  /\ pending = <<>>
  /\ written' = [written EXCEPT ![Chunk(sent)] = TRUE]
  /\ sent' = sent + 1
  /\ UNCHANGED <<read, data, pending, large, reader, sockets>>

\* Mutant: nobody is notified of a message in the socket.
SendLargeQuietly ==
  /\ AtWriter("send", "remote")
  /\ pipe' = [r \in DOMAIN pipe |->
                IF r \in Readers THEN Append(pipe[r], sent) ELSE pipe[r]]
  /\ UNCHANGED <<sent, large, shared, reader, notified, shutting, cancelled>>

SendLarge ==
  /\ AtWriter("send", "notify")
  /\ pipe' = [r \in DOMAIN pipe |->
                IF r \in Readers THEN Append(pipe[r], sent) ELSE pipe[r]]
  /\ UNCHANGED <<sent, large, shared, reader, notified, shutting, cancelled>>

\* A socket keeps one notification; one that finds another is dropped.
Notify ==
  /\ AtWriter("notify", "remote")
  /\ notified' = Readers
  /\ UNCHANGED <<sent, large, shared, reader, pipe, shutting, cancelled>>

SendRemote ==
  /\ AtWriter("remote", "idle")
  /\ pipe' = [r \in DOMAIN pipe |->
                IF r \in Remotes THEN Append(pipe[r], sent) ELSE pipe[r]]
  /\ UNCHANGED <<sent, large, shared, reader, notified, shutting, cancelled>>

\* The writer's process ends, wherever it is.  Of a write in progress any
\* number of stores may still become visible, and nothing else happens.
WriterDies ==
  /\ alive /\ alive' = FALSE
  /\ UNCHANGED <<wpc, sent, large, shared, reader, sockets>>

-----------------------------------------------------------------------------
(* A local reader: it calls dequeue again as soon as it returns or raises. *)

At(r, here, there) == rpc[r] = here /\ rpc' = [rpc EXCEPT ![r] = there]

\* acquire_read's check: first its own flag, then the written flag.
LoadReadFlag(r) ==
  /\ At(r, "check", "check written")
  /\ rflag' = [rflag EXCEPT ![r] = r \in read[Chunk(taken[r])]]
  /\ UNCHANGED <<taken, hold, got, lost, shared, writer, sockets>>

Readable(r) == written[Chunk(taken[r])] /\ ~ rflag[r]

LoadWrittenFlag(r) ==
  /\ At(r, "check written", IF Readable(r) THEN "copy" ELSE "wait")
  /\ rflag' = [rflag EXCEPT ![r] = FALSE]
  /\ UNCHANGED <<taken, hold, got, lost, shared, writer, sockets>>

\* Mutant: the reader does not look whether it is being shut down.
WaitedOn(r) == "check"

\* A reader that has waited raises if it is being shut down.
Waited(r) == IF r \in shutting THEN "stopped" ELSE "check"

\* SpinCondition.wait, less than busy_loop_s after the last read ...
Spin(r) ==
  /\ At(r, "wait", Waited(r))
  /\ UNCHANGED <<taken, rflag, hold, got, lost, shared, writer, sockets>>

\* ... or after it: the reader is idle until one of its sockets has a message.
GoIdle(r) ==
  /\ At(r, "wait", "poll")
  /\ UNCHANGED <<taken, rflag, hold, got, lost, shared, writer, sockets>>

\* A cancel message stays in its socket, a notification is taken out.
Woken(r) ==
  /\ At(r, "poll", Waited(r))
  /\ r \in cancelled \cup notified
  /\ notified' = IF r \in cancelled THEN notified ELSE notified \ {r}
  /\ UNCHANGED <<taken, rflag, hold, got, lost, shared, writer, pipe, shutting, cancelled>>

CopyOut(r) ==
  /\ At(r, "copy", "mark")
  /\ hold' = [hold EXCEPT ![r] = data[Chunk(taken[r])]]
  /\ UNCHANGED <<taken, rflag, got, lost, shared, writer, sockets>>

MarkRead(r) ==
  /\ At(r, "mark", IF hold[r] = Over THEN "receive" ELSE "check")
  /\ read' = [read EXCEPT ![Chunk(taken[r])] = @ \cup {r}]
  /\ taken' = [taken EXCEPT ![r] = @ + 1]
  /\ got' = IF hold[r] = Over THEN got ELSE [got EXCEPT ![r] = Append(@, hold[r])]
  /\ hold' = [hold EXCEPT ![r] = Torn]
  /\ UNCHANGED <<rflag, lost, written, data, pending, writer, sockets>>

ReceiveLarge(r) ==
  /\ At(r, "receive", "check")
  /\ pipe[r] # <<>>
  /\ got' = [got EXCEPT ![r] = Append(@, Head(pipe[r]))]
  /\ pipe' = [pipe EXCEPT ![r] = Tail(@)]
  /\ UNCHANGED <<taken, rflag, hold, lost, shared, writer, notified, shutting, cancelled>>

\* dequeue raises TimeoutError before it has read anything.
ReadTimesOut(r) ==
  /\ r \in Timed /\ rpc[r] \in {"wait", "poll"}
  /\ rpc' = [rpc EXCEPT ![r] = "check"]
  /\ UNCHANGED <<taken, rflag, hold, got, lost, shared, writer, sockets>>

\* dequeue raises TimeoutError although the chunk has been marked as read.
SocketTimesOut(r) ==
  /\ r \in Timed /\ At(r, "receive", "check")
  /\ pipe[r] = <<>>
  /\ lost' = [lost EXCEPT ![r] = @ + 1]
  /\ UNCHANGED <<taken, rflag, hold, got, shared, writer, sockets>>

\* shutdown, called by another thread of the reader's process: often the one
\* that has seen the writer's process end, but also before.
ShutDown(r) ==
  /\ r \in Stopping \ shutting
  /\ shutting' = shutting \cup {r}
  /\ UNCHANGED <<shared, writer, reader, pipe, notified, cancelled>>

Cancel(r) ==
  /\ r \in shutting \ cancelled
  /\ cancelled' = cancelled \cup {r}
  /\ UNCHANGED <<shared, writer, reader, pipe, notified, shutting>>

\* A remote reader's dequeue.
RemoteDequeue(r) ==
  /\ pipe[r] # <<>>
  /\ got' = [got EXCEPT ![r] = Append(@, Head(pipe[r]))]
  /\ pipe' = [pipe EXCEPT ![r] = Tail(@)]
  /\ UNCHANGED <<rpc, taken, rflag, hold, lost, shared, writer, notified, shutting, cancelled>>

-----------------------------------------------------------------------------
Fenced == AcquireWrite \/ Publish \/ SendLarge \/ Notify \/ SendRemote
Drain  == \E i \in 1 .. Len(pending) : Visible(i)

\* The reader waits for the second half of a message whose writer died after
\* the first.  The poll of its socket looks at neither shutdown's flag nor
\* the cancel message.
Stranded(r) ==
  ~ alive /\ wpc = "send" /\ rpc[r] = "receive" /\ pipe[r] = <<>>

Step(r) ==
  \/ LoadReadFlag(r) \/ LoadWrittenFlag(r) \/ Spin(r) \/ GoIdle(r)
  \/ Woken(r)  \/ CopyOut(r) \/ MarkRead(r) \/ ReceiveLarge(r)

\* The end of a bounded run: nothing left to write, every reader waits.
Quiet ==
  /\ wpc \in {"idle", "acquire"} \/ ~ alive
  /\ \A r \in Readers : rpc[r] \in {"poll", "stopped"} \/ Stranded(r)
  /\ UNCHANGED vars

Next ==
  \/ Quiet \/ Enqueue \/ WriterTimesOut \/ WriterDies \/ Fenced \/ Drain
  \/ \E r \in Readers : Step(r) \/ ReadTimesOut(r) \/ SocketTimesOut(r)
                        \/ ShutDown(r) \/ Cancel(r)
  \/ \E r \in Remotes : RemoteDequeue(r)

Spec == Init /\ [][Next]_vars

\* While it lives the writer goes on once it may, and its stores become visible
\* (its fence waits for them, so that never both are to be done); it may die at
\* any time, or never.  Workers call dequeue for ever.  That a reader is idle is
\* up to the clock: the disjunction is fair, Spin is not.
Fairness ==
  /\ WF_vars(Fenced \/ (alive /\ Drain))
  /\ \A r \in Readers : WF_vars(Step(r))
  /\ \A r \in Stopping : WF_vars(Cancel(r))
  /\ \A r \in Remotes : WF_vars(RemoteDequeue(r))

FairSpec == Spec /\ Fairness
-----------------------------------------------------------------------------
(* Properties. *)

WriterPlaces == {"idle", "acquire", "fence", "send", "notify", "remote"}
ReaderPlaces == {"check", "check written", "wait", "poll", "copy", "mark", "receive", "stopped"}
Messages == 1 .. MaxMessages

\* Every variable has its type; stores wait only between the two fences, and
\* no reader is ahead of the writer.
TypeOK ==
  /\ written \in [Chunks -> BOOLEAN] /\ read \in [Chunks -> SUBSET Readers]
  /\ data \in [Chunks -> Messages \cup {Torn, Over}]
  /\ wpc \in WriterPlaces /\ sent \in 0 .. MaxMessages /\ large \subseteq Messages
  /\ alive \in BOOLEAN
  /\ pending # <<>> => wpc = "fence"
  /\ rpc \in [Readers -> ReaderPlaces] /\ rflag \in [Readers -> BOOLEAN]
  /\ hold \in [Readers -> Messages \cup {Torn, Over}]
  /\ \A r \in Readers : taken[r] \in 0 .. sent /\ lost[r] \in 0 .. taken[r]
  /\ \A r \in Readers \cup Remotes : got[r] \in Seq(Messages) /\ pipe[r] \in Seq(Messages)
  /\ notified \subseteq Readers /\ cancelled \subseteq shutting /\ shutting \subseteq Stopping

\* What a reader copies out of a chunk is the message it is waiting for, the
\* whole of it: never the one before it, never one that is still being written
\* (the guarantee that acquire_write's comments on order and fences give).
ReadsNext == \A r \in Readers : rpc[r] = "mark" => hold[r] = Content(taken[r] + 1)

\* A reader gets no message twice, and the messages of the chunks and those of
\* the socket each in order, also after time-outs that separated the two.
NeverTwice ==
  \A r \in Readers : \A i, j \in 1 .. Len(got[r]) :
    i < j /\ (got[r][i] \in large <=> got[r][j] \in large) => got[r][i] < got[r][j]

\* To a reader that has left nothing in its socket the queue is a broadcast
\* in order; a time-out before the chunk was read costs nothing.
InOrderUnlessLost ==
  \A r \in Timed : lost[r] = 0 => \A i \in 1 .. Len(got[r]) : got[r][i] = i

\* No message is torn, skipped, repeated or overtaken.
Safe == TypeOK /\ ReadsNext /\ NeverTwice /\ InOrderUnlessLost

\* The ring, the flags and the sockets implement a broadcast with a window of
\* one message more than there are chunks (a large one is in the reader's hands
\* when its chunk is free), for the readers that wait as long as it takes.
B == INSTANCE Broadcast WITH
       Readers <- Readers \ Timed, Window <- MaxChunks + 1,
       got <- [r \in Readers \ Timed |-> got[r]]
ImplementsBroadcast == B!Spec

\* When the writer is done, and unless it died first, every reader that waits
\* gets all there is: a reader that is idle is woken for every message, and
\* notifications that are dropped or conflated lose nothing.
Delivered ==
  \A r \in (Readers \cup Remotes) \ Timed :
    <>[](Len(got[r]) = sent \/ r \in shutting \/ ~ alive)

\* A reader that is being shut down stops, however idle it is and wherever its
\* writer is or died, but in one place: a message of which the writer's death
\* left only the first half.  A shutdown is not taken back, so that this is
\* said of the end of a behaviour.
ShutdownEnds ==
  \A r \in Stopping : <>[](r \in shutting => rpc[r] = "stopped" \/ Stranded(r))

\* What the text of SpinCondition promises without that exception: another
\* thread can wake the reader, so that it can exit.
ShutdownStops == \A r \in Stopping : <>[](r \in shutting => rpc[r] = "stopped")
=============================================================================
