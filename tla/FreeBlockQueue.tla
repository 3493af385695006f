---------------------------- MODULE FreeBlockQueue ----------------------------
(***************************************************************************)
(* The doubly linked list of free KV cache blocks                          *)
(* (FreeKVCacheBlockQueue, vllm/v1/core/kv_cache_utils.py).  The links are *)
(* attributes of the blocks; two fake blocks stand at the ends.  A queue   *)
(* is a record of the two links of every block and of the counter          *)
(* num_free_blocks, and an operation is an operator on such records.       *)
(***************************************************************************)
EXTENDS Integers, Sequences, FiniteSets

\* The fake ends of the list, and the link of a block outside it.  Blocks are
\* natural numbers.
FakeHead == -1
FakeTail == -2
NoBlock == -3

\* A block's two links are None.
Unlink(q, S) ==
  [q EXCEPT !.next = [b \in DOMAIN q.next |-> IF b \in S THEN NoBlock ELSE q.next[b]],
            !.prev = [b \in DOMAIN q.prev |-> IF b \in S THEN NoBlock ELSE q.prev[b]]]

\* Every node of the sequence s linked with the one after it.
Chain(q, s) ==
  LET place(b) == CHOOSE i \in DOMAIN s : s[i] = b
      nodes    == {s[i] : i \in DOMAIN s}
  IN  [q EXCEPT
        !.next = [b \in DOMAIN q.next |->
                    IF b \in nodes \ {s[Len(s)]} THEN s[place(b) + 1] ELSE q.next[b]],
        !.prev = [b \in DOMAIN q.prev |->
                    IF b \in nodes \ {s[1]} THEN s[place(b) - 1] ELSE q.prev[b]]]

\* The queue of the blocks of the sequence s.
NewQueue(s) ==
  LET nodes == {s[i] : i \in DOMAIN s} \cup {FakeHead, FakeTail}
      none  == [b \in nodes |-> NoBlock]
  IN  Chain([next |-> none, prev |-> none, size |-> Len(s)],
            <<FakeHead>> \o s \o <<FakeTail>>)

\* The first n nodes after the fake head, by following the links.
FirstBlocks(q, n) ==
  LET node[i \in 0..n] == IF i = 0 THEN FakeHead
                          ELSE IF node[i - 1] = NoBlock THEN NoBlock
                          ELSE q.next[node[i - 1]]
  IN  [i \in 1..n |-> node[i]]

PopLeftN(q, n) ==
  IF n = 0 THEN q
  ELSE LET popped == FirstBlocks(q, n)
           after  == q.next[popped[n]]
       IN  Chain([Unlink(q, {popped[i] : i \in 1..n}) EXCEPT !.size = @ - n],
                 <<FakeHead, after>>)

\* A block in the middle of the list leaves it.
RemoveBlock(q, b) ==
  LET q2 == Chain(q, <<q.prev[b], q.next[b]>>)
  IN  [Unlink(q2, {b}) EXCEPT !.size = @ - 1]

PrependN(q, s) ==
  IF s = <<>> THEN q
  ELSE [Chain(q, <<FakeHead>> \o s \o <<q.next[FakeHead]>>) EXCEPT !.size = @ + Len(s)]

AppendN(q, s) ==
  IF s = <<>> THEN q
  ELSE [Chain(q, <<q.prev[FakeTail]>> \o s \o <<FakeTail>>) EXCEPT !.size = @ + Len(s)]

\* The queue q is the list of the blocks of s: the links lead through s in both
\* directions, no block outside has a link, and the counter is right.
Represents(q, s) ==
  LET t == <<FakeHead>> \o s \o <<FakeTail>>
  IN  /\ q.size = Len(s)
      /\ \A i, j \in DOMAIN t : t[i] = t[j] => i = j
      /\ \A i \in 1..(Len(t) - 1) : /\ q.next[t[i]] = t[i + 1]
                                    /\ q.prev[t[i + 1]] = t[i]
      /\ \A b \in DOMAIN q.next \ {t[i] : i \in DOMAIN t} :
           q.next[b] = NoBlock /\ q.prev[b] = NoBlock
=============================================================================
