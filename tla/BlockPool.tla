------------------------------ MODULE BlockPool ------------------------------
(***************************************************************************)
(* The pool of KV cache blocks with its prefix cache                       *)
(* (vllm/v1/core/block_pool.py).  A pool is a record:                      *)
(*   ref     block -> ref_cnt                                              *)
(*   hash    block -> the key it is cached under, NoKey if none            *)
(*   cached  key -> the blocks cached under it, in the order of insertion  *)
(*           (cached_block_hash_to_block)                                  *)
(*   queue   the free list                                                 *)
(*   failed  an exception or a failed assertion left the pool              *)
(* A key stands for the hash of a prefix and the cache group.              *)
(***************************************************************************)
EXTENDS FreeBlockQueue, SequencesExt

NullBlock == 0
NoKey     == <<>>

\* Blocks 0..n - 1; the first one is taken as the null block.
NewPool(n) ==
  [ref    |-> [b \in 0..(n - 1) |-> 0],
   hash   |-> [b \in 0..(n - 1) |-> NoKey],
   cached |-> [k \in {} |-> <<>>],
   queue  |-> PopLeftN(NewQueue([i \in 1..n |-> i - 1]), 1),
   failed |-> FALSE]

FreeCount(p) == p.queue.size

\* The elements of the sequence s that are in the set S, in their order.
Only(s, S) == FoldLeft(LAMBDA t, x : IF x \in S THEN Append(t, x) ELSE t, <<>>, s)

\* Any block cached under the key: the first one inserted.
GetOneBlock(p, k) == IF k \in DOMAIN p.cached THEN p.cached[k][1] ELSE NoBlock

InsertHash(p, b, k) ==
  LET others == IF k \in DOMAIN p.cached THEN p.cached[k] ELSE <<>>
  IN  IF p.hash[b] = k THEN p
      ELSE [p EXCEPT !.hash[b] = k,
                     !.cached = [x \in DOMAIN @ \cup {k} |->
                                   IF x = k THEN Append(others, b) ELSE @[x]]]

\* The block leaves the cache; a key without blocks leaves the map.
RemoveHash(p, b) ==
  LET k    == p.hash[b]
      left == Only(p.cached[k], DOMAIN p.ref \ {b})
  IN  IF k = NoKey THEN p
      ELSE [p EXCEPT !.hash[b] = NoKey,
                     !.cached = IF left = <<>>
                                THEN [x \in DOMAIN @ \ {k} |-> @[x]]
                                ELSE [@ EXCEPT ![k] = left]]

\* The first n blocks of the free list, each evicted from the prefix cache.
GetNewBlocks(p, n) ==
  LET new == FirstBlocks(p.queue, n)
      out == FoldLeft(RemoveHash, p, new)
  IN  IF n > FreeCount(p) THEN [p EXCEPT !.failed = TRUE]
      ELSE [out EXCEPT
             !.queue  = PopLeftN(@, n),
             !.failed = @ \/ \E i \in 1..n : p.ref[new[i]] # 0,
             !.ref    = [b \in DOMAIN @ |-> IF Contains(new, b) THEN @[b] + 1 ELSE @[b]]]

TouchOne(p, b) ==
  [p EXCEPT !.ref[b] = @ + 1,
            !.queue  = IF p.ref[b] = 0 THEN RemoveBlock(@, b) ELSE @]

\* Mutant: a hit block stays in the free list.
TouchInPlace(p, s) == FoldLeft(LAMBDA q, b : [q EXCEPT !.ref[b] = @ + 1], p, s)

\* The blocks of a prefix hit get a holder more and leave the free list.
Touch(p, s) == FoldLeft(TouchOne, p, s)

\* Mutant: every freed block goes to the end of the list.
FreeBlocksAtEnd(p, s) ==
  LET ref2 == [b \in DOMAIN p.ref |-> IF Contains(s, b) THEN p.ref[b] - 1 ELSE p.ref[b]]
  IN  [p EXCEPT !.ref = ref2,
                !.queue = AppendN(@, Only(s, {b \in DOMAIN ref2 : ref2[b] = 0}))]

\* The blocks lose a holder.  Those without one join the free list: at its
\* front when they are not cached, at its end when they are.
FreeBlocks(p, s) ==
  LET ref2    == [b \in DOMAIN p.ref |-> IF Contains(s, b) THEN p.ref[b] - 1 ELSE p.ref[b]]
      free    == {b \in DOMAIN p.ref : ref2[b] = 0}
      without == Only(s, {b \in free : p.hash[b] = NoKey})
      with    == Only(s, {b \in free : p.hash[b] # NoKey})
  IN  [p EXCEPT !.ref = ref2, !.queue = AppendN(PrependN(@, without), with)]

\* blocks[i] is cached under keys[i], for the i from first to last.
CacheFullBlocks(p, blocks, keys, first, last) ==
  LET one(q, i) == IF q.hash[blocks[i]] # NoKey THEN [q EXCEPT !.failed = TRUE]
                   ELSE InsertHash(q, blocks[i], keys[i])
  IN  FoldLeft(one, p, [j \in 1..(last - first + 1) |-> first + j - 1])

\* Only when no block but the null block is in use.
CanReset(p) == Cardinality(DOMAIN p.ref) - FreeCount(p) = 1
ResetPool(p) == [p EXCEPT !.hash = [b \in DOMAIN @ |-> NoKey],
                          !.cached = [k \in {} |-> <<>>]]
=============================================================================
