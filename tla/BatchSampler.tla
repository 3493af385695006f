---------------------------- MODULE BatchSampler ----------------------------
(***************************************************************************)
(* The batches of one epoch (speculators                                   *)
(* train/distributed_batch_sampler.py).  Every rank computes its own       *)
(* batches from the same shuffled lengths, without talking to the others:  *)
(* the largest prefix of what is left that can be packed into one batch    *)
(* per rank, again and again.                                              *)
(*                                                                         *)
(* A sample is its place in the shuffled data set.                         *)
(***************************************************************************)
EXTENDS Integers, Sequences, SequencesExt, FiniteSetsExt

CONSTANTS
  Replicas,  \* num_replicas
  MaxLen     \* batch_max_length

ASSUME SamplerSizes == Replicas \in Nat \ {0} /\ MaxLen \in Nat \ {0}

Ranks   == 0..(Replicas - 1)
NoBatch == <<0>>   \* the None of _lpt_packed_batch; samples count from 1

\* truncate_long_samples: the default, and what the loaders use.
Truncated(lengths) == [i \in DOMAIN lengths |-> Min({lengths[i], MaxLen})]

Total(lengths) == FoldSeq(+, 0, lengths)

\* The longer sample comes before the shorter one, of equal ones the later.
Before(lengths, a, b) ==
  lengths[a] > lengths[b] \/ (lengths[a] = lengths[b] /\ a > b)

\* np.argsort(lengths)[::-1]: the k-th has k - 1 samples before it.
Descending(lengths) ==
  [k \in DOMAIN lengths |->
     CHOOSE i \in DOMAIN lengths :
       Cardinality({j \in DOMAIN lengths : Before(lengths, j, i)}) = k - 1]

\* heap[0]: the least full bin, of equal ones that of the lowest rank.
LeastFull(fill) ==
  CHOOSE r \in Ranks : \A s \in Ranks : fill[r] < fill[s] \/ (fill[r] = fill[s] /\ r <= s)

\* Mutant: a full batch may be filled further.
PackedBatchOverfull(lengths, start, rank) ==
  LET put(s, i) ==
        LET r == LeastFull(s.fill)
        IN  [s EXCEPT !.fill[r] = @ + lengths[i],
                      !.batch   = IF r = rank THEN Append(@, start + i) ELSE @]
      packed == FoldLeft(put, [fill |-> [r \in Ranks |-> 0], batch |-> <<>>],
                         Descending(lengths))
  IN  IF packed.fill[rank] > MaxLen THEN NoBatch ELSE packed.batch

\* _lpt_packed_batch: this rank's batch of a packing of all lengths, longest
\* first into the least full batch, NoBatch if they do not fit.
PackedBatch(lengths, start, rank) ==
  LET put(s, i) ==
        LET r == LeastFull(s.fill)
        IN  [s EXCEPT !.fill[r] = @ + lengths[i],
                      !.fits    = @ /\ s.fill[r] + lengths[i] <= MaxLen,
                      !.batch   = IF r = rank THEN Append(@, start + i) ELSE @]
      packed == FoldLeft(put, [fill |-> [r \in Ranks |-> 0], fits |-> TRUE, batch |-> <<>>],
                         Descending(lengths))
  IN  IF packed.fits THEN packed.batch ELSE NoBatch

\* The binary search for how many of the lengths after ind are packed next,
\* between 1 and the number whose sum all batches together can hold.
PackedNext(lengths, ind, rank) ==
  LET room  == Replicas * MaxLen
      count == Cardinality({k \in ind + 1..Len(lengths) :
                              Total(SubSeq(lengths, ind + 1, k)) <= room})
      fits(n) == PackedBatch(SubSeq(lengths, ind + 1, ind + n), ind, rank) # NoBatch
      search[bounds \in Nat \X Nat] ==
        LET left  == bounds[1]
            right == bounds[2]
            mid   == (left + right) \div 2
        IN  IF ~(right - left > 1 /\ right > Replicas) THEN left
            ELSE search[IF fits(mid) THEN <<mid, right>> ELSE <<left, mid>>]
  IN  search[<<1, count + 1>>]

\* Mutant: a rank goes on as long as a sample is left for it.
AssignUnevenly(all, rank) ==
  LET lengths == Truncated(all)
      from[ind \in Nat] ==
        IF Len(lengths) - ind <= rank THEN <<>>
        ELSE LET n == PackedNext(lengths, ind, rank)
             IN  <<PackedBatch(SubSeq(lengths, ind + 1, ind + n), ind, rank)>> \o from[ind + n]
  IN  from[0]

\* _assign_to_packed_batches: fewer samples than ranks are dropped at the end.
AssignToPackedBatches(all, rank) ==
  LET lengths == Truncated(all)
      from[ind \in Nat] ==
        IF Len(lengths) - ind < Replicas THEN <<>>
        ELSE LET n == PackedNext(lengths, ind, rank)
             IN  <<PackedBatch(SubSeq(lengths, ind + 1, ind + n), ind, rank)>> \o from[ind + n]
  IN  from[0]
=============================================================================
