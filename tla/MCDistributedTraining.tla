----------------------- MODULE MCDistributedTraining -----------------------
(* Small instances of DistributedTraining. *)
EXTENDS DistributedTraining

\* All data sets of up to six samples; samples of five tokens are truncated.
MCDatasets == UNION {[1..n -> {1, 2, 3, 5}] : n \in 1..6}

\* Two batches a rank.
TwoBatches == {<<3, 3, 3, 3>>}
=============================================================================
