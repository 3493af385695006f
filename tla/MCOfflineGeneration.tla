------------------------ MODULE MCOfflineGeneration ------------------------
(* Instances of OfflineGeneration for TLC: args.concurrency = 1. *)
EXTENDS OfflineGeneration, TLC

MCSettings == {[validate |-> v, fail |-> f] : v, f \in BOOLEAN}
MCValidated == {[validate |-> TRUE, fail |-> FALSE]}
MCUnchecked == {[validate |-> FALSE, fail |-> FALSE]}
Symmetric == Permutations(Workers)
=============================================================================
