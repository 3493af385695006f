--------------------------- MODULE MCHiddenStates ---------------------------
(* Instances of HiddenStatesConnector for TLC. *)
EXTENDS HiddenStatesConnector, TLC

Symmetric == Permutations(Blocks) \cup Permutations(Reqs)
=============================================================================
