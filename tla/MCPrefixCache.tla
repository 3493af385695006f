---------------------------- MODULE MCPrefixCache ----------------------------
(***************************************************************************)
(* Instances of PrefixCache for TLC.                                       *)
(***************************************************************************)
EXTENDS PrefixCache

\* Blocks of two tokens.  The first prompt is the first block of the second one,
\* which repeats it and ends in a third block; the last one shares nothing.
ThreePrompts == [r \in Reqs |-> CASE r = 1 -> <<1, 1>>
                                  [] r = 2 -> <<1, 1, 1, 1, 3>>
                                  [] OTHER -> <<2, 2, 2>>]

\* Blocks of one token; the first request is the longer one.
TwoPrompts == [r \in Reqs |-> IF r = 1 THEN <<1, 1, 1, 1, 1, 1>> ELSE <<2, 2, 2, 2>>]

\* The last request goes first.
LastFirst == [r \in Reqs |-> Cardinality(Reqs) - r]
Equal     == [r \in Reqs |-> 0]
=============================================================================
