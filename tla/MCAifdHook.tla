----------------------------- MODULE MCAifdHook -----------------------------
(* Instances of AifdHook for TLC: a target model of five layers.     *)
EXTENDS AifdHook

\* Three candidates, overlapping the auxiliary layers in one of them, with
\* both granularities; a server without a candidate list.
MCConfigs ==
  {[aux |-> {1, 5}, cands |-> {1, 2, 3}, gran |-> g] : g \in {"sample", "token"}}
  \cup {[aux |-> {2, 4}, cands |-> {}, gran |-> "sample"],
        [aux |-> {0, 2}, cands |-> {2}, gran |-> "sample"]}

\* A prompt, two prompts, a prompt with a decode before it, one token, a dummy.
MCBatches ==
  {[lens |-> <<2>>, dummy |-> FALSE], [lens |-> <<2, 2>>, dummy |-> FALSE],
   [lens |-> <<1, 2>>, dummy |-> FALSE], [lens |-> <<1>>, dummy |-> FALSE],
   [lens |-> <<2>>, dummy |-> TRUE]}

\* The configurations whose fallback can be confused with a dummy pass.
MCSmallConfigs == {c \in MCConfigs : c.cands # {} /\ c.gran = "sample"}
MCEntropies == 0..1

\* One prompt of two tokens, on a server that selects by request.
MCSampleConfig == {[aux |-> {1, 5}, cands |-> {1, 2, 3}, gran |-> "sample"]}
MCPrompt == {[lens |-> <<2>>, dummy |-> FALSE]}
=============================================================================
