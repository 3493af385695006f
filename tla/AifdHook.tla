------------------------------ MODULE AifdHook ------------------------------
(***************************************************************************)
(* Entropy based layer selection inside one model forward pass             *)
(* (vllm/model_executor/models/aifd.py), together with the layer loop that *)
(* calls it (models/qwen2.py, models/interfaces.py) and the proposer that  *)
(* stacks the channels it produced (v1/spec_decode/extract_hidden_states). *)
(*                                                                         *)
(* A forward pass runs the layers in order.  Layer l+1's attention hook    *)
(* records an entropy per token, and after every layer the collector is    *)
(* told the layer's output.  The collector appends the outputs of the      *)
(* auxiliary layers and, on the last call, ONE more channel: for every     *)
(* token the output of the candidate layer with the smallest score, or a   *)
(* fallback.  The proposer's buffer has a fixed number of channels.        *)
(*                                                                         *)
(* A hidden-state tensor [T, H] is a function from the tokens of the batch *)
(* to the pair <<forward pass, layer>> that produced the row.              *)
(***************************************************************************)
EXTENDS Integers, Sequences, FiniteSets, FiniteSetsExt

CONSTANTS
  NumLayers,        \* decoder layers of the target model
  Configs,          \* [aux, cands : sets of layer ids, gran : granularity]
  Batches,          \* [lens : query lengths, dummy : BOOLEAN] of a forward
  DecodeThreshold,  \* query length up to which a request counts as a decode
  Entropies,        \* the values a head-averaged entropy can take
  Faults,           \* which hooks of a forward may fail: "none" "some" "all"
  MaxForwards       \* bound: number of forward passes of a behaviour

ASSUME SizesAreNat ==
  /\ NumLayers \in Nat \ {0}
  /\ DecodeThreshold \in Nat
  /\ MaxForwards \in Nat
  /\ Entropies \subseteq Nat /\ Entropies # {}
  /\ Faults \subseteq {"none", "some", "all"}

ASSUME BatchesAreLengths ==
  /\ Batches # {}
  /\ \A b \in Batches : /\ b.lens \in Seq(Nat \ {0}) /\ b.lens # <<>>
                        /\ b.dummy \in BOOLEAN

ASSUME ConfigsAreLayerSets ==
  \A c \in Configs : /\ c.aux \subseteq 0..NumLayers /\ c.aux # {}
                     /\ IsFiniteSet(c.cands) /\ c.cands \subseteq Nat \ {0}
                     /\ c.gran \in {"sample", "token"}

VARIABLES
  cfg,        \* the aifd_config and the auxiliary layers of this server
  pc,         \* "load" "idle" "note" "attn" "stack" "crashed"
  enabled,    \* _STATE.enabled
  hooked,     \* candidates whose attention module carries _attn_hook
  hidden,     \* _STATE.hidden: candidate -> output of the layer
  entropy,    \* _STATE.entropy: candidate -> entropy of every token
  seqLengths, \* _STATE.seq_lengths, <<>> for None
  skipMeta,   \* _DBG["skip_meta"], saturating at the number of candidates
  fwd,        \* number of the current forward pass
  batch,      \* its batch
  fault,      \* which of its hooks may fail
  layer,      \* the next layer id the collector is told
  auxList,    \* the aux_hidden_states list of the forward
  outcome,    \* how the last collector call ended
  truth       \* history: the entropies this forward's hooks computed

state  == <<enabled, hooked, hidden, entropy, seqLengths, skipMeta>>
pass   == <<fwd, batch, fault>>
vars   == <<cfg, pc, state, pass, layer, auxList, outcome, truth>>

Total(lens)  == SumFunctionOnSet(lens, DOMAIN lens)
NumTokens    == Total(batch.lens)
Tokens       == 1..NumTokens
Output(l)    == [t \in Tokens |-> <<fwd, l>>]   \* the tensor layer l returned
NoRecord     == [l \in {} |-> <<>>]
With(f, l, row) == [k \in DOMAIN f \cup {l} |-> IF k = l THEN row ELSE f[k]]

\* The attention metadata carries cumulative query lengths; the hook turns them
\* back into the length of every request.
ActualSeqLengthsQ(lens) ==
  [r \in DOMAIN lens |-> SumFunctionOnSet(lens, 1..r)]
CumulativeToLengths(cu) ==
  [r \in DOMAIN cu |-> IF r = 1 THEN cu[1] ELSE cu[r] - cu[r - 1]]

\* Tokens of the requests short enough to be taken for decodes; a batch lists
\* those first.
NumDecodeTokens(lens) ==
  SumFunctionOnSet(lens, {r \in DOMAIN lens : lens[r] <= DecodeThreshold})

\* A configured candidate list costs one channel, whatever enable_aifd does.
ExtraChannels    == IF cfg.cands # {} THEN 1 ELSE 0
ExpectedChannels == Cardinality(cfg.aux) + ExtraChannels

-----------------------------------------------------------------------------
(* Selection.                                                              *)

FirstCand == Min(cfg.cands)
PrevCand(l) == Max({k \in cfg.cands : k < l})
Abs(n) == IF n < 0 THEN -n ELSE n

\* Mutant: the score forgets the change against the previous candidate.
ScoreWithoutDifference(l, t) == entropy[l][t]

\* Row l of the score matrix; the first row is +inf and never wins against
\* another one.
Score(l, t) == entropy[l][t] + Abs(entropy[l][t] - entropy[PrevCand(l)][t])
ScoredCands == IF cfg.cands = {FirstCand} THEN cfg.cands
               ELSE cfg.cands \ {FirstCand}

\* Scores of a layer summed over a slice of tokens: the slice's mean times its
\* length, which orders the layers the same way.
SliceScore(l, slice) ==
  IF l = FirstCand THEN 0 ELSE SumFunctionOnSet([t \in slice |-> Score(l, t)], slice)

ArgMin(slice) ==
  CHOOSE l \in ScoredCands : \A k \in ScoredCands :
    \/ SliceScore(l, slice) < SliceScore(k, slice)
    \/ SliceScore(l, slice) = SliceScore(k, slice) /\ l <= k

Offset(lens, r) == SumFunctionOnSet(lens, 1..(r - 1))
Segment(lens, r) == (Offset(lens, r) + 1)..(Offset(lens, r) + lens[r])
SegmentOf(lens, t) ==
  Segment(lens, CHOOSE r \in DOMAIN lens : t \in Segment(lens, r))

SelectLayers ==
  [t \in 1..Total(seqLengths) |->
     ArgMin(IF cfg.gran = "token" THEN {t} ELSE SegmentOf(seqLengths, t))]

Gather(chosen) == [t \in DOMAIN chosen |-> hidden[chosen[t]][t]]

-----------------------------------------------------------------------------
(* Loading the model.                                                      *)

Init ==
  /\ cfg \in Configs
  /\ pc = "load" /\ enabled = FALSE /\ hooked = {}
  /\ hidden = NoRecord /\ entropy = NoRecord /\ seqLengths = <<>>
  /\ skipMeta = 0
  /\ fwd = 0 /\ batch = (CHOOSE b \in Batches : TRUE) /\ fault = "none" /\ layer = 0
  /\ auxList = <<>> /\ outcome = "none" /\ truth = NoRecord

\* The candidates are hooked in ascending order up to the first one that has
\* no layer; that one disables the selection and leaves the hooks in place.
EnableAifd ==
  LET outOfRange == {l \in cfg.cands : l > NumLayers}
  IN  /\ pc = "load"
      /\ pc' = "idle"
      /\ enabled' = (cfg.cands # {} /\ outOfRange = {})
      /\ hooked' = {l \in cfg.cands : \A k \in outOfRange : l < k}
      /\ UNCHANGED <<cfg, hidden, entropy, seqLengths, skipMeta, pass, layer,
                     auxList, outcome, truth>>

-----------------------------------------------------------------------------
(* One forward pass.                                                       *)

StartForward ==
  /\ pc = "idle" /\ fwd < MaxForwards
  /\ fwd' = fwd + 1 /\ batch' \in Batches /\ fault' \in Faults
  /\ pc' = "note" /\ layer' = 0 /\ auxList' = <<>>
  /\ outcome' = "none" /\ truth' = NoRecord
  /\ UNCHANGED <<cfg, state>>

\* Why a hook leaves without computing anything, in the code's order.
SingleToken  == NumTokens <= 1
NoMetadata   == batch.dummy
HoldsDecodes == NumDecodeTokens(batch.lens) > 0

Hooked == enabled /\ layer + 1 \in hooked

\* Layer `layer` has run; the collector is called with the next layer id.
LayerDone == pc = "attn" /\ pc' = "note" /\ layer' = layer + 1
             /\ UNCHANGED <<cfg, enabled, hooked, hidden, pass, auxList, outcome>>

AttnUnhooked ==
  /\ ~Hooked
  /\ LayerDone
  /\ UNCHANGED <<entropy, seqLengths, skipMeta, truth>>

AttnSkip ==
  /\ Hooked /\ (SingleToken \/ NoMetadata \/ HoldsDecodes)
  /\ LayerDone
  /\ skipMeta' = IF ~SingleToken /\ NoMetadata
                 THEN Min({skipMeta + 1, Cardinality(cfg.cands)})
                 ELSE skipMeta
  /\ UNCHANGED <<entropy, seqLengths, truth>>

HookRuns == Hooked /\ ~SingleToken /\ ~NoMetadata /\ ~HoldsDecodes

\* The context lookup or the attention kernel raised: swallowed, no entropy.
AttnFail ==
  /\ HookRuns /\ fault \in {"some", "all"}
  /\ LayerDone
  /\ UNCHANGED <<entropy, seqLengths, skipMeta, truth>>

AttnRecord ==
  /\ HookRuns /\ fault \in {"none", "some"}
  /\ LayerDone
  /\ \E e \in [Tokens -> Entropies] :
       /\ entropy' = With(entropy, layer + 1, e)
       /\ truth'   = With(truth, layer + 1, e)
  /\ seqLengths' = IF seqLengths = <<>>
                 THEN CumulativeToLengths(ActualSeqLengthsQ(batch.lens))
                 ELSE seqLengths
  /\ UNCHANGED skipMeta

AttnHook == AttnUnhooked \/ AttnSkip \/ AttnFail \/ AttnRecord

-----------------------------------------------------------------------------
(* The collector's call after a layer.                                     *)

WithAux == IF layer \in cfg.aux THEN Append(auxList, Output(layer))
           ELSE auxList

AfterNote == IF layer = NumLayers THEN "stack" ELSE "attn"

Noting == pc = "note" /\ UNCHANGED <<cfg, enabled, hooked, skipMeta, pass, layer,
                                     truth>>

\* Mutant: the channel is appended as soon as the candidates are over.
LastCallAfterCandidates == enabled /\ layer > Max(cfg.cands)

IsCandidate == enabled /\ layer \in cfg.cands
LastCall    == enabled /\ layer \notin cfg.cands /\ layer >= NumLayers

NoteCandidate ==
  /\ IsCandidate /\ Noting
  /\ hidden' = With(hidden, layer, Output(layer))
  /\ auxList' = WithAux /\ pc' = AfterNote
  /\ UNCHANGED <<entropy, seqLengths, outcome>>

\* Mutant: the output of every layer is kept.
NoteOtherKeepsOutput ==
  /\ ~IsCandidate /\ ~LastCall /\ Noting
  /\ hidden' = With(hidden, layer, Output(layer))
  /\ auxList' = WithAux /\ pc' = AfterNote
  /\ UNCHANGED <<entropy, seqLengths, outcome>>

NoteOther ==
  /\ ~IsCandidate /\ ~LastCall /\ Noting
  /\ auxList' = WithAux /\ pc' = AfterNote
  /\ UNCHANGED <<hidden, entropy, seqLengths, outcome>>

ResetState == hidden' = NoRecord /\ entropy' = NoRecord /\ seqLengths' = <<>>

Fallback == IF DOMAIN hidden # {} THEN hidden[Max(DOMAIN hidden)]
            ELSE Output(layer)

Emit(channel, how) ==
  /\ auxList' = Append(WithAux, channel)
  /\ outcome' = how
  /\ pc' = AfterNote
  /\ ResetState

Incomplete == DOMAIN entropy = {} \/ DOMAIN hidden # cfg.cands

\* Mutant: a step of one token appends nothing.
EmitSingleNothing ==
  /\ LastCall /\ SingleToken /\ Noting
  /\ auxList' = WithAux /\ pc' = AfterNote /\ outcome' = "single"
  /\ ResetState

EmitSingle ==
  /\ LastCall /\ SingleToken /\ Noting
  /\ Emit(Fallback, "single")

\* Reported at debug level only.
LooksLikeWarmup == skipMeta >= Cardinality(cfg.cands) /\ seqLengths = <<>>
EmitWarmup ==
  /\ LastCall /\ ~SingleToken /\ Incomplete /\ LooksLikeWarmup /\ Noting
  /\ Emit(Fallback, "warmup")

SegmentsMatch == \A l \in cfg.cands : DOMAIN entropy[l] = 1..Total(seqLengths)

\* _select_layers returns None.
SelectsNone == IF seqLengths = <<>> THEN TRUE
               ELSE DOMAIN entropy = cfg.cands /\ ~SegmentsMatch

\* A warning is logged: the state is incomplete, or nothing was selected.
EmitWarned ==
  /\ LastCall /\ ~SingleToken
  /\ IF Incomplete THEN ~LooksLikeWarmup ELSE SelectsNone
  /\ Noting
  /\ Emit(Fallback, "warned")

Selectable == ~Incomplete /\ seqLengths # <<>>

\* Stacking the entropies looks up every candidate: a KeyError, which nothing
\* catches, if one has none.
EmitRaises ==
  /\ LastCall /\ ~SingleToken /\ Selectable /\ DOMAIN entropy # cfg.cands
  /\ Noting
  /\ pc' = "crashed" /\ auxList' = WithAux
  /\ UNCHANGED <<hidden, entropy, seqLengths, outcome>>

EmitSelected ==
  /\ LastCall /\ ~SingleToken /\ Selectable /\ DOMAIN entropy = cfg.cands
  /\ SegmentsMatch
  /\ Noting
  /\ Emit(Gather(SelectLayers), "selected")

NoteLayer == NoteCandidate \/ NoteOther \/ EmitSingle \/ EmitWarmup
             \/ EmitWarned \/ EmitRaises \/ EmitSelected

-----------------------------------------------------------------------------
(* The proposer stacks the channels into its buffer; a single channel is    *)
(* broadcast over the buffer, any other wrong number raises.                *)

StackFits == Len(auxList) \in {1, ExpectedChannels}
             /\ \A i \in DOMAIN auxList : DOMAIN auxList[i] = Tokens

Stack ==
  /\ pc = "stack"
  /\ pc' = IF batch.dummy \/ StackFits THEN "idle" ELSE "crashed"
  /\ UNCHANGED <<cfg, state, pass, layer, auxList, outcome, truth>>

\* The bound on forward passes is reached, or the engine is gone.
Stopped ==
  /\ \/ pc = "crashed"
     \/ pc = "idle" /\ fwd = MaxForwards
  /\ UNCHANGED vars

Next == EnableAifd \/ StartForward \/ AttnHook \/ NoteLayer \/ Stack \/ Stopped
Spec == Init /\ [][Next]_vars

-----------------------------------------------------------------------------
(* Properties.                                                             *)

\* Types of the state the hooks share.
TypeOK ==
  /\ cfg \in Configs
  /\ pc \in {"load", "idle", "note", "attn", "stack", "crashed"}
  /\ enabled \in BOOLEAN
  /\ hooked \subseteq cfg.cands
  /\ DOMAIN hidden \subseteq cfg.cands
  /\ DOMAIN entropy \subseteq cfg.cands
  /\ skipMeta \in 0..Cardinality(cfg.cands)
  /\ fwd \in 0..MaxForwards
  /\ batch \in Batches
  /\ fault \in {"none", "some", "all"}
  /\ layer \in 0..NumLayers
  /\ outcome \in {"none", "single", "warmup", "warned", "selected"}

\* The append contract of _append_fallback: a forward of a server with a
\* candidate list hands the proposer exactly the number of channels the buffers
\* were allocated with, each with one row per token, on every way out of the
\* collector.
ChannelContract ==
  pc = "stack" => /\ Len(auxList) = ExpectedChannels
                  /\ \A i \in DOMAIN auxList : DOMAIN auxList[i] = Tokens

\* Nothing the hooks meet takes the engine down: their failures are swallowed,
\* and the channels fit the buffer.
EngineSurvives == pc # "crashed"

\* The training side splits the channels by position: the auxiliary layers in
\* ascending order come first, of this forward pass, and the selected channel
\* is last.
AuxRank(l) == Cardinality({k \in cfg.aux : k <= l})
AifdChannelLast ==
  pc = "stack" /\ enabled =>
    \A l \in cfg.aux : auxList[AuxRank(l)] = Output(l)

\* What the text of _select_layers says of a selected channel: for every
\* token a row this forward pass computed, of a candidate other than the first,
\* whose score of a token, averaged over the token's request ("sample") or for
\* the token alone ("token") from the entropies of this very pass, is the
\* smallest, the lowest layer winning a tie.  The head of the module defines
\* the score of a request otherwise: DocumentedScore.
TrueScore(l, slice) ==
  IF l = FirstCand THEN 0
  ELSE SumFunctionOnSet([t \in slice |->
         truth[l][t] + Abs(truth[l][t] - truth[PrevCand(l)][t])], slice)
Best(l, slice) ==
  \A k \in ScoredCands \ {l} :
    IF k < l THEN TrueScore(l, slice) < TrueScore(k, slice)
             ELSE TrueScore(l, slice) <= TrueScore(k, slice)
SelectionIsMinimal ==
  pc = "stack" /\ outcome = "selected" =>
    \A r \in DOMAIN batch.lens : \A t \in Segment(batch.lens, r) :
      LET row == auxList[Len(auxList)][t]
      IN  /\ row[1] = fwd /\ row[2] \in ScoredCands
          /\ Best(row[2], IF cfg.gran = "token" THEN {t}
                          ELSE Segment(batch.lens, r))

\* The selection runs on exactly the pure prefill steps of more than one
\* token: no such step falls back unless a hook failed, and no step with
\* decodes and no dummy step is ever selected from.
PurePrefill == ~batch.dummy /\ NumTokens > 1 /\ NumDecodeTokens(batch.lens) = 0
SelectsExactlyPrefill ==
  pc = "stack" /\ enabled =>
    /\ PurePrefill /\ fault = "none" => outcome = "selected"
    /\ outcome = "selected" => PurePrefill

\* The step is selected from when it should be, and then as _select_layers says.
SelectionIsRight == SelectsExactlyPrefill /\ SelectionIsMinimal

\* The score that the head of the module and the README define: C_l is the mean
\* of the entropies of a request, the score of a candidate C_l + |C_l - C_(l-1)|.
\* A sum stands for the mean: all candidates of a request have as many tokens.
TotalEntropy(l, slice) == SumFunctionOnSet(truth[l], slice)
DocumentedScore(l, slice) ==
  TotalEntropy(l, slice) + Abs(TotalEntropy(l, slice) - TotalEntropy(PrevCand(l), slice))
Slices ==
  IF cfg.gran = "token" THEN {{t} : t \in Tokens}
  ELSE {Segment(batch.lens, r) : r \in DOMAIN batch.lens}
LeastDocumented(slice) ==
  \A t \in slice : \A k \in ScoredCands :
    LET chosen == auxList[Len(auxList)][t][2]
    IN  chosen = k \/ DocumentedScore(chosen, slice) <= DocumentedScore(k, slice)

\* The selected layer has the smallest documented score, whichever wins a tie.
\* The code's mean of absolute differences is not the absolute difference of
\* means, so this is not always so.
SelectsAsDocumented ==
  pc = "stack" /\ outcome = "selected" => \A slice \in Slices : LeastDocumented(slice)

\* It is so for a slice in which no candidate's differences against the one before
\* it cancel: where the code and the documents part is in their sign alone.
\* A single token is such a slice.
Cancels(l, slice) ==
  \E s, t \in slice : /\ truth[l][s] < truth[PrevCand(l)][s]
                      /\ truth[l][t] > truth[PrevCand(l)][t]
SelectsAsDocumentedUnlessCancelled ==
  pc = "stack" /\ outcome = "selected" =>
    \A slice \in Slices :
      (\A l \in ScoredCands \ {FirstCand} : ~Cancels(l, slice)) => LeastDocumented(slice)

\* The comment on the warm-up branch says that only warm-up and dummy passes
\* take it, so that a fallback in real data is always logged as a warning.
QuietFallbackIsDummy ==
  pc = "stack" /\ outcome = "warmup" => batch.dummy
=============================================================================
