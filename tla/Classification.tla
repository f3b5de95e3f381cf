---------------------------- MODULE Classification ----------------------------
(***************************************************************************)
(* What a ConfiguredClassifier makes of the outputs of its backend: one    *)
(* result for one input, or one for all sampled frames of a video.         *)
(*                                                                         *)
(* A profile has the raw labels in the order of its output_mapping and the *)
(* category of each.  An output has a winning label and a score for some   *)
(* labels.  A score is a fraction <<n, d>>, so that means are exact.       *)
(***************************************************************************)
EXTENDS Naturals, Sequences, FiniteSets, SequencesExt, FiniteSetsExt

Less(a, b) == a[1] * b[2] < b[1] * a[2]
Mapped(profile) == ToSet(profile.order)

\* The first of the labels in S, in mapping order, that no other one exceeds.
Rank(profile, l) == CHOOSE i \in DOMAIN profile.order : profile.order[i] = l
Best(profile, scores, S) ==
    CHOOSE l \in S :
       \A k \in S \ {l} :
          \/ Less(scores[k], scores[l])
          \/ ~ Less(scores[l], scores[k]) /\ Rank(profile, l) < Rank(profile, k)

NoResult == [category |-> "none", label |-> "none", labels |-> <<>>, scores |-> <<>>]

\* The output of a backend that scores the labels S of one input.
RawOutput(order, scores) ==
    LET all == [order |-> order \o SetToSeq(DOMAIN scores \ ToSet(order))]
    IN  [label |-> Best(all, scores, DOMAIN scores), scores |-> scores]

\* resolve_model_output: a label the profile does not map is an error.
Resolve(profile, label, labels, scores) ==
    IF label \in Mapped(profile)
    THEN [category |-> profile.category[label], label |-> label, labels |-> labels,
          scores |-> scores]
    ELSE NoResult

PredictOne(profile, output) ==
    Resolve(profile, output.label, <<output.label>>, output.scores)

\* aggregate_model_outputs: labels that are not mapped are left out, a label's
\* score is that of the frames that have it.
Of(outputs, l) == {i \in DOMAIN outputs : l \in DOMAIN outputs[i].scores}
MaxOf(outputs, l) ==
    LET best == CHOOSE i \in Of(outputs, l) :
                   \A j \in Of(outputs, l) : ~ Less(outputs[i].scores[l], outputs[j].scores[l])
    IN  outputs[best].scores[l]
\* The scores of one frame are whole numbers.
MeanOf(outputs, l) ==
    <<MapThenSumSet(LAMBDA i : outputs[i].scores[l][1], Of(outputs, l)),
      Cardinality(Of(outputs, l))>>

\* Variant: the first frame that has the label decides.
FirstOf(outputs, l) == outputs[Min(Of(outputs, l))].scores[l]
ScoreOfFirst(strategy, outputs, l) == FirstOf(outputs, l)
ScoreOf(strategy, outputs, l) ==
    IF strategy = "mean" THEN MeanOf(outputs, l) ELSE MaxOf(outputs, l)

Aggregate(profile, strategy, outputs) ==
    LET seen == {l \in Mapped(profile) : Of(outputs, l) # {}}
        total == [l \in seen |-> ScoreOf(strategy, outputs, l)]
        names == [i \in DOMAIN outputs |-> outputs[i].label]
    IN  IF outputs = <<>> \/ seen = {} THEN NoResult
        ELSE Resolve(profile, Best(profile, total, seen), names, total)
=============================================================================
