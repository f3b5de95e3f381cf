---------------------------- MODULE AssetAnalysis ----------------------------
(***************************************************************************)
(* The signals of analyze_asset that decide whether a person looks at an   *)
(* asset: safety, adult subtypes, facets, custom categories, the review    *)
(* queues and the categories policies see.  Signals read from metadata     *)
(* alone (people, places, image quality) are left out.                     *)
(***************************************************************************)
EXTENDS Classification

SafetyLabels == {"sfw", "nsfw", "suggestive", "explicit", "review_needed"}
Sensitive == {"nsfw", "explicit", "suggestive"}

\* Highest of all scores, zero when there is none.
Highest(scores) ==
    IF DOMAIN scores = {} THEN <<0, 1>>
    ELSE LET l == CHOOSE k \in DOMAIN scores :
                     \A j \in DOMAIN scores : ~ Less(scores[k], scores[j])
         IN  scores[l]

\* _safety_signal: the confidence is the score of the raw label that is called
\* like the category, and the highest score when none is.
Confidence(result) ==
    IF result.category \in DOMAIN result.scores THEN result.scores[result.category]
    ELSE Highest(result.scores)

Safety(result, threshold) ==
    [label |-> IF result.category \in SafetyLabels THEN result.category ELSE "unknown",
     confidence |-> Confidence(result),
     review |-> result.category \notin SafetyLabels \/ Less(Confidence(result), <<threshold, 1>>)]

\* _adult_subtype_signal.  model is "none", "unacknowledged" or "ready"; a
\* result of NoResult stands for a model that did not run or failed.
Unavailable(reason) == [status |-> reason, labels |-> {}, review |-> FALSE]
\* Variant: foreign labels are ignored.
NoForeign(configured, result) == {}
Foreign(configured, result) == DOMAIN result.scores \ configured
Subtypes(safety, model, configured, threshold, result) ==
    LET known == DOMAIN result.scores \cap configured
        doubtful == Less(Highest([l \in known |-> result.scores[l]]), <<threshold, 1>>)
    IN  CASE safety.label \notin Sensitive -> Unavailable("not_applicable")
          [] safety.label \in Sensitive /\ (model # "ready" \/ result = NoResult) ->
               Unavailable("unavailable")
          [] OTHER ->
               IF Foreign(configured, result) # {} \/ known = {}
               THEN [status |-> "failed_closed", labels |-> {}, review |-> TRUE]
               ELSE [status |-> IF doubtful THEN "review_needed" ELSE "available",
                     labels |-> known, review |-> doubtful]

\* _sfw_facets: a primary category that is no safety label, and the tags.
Facets(result, tags) ==
    (IF result.category \in SafetyLabels \cup {"unknown", "none"} THEN {}
     ELSE {result.category}) \cup tags

\* _custom_categories: enabled categories one of whose names is a facet.
CustomCategories(facets, categories) ==
    {c \in DOMAIN categories : categories[c].enabled /\ categories[c].aliases \cap facets # {}}

\* Variant: only doubts about safety are reviewed.
QueuesOfSafety(safety, subtypes, facets, custom) ==
    (IF safety.label \in Sensitive THEN {"nsfw"} ELSE {})
    \cup (IF safety.review THEN {"review_needed"} ELSE {})
ReviewQueues(safety, subtypes, facets, custom) ==
    (IF safety.label \in Sensitive THEN {"nsfw"} ELSE {})
    \cup (IF subtypes.status \in {"available", "review_needed", "failed_closed"}
          THEN {"adult_subtypes"} ELSE {})
    \cup (IF safety.review \/ subtypes.review THEN {"review_needed"} ELSE {})
    \cup (IF custom # {} THEN {"custom"} ELSE {})
    \cup (IF facets # {} THEN {"sfw"} ELSE {})
=============================================================================
