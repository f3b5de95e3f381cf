---------------------------- MODULE AssetPipeline ----------------------------
(***************************************************************************)
(* One asset of a real scan from its bytes to its analysis: the choice     *)
(* between preview and original, the download and the frames in temporary  *)
(* directories, what happens when a step of it fails, and what is stored.  *)
(*                                                                         *)
(* A directory is open while the code is inside its "with"; leaving it may *)
(* itself fail, which replaces whatever was on its way.  Bounds: MaxScore, *)
(* MaxFound frames that ffmpeg writes.                                     *)
(***************************************************************************)
EXTENDS AssetAnalysis

CONSTANTS
    Profiles,    \* classifier profiles: order of the labels, their categories
    Strategies,  \* video_aggregation of the active profile
    FrameLimits, \* max_frames, or frame_count
    Categories,  \* the user's categories: enabled, aliases
    SubLabels,   \* labels of the adult subtype model
    Alien,       \* a label no profile knows
    Tags,        \* tag sets that Immich gives an asset
    Threshold, MaxScore, MaxFound

ASSUME ConstantsOK ==
    /\ Strategies \subseteq {"max", "mean"} /\ FrameLimits \subseteq Nat \ {0}
    /\ MaxScore \in Nat /\ MaxFound \in Nat \ {0} /\ Threshold \in Nat
    /\ \A p \in Profiles : /\ p.order \in Seq(DOMAIN p.category) /\ Mapped(p) = DOMAIN p.category
                          /\ Alien \notin Mapped(p)
    /\ IsFiniteSet(SubLabels) /\ Alien \notin SubLabels

VARIABLES
    asset,    \* kind and tags
    setup,    \* the configuration the run was started with
    pc,
    exc,      \* the exception on its way up, or "none"
    dirs,     \* temporary directories the code is inside of
    failures, \* history: what failed, stage and code, in order
    frames,   \* outputs of the backend for the frames that were read
    out,      \* ClassificationOutcome
    subtype,  \* result of the adult subtype model
    foreign,  \* history: that model has scored a label it is not configured for
    analysis, \* the row of asset_analysis
    rows      \* error rows of the asset, stage and code

vars == <<asset, setup, pc, exc, dirs, failures, frames, out, subtype, foreign, analysis, rows>>

Kinds == {"image", "gif", "video", "other"}
Outcomes == {"analysed", "asset_error", "run_failed"}
MediaErrors == {"unsupported_media_type", "missing_image_bytes", "corrupt_image_bytes",
                "original_temp_failed", "original_too_large", "original_download_failed",
                "video_temp_failed", "video_source_unavailable", "video_duration_exceeds_limit",
                "ffmpeg_not_found", "ffmpeg_failed", "no_video_frames_extracted",
                "corrupt_video_frame"}
ExtractErrors == {"video_source_unavailable", "video_duration_exceeds_limit", "ffmpeg_not_found",
                  "ffmpeg_failed", "no_video_frames_extracted"}
NoOutcome == [result |-> NoResult, status |-> "not_applicable", source |-> "none",
              count |-> 0, warning |-> "none"]
NoAnalysis == [safety |-> "none", confidence |-> <<0, 1>>, subtypes |-> {}, status |-> "none",
               queues |-> {}, policy |-> {}]

SamplingApplies == asset.kind \in {"gif", "video"}
Scores(labels) == [labels -> {<<n, 1>> : n \in 0..MaxScore}]
\* The profile's labels, and for a backend of another kind one more.
Outputs == {RawOutput(setup.profile.order, s) :
              s \in Scores(Mapped(setup.profile)) \cup Scores(Mapped(setup.profile) \cup {Alien})}

Goto(step) == pc' = step
Failure(code) == <<IF code = "classifier_error" THEN "classifier" ELSE "extractor", code>>
OcrFailure == <<"ocr", "ocr_error">>
Failures == {"extractor", "classifier", "ocr"} \X (MediaErrors \cup {"classifier_error", "ocr_error"})
Raise(code) ==
    exc' = code /\ pc' = "unwind" /\ failures' = Append(failures, Failure(code))
frame == UNCHANGED <<asset, setup, subtype, foreign, analysis, rows>>

----------------------------------------------------------------------------
(* Sampling the original *)

\* _classify_asset
Classify ==
    /\ pc = "classify"
    /\ IF SamplingApplies /\ setup.enabled THEN Goto("temp") /\ UNCHANGED out
       ELSE /\ Goto("preview")
            /\ out' = IF SamplingApplies
                      THEN [out EXCEPT !.status = "disabled", !.source = "preview"] ELSE out
    /\ UNCHANGED <<exc, dirs, failures, frames>> /\ frame

MakeTemp ==
    /\ pc = "temp"
    /\ \/ dirs' = {"original"} /\ Goto("download") /\ UNCHANGED <<exc, failures>>
       \/ Raise("original_temp_failed") /\ UNCHANGED dirs
    /\ UNCHANGED <<frames, out>> /\ frame

Download ==
    /\ pc = "download"
    /\ \/ Goto(IF asset.kind = "gif" THEN "gif" ELSE "frames_dir") /\ UNCHANGED <<exc, failures>>
       \/ \E code \in {"original_too_large", "original_download_failed", "original_temp_failed"} :
             Raise(code)
    /\ UNCHANGED <<dirs, frames, out>> /\ frame

\* _classify_gif_original: a GIF of one picture is classified as it is.
StillGif ==
    /\ pc = "gif"
    /\ \/ Goto("frames_dir") /\ UNCHANGED <<exc, failures, out, frames>>
       \/ /\ \E o \in Outputs :
                /\ PredictOne(setup.profile, o) # NoResult
                /\ frames' = <<o>>
                /\ out' = [out EXCEPT !.result = PredictOne(setup.profile, o),
                             !.status = "static_gif", !.source = "original_still", !.count = 1]
          /\ UNCHANGED <<exc, failures>> /\ Goto("unwind")
       \/ \E code \in {"corrupt_image_bytes", "original_temp_failed", "classifier_error"} :
             Raise(code) /\ UNCHANGED <<out, frames>>
    /\ UNCHANGED dirs /\ frame

FramesDir ==
    /\ pc = "frames_dir"
    /\ \/ dirs' = dirs \cup {"frames"} /\ Goto("extract") /\ UNCHANGED <<exc, failures>>
       \/ Raise("video_temp_failed") /\ UNCHANGED dirs
    /\ UNCHANGED <<frames, out>> /\ frame

\* _extract_video_frame_paths and _frame_classifier_input: of the frames found
\* no more than the limit are read.
\* Variant: every frame found is read.
AllFrames(found) == found
KeptFrames(found) == IF found > setup.limit THEN setup.limit ELSE found
Extract ==
    /\ pc = "extract"
    /\ \/ /\ \E found \in 1..MaxFound : frames' \in [1..KeptFrames(found) -> Outputs]
          /\ Goto("predict") /\ UNCHANGED <<exc, failures>>
       \/ \E code \in ExtractErrors \cup {"corrupt_video_frame", "video_temp_failed"} :
             Raise(code) /\ UNCHANGED frames
    /\ UNCHANGED <<dirs, out>> /\ frame

\* predict_aggregate; a backend failure and a label nobody maps are both a
\* ClassifierError.
Predict ==
    /\ pc = "predict"
    /\ LET result == Aggregate(setup.profile, setup.strategy, frames)
       IN  \/ /\ result # NoResult
              /\ out' = [out EXCEPT !.result = result, !.status = "sampled",
                           !.source = "original_frames", !.count = Len(frames)]
              /\ Goto("unwind") /\ UNCHANGED <<exc, failures>>
           \/ Raise("classifier_error") /\ UNCHANGED out
    /\ UNCHANGED <<dirs, frames>> /\ frame

\* Leaving the innermost directory: an OSError of the removal takes the place
\* of a result or of another exception.
Inner == IF "frames" \in dirs THEN "frames" ELSE "original"
CloseDir ==
    /\ pc = "unwind" /\ dirs # {}
    /\ dirs' = dirs \ {Inner}
    /\ \/ UNCHANGED <<pc, exc, failures>>
       \/ Raise(IF Inner = "frames" THEN "video_temp_failed" ELSE "original_temp_failed")
    /\ UNCHANGED <<frames, out>> /\ frame

\* The handlers above: a MediaExtractionError sends the asset to its preview
\* with a warning, a ClassifierError fails the asset, a result stands.
\* Variant: what the sampling had found is not reset.
WithWarning(code) == [out EXCEPT !.warning = code]
FallBack(code) == [NoOutcome EXCEPT !.warning = code, !.status = "failed",
                                    !.source = "preview_fallback"]
Unwound ==
    /\ pc = "unwind" /\ dirs = {}
    /\ CASE exc = "none" -> Goto("record") /\ UNCHANGED <<out, rows, frames>>
         [] exc \in MediaErrors ->
              Goto("preview") /\ out' = FallBack(exc) /\ frames' = <<>> /\ UNCHANGED rows
         [] OTHER -> /\ Goto("asset_error") /\ rows' = Append(rows, Failure(exc))
                     /\ UNCHANGED <<out, frames>>
    /\ exc' = "none"
    /\ UNCHANGED <<dirs, failures, asset, setup, subtype, foreign, analysis>>

----------------------------------------------------------------------------
(* Preview, records and analysis *)

\* _build_preview_classifier_input and predict_one.  An ImmichClientError is
\* caught by nothing before the handler of the whole run.
Preview ==
    /\ pc = "preview"
    /\ \/ /\ asset.kind # "other"
          /\ \E o \in Outputs :
                /\ PredictOne(setup.profile, o) # NoResult
                /\ frames' = <<o>> /\ out' = [out EXCEPT !.result = PredictOne(setup.profile, o)]
          /\ Goto("record") /\ UNCHANGED <<rows, failures>>
       \/ asset.kind # "other" /\ Goto("run_failed") /\ UNCHANGED <<rows, failures, out, frames>>
       \/ /\ \E e \in {<<"extractor", "missing_image_bytes">>, <<"extractor", "corrupt_image_bytes">>,
                       <<"classifier", "classifier_error">>, <<"extractor", "unsupported_media_type">>} :
                /\ asset.kind = "other" <=> e[2] = "unsupported_media_type"
                /\ rows' = Append(rows, e) /\ failures' = Append(failures, e)
          /\ Goto("asset_error") /\ UNCHANGED <<out, frames>>
    /\ UNCHANGED <<asset, setup, exc, dirs, subtype, foreign, analysis>>

\* The asset row and the row of the warning, then OCR of the inputs.
\* Variant: a warning is only logged.
NoWarningRow(code) == <<>>
WarningRow(code) == IF code = "none" THEN <<>> ELSE <<<<"extractor", code>>>>
Record ==
    /\ pc = "record"
    /\ \E ocr \in {"disabled", "no_text", "local", "error"} :
          LET failed == IF ocr = "error" THEN <<OcrFailure>> ELSE <<>>
          IN  /\ rows' = rows \o WarningRow(out.warning) \o failed
              /\ failures' = failures \o failed
    /\ Goto("subtype")
    /\ UNCHANGED <<asset, setup, exc, dirs, frames, out, subtype, foreign, analysis>>

\* _adult_subtype_result_for_asset: the inputs of the primary result again, one
\* by predict_one and several by predict_aggregate.  Its failure, that of the
\* backend or a foreign label that wins, is logged and leaves no result.
SubProfile == [order |-> SetToSeq(SubLabels), category |-> [l \in SubLabels |-> l]]
SubOutputs == {RawOutput(SubProfile.order, s) :
                 s \in Scores(SubLabels) \cup Scores(SubLabels \cup {Alien})}
SubResult(outputs) ==
    IF Len(frames) = 1 THEN PredictOne(SubProfile, outputs[1])
    ELSE Aggregate(SubProfile, setup.strategy, outputs)
RunSubtype ==
    /\ pc = "subtype"
    /\ \/ \* no model, no sensitive asset, or a backend that fails
          UNCHANGED <<subtype, foreign>>
       \/ /\ setup.subtype # "none" /\ out.result.category \in Sensitive
          /\ \E outputs \in [DOMAIN frames -> SubOutputs] :
                /\ subtype' = SubResult(outputs)
                /\ foreign' = (\E i \in DOMAIN outputs : Alien \in DOMAIN outputs[i].scores)
    /\ Goto("analyse")
    /\ UNCHANGED <<asset, setup, exc, dirs, failures, frames, out, analysis, rows>>

analyze_asset ==
    LET safety == Safety(out.result, Threshold)
        subtypes == Subtypes(safety, setup.subtype, SubLabels, Threshold, subtype)
        facets == Facets(out.result, asset.tags)
        custom == CustomCategories(facets, Categories)
    IN  [safety |-> safety.label, confidence |-> safety.confidence,
         subtypes |-> subtypes.labels, status |-> subtypes.status,
         queues |-> ReviewQueues(safety, subtypes, facets, custom),
         policy |-> {out.result.category} \cup custom \cup facets]
Analyse ==
    /\ pc = "analyse"
    /\ analysis' = analyze_asset /\ Goto("analysed")
    /\ UNCHANGED <<asset, setup, exc, dirs, failures, frames, out, subtype, foreign, rows>>

Init ==
    /\ asset \in [kind : Kinds, tags : Tags]
    /\ setup \in [enabled : BOOLEAN, limit : FrameLimits, strategy : Strategies,
                  profile : Profiles, subtype : {"none", "unacknowledged", "ready"}]
    /\ pc = "classify" /\ exc = "none" /\ dirs = {} /\ failures = <<>>
    /\ frames = <<>> /\ out = NoOutcome /\ subtype = NoResult /\ foreign = FALSE
    /\ analysis = NoAnalysis /\ rows = <<>>

Next ==
    \/ Classify \/ MakeTemp \/ Download \/ StillGif \/ FramesDir \/ Extract \/ Predict
    \/ CloseDir \/ Unwound
    \/ Preview \/ Record \/ RunSubtype \/ Analyse

Spec == Init /\ [][Next]_vars

----------------------------------------------------------------------------
(* Properties *)

TypeOK ==
    /\ asset \in [kind : Kinds, tags : Tags]
    /\ pc \in Outcomes \cup {"classify", "temp", "download", "gif", "frames_dir", "extract",
                             "predict", "unwind", "preview", "record", "subtype", "analyse"}
    /\ exc \in MediaErrors \cup {"none", "classifier_error"}
    /\ dirs \in {{}, {"original"}, {"original", "frames"}} /\ foreign \in BOOLEAN
    /\ exc # "none" => pc = "unwind"
    /\ failures \in Seq(Failures) /\ rows \in Seq(Failures)

\* The metadata stored with a result say where it comes from: "sampled" with as
\* many frames as the result has labels, within the limit, "failed" exactly
\* when a warning tells why, and a preview counts no frame.
MetadataIsHonest ==
    pc \in {"record", "subtype", "analyse", "analysed"} =>
       /\ out.count = IF out.source \in {"original_frames", "original_still"}
                      THEN Len(out.result.labels) ELSE 0
       /\ out.count <= setup.limit
       /\ out.status = "failed" <=> out.warning # "none"
       /\ out.status = "not_applicable" <=> asset.kind = "image"

\* Which failures of an asset have an error row.  In a run that goes on, each has
\* one except those a later failure takes the place of: a directory that cannot
\* be removed replaces the exception on its way up (a classifier error among
\* them), and a preview that fails too replaces the failed sampling.  OCR comes
\* last and replaces nothing.  No result stands as sampled beside a failure of
\* its sampling, the removal of a directory included.  When the run itself fails
\* the asset has no row.  The subtype model's failures are none of these.
Replaced(i) == \E j \in DOMAIN failures : j > i /\ failures[j][1] # "ocr"
ErrorsAreRecorded ==
    /\ pc \in {"asset_error", "analysed"} =>
         LET kept == {i \in DOMAIN failures : ~ Replaced(i)}
         IN  ToSet(rows) = {failures[i] : i \in kept} /\ Len(rows) = Cardinality(kept)
    /\ pc = "analysed" =>
         (out.warning = "none" <=> \A i \in DOMAIN failures : failures[i][1] = "ocr")
    /\ pc = "run_failed" => rows = <<>>

\* A result is the one the frames speak for: no mapped label has a higher score
\* under the strategy, taken from the frames anew, and its category is mapped.
\* The confidence of the analysis is the score of that label, unless a profile
\* names the category of one raw label like another label the backend scores.
Score(l) ==
    LET S == {i \in DOMAIN frames : l \in DOMAIN frames[i].scores}
        total == MapThenSumSet(LAMBDA i : frames[i].scores[l][1], S)
    IN  IF setup.strategy = "mean" THEN <<total, Cardinality(S)>>
        ELSE <<Max({frames[i].scores[l][1] : i \in S}), 1>>
Uncrossed ==
    \A l \in Mapped(setup.profile) :
       setup.profile.category[l] \in Mapped(setup.profile) \cup {Alien} =>
          setup.profile.category[l] = l
ResultFollowsFrames ==
    pc \in {"record", "subtype", "analyse", "analysed"} =>
       /\ out.result.category = setup.profile.category[out.result.label]
       /\ \A l \in Mapped(setup.profile) : ~ Less(Score(out.result.label), Score(l))
       /\ pc = "analysed" /\ Uncrossed =>
             ~ Less(analysis.confidence, Score(out.result.label))
             /\ ~ Less(Score(out.result.label), analysis.confidence)

\* Subtypes are shown for sensitive assets only, under an acknowledged model, and
\* a person looks at the asset unless one of them reaches the threshold; as at one
\* whose primary score is below it.  When the model has scored a foreign label of
\* the one input of an asset, no subtype is shown, and a person looks at it unless
\* the foreign label won: then there is no result and no queue of subtypes.  Of
\* several frames the foreign labels are dropped: the rest is as without them.
DoubtIsReviewed ==
    pc = "analysed" =>
       /\ foreign /\ Len(frames) = 1 =>
            /\ analysis.subtypes = {}
            /\ setup.subtype = "ready" =>
                 IF subtype = NoResult THEN "adult_subtypes" \notin analysis.queues
                 ELSE {"review_needed", "adult_subtypes"} \subseteq analysis.queues
       /\ analysis.subtypes # {} =>
            /\ {"nsfw", "adult_subtypes"} \subseteq analysis.queues
            /\ setup.subtype = "ready" /\ out.result.category \in Sensitive
            /\ \/ "review_needed" \in analysis.queues
               \/ \E l \in analysis.subtypes : ~ Less(subtype.scores[l], <<Threshold, 1>>)
       /\ Less(Score(out.result.label), <<Threshold, 1>>) /\ Uncrossed =>
            "review_needed" \in analysis.queues

\* docs/guides/models.md: unknown outputs of the adult subtype model fail closed.
\* No subtype is shown of an asset for which it has scored a foreign label.
UnknownOutputsFailClosed == pc = "analysed" /\ foreign => analysis.subtypes = {}
=============================================================================
