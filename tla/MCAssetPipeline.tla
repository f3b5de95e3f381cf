--------------------------- MODULE MCAssetPipeline ---------------------------
(* Two profiles for AssetPipeline: one names its categories like its labels, *)
(* the other has a category that is no safety label.                         *)
EXTENDS AssetPipeline, TLC
SmallProfiles ==
    {[order |-> <<"nsfw", "normal">>, category |-> ("nsfw" :> "nsfw") @@ ("normal" :> "sfw")],
     [order |-> <<"beach", "porn">>, category |-> ("beach" :> "beach") @@ ("porn" :> "explicit")]}
SmallCategories ==
    ("beach" :> [enabled |-> TRUE, aliases |-> {"beach", "sea"}])
    @@ ("pets" :> [enabled |-> FALSE, aliases |-> {"pets", "dog"}])
SmallTags == {{}, {"dog"}}
=============================================================================
