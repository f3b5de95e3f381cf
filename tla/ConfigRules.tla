----------------------------- MODULE ConfigRules -----------------------------
(***************************************************************************)
(* What validate_config_data accepts, as far as it decides what a scan      *)
(* does, and the filters of the scanner.  A configuration file is a record  *)
(*   version     schema version                                             *)
(*   categories  sequence of category ids                                   *)
(*   profiles    function from a name to [backend, path, output]: whether   *)
(*               there is a model path, and the category of each raw label  *)
(*   active      name of the selected profile                               *)
(*   scanner     [mode, since, include, exclude, archived, favorites, media]*)
(*   archive, neverDelete   of actions                                      *)
(*   policies    function from a category to a function from a media type   *)
(*               to its on_match list (<<>>: absent, empty or not a list)   *)
(* with since = 0 when there is none.  The values of the other keys, whose  *)
(* types are checked one by one, are left out.                              *)
(***************************************************************************)
EXTENDS Policy, FiniteSets, SequencesExt, Functions

CONFIG_SCHEMA_VERSION == 1
ALLOWED_MEDIA_TYPES == {"image", "video"}
ALLOWED_SCANNER_MODES == {"full", "incremental", "date_range", "album"}
ALLOWED_ACTIONS == {"no_action", "add_to_review_album", "add_tag", "archive",
                    "move_to_locked_folder", "manual_review"}

ValidCategories(categories) == categories # <<>> /\ IsInjective(categories)

ValidProfiles(profiles, ids) ==
    /\ DOMAIN profiles # {}
    /\ \A name \in DOMAIN profiles : LET profile == profiles[name] IN
         /\ profile.backend = "onnx" => profile.path
         /\ DOMAIN profile.output # {} /\ Range(profile.output) \subseteq ids

\* Variant: a mode is not checked against the keys it needs.
ValidModeOnly(scanner) ==
    scanner.mode \in ALLOWED_SCANNER_MODES
    /\ scanner.media # {} /\ scanner.media \subseteq ALLOWED_MEDIA_TYPES
ValidScanner(scanner) ==
    /\ scanner.mode \in ALLOWED_SCANNER_MODES
    /\ scanner.mode = "album" => scanner.include # {}
    /\ scanner.mode = "date_range" => scanner.since # 0
    /\ scanner.media # {} /\ scanner.media \subseteq ALLOWED_MEDIA_TYPES

ValidAction(action, archive) ==
    /\ action \notin DESTRUCTIVE_ACTIONS
    /\ action \in ALLOWED_ACTIONS
    /\ action = "archive" => archive

ValidPolicies(policies, ids, archive) ==
    /\ DOMAIN policies \subseteq ids
    /\ \A category \in DOMAIN policies : \A media \in DOMAIN policies[category] :
         LET on_match == policies[category][media] IN
         /\ media \in ALLOWED_MEDIA_TYPES
         /\ on_match # <<>>
         /\ \A i \in DOMAIN on_match : ValidAction(on_match[i], archive)

\* validate_config_data: no error of any part.
Accepts(file) ==
    LET ids == ToSet(file.categories) IN
    /\ file.version = CONFIG_SCHEMA_VERSION
    /\ ValidCategories(file.categories)
    /\ ValidProfiles(file.profiles, ids)
    /\ file.active \in DOMAIN file.profiles
    /\ ValidScanner(file.scanner)
    /\ file.neverDelete
    /\ ValidPolicies(file.policies, ids, file.archive)

AppConfig(file) ==
    [categories |-> ToSet(file.categories), policies |-> file.policies,
     outcomes |-> Range(file.profiles[file.active].output),
     archive |-> file.archive, filters |-> file.scanner]

\* _matches_filters.  The mode itself is not looked at.
Matches(filters, asset) ==
    /\ asset.media \in filters.media
    /\ asset.archived => filters.archived
    /\ asset.favorite => filters.favorites
    /\ filters.include # {} => asset.albums \cap filters.include # {}
    /\ asset.albums \cap filters.exclude = {}
    /\ filters.since # 0 => asset.time # 0 /\ asset.time >= filters.since
=============================================================================
