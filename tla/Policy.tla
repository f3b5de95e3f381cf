------------------------------- MODULE Policy -------------------------------
(***************************************************************************)
(* What is decided about a classified asset and what executing the decision *)
(* reports: DecisionEngine.decide and ActionExecutor.execute, as pure       *)
(* operators.                                                               *)
(*                                                                          *)
(* A configuration is a record                                              *)
(*   categories  ids of the configured categories                           *)
(*   policies    function from a category to a function from a media type   *)
(*               to its on_match list (<<>>: absent, empty or not a list)   *)
(* and the executor's settings and client are a record                      *)
(*   live, album, makeAlbum, tag, makeTag, archiveOn   from actions.*       *)
(*   canTag, canArchive, canLock                       client capabilities  *)
(*   albumFound, tagFound                              what a lookup finds  *)
(*   raises      the client raises on a call for the asset (a failed album  *)
(*               or tag creation is reported the same way)                  *)
(***************************************************************************)
EXTENDS Naturals, Sequences

ClientSettings ==
    [live : BOOLEAN, album : BOOLEAN, makeAlbum : BOOLEAN, tag : BOOLEAN, makeTag : BOOLEAN,
     archiveOn : BOOLEAN, canTag : BOOLEAN, canArchive : BOOLEAN, canLock : BOOLEAN,
     albumFound : BOOLEAN, tagFound : BOOLEAN, raises : BOOLEAN]
SIDE_EFFECT_ACTIONS == {"add_to_review_album", "add_tag", "archive", "move_to_locked_folder"}
RECORD_ONLY_ACTIONS == {"no_action", "manual_review"}
DESTRUCTIVE_ACTIONS == {"delete", "trash"}  \* two of them; names come normalised
SUPPORTED_EXECUTOR_ACTIONS == RECORD_ONLY_ACTIONS \cup SIDE_EFFECT_ACTIONS
SAFE_NO_ACTION == <<"no_action">>

ActionPlan(actions, error) == [actions |-> actions, error |-> error]

\* Variant: the rule is looked up without the media type.
decideAnyMedia(config, category, media) ==
    LET policy == IF category \in DOMAIN config.policies
                  THEN config.policies[category] ELSE <<>>
    IN IF DOMAIN policy = {} THEN ActionPlan(SAFE_NO_ACTION, "missing_policy")
       ELSE ActionPlan(policy[CHOOSE other \in DOMAIN policy : TRUE], "none")

decide(config, category, media) ==
    LET policy == IF category \in DOMAIN config.policies
                  THEN config.policies[category] ELSE <<>>
        safe(code) == ActionPlan(SAFE_NO_ACTION, code)
    IN IF category \notin config.categories THEN safe("unknown_category")
       ELSE IF media \notin DOMAIN policy THEN safe("missing_policy")
       ELSE IF policy[media] = <<>> THEN safe("invalid_policy")
       ELSE ActionPlan(policy[media], "none")

-----------------------------------------------------------------------------
\* A result: whether the action would change Immich, its success, its code, and
\* whether the change was sent to Immich.
Result(would, success, error, sent) ==
    [would |-> would, success |-> success, error |-> error, sent |-> sent]
Failure(would, error) == Result(would, FALSE, error, FALSE)
\* A call that raises may have reached Immich.
Call(client, error) ==
    IF client.raises THEN Result(TRUE, FALSE, error, TRUE) ELSE Result(TRUE, TRUE, "none", TRUE)

AddToReviewAlbum(client) ==
    IF ~client.album THEN Failure(TRUE, "review_album_name_missing")
    ELSE IF ~client.makeAlbum /\ ~client.albumFound THEN Failure(TRUE, "review_album_missing")
    ELSE Call(client, "album_action_failed")

AddTag(client) ==
    IF ~client.canTag THEN Failure(TRUE, "tag_unsupported")
    ELSE IF ~client.tag THEN Failure(TRUE, "tag_name_missing")
    ELSE IF ~client.makeTag /\ ~client.tagFound THEN Failure(TRUE, "tag_missing")
    ELSE Call(client, "tag_action_failed")

Archive(client) ==
    IF ~client.archiveOn THEN Failure(TRUE, "archive_disabled")
    ELSE IF ~client.canArchive THEN Failure(TRUE, "archive_unsupported")
    ELSE Call(client, "archive_action_failed")

MoveToLockedFolder(client) ==
    IF ~client.canLock THEN Failure(TRUE, "locked_folder_unsupported")
    ELSE Call(client, "locked_folder_action_failed")

\* Variant: the client is called before dry_run is looked at.
ExecuteOneEagerly(plan, action, dryRun, client) ==
    CASE action = "add_to_review_album"   -> AddToReviewAlbum(client)
      [] action = "add_tag"               -> AddTag(client)
      [] action = "archive"               -> Archive(client)
      [] action = "move_to_locked_folder" -> MoveToLockedFolder(client)
      [] OTHER -> Result(FALSE, TRUE, plan.error, FALSE)

\* _execute_one for the plan of an asset, whose id run_scan always sets.
ExecuteOne(plan, action, dryRun, client) ==
    IF action \in DESTRUCTIVE_ACTIONS THEN Failure(FALSE, "destructive_action_unsupported")
    ELSE IF action \notin SUPPORTED_EXECUTOR_ACTIONS THEN Failure(FALSE, "unsupported_action")
    ELSE IF action \in RECORD_ONLY_ACTIONS THEN Result(FALSE, TRUE, plan.error, FALSE)
    ELSE IF dryRun THEN Result(TRUE, TRUE, "none", FALSE)
    ELSE IF ~client.live THEN Failure(TRUE, "live_actions_not_enabled")
    ELSE CASE action = "add_to_review_album"   -> AddToReviewAlbum(client)
           [] action = "add_tag"               -> AddTag(client)
           [] action = "archive"               -> Archive(client)
           [] action = "move_to_locked_folder" -> MoveToLockedFolder(client)
=============================================================================
