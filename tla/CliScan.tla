------------------------------- MODULE CliScan -------------------------------
(***************************************************************************)
(* The single-user command `mediarefinery scan`: run_scan lists the        *)
(* library page by page, classifies what its state database says needs     *)
(* processing, records the classification, executes the policy's actions   *)
(* in Immich and records their results, and finally closes the run.  Each  *)
(* commit and each call that changes Immich is a step; between any two the  *)
(* process may end (a kill, or an exception run_scan does not catch), and   *)
(* the library changes beside it.  `mediarefinery report` is the operator   *)
(* Report.                                                                 *)
(*                                                                         *)
(* Every command loads its configuration file, which may have changed.  The *)
(* rows of a run are sequences in order of insertion; a checksum is a model *)
(* value or NoChecksum (Immich sent none).                                 *)
(* Bounds: MaxRuns runs, MaxPages pages of at most PageSize assets per run,*)
(* MaxEdits changes of the library.                                        *)
(***************************************************************************)
EXTENDS ConfigRules

CONSTANTS
    Assets, Checksums, NoChecksum,
    Files,        \* configuration files by name, as module ConfigRules takes them
    Details,      \* of every asset: what filters look at, and the checksums it may have
    Clients,      \* settings, capabilities and answers of the Immich client
    MaxRuns, PageSize, MaxPages, MaxEdits

ASSUME CliConstantsOK ==
    /\ NoChecksum \notin Checksums
    /\ \A a \in Assets : Details[a].sums \subseteq Checksums \cup {NoChecksum}
    /\ \A a \in Assets : Details[a].time \in Nat
    /\ \A name \in DOMAIN Files : LET file == Files[name] IN
         /\ file.scanner.since \in Nat /\ file.archive \in BOOLEAN
         /\ \A category \in DOMAIN file.policies : \A media \in DOMAIN file.policies[category] :
              file.policies[category][media] \in Seq(ToSet(file.policies[category][media]))
    /\ Clients \subseteq ClientSettings
    /\ {MaxRuns, PageSize, MaxPages, MaxEdits} \subseteq Nat

VARIABLES
    library,  \* checksum of each asset in Immich
    assets,   \* rows of the assets table
    runs,     \* rows of the runs table, each with the rows that refer to it
    applied,  \* <<asset, action>>: changes made in Immich
    scan,     \* the scanning process
    edits,
    unlogged  \* history: <<asset, checksum>> whose failure an interrupt kept from the log

vars == <<library, assets, runs, applied, scan, edits, unlogged>>

Sums == Checksums \cup {NoChecksum}
NoAsset == [known |-> FALSE, sum |-> NoChecksum, processed |-> FALSE]
NoRef == [id |-> "none", sum |-> NoChecksum]
NoPlan == ActionPlan(<<>>, "none")
NoSummary == [processed |-> 0, skipped |-> 0, errors |-> 0, by_category |-> <<>>,
              intended |-> <<>>]
Idle == [pc |-> "idle", file |-> "none", live |-> FALSE, reprocess |-> FALSE, page |-> {}, more |-> FALSE,
         pages |-> 0, ref |-> NoRef, plan |-> NoPlan, results |-> <<>>,
         done |-> <<>>, skipped |-> 0, errors |-> 0]
run == Len(runs)
Loaded == [name \in {f \in DOMAIN Files : Accepts(Files[f])} |-> AppConfig(Files[name])]
Config == Loaded[scan.file]

\* Rows added to the run that is being executed.
InRun(f, row) == runs' = [runs EXCEPT ![run][f] = Append(@, row)]
ErrorRow(asset, stage, sum) == [asset |-> asset, stage |-> stage, sum |-> sum]
RecordError(asset, stage, sum) == InRun("errors", ErrorRow(asset, stage, sum))

\* How often each value occurs in a sequence (a Counter, GROUP BY ... COUNT).
Counts(s) == [v \in {s[i] : i \in DOMAIN s} |-> Cardinality({i \in DOMAIN s : s[i] = v})]
Column(rows, f) == [i \in DOMAIN rows |-> rows[i][f]]

-----------------------------------------------------------------------------
\* needs_processing: a row that was never processed, or under another checksum.
NeedsProcessing(row, sum, reprocess) ==
    \/ reprocess \/ ~row.known \/ ~row.processed
    \/ sum # NoChecksum /\ row.sum # sum

start_run(dry) == [status |-> "running", dry |-> dry, summary |-> NoSummary,
                   classes |-> <<>>, actions |-> <<>>, errors |-> <<>>]

\* Dry run comes from the command line if it is given there, else from the
\* configuration, and the executor allows live actions on its own account.  A
\* file that is not accepted ends the command before it has a run.
StartRun(file, configured, override, reprocess) ==
    LET dry == IF override THEN TRUE ELSE configured IN
    /\ scan.pc = "idle" /\ run < MaxRuns
    /\ Accepts(Files[file])
    /\ runs' = Append(runs, start_run(dry))
    /\ scan' = [Idle EXCEPT !.pc = "list", !.file = file, !.live = ~configured, !.reprocess = reprocess,
                            !.more = TRUE]
    /\ UNCHANGED <<library, assets, applied, edits, unlogged>>

\* The next page of Immich's listing, which may show an asset again; of it the
\* assets that the filters let through.
FetchPage ==
    /\ scan.pc = "list" /\ scan.page = {} /\ scan.more
    /\ \E shown \in SUBSET Assets, more \in BOOLEAN :
         /\ Cardinality(shown) <= PageSize
         /\ more => scan.pages + 1 < MaxPages
         /\ scan' = [scan EXCEPT !.page = {[id |-> a, sum |-> library[a]] :
                                             a \in {b \in shown : Matches(Config.filters, Details[b])}},
                                 !.more = more, !.pages = IF more THEN @ + 1 ELSE 0]
    /\ UNCHANGED <<library, assets, runs, applied, edits, unlogged>>

Consider(ref) ==
    LET needed == NeedsProcessing(assets[ref.id], ref.sum, scan.reprocess)
        rest == [scan EXCEPT !.page = @ \ {ref}]
    IN /\ scan.pc = "list" /\ ref \in scan.page
       /\ scan' = IF needed THEN [rest EXCEPT !.pc = "classify", !.ref = ref]
                  ELSE [rest EXCEPT !.skipped = @ + 1]
       /\ UNCHANGED <<library, assets, runs, applied, edits, unlogged>>

Upserted(ref, processed) ==
    [assets EXCEPT ![ref.id] = [known |-> TRUE, sum |-> ref.sum, processed |-> processed]]

\* Variant: a failed asset counts as processed.
ClassifyFailsForGood(stage) ==
    /\ scan.pc = "classify"
    /\ assets' = Upserted(scan.ref, TRUE)
    /\ scan' = [scan EXCEPT !.pc = stage, !.errors = @ + 1]
    /\ UNCHANGED <<library, runs, applied, edits, unlogged>>

\* MediaExtractionError or ClassifierError: the asset's row takes the checksum
\* of the version that failed and keeps its last_processed.
ClassifyFails(stage) ==
    /\ scan.pc = "classify"
    /\ assets' = Upserted(scan.ref, assets[scan.ref.id].processed)
    /\ scan' = [scan EXCEPT !.pc = stage, !.errors = @ + 1]
    /\ UNCHANGED <<library, runs, applied, edits, unlogged>>

RecordFailure ==
    /\ scan.pc \in {"extractor", "classifier"}
    /\ RecordError(scan.ref.id, scan.pc, scan.ref.sum)
    /\ scan' = [scan EXCEPT !.pc = "list", !.ref = NoRef]
    /\ UNCHANGED <<library, assets, applied, edits, unlogged>>

\* record_classification_run: row, asset and last_processed in one commit.
Classified(category) ==
    LET ref == scan.ref
        plan == decide(Config, category, Details[ref.id].media)
    IN /\ assets' = Upserted(ref, TRUE)
       /\ InRun("classes", [asset |-> ref.id, category |-> category, sum |-> ref.sum])
       /\ scan' = [scan EXCEPT !.plan = plan,
                     !.done = Append(@, [category |-> category, actions |-> plan.actions]),
                     !.pc = IF plan.error = "none" THEN "act" ELSE "decision",
                     !.errors = IF plan.error = "none" THEN @ ELSE @ + 1]
       /\ UNCHANGED <<library, applied, edits, unlogged>>

RecordDecisionError ==
    /\ scan.pc = "decision"
    /\ RecordError(scan.ref.id, "decision", scan.ref.sum)
    /\ scan' = [scan EXCEPT !.pc = "act"]
    /\ UNCHANGED <<library, assets, applied, edits, unlogged>>

Named(action, result) ==
    [name |-> action, would |-> result.would, success |-> result.success,
     error |-> result.error, sent |-> result.sent]

\* execute runs every action of the plan before any result is recorded.  A call
\* whose reply is lost may have changed Immich all the same.
ExecuteAction(client) ==
    LET action == scan.plan.actions[Len(scan.results) + 1]
        dry == runs[run].dry
        config == [client EXCEPT !.live = scan.live, !.archiveOn = Config.archive]
        result == ExecuteOne(scan.plan, action, dry, config)
        change == {<<scan.ref.id, action>>}
    IN /\ scan.pc = "act"
       /\ scan' = [scan EXCEPT !.results = Append(@, Named(action, result)),
                     !.pc = IF Len(scan.results) + 1 = Len(scan.plan.actions) THEN "note" ELSE "act"]
       /\ applied' \in (IF result.sent THEN {applied \cup change} ELSE {})
                       \cup (IF result.sent /\ result.success THEN {} ELSE {applied})
       /\ UNCHANGED <<library, assets, runs, edits, unlogged>>

ActionRow(result) ==
    [asset |-> scan.ref.id, name |-> result.name, dry |-> runs[run].dry,
     would |-> result.would, success |-> result.success, error |-> result.error]

\* The next result, or the next asset.
NextResult ==
    IF Len(scan.results) > 1 THEN [scan EXCEPT !.pc = "note", !.results = Tail(@)]
    ELSE [scan EXCEPT !.pc = "list", !.ref = NoRef, !.plan = NoPlan, !.results = <<>>]

RecordAction ==
    LET result == Head(scan.results) IN
    /\ scan.pc = "note"
    /\ InRun("actions", ActionRow(result))
    /\ scan' = IF result.success THEN NextResult
               ELSE [scan EXCEPT !.pc = "action", !.errors = @ + 1]
    /\ UNCHANGED <<library, assets, applied, edits, unlogged>>

\* Variant: the failed action is recorded but its error row is not.
RecordActionErrorDropped ==
    /\ scan.pc = "action"
    /\ runs' = runs
    /\ scan' = NextResult
    /\ UNCHANGED <<library, assets, applied, edits, unlogged>>

RecordActionError ==
    /\ scan.pc = "action"
    /\ RecordError(scan.ref.id, "action", scan.ref.sum)
    /\ scan' = NextResult
    /\ UNCHANGED <<library, assets, applied, edits, unlogged>>

summarize_scan ==
    [processed |-> Len(scan.done), skipped |-> scan.skipped, errors |-> scan.errors,
     by_category |-> Counts(Column(scan.done, "category")),
     intended |-> Counts(FlattenSeq(Column(scan.done, "actions")))]

finish_run(row, summary) ==
    [row EXCEPT !.summary = summary,
                !.status = IF summary.errors = 0 THEN "succeeded" ELSE "completed_with_errors"]

\* finish_run with the counters of this process.
FinishRun ==
    /\ scan.pc = "list" /\ scan.page = {} /\ ~scan.more
    /\ runs' = [runs EXCEPT ![run] = finish_run(@, summarize_scan)]
    /\ scan' = Idle
    /\ UNCHANGED <<library, assets, applied, edits, unlogged>>

\* The process ends: killed, or by an error of the Immich client while listing
\* or fetching a preview, which run_scan does not catch.  Its run stays running.
Interrupt ==
    /\ scan.pc # "idle"
    /\ scan' = Idle
    /\ unlogged' = IF scan.pc \in {"extractor", "classifier"}
                   THEN unlogged \cup {<<scan.ref.id, scan.ref.sum>>} ELSE unlogged
    /\ UNCHANGED <<library, assets, runs, applied, edits>>

\* External: an asset is edited, or Immich stops or starts sending its checksum.
EditAsset(a, sum) ==
    /\ edits < MaxEdits /\ sum \in Details[a].sums \ {library[a]}
    /\ library' = [library EXCEPT ![a] = sum]
    /\ edits' = edits + 1
    /\ UNCHANGED <<assets, runs, applied, scan, unlogged>>

Init ==
    /\ library \in {f \in [Assets -> Sums] : \A a \in Assets : f[a] \in Details[a].sums}
    /\ assets = [a \in Assets |-> NoAsset]
    /\ runs = <<>> /\ applied = {} /\ scan = Idle /\ edits = 0
    /\ unlogged = {}

RunScan ==
    \/ FetchPage \/ RecordFailure \/ RecordDecisionError \/ RecordAction
    \/ RecordActionError \/ FinishRun
    \/ \E ref \in scan.page : Consider(ref)
    \/ \E stage \in {"extractor", "classifier"} : ClassifyFails(stage)
    \/ scan.pc = "classify" /\ \E category \in Config.outcomes : Classified(category)
    \/ \E client \in Clients : ExecuteAction(client)

Next ==
    \/ RunScan \/ Interrupt
    \/ \E file \in DOMAIN Files, configured, override, reprocess \in BOOLEAN :
         StartRun(file, configured, override, reprocess)
    \/ \E a \in Assets, sum \in Sums : EditAsset(a, sum)

Spec == Init /\ [][Next]_vars

-----------------------------------------------------------------------------
(* mediarefinery report.                                                   *)

CountOf(rows, Test(_)) == Cardinality({i \in DOMAIN rows : Test(rows[i])})

\* Action rows by name and error code.
ReportActionCounts(rows) ==
    [key \in {<<row.name, row.error>> : row \in ToSet(rows)} |->
        LET of(row) == <<row.name, row.error>> = key IN
        [total       |-> CountOf(rows, of),
         would_apply |-> CountOf(rows, LAMBDA row : of(row) /\ row.would),
         succeeded   |-> CountOf(rows, LAMBDA row : of(row) /\ row.success),
         failed      |-> CountOf(rows, LAMBDA row : of(row) /\ ~row.success)]]

\* A run without action rows is reported by what its summary intended.
SummaryActionCounts(intended) ==
    [key \in {<<name, "none">> : name \in DOMAIN intended} |->
        [total |-> intended[key[1]], would_apply |-> 0, succeeded |-> 0, failed |-> 0]]

\* Error rows by stage, with the assets they affect.
ReportErrorCounts(rows) ==
    [stage \in {row.stage : row \in ToSet(rows)} |->
        [total |-> CountOf(rows, LAMBDA row : row.stage = stage),
         affected |-> Cardinality({row.asset : row \in {q \in ToSet(rows) : q.stage = stage}})]]

\* get_run_report: the summary where there is one, the rows of the run otherwise.
Report(row) ==
    LET closed == row.status # "running"
        errors == IF closed THEN row.summary.errors ELSE Len(row.errors)
    IN [processed   |-> IF closed THEN row.summary.processed ELSE Len(row.classes),
        skipped     |-> IF closed THEN row.summary.skipped ELSE 0,
        errors      |-> errors,
        by_category |-> IF closed THEN row.summary.by_category
                        ELSE Counts(Column(row.classes, "category")),
        actions     |-> IF row.actions # <<>> THEN ReportActionCounts(row.actions)
                        ELSE SummaryActionCounts(row.summary.intended),
        stages      |-> ReportErrorCounts(row.errors),
        partial     |-> errors > 0 \/ row.status = "completed_with_errors"]

-----------------------------------------------------------------------------
(* Properties.                                                             *)

\* Type invariant of the tables and of the process.
TypeOK ==
    /\ library \in [Assets -> Sums]
    /\ assets \in [Assets -> [known : BOOLEAN, sum : Sums, processed : BOOLEAN]]
    /\ \A a \in Assets : ~assets[a].known => assets[a] = NoAsset
    /\ \A r \in DOMAIN runs :
         /\ runs[r].status \in {"running", "succeeded", "completed_with_errors"}
         /\ runs[r].dry \in BOOLEAN
    /\ applied \subseteq Assets \X SIDE_EFFECT_ACTIONS
    /\ scan.pc \in {"idle", "list", "classify", "extractor", "classifier", "decision", "act",
                    "note", "action"}
    /\ scan.pc # "idle" => /\ runs # <<>> /\ runs[run].status = "running"
                           /\ scan.file \in DOMAIN Files /\ Accepts(Files[scan.file])

\* What a closed run reports is what its rows say, action by action and stage by
\* stage, and it succeeded exactly when nothing of it failed: the counters that
\* run_scan keeps in memory beside its commits never drift from them.
ReportMatchesRows ==
    \A r \in {q \in DOMAIN runs : runs[q].status # "running"} :
        LET row == runs[r]
            report == Report(row)
            total(f) == SumFunction([k \in DOMAIN f |-> f[k].total])
        IN /\ report.processed = Len(row.classes)
           /\ report.errors = Len(row.errors) /\ report.errors = total(report.stages)
           /\ report.by_category = Counts(Column(row.classes, "category"))
           /\ \A name \in DOMAIN row.summary.intended :
                row.summary.intended[name] =
                    CountOf(row.actions, LAMBDA action : action.name = name)
           /\ total(report.actions) = Len(row.actions)
           /\ \A key \in DOMAIN report.actions : LET n == report.actions[key] IN
                n.total = n.succeeded + n.failed
           /\ ~report.partial <=> row.status = "succeeded"
           /\ row.status = "succeeded" =>
                \A i \in DOMAIN row.actions : row.actions[i].success

\* Every change in Immich belongs to a live run that classified the asset, and
\* that run has a row for it unless it was interrupted; and what a live row
\* calls a success happened.
ChangesAreAccountedFor ==
    /\ \A c \in applied : \E r \in DOMAIN runs :
         /\ ~runs[r].dry
         /\ \E i \in DOMAIN runs[r].classes : runs[r].classes[i].asset = c[1]
         /\ \/ runs[r].status = "running"
            \/ \E i \in DOMAIN runs[r].actions : LET row == runs[r].actions[i] IN
                 row.asset = c[1] /\ row.name = c[2] /\ row.would
    /\ \A r \in DOMAIN runs : \A i \in DOMAIN runs[r].actions :
         LET row == runs[r].actions[i] IN
         row.success /\ row.would /\ ~row.dry => <<row.asset, row.name>> \in applied

\* An asset that scans may skip was classified once, and the version its row
\* stands for, at which they skip it, was classified, is in hand or failed with an
\* error row.  One kind of version has no trace: the failure stores the checksum
\* and the error row in two commits, and a process that ended between them
\* (unlogged) keeps later scans from it.  A listing without a checksum is
\* another matter: needs_processing skips it, whatever version it is of.
SkippedWithReason ==
    \A a \in {b \in Assets : assets[b].processed} :
        LET rows(f) == UNION {ToSet(runs[r][f]) : r \in DOMAIN runs}
        IN /\ \E row \in rows("classes") : row.asset = a
           /\ \/ \E row \in rows("classes") \cup rows("errors") :
                   row.asset = a /\ row.sum = assets[a].sum
              \/ <<a, assets[a].sum>> \in unlogged
              \/ scan.ref = [id |-> a, sum |-> assets[a].sum]

\* What validation, decisions, executor and filters each check for themselves
\* agrees: under an accepted file no decision fails for an unknown category or a
\* rule it cannot use, no action for its name or for the archive switch, and the
\* assets touched are those the scanner's mode stands for, though the filters
\* never look at the mode.  Names of albums and tags are not validated: an
\* action may fail for the want of one.
AcceptedRulesWork ==
    scan.pc # "idle" =>
        LET wanted == Files[scan.file].scanner IN
        /\ scan.plan.error \in {"none", "missing_policy"}
        /\ \A i \in DOMAIN scan.results :
             scan.results[i].error \notin {"unknown_category", "invalid_policy", "unsupported_action",
                                          "destructive_action_unsupported", "archive_disabled"}
        /\ scan.ref # NoRef =>
             LET asset == Details[scan.ref.id] IN
             /\ wanted.mode = "date_range" => asset.time # 0 /\ wanted.since \in 1..asset.time
             /\ wanted.mode = "album" => asset.albums \cap wanted.include # {}

\* A change that the rule for the asset in hand asks for: in its accepted file, for
\* the media type and for the category just recorded.
Ruled(c) ==
    LET file == Files[scan.file]
        last == runs[run].classes[Len(runs[run].classes)]
        media == Details[c[1]].media
    IN /\ ~runs[run].dry /\ scan.live /\ Matches(file.scanner, Details[c[1]])
       /\ last.asset = c[1] /\ last.category \in DOMAIN file.policies
       /\ media \in DOMAIN file.policies[last.category]
       /\ c[2] \in ToSet(file.policies[last.category][media])

\* Immich is changed only by a live run, on the asset in hand, and only as its rule
\* says: no plan, result or dry-run flag of another asset, run or file is used.
ChangesFollowPolicy == [][\A c \in applied' \ applied : Ruled(c)]_vars
=============================================================================
