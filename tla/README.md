# MediaRefinery: a TLA+ verification project

MediaRefinery scans the libraries of Immich users: it fetches each asset, classifies it with an ONNX
model, decides which actions a policy asks for, records what it found and, where it is told to, moves
assets to Immich's Locked Folder. The service is one FastAPI process with one SQLite database that all
of its threads share; an older command-line program does the same for one user. This directory holds
TLA+ models of the parts of both in which the order of events or a choice among many cases matters, what
TLC checks of them, and the theorems TLAPS proves.

## Inventory

| Part | State | Operations | What is hard | Module |
| --- | --- | --- | --- | --- |
| Scan submission (`service/scheduler.py`, `runner.py: submit_real_scan`, `routers.py: create_scan`, `auto_scan.py: _dispatch_scan`) | `runs`, `audit_log` | check cap, check quota, insert run, audit, start thread | check and insert are separate commits; handlers run in a thread pool; the thread may not start | `ScanLifecycle` |
| Runners (`runner.py: make_real_runner`, `scheduler.py: synthetic_runner`) | `assets`, `asset_analysis`, `actions`, `errors`, `audit_log`, `runs`; counters of the thread | per asset: store, errors, analysis, actions, audits; finish or fail | a daemon thread per run, each write commits; any write may be refused; the process may stop anywhere | `ScanLifecycle` |
| Undo (`routers.py: undo_scan`) | `actions`, `audit_log` | revert every successful action of a run | allowed while the run is still recording actions | `ScanLifecycle` |
| Account purge (`routers.py: delete_me`, `state_store.py: purge`) | every table of a user | delete rows, anonymise the audit log, delete the account | runs beside that user's scans; some foreign keys cascade and one does not | `ScanLifecycle`, `Sessions` |
| Event groups (`state_store.py`: 762-1178, 2262-2403) | `event_groups`, `asset_event_memberships` | rename, merge, split, remove, reset, membership sync of a scan | merged groups point at other groups; edits are several statements and race with scans | `EventGroups` |
| Auto-scan (`auto_scan.py`) | `user_auto_scan`, cursor | poll Immich per user, dispatch a scan, move the cursor | acts on a list read earlier; a rejected dispatch; a failed page; a crash between dispatch and cursor | `AutoScan` |
| Sessions (`auth.py`, `deps.py`, `routers.py: login, logout`) | `sessions`, `users.is_admin` | login, revalidate, logout, promote the first admin | a remote call between reading and writing a session; two first logins | `Sessions` |
| Model registry (`model_lifecycle.py`) and classifier cache (`classifier_cache.py`) | model files, `model_registry`, cached sessions | install, register, uninstall, set active, load | files and rows are changed in different steps; a cached session outlives its file | `ModelRegistry` |
| Immich client (`immich.py`) | none | pages, albums, tags, visibility, downloads, retries | an external server that fails, answers late, or changes between pages | `ImmichClient` |
| Extraction, classification, analysis, OCR (`extractor.py`, `runner.py: _classify_asset` and below, `classifier.py`, `onnx_backend.py`, `analysis.py`, `ocr.py`) | temporary directories | original or preview, frames, one result, signals and queues | an exception at any step, also while cleaning up; thresholds; labels nobody mapped | `AssetPipeline`, `Classification`, `AssetAnalysis` |
| Policy and executor (`decision.py`, `actions.py`) | none | plan of actions, execution table | which setting is looked at before the client is called | `Policy` |
| CLI pipeline (`pipeline.py`, `scanner.py`, `state.py`, `reporter.py`) | its own SQLite state | the sequential scan, the report | restarts, incremental processing, counters beside rows | `CliScan` |
| Configuration (`config.py`, `settings/`, `service/config.py`) | files, settings database | validate, merge, override | what one module checks and another one relies on | `ConfigRules` (the file) |
| Locked Folder unlock (`routers.py: unlock_locked_folder`, `locked_folder.py`) | `actions`, Immich visibility | undo, unlock with a PIN | two systems of record; undo changes one of them | planned |
| Secrets and rate limiter (`security.py`) | key file, login windows | rotate the key, check a login | key file and database change in different steps | planned |
| Search, diagnostics, wiring, web, frontend | none of their own | read-only or clients | nothing a model would add | none |

How they interact: the routers and the auto-scan coordinator call `submit_scan`; the run's thread calls
the Immich client, the classifier, the analyser, the decision engine, the executor and the state store;
the store's `record_asset_analysis` maintains the event groups; a purge deletes what all of them wrote;
the model registry decides which runner a scan gets and which classifier it loads.

What makes each part correct: at most one active scan per user and a daily quota; every run ends, once,
with a summary and an audit trail that agree with its rows; undo reverts a run and nothing else; a
purged account leaves nothing behind; an asset is always in a group its user can see, and a manual edit
survives rescans; one active model per slot, whose file has the registered hash; unlock gives back what
was locked; auto-scan loses no new asset and no user; a revoked session admits no further request and it
is known why a token of Immich is forgotten; an answer of the Immich client is true whatever the network
did; an asset's result is that of its frames, its last failure has a row, and a doubtful one is put
before a person; a report of the CLI agrees with its rows, and the rules of a file that was accepted can
be carried out. Where the code keeps less than this, the properties say what it does keep, and the
observations below say where it stops.

## Modules

| Module | Models |
| --- | --- |
| `ScanLifecycle` | submit, both runners, undo, purge and login as interleaved database steps |
| `ScanContract` | what the API promises about a run, without threads, requests or tables |
| `EventGroups` | the edits of event groups and the membership sync of a scan, statement by statement |
| `EventContract` | what the event API promises about assets and where they are |
| `AutoScan` | the coordinator's pass beside logins, settings, uploads, scans and restarts |
| `Sessions` | login, authentication with revalidation, logout and account deletion |
| `ModelRegistry` | installs, registrations, uninstalls and the loading of classifier sessions |
| `ImmichClient` | jobs of the HTTP client, attempt by attempt, against a server and its owner |
| `Classification` | one output, or the outputs of several frames, to one result (operators) |
| `AssetAnalysis` | a result to safety, subtypes, facets, queues (operators) |
| `AssetPipeline` | one asset from bytes to analysis, with every failure; uses the two above |
| `Policy` | `DecisionEngine.decide` and the table of `ActionExecutor.execute` (operators) |
| `ConfigRules` | what `validate_config_data` accepts, and the scanner's filters (operators) |
| `CliScan` | `run_scan` commit by commit, and the report; uses the two above |
| `MC...` | the small instance of each state machine for TLC |
| `ScanLifecycleProofs` | types, the cap, one executor per running run, purge, late writes, audit trail, summary, what stays of an ended run, the quota, and the refinement of `ScanContract`, proved |
| `SessionsProofs` | the type invariant and the four properties of `Sessions`, proved |
| `AutoScanProofs` | the type invariant, `NothingSkippedSilently` and `CursorDiscipline` of `AutoScan`, proved |
| `ModelRegistryProofs` | the type invariant and the four properties of `ModelRegistry`, and what follows for restarts and for one thread, proved |
| `ImmichClientProofs` | the type invariant and the three safety properties of `ImmichClient`, proved |
| `AssetPipelineProofs` | the type invariant and the four properties of `AssetPipeline`, proved |
| `CliScanProofs` | the type invariant, the four invariants and the action property of `CliScan`, proved |
| `EventGroupsProofs` | type correctness; for one editor that pins stay visible and merges form a forest; for one thread `ScansKeepEdits`, `RemovedStaysRemoved` and the refinement of `EventContract`, proved |

### `ScanLifecycle`: state and actions against the code

Handlers are synchronous functions that FastAPI runs in a thread pool. Every method of the store
executes its statement and commits, so each is one atomic step, and between two of them any other thread
may run. A value of `slots` is one pool thread (or the auto-scan coordinator), with the place in the
handler it has reached; a value of `workers` is the daemon thread of a run.

- `users`, `runs`, `assetRows`, `analysed`, `actionRows`, `errorRows` and `audit` are the tables of
  those names reduced to what the code branches on. A deleted run is a row with status `"absent"`;
  `nextRun` is the AUTOINCREMENT counter, so an id is not used twice.
- `RequestScan`, `CheckCap`, `CheckQuota`, `StartRun`, `AuditStart`, `Spawn` are `create_scan` and
  `submit_scan`, statement by statement. `SpawnFails` is `thread.start()` raising.
- `RequestUndo`, `Revert`, `AuditUndo` are `undo_scan`.
- `RequestDelete`, `PurgeRows`, `PurgeAudit`, `PurgeUser` are `delete_me` and `purge`. Deleting the
  `users` row cascades to every table but `audit_log`, whose foreign key has no cascade: if an audit row
  of the user appeared after the anonymisation, that DELETE fails.
- `UpsertAsset` to `FinishRun` are the try block of a runner, `AuditFailure` and `FailRun` its except
  block. `RunnerRaises` is the jump from one to the other, when the store refuses the next write
  (`WriteAllowed`: a foreign key or an `_assert_owns_*` check) or when Immich fails while the real
  runner takes its next asset. `RunnerDies` is an exception inside the except block.
- `started_at`, `TodayStart` and `AtOrAfter` are the timestamps of the quota as the query compares them,
  as text: a date and a separator, which is not the same on the two sides. `NewDay` moves midnight past
  all earlier runs; `Restart` ends all threads and requests and keeps the tables, because nothing on the
  start-up path touches them.

What classification makes of an asset is an element of the constant `Outcomes`: whether it could be
classified, the errors that are recorded for it, and the plan of actions the policy gives. The
production wiring always runs with `dry_run=True`, and a dry-run executor changes nothing outside the
database, so an action is its row: successful unless its name is not supported.

`lateRows` is a history variable: assets a thread inserted after its run was purged. `purge` does not
stop the user's scans, and when the account is still there, because its last DELETE failed on an audit
row, or is there again after a login, such a thread does insert one (`LateWritesBounded`).

### `ScanContract`: the abstract specification

A run is handed out once, to one user; it gathers action rows only while it is running; it ends once, as
completed or failed; after that it changes only by an undo, which takes all effects back in one step, or
by the deletion of its account, which removes all runs of the user in one step. `ImplementsContract`
states that `ScanLifecycle` implements it under the mapping at the end of that module.

### `EventGroups`: state and actions against the code

`groups` and `members` are the tables `event_groups` and `asset_event_memberships`; `latest` is the
event key of each asset's stored analysis; a value of `threads` is the statement a thread executes next,
with the local variables that statement needs. All threads share one connection, so a statement is seen
by every thread at once, before the commit that ends its handler, and a step is one statement. A thread
in `Editors` serves requests, one in `Scanners` records analyses; when one thread is both and there is
no other, nothing overlaps.

- `Begin` is `_assert_visible_event`, the first statement of every edit. A check that fails answers 404
  or 400 and ends the request.
- `RenameGroup`; `ReadSource`, `MoveMembers`, `MarkTarget`, `MarkSource`; `ReadSplit`, `InsertSplit`,
  `MoveSplit`; `ReadRemove`, `WriteRemove`; `ReadReset`, `ResetAsset`, `FinishReset` are the statements
  of the five edits, in their order.
- `RecordAnalysis` stores an analysis; `ReadMember` to `WriteMember` are `_sync_asset_event_membership`
  with the inlined `_ensure_auto_event_group`. A reset runs the same statements for each of its assets
  with `preserve_manual=False`.

The event id of an automatic group is a hash of its key, and the key stands for it. Of titles the model
keeps whether they are derived or custom, of `source_json` the pointer `merged_into_event_id`. An
analysis without an event key and no analysis are the same value: both end in deleting the row. Audit
rows of edits, which nothing reads back, are left out.

### `EventContract`: the abstract specification

An asset is in one event or none, and pinned there or not. A merge pins everything in the merged events
together in one step, a split moves assets of one event to one that was empty, a removal pins an asset
to no event; a scan moves only assets that are not pinned; a reset replays assets one at a time.
`ImplementsContract` maps `place` and `pin` to the membership row. It holds while requests and scans do
not overlap; when they do, a split may take an asset that another thread has moved, and a scan may
overwrite a pin (see Observations).

### `AutoScan`: state and actions against the code

`tick` is the scheduler's one job thread with the local variables of `tick_all` and `tick_user`;
`users`, `sessions`, `auto` and `keys` are tables, `library` is what Immich holds, `live` and `readable`
say of a session's token whether Immich accepts it and the master key decrypts it. A taken-at timestamp
is a number and an interval that has elapsed is membership in `due`.

- `StartPass` reads the enabled users and their cursors once; `BeginUser` chooses the newest session row
  and decrypts its token; `FetchPage` is one search request and all its errors (`PageListed`,
  `PageFailed`); `DispatchScan` is `_dispatch_scan` with every way `submit_scan` refuses; `RecordTick`
  is `record_auto_scan_tick` with the disabling of users without a usable session.
- Beside it run `Login`, `TokenEnds` (a logout, or Immich), `PutSettings`, `PutApiKey`, `SwitchModel`,
  `DeleteMe`, `Upload`, `IntervalElapses`, `RequestScan`, `EndScan` and `Restart`.

Immich returns any assets at or after the cursor, in any order, and says itself whether there is a next
page. `scanned` and `forgone` are history variables that name the reasons for which an asset is not
listed again: a scan was started after its upload, it was uploaded with a date behind the cursor, the
scan of its tick was refused, or its account was deleted during the pass. `NothingSkippedSilently` says
that there is no other. `DueUsersVisited`, that a due user is visited, is checked with `Fairness`, weak
fairness of the coordinator's steps.

### `Sessions`: state and actions against the code

A value of `threads` is the request a pool thread serves and the statement it has reached. A login puts
one Immich token in at most one session row, so both have one id; `tokens` are those Immich still
accepts.

- `ProxyLogin` is Immich issuing a token, with its two outcomes: the answer arrives whole, or it is
  lost, late, not a 201 or malformed, the login answers an error, and the token stays accepted in Immich
  though nobody holds it. `CountAdmins`, `UpsertUser`, `PromoteToAdmin`, `PersistSession`, `WriteAudit`
  are the rest of `login`. `Lookup`, `Revalidate`, `MarkRevalidated` are `get_current_user`;
  `ProxyLogout`, `RevokeSession` and then `WriteAudit` or `PurgeSessions`, `PurgeAudit`, `PurgeUser` are
  `logout` and `delete_me`.
- `Age`, `EndToken`, `RestartWithNewKey` are time, Immich and the operator. Foreign keys are enforced,
  so an insert for a user who is gone fails and ends its request.

`bootstrapped`, `forgotten` and `past` are history variables: admins Immich does not call admins, tokens
nobody will log out any more, sessions that were revoked or deleted. `RevokedStaysOut` speaks of
requests as well as of rows: once a session is in `past` no request begins under it. A request that was
looked up before is served all the same, because `get_current_user` does not look again after its
revalidation.

### `ModelRegistry`: state and actions against the code

Every request shares one connection: `rows` is `model_registry` as every statement sees it and `durable`
as a restart finds it; a commit of any request makes all statements so far durable. A content and its
hash are one value, `Corrupt` is a content no row names, `files` holds one content per model id and
`cache` one loaded session per hash.

- `BeginInstall`, `Receive`, `UnlinkTarget`, `ReplaceTarget`, `InsertRow`, `Deactivate`, `Activate`,
  `Audit` are an install, and from `BeginRegister` a registration of an adult-subtype profile;
  `BeginUninstall`, `RemoveFile`, `DeleteRow`, `Audit` an uninstall. `ReadActive` and `LoadModel` are a
  scan that reads the active row and later asks the cache for its session.
- `OtherCommit` is a commit of any other endpoint, `Restart` a crash: it takes the uncommitted
  statements, the cache and the requests with it.

Of the history variables, `registered` holds the hashes that requests stored a file for under each id,
`filled` the slots whose last committed model was not uninstalled, `gone` the ids whose uninstall
finished. Three name what can go wrong with a slot: `raced` when two switches of it overlapped; `torn`
when another request's commit came between the two statements of its last switch, or that switch
activated a row that was gone or belonged to another slot; `crossed` when a switch for another slot
found its row in this one, because a row is looked up by name and hash and not by slot.
`OneActivePerSlot` excepts raced and crossed slots, `SwitchIsAtomic` torn ones.

### `ImmichClient`: state and actions against the code

A caller runs one job of `HttpImmichClient`, a job is a sequence of requests, a request a sequence of
attempts. `Serve` is the server answering an attempt, with its effect; a later action reads the answer:
`ListAssets`, `FindAlbum`, `FindTag`, `CreateAlbum`, `CreateTag`, `AddToAlbum`, `AddTagToAsset`,
`SetAssetVisibility`, `StreamChunk`. `LoseRequest` (with or without the request arriving later,
`ArriveLate`), `LoseAnswer`, `Refuse`, `Garble` and `DiskFull` are what goes wrong; `RetryOrFail` is the
retry loop of `_request` and `_request_to_file`. The owner uploads, deletes and unlocks assets beside
them. `blind` and `unsure` count look-ups that found nothing and creates that were not acknowledged.
Parsing of metadata, the pacing of requests and the in-memory client of the tests are left out.

### `AssetPipeline`, `Classification`, `AssetAnalysis`: against the code

`AssetPipeline` follows one asset through `_classify_asset` and what it calls. `dirs` is the stack of
temporary directories the code is inside of and `exc` the exception on its way up, so that the Python
rule that an error of a cleanup replaces what was on its way is in the model (`CloseDir`). `Classify`,
`MakeTemp`, `Download`, `StillGif`, `FramesDir`, `Extract`, `Predict` sample the original; `Unwound` is
the handler that falls back to the preview or fails the asset; `Preview`, `Record`, `RunSubtype` and
`Analyse` are the rest of the runner's work on it. Two history variables serve the properties:
`failures`, every failure of the asset in its order, to compare with the error rows; `foreign`, whether
the subtype model scored a label it is not configured for, which the aggregated result no longer tells.

`Classification` has `predict_one` and `aggregate_model_outputs`, `AssetAnalysis` the signals of
`analyze_asset` that decide whether a person looks at the asset. A score is a fraction, so that a mean
is exact. `ResultFollowsFrames` checks the chosen label against a second definition of its score, taken
from the frames. Signals that come from metadata alone (people, places, image quality, the text OCR
found) are left out.

### `CliScan`, `Policy`, `ConfigRules`: against the code

`CliScan` is `run_scan` with a step per commit and per call that changes Immich. A command loads a
configuration file (`StartRun`), lists and filters (`FetchPage`), decides what needs processing
(`Consider`), classifies (`ClassifyFails`, `RecordFailure`, `Classified`, `RecordDecisionError`),
executes every action of the plan and then records every result (`ExecuteAction`, `RecordAction`,
`RecordActionError`), and closes the run (`FinishRun`). `Interrupt` ends the process at any point, and
`EditAsset` changes the library at any time. `Report` is `get_run_report`. A page may list any assets,
also one that was listed before. A version of an asset is its checksum, which a listing may lack. The
history variable `unlogged` holds the versions whose failure was stored by `upsert_asset` but not by
`record_error`, because the process ended between the two commits.

`Policy` is `DecisionEngine.decide` and the executor's table: for every action, setting and capability
of the client, whether it would apply, whether the client is called and with which code it fails.
`ConfigRules` is `validate_config_data` as far as it decides what a scan does, and `_matches_filters`.
The types of single keys and the sections for the Immich connection and for video sampling are left out.

## Runs

`CHECK_DEADLOCK FALSE` is given where the system may stop: an idle service waits for clients, ids and
events are bounded, and the analysis of one asset ends. The event runs check for deadlock.

| Run | Instance | Question and result |
| --- | --- | --- |
| `scan_submit` | 1 user, 3 threads, 4 runs, 1 fault | How far can the check-then-insert of the cap be overrun? Running scans plus admitted requests never exceed the number of threads (`CapBound`), and a run has its one executor exactly while it is running (`WorkerOwnsRun`). |
| `scan_runner` | 1 user, 2 threads, 1 run over 2 assets, 3 outcomes, both runners, all endpoints, 1 fault | A run beside concurrent undos, a purge and a crash: audit log and status agree (`AuditTrail`), the summary counts the rows (`SummaryMatchesRows`), every step is a step of the contract, what the run left when it ended stays (`EndedRunsStay`), and under fairness it ends (`RunsEnd`). |
| `scan_purge` | 1 user, 2 threads, 2 runs, 2 assets | Scans that run while their account is purged and created again: a purged account has no row in any table (`PurgeErases`); a stale thread inserts at most one row (`LateWritesBounded`). |
| `scan_restart_violation` | 1 fault | After a restart a run is `running` with no thread, and blocks its user. |
| `event_serial` | 2 assets, 2 keys, 1 split id, one thread for edits and scans | No sequence of scans undoes an edit (`ScansKeepEdits`), and every statement is a step of `EventContract`. |
| `event_overlap` | 2 assets, 2 keys, 1 split id, one editing and one scanning thread | With the scan's writes between the statements of an edit, a pinned asset is in an event that is shown (`PinnedVisible`) and merges form a forest (`MergeForest`). |
| `auto_scan` | pages of 1, 2 pages a tick, 2 sessions; 1 user with 2 timestamps, 1 restart and every action, and beside it 2 users with 1 timestamp and the actions that decide whether a pass reaches a user | No asset falls behind the cursor without a reason (`NothingSkippedSilently`), an error never moves the cursor (`CursorDiscipline`), and a due user is visited whatever happens in the other's tick (`DueUsersVisited`). |
| `sessions` | 3 users, 2 threads, 3 logins, 1 event | Overlapping first logins promote at most one account per thread (`BootstrapBound`), no request begins under a revoked session (`RevokedStaysOut`), every accepted token is held or was given up in a known way (`TokensAccounted`), no session outlives its account (`SessionsHaveUsers`). |
| `models` | 1 catalog model and 2 profiles registered under its id, one of them with its name and hash too, 2 threads, 2 rows, 1 crash, 1 refused audit row | What a scan may run (`RunsVerifiedModel`), that an uninstalled model stays out of the cache (`UninstallIsFinal`), what overlapping switches (`OneActivePerSlot`) and a crash between two statements (`SwitchIsAtomic`) leave in a slot. |
| `immich_client` | 2 callers (one does any job, the other files in the album), 3 assets, pages of 1, 1 retry, 1 change, 1 late request | Success means done and an error leaves no file (`AnswersAreTrue`), duplicates of an album (`ShelvesAccounted`) and gaps of a walk (`WalkAccounted`) have a cause, every call ends (`CallsEnd`). |
| `asset_pipeline` | 2 profiles, both strategies, 1 or 2 of up to 3 frames, all kinds and failures | Stored metadata tell where a result comes from (`MetadataIsHonest`), a failure has its row unless a later one took its place (`ErrorsAreRecorded`), the category is the one the frames speak for (`ResultFollowsFrames`), and subtypes are shown, hidden and put before a person as the scores say (`DoubtIsReviewed`). |
| `cli_scan` | 2 assets, 2 checksums, 9 files of which 2 are accepted, 2 runs, pages of 1, 1 edit | Reports agree with rows (`ReportMatchesRows`), changes in Immich are accounted for (`ChangesAreAccountedFor`), a version is skipped for one of the known reasons (`SkippedWithReason`), the rules of an accepted file work: no decision fails, no action for its name or for the archive switch, and the filters keep to the mode (`AcceptedRulesWork`), and a change in Immich is one its rule has for the asset and category in hand (`ChangesFollowPolicy`). |

Every state machine has a `TypeOK`, and every one of them is proved. It is a property of the runs
`auto_scan`, `sessions` and `models`, where it says more than the types; the other runs are left to
properties about hazards.

Why the bounds are enough.
The scan runs: the races need two requests that act on one user at once, and a third to show that the
overrun grows with the threads and not with the runs; `MaxRuns` is one more than the three threads can
start at once. The runner's steps for one asset do not depend on how many came before except through its
counters, and two assets make a counter that skips one differ from one that does not. The outcomes are
one of each kind the loop distinguishes: an asset that cannot be read, a plan of several actions one of
which is audited, two warnings before the analysis, an unsupported action. The instances have one user:
users meet only in tables whose rows name their user, and the proofs are for any number of them.
The event runs: two automatic events and a split one give every kind of merge, a split that takes some
or all members, and a reset of either kind of event; a second asset is what a split leaves behind.
`event_overlap` uses the symmetry of assets, keys and split ids, none of which the model orders or
names; it checks invariants only.
`auto_scan`: two timestamps are one at the cursor and one after it, two pages of one asset a tick that
fails after its first page and one that stops at the page limit with assets left; two sessions a newest
one that was revoked. One user suffices for the cursor, which nobody else's tick touches. That a pass
goes on to the next user is a question of two of them, which the second instance of `MCAutoScan` adds:
one asset each, uploaded before they sign in, and neither keys, a choice of the runner, scans on request
nor the end of a scan, which only decide what a dispatch does with the user in hand, nor a restart,
after which the next pass begins anew. A behaviour belongs to one instance or the other from its first
state on; both under one specification, they share the properties.
`sessions`: two threads overlap, three logins are two of one user and one of another, or three first
logins; one event is enough for each exception that a property makes.
`models`: three models share an id, and with it one file; one of them has the name and hash of the
catalog's, so that a request of one slot finds a row of the other, and one has not; two threads overlap,
two rows are one for each pair of name and hash.
`immich_client`: one retry is a last attempt and one that is not; pages of one asset shift by each
removal; two callers look up at once. `asset_pipeline`: two frames have a mean that neither has, three
found frames exceed each limit, one profile names its categories like its labels and one does not.
`cli_scan`: one asset that scans should take and one they should leave; a plan of two actions, so that a
process can stop between them; the one edit gives an asset a new version or takes its checksum away; of
the files that are not accepted each differs from one that is in one place; a second run sees what the
first left.

Fairness. `WF` on the next step of each request and of each run's thread: these are operating-system
threads of one process and none waits for a lock or for another thread between the steps. Nothing is
assumed of clients, of the clock or of faults. `RunsEnd` excuses a run after a fault, because what a
restart does to it is the finding of `scan_restart_violation`. `AutoScan` has `WF` on the coordinator's
steps: the scheduler thread keeps running, whatever Immich answers, because a request that is not
answered times out (`PageFailed`). `ImmichClient` has `WF` on "the attempt goes on or fails" of each
caller, which httpx's timeouts justify; which of the two happens is not assumed, and `CallsEnd` holds
although every attempt may be lost. No other property needs fairness.

## Proofs

`ScanLifecycleProofs` holds for every number of users, threads, assets, runs and outcomes, under the
assumption `ConstantsOK` of `ScanLifecycle` (the constants are of the right kind, there is at least one
thread, a classified asset has a plan, which `DecisionEngine.decide` guarantees by its safe plan, and
one that could not be classified has the error that says why, `runner.py:281-295`).

- `TypeCorrect`: `Spec => []TypeOK`. `TypeOK` is not inductive: that a recorded action has an asset and
  a plan depends on where the thread is. `WellFormed` adds `SlotInv` (a request past its first step has
  a user, and a run where it needs one) and `WorkerInv` (a thread has a user, an asset, an error or an
  action to write where its next step needs one).
- `CapTheorem`: `CapBound` counts running scans together with the requests that already passed the
  check. A request that passes the cap check does so when no scan runs, so the requests past the check
  are all there is to count, and there are at most as many as threads; from then on a step moves one
  request from the second count to the first, or lowers one of them.
- `SerialCap`: with one thread the bound of `CapTheorem` is the documented cap, `OneActiveScan`, which
  two threads refute.
- `QuotaTheorem` assumes a quota of at least one and proves that the quota check then passes every
  request. The start of a run is written with a blank after its date and the start of the day with a
  `T`; whatever the days, no run that exists is at or after midnight when the two are compared as text.
- `OwnershipTheorem`: `Spec => []WorkerOwnsRun`, by the invariant `OwnInv`: ids at or above `nextRun`
  are unused (`FreshIds`), a run has at most one executor (`OneExecutor`), and a row belongs to an
  existing account and to its executor's user (`RowOwner`, which is why a step refused for a missing
  user cannot leave the row running).
- `PurgeTheorem`: `Consistent` joins to the two invariants above `RowsOwned`, what the foreign keys
  enforce: a row belongs to an account, the rows of a run to a run that is there. `PurgeUser` removes
  what the earlier statements of the purge left behind, and fails where an audit row is in the way.
- The other properties of a run are proved run by run. `StepsOfRun` says what a step can be to the run
  `r`: it starts it, starts its thread, is a step of that thread, a restart, or lies beside it
  (`Beside`: nothing but an undo or a purge changes the run, and both only in their own way). Each
  invariant then has a step for each of these, and not one for each action.
  - `LateWritesTheorem` (`LateInv`): a thread that inserted an asset after the purge is at a step whose
    next row needs its run, and no step leads back to `UpsertAsset`.
  - `AuditTheorem`: the start is audited before the thread exists (`StartStory`), the end after the last
    row and before the status changes (`EndStory`), and an action of the Locked Folder before the thread
    goes on to the next one (`LockStory`).
  - `SummaryTheorem` (`SumInv`): the rows of a run lie behind the place its thread has reached
    (`Behind`), so the next one has a key of its own and the counter grows with the set; a revert
    changes a row and not their number, by the bijection between the two sets; the synthetic runner
    counts assets where the real one counts actions (`SyntheticTally`).
  - `EndedRunsTheorem` is an action property. A run that ended has no executor (`WorkerOwnsRun`), so a
    step lies beside it; there an undo replaces each row by itself without its success
    (`RevertedRowsStay`), and a purge takes the run away, which the property allows.
- `ContractTheorem`: `Spec => ImplementsContract`. Every step is a step of `ScanContract` or changes
  nothing it sees. The contract's bound on effects is the length of a plan (`PlanBounded`), an undo is
  one step because its rows become `reverted` under one audit row, and a purge removes all runs of a
  user at once.

`EventGroupsProofs` holds for every set of assets, keys, split ids and threads, under `EventConstantsOK`
of `EventGroups`.

- `EventTypeCorrect`: `Spec => []TypeOK`, with any number of editors and scanners. A thread's local
  variables have to fit the statement it has reached (`ThreadInv`).
- `PinsStayVisible` and `MergesFormForest` assume `OneEditor`: at most one thread edits, while any
  number of scans run beside it; two overlapping merges refute both without it. The invariant
  `EditorsInv` joins to `WellFormed` that a manual membership is in a shown event (`PinsOK`), which is
  not inductive: a merge hides its sources after it has moved their members, a reset hides a split event
  after it has replayed its assets. `EditorInv` says what the editor's earlier statements have
  established by then: the target is shown, no pinned member is left in the sources, no pinned asset of
  the reset event was passed over. Scans keep it because they hide no event and pin nothing (`Quiet`).
  `MergeForest` is kept by a merge because its target is not merged when its sources are marked.
- `ScansKeepEditsTheorem`, `RemovedTheorem` and `EventContractTheorem` assume `OneThread`: edits and
  scans do not overlap; with a second thread TLC refutes all three. The invariant `SerialInv` has two
  parts. `Rows`: no membership and no merge pointer names an event without a row, a merged row has a
  pointer, and a title is custom only where an edit set the status. `Knows`: what the statements before
  have established still holds at the next one (the assets of a split are in its event and its new event
  is empty, the asset of a reset is still in the event that is reset, a scan past its first SELECT has
  an asset that is not pinned and a group that is not merged). Each statement is then matched with its
  step of the contract; all but five of them (`MoveMembers`, `MoveSplit`, `WriteRemove`, `DeleteMember`,
  `WriteMember`) are stutters.

`SessionsProofs` holds for every set of users and threads and every number of logins and events, under
`ConstantsOK` of `Sessions`.

- `SessionTypes` and `NoOrphanSessions` come from one invariant, `WellTyped`: a request needs a user and
  an id because it was begun with those of a session row, and a row has a user because it belongs to an
  account (`RowOwner`). A refused insert and the cascade of `PurgeUser` keep it.
- `RevokedForGood`, an action property, and `NoTokenLost` come from `SessionInv`. A request begins under
  a session only by a look-up that finds its row live, which no row in `past` is again; one that had
  begun may go on. Ids not yet handed out appear nowhere (`HandedOut`); the token of a login that has no
  row yet is in no other request and not in `past` (`PendingOwn`), so the insert cannot revive a
  session; a token whose login ended without an answer is in `forgotten` from the start; a request about
  to revoke a row has logged its token out or given it up (`LoggedOutFirst`). `TokensHeld` is
  `TokensAccounted` with a login counted only until its row is written, which is what a step can
  preserve.
- `BootstrapIsBounded`: the accounts already promoted, together with those that a thread has promised to
  promote, are at most as many as the threads. A login whose count finds no admin starts the count
  again, since no promoted account is left then; every other step only moves an account from the
  promised to the promoted, or drops one.

`ModelRegistryProofs` holds for every catalog, every set of registrations and every number of requests,
rows and restarts, under `ConstantsOK` of `ModelRegistry`: finitely many models, natural numbers as
bounds, and two values that are no hash, `Corrupt` and `NoFile`. Nothing is assumed of ids, names,
hashes and slots: any two models may share any of them.

- `RegistryTypes` and `SwitchesAreAtomic` come from one invariant, `WellTyped`. What a request read of a
  row stays true of it because row ids are not reused (`ThreadsFit`), a row was inserted after its
  content was stored (`TableOK`). `CommitOK` says that a filled slot which is not torn and in which all
  statements see no active row is one whose switch is between its statements (`Open`). A commit
  therefore leaves a filled slot empty only if it cuts such a switch, or ends a switch whose row was
  gone or of another slot; those are the cases `torn` records, and it records them when they happen and
  not when the slot is found empty.
- `OneActiveModel`: `OneActive` holds in both tables for a slot neither raced nor crossed, and adds that
  such a slot is empty while a switch of it is between its statements, and has one such request only,
  which is what the second statement needs.
- `RestartFindsOneModel` joins the two: what a crash leaves of a slot that was filled is one model,
  neither none nor two, unless the slot was torn, raced or crossed. `SerialSwitches` assumes one thread,
  and that models with the same name and hash have the same slot: then no slot is raced or crossed, and
  no slot ever has two active models. The code checks neither; without the second, one request at a time
  doubles a slot (observation 9).
- `VerifiedModelsOnly` and `UninstallsAreFinal` come from `StoreInv`. A scan on its way to the cache
  holds a model whose hash was stored under its id, and the file there, if any, was stored too; after an
  uninstall there is no such file and no request that will bring one (`GoneInv`), so a scan that read
  the row before fails instead of filling the cache.

`AutoScanProofs` holds for every set of users, every finite set of timestamps, every page size and page
limit and every number of sign-ins and restarts, under `ConstantsOK` of `AutoScan`. `Latest` chooses the
newest of some timestamps; that there is one is `Greatest`, proved from the well-foundedness of strict
inclusion on finite sets.

- `AutoScanTypes`: `WellTyped` adds to `TypeOK` that a visit has a user and that a page is requested
  only below the page limit (`TickFits`). An account that is gone has no settings, because its cursor is
  written by an UPDATE that finds no row; that an account created again gets no old cursor is not said,
  and not so.
- `NothingSkipped` comes from `CursorInv`. The pass visits a user at most once, from a cursor that is
  still the one in the row unless the account was deleted since (`PassOK`). During a visit the cursor in
  memory never falls behind where the visit began and moves only when assets were listed; when the
  outcome is about to be recorded, every asset up to it was scanned or has a reason (`VisitOK`).
- `CursorsAreDisciplined` is an action property and follows from the same invariant (`CursorStep`).

`ImmichClientProofs` holds for every number of callers, assets, retries, chunks, changes and late
requests, under `ConstantsOK` of `ImmichClient` (finite sets, a page has a size, jobs are those of the
client). One invariant, `ClientInv`, has a part for each call (`GoodCall`) and one for each kind of
shelf.

- `ClientTypeTheorem`: a request that adds names an album or tag that exists (`Shelved`), which holds
  because the server never removes one, and a late request names one too (`LateFits`).
- `AnswersTheorem` (`Honest`): an answer that says "done" and has not been read was true when it was
  given and stays true, since shelves and what was locked or restored only grow (`Grows`). A chunk is
  written only below the limit; a stream that ends has all chunks.
- `ShelvesTheorem` (`Accounted`): a create that is about to be sent, or is on its way though given up,
  has been paid for by a look-up that found nothing or an answer that was lost. Losing the answer of a
  create pays for the next one, and a create that is served moves from one count to the other.
- `WalkTheorem` (`Paced`): of the assets that lasted, those behind the place the walk has reached and
  not listed are at most as many as were removed, and those listed that lie ahead of it again at most as
  many as arrived (`UpTo`), for the page at hand and, once an answer is in flight, for the next one. A
  removal lets at most one asset slip behind a place (`Removed`), an arrival pushes at most one ahead
  (`Inserted`); a page is what lies between two places (`Paging`).

`AssetPipelineProofs` holds for every profile, number of frames and score, under `ConstantsOK` of
`AssetPipeline` (a profile orders the labels it maps, as `ModelProfile` does; no label is the one that
stands for labels nobody mapped). Its invariant `AssetInv` says, place by place, which directories are
open and whether an exception can be on its way (`DirsFit`), what was sampled and from where
(`SamplingInv`, `PreviewInv`), and what result, rows and subtype follow (`ResultInv`, `RowsInv`,
`SubtypeInv`).

- `AssetTypeTheorem` and `MetadataTheorem`: an exception is on its way only while directories are left,
  so `Unwound` sees every one of them, and the metadata are written where their source is known.
- `ErrorsTheorem`: of the failures so far, only the last counts (`Told`, `EndsWith`): it is the
  exception on its way up, then the warning that will be recorded, then its row. What OCR adds comes
  after and drops nothing. A failed run has written no row of its asset.
- `FramesTheorem`: a mean is a fraction with one denominator for all labels, so that some label is not
  exceeded; the fold over frames is compared with the sum the property takes through a third quantity
  equal to both, the number of pairs of a frame and a point of its score.
- `DoubtTheorem`: for one input, the result has the scores of the model as they are, so a foreign label
  among them ends in `failed_closed`, or, when it won, in no result at all; and no threshold is passed
  by a score below it. Of several frames it says only the latter: their aggregate has no foreign labels.

`CliScanProofs` holds for every library, every number of runs, edits and pages and every set of
configuration files, accepted or not, under `CliConstantsOK` of `CliScan` (times are numbers, the
actions of a rule are a sequence, the client is one of the known kinds). Its invariant `ScanInv` has
nine parts: the types, what the process holds at each place (`Running`, `Holding`), that a running
process read an accepted file (`Admitted`), that rows have a cause (`Explained`), that successes
happened and changes have a row or are about to (`Happened`, `Traced`), and the counters (`Counted`,
`Summarised`).

- `CliTypeTheorem`, `ChangesTheorem`, `SkippedTheorem` follow from the parts about rows: a crash between
  a change in Immich and its row is the only way to a change without one, and the row of an asset is
  written after its classification. `SkippedTheorem` has the crash between a failure and its row as a
  case of its own (`unlogged`), and says nothing of listings without a checksum.
- `AcceptedRulesTheorem`: what `validate_config_data` accepted is unfolded rule by rule to what `decide`
  and the executor look up. It is about pure operators and needs only `Admitted`. Failures for the want
  of a tag or album name are not among those it excludes.
- `PolicyTheorem`: `ScanInv` does not say where the plan in hand comes from, and `Follows` adds it:
  while actions are executed, the plan is what `decide` says of the last class row, which is the
  asset's, and a run that is not dry has a live executor. Every plan that does not come from a rule is
  `no_action`, which changes nothing (`RulesActOnly`), so an action that was sent is in the rule.
- `ReportTheorem`: a counter of the process and the rows it stands for change in the same two steps. The
  report's sums are folds; that they do not depend on order, and grow by one with a row, is proved by
  minimal counterexample on finite sets, because the library's induction theorems cannot be cited here.

Only model-checked.
Liveness under fairness (`RunsEnd`, `DueUsersVisited`, `CallsEnd`) is out of the prover's reach. So is
what a recursive definition computes for every input: the proofs use closed forms or set arguments
instead, and no module with a theorem declares a RECURSIVE operator. The claim `scan_restart_violation`
refutes has a counterexample in TLC only.

## Findings

*Restart.* A run whose process stopped stays `running`, because nothing on the start-up path touches
`runs`, and its user is told "scan already running" from then on (`scan_restart_violation`).

## Observations

What the code does where a reader might expect something else. The properties of the modules are stated
so that they hold of the code; where the stronger statement has a name it is given, and TLC refutes it.

1. *Cap.* `scheduler.py:6` documents one active scan per user; `submit_scan` reads and inserts in
   separate commits (`OneActiveScan`, refuted for two threads, proved for one). `CapBound` says what
   does hold.
2. *Quota.* `runs_started_today` compares the blank-separated `started_at` of SQLite with a
   `T`-separated midnight as text, so a run of today is always below it: the quota rejects nothing
   unless it is 0 (`DailyQuotaHolds`; `QuotaTheorem` proves it for every positive quota).
3. *Title.* Resetting an event split from another restores the automatic group of each asset's key,
   custom title included (`TitleKeptUntilReset`).
4. *Chained merges.* The pointer of a merged group is followed once, to a target that may itself be
   hidden by now (`NewAssetsVisible`, with three keys).
5. *Removal during a scan.* The scan reads the membership, then writes it without looking again
   (`RemovedStaysRemoved`, with an editor and a scanner; proved for one thread).
6. *Crossed merges.* Two merges that overlap check visibility before either marks its sources, and pin
   every asset to an event that is hidden (`PinnedVisibleAtRest`, with two editors).
7. *Auto-scan.* The pass writes the cursor it holds with an UPDATE by user (`auto_scan.py:402`): when
   the account was deleted and created again meanwhile, with auto-scan switched on, the new account gets
   the old cursor, and its assets before that are never listed. A tick whose scan was refused moves the
   cursor all the same (`forgone`); the newest session row is used although a logout has revoked it, and
   the user is then disabled; a failed tick writes `enabled = 0` over a change the user made during it.
8. *Admin.* Every login rewrites `is_admin` with Immich's flag, so a bootstrapped admin is no admin
   after a second login, and the next login of anybody is promoted.
9. *Models.* A second profile under a known id overwrites its file while the row of the first stays, and
   activating that row runs the second content; uninstalling either removes the file of both;
   reinstalling a model whose file is missing fails once on the UNIQUE constraint. Overlapping switches
   may leave two active models in a slot. One request is enough for that too: a registration finds an
   existing row by name and hash, in any slot (`model_lifecycle.py:277-281`), deactivates the rows of
   its own slot and activates the one it found, so that a registration of the primary model's file under
   its name leaves the adult-subtype slot empty and may leave the primary slot with two active models.
   When another request commits between the two statements of a switch and the process ends before the
   second, the slot is empty after the restart.
10. *Assets.* An `OSError` while a temporary directory is removed replaces a finished result by a fall
    back to the preview, and a classifier error on its way up by its own: the classifier error then has
    no row. When the sampling fails and then the preview too, only the preview's row is written. An
    `ImmichClientError` on one preview ends the run, and the asset it was at has no row. A profile that
    names one label like another one's category reports that label's confidence.
11. *CLI.* An error of Immich while listing leaves the run `running` in the state database. A changed
    asset whose classification failed is not tried again at that version; when the process ends between
    `upsert_asset` and `record_error` (`pipeline.py:103-104`) it is not tried again and no row says why.
    A processed asset that is listed without a checksum is skipped whatever changed
    (`state.py:692-693`). An asset is marked processed before its actions run, so the actions a killed
    run did not get to are never made up for (`pipeline.py:149`). `validate_config_data` does not ask
    for names of tags and albums (`config.py:727-745`): under an accepted file an action may fail with
    `tag_name_missing` or `review_album_name_missing` (`actions.py:182-190`, `234-242`).
12. *Walk.* Pages are asked for by number, so that a removal during the walk hides another asset from
    it.
13. *Logout.* A request that waits for Immich in its revalidation is served when the answer comes,
    although a logout has revoked its session meanwhile: `get_current_user` refreshes the row without
    looking at it again (`deps.py:193-196`). It is one request; the next is refused.
14. *Lost logins.* When the answer of Immich to a login is lost, late, malformed or not a 201, Immich
    may hold an accepted token that the service does not know and will not log out (`auth.py:82-107`).
15. *Refused thread.* A thread that cannot be started leaves the run it was for `running`, as a restart
    does: `start_run` is committed before (`SpawnFails`).
16. *Foreign labels.* `docs/guides/models.md:104` says of the adult subtype model that "Unknown outputs
    fail closed." With one input they do, unless the unknown label wins: then there is no result, and no
    queue (`runner.py:694-699`). The aggregate of several frames leaves them out
    (`classifier.py:443-445`), and subtypes are shown of the rest (`UnknownOutputsFailClosed`). The ONNX
    backend scores only configured labels, so it takes another backend to get there.

## Not modelled

- *Locked Folder unlock*, the reversal of locks by undo, *secrets* and the *login rate limiter*:
  planned.
- *Account purge* is a few steps, not one per statement, and a crash inside it is left out, because all
  threads share one connection and whose commit makes which half of it durable needs its own model.
- *Configuration*: the settings database, environment overrides and the types of single keys: a key is
  checked and read alone, without order or interaction.
- *Model catalog*: what its loader and the validation of a profile accept.
- *Search* ranks stored rows and changes none; *diagnostics* only probe; *wiring*, demo mode and the
  static files have no state of their own; the *frontend* is a client, which the arbitrary order of
  requests stands for.
- *Pixels*: decoding, pre-processing and ffmpeg's command lines.
- An asset that Immich lists twice because a page moved, in `ScanLifecycle`; a policy that names an
  action twice; SQLite's own errors (disk full, locked database).

## Plan

1. `LockedFolder`: locking, undo and unlock against Immich's own state; the rate limiter's window.
2. A purge whose statements other threads commit.
