---------------------------- MODULE ScanLifecycle ----------------------------
(***************************************************************************)
(* The scan subsystem of the MediaRefinery service: the request handlers   *)
(* POST /api/scans, POST /api/scans/{run_id}/undo and DELETE /api/me, the  *)
(* auto-scan dispatch that shares the submit path, and the daemon thread   *)
(* that executes one run.                                                  *)
(*                                                                         *)
(* Handlers are synchronous functions in a thread pool and every method of *)
(* the state store commits for itself, so a handler or a run is a sequence *)
(* of atomic database steps between which every other thread may run.      *)
(* Each of those steps is one action here.  A slot is one pool thread (or  *)
(* the auto-scan coordinator thread); a worker is the daemon thread of the *)
(* run with the same number.                                               *)
(*                                                                         *)
(* Only rows, statuses and the order of writes are kept.  A row that the   *)
(* foreign keys or an ownership check of the store refuse makes the step   *)
(* raise; the store deletes by user, so a purged run is an "absent" row.   *)
(* Bounds: MaxRuns caps the run ids handed out and MaxFaults the number of *)
(* process crashes and failed thread starts.                               *)
(***************************************************************************)
EXTENDS Naturals, Sequences, FiniteSets

CONSTANTS
    Users,            \* Immich accounts that may sign in
    Slots,            \* threads able to serve a request at the same time
    Assets,           \* assets an Immich library may hold
    SyntheticAssets,  \* the two fixed assets of the synthetic runner
    Outcomes,         \* what classification and policy may make of an asset
    Endpoints,        \* the handlers clients call: "scan", "undo", "delete"
    Kinds,            \* the runners in use: "real", "synthetic"
    DailyQuota, MaxRuns, MaxFaults,
    NoUser

ActionNames == {"lock", "tag", "unsupported"}
ErrorStages == {"extractor", "classifier", "ocr"}

ASSUME ConstantsOK ==
    /\ DailyQuota \in Nat /\ MaxRuns \in Nat /\ MaxFaults \in Nat
    /\ IsFiniteSet(Slots) /\ Slots # {}
    /\ NoUser \notin Users
    /\ "user_deleted" \notin Users
    /\ SyntheticAssets \subseteq Assets /\ IsFiniteSet(SyntheticAssets)
    /\ Endpoints \subseteq {"scan", "undo", "delete"}
    /\ Kinds \subseteq {"real", "synthetic"}
    /\ Outcomes \subseteq [classified : BOOLEAN,
                           errors     : Seq(ErrorStages),
                           plan       : Seq(ActionNames)]
    /\ \A o \in Outcomes :
         /\ o.classified => o.plan # <<>>      \* a safe plan is "no_action"
         /\ ~o.classified => o.errors # <<>>   \* the error that kept it from being classified

VARIABLES
    users,       \* rows of the users table
    runs,        \* the runs table by id; status "absent": no such row
    nextRun,     \* AUTOINCREMENT: ids are never handed out twice
    assetRows,   \* rows <<user, asset>> of assets
    analysed,    \* rows <<user, asset>> of asset_analysis
    actionRows,  \* rows of actions
    errorRows,   \* rows of errors
    audit,       \* facts of audit_log
    workers,     \* the daemon thread of each run
    slots,       \* the request each pool thread serves
    faults,      \* crashes and failed thread starts so far
    lateRows     \* history: asset rows a worker inserted after its run was purged

tables == <<users, runs, nextRun, assetRows, analysed, actionRows, errorRows, audit>>
vars == <<tables, workers, slots, faults, lateRows>>

RunIds == 1..MaxRuns
NoSummary == [kind |-> "none", processed |-> 0, errors |-> 0, actions |-> 0]
NoRow == [user |-> NoUser, status |-> "absent", today |-> FALSE, summary |-> NoSummary]
NoAsset == "none"
NoWorker == [pc |-> "none", user |-> NoUser, kind |-> "none", seen |-> {}, asset |-> NoAsset,
             classified |-> FALSE, errors |-> <<>>, plan |-> <<>>,
             processed |-> 0, errorCount |-> 0, actionCount |-> 0]
IdleSlot == [pc |-> "idle", user |-> NoUser, kind |-> "none", run |-> 0]

\* The synthetic runner records one successful dry-run action per asset.
SyntheticOutcome == [classified |-> FALSE, errors |-> <<>>, plan |-> <<"tag">>]
OutcomesOf(kind) == IF kind = "real" THEN Outcomes ELSE {SyntheticOutcome}

-----------------------------------------------------------------------------
(* Queries of the state store.                                             *)

Present(r) == runs[r].status # "absent"
Running(u) == {r \in RunIds : runs[r].user = u /\ runs[r].status = "running"}
has_active_run(u) == Running(u) # {}

\* Timestamps are compared as text: the date, then a separator, then the time.
\* CURRENT_TIMESTAMP separates with " ", _today_start_iso with "T", and " " < "T".
Blank == 0
LetterT == 1
started_at(r) == [date |-> IF runs[r].today THEN 1 ELSE 0, separator |-> Blank]
TodayStart == [date |-> 1, separator |-> LetterT]
AtOrAfter(s, t) == s.date > t.date \/ (s.date = t.date /\ s.separator >= t.separator)
runs_started_today(u) ==
    Cardinality({r \in RunIds : runs[r].user = u /\ AtOrAfter(started_at(r), TodayStart)})

AuditRow(u, action, r, a) == [user |-> u, action |-> action, run |-> r, asset |-> a]

\* The executor of a dry run: unsupported names fail, every other succeeds.
ActionRow(r, a, step, name) ==
    [run |-> r, asset |-> a, step |-> step, name |-> name, success |-> name # "unsupported"]
ErrorRow(r, a, step, stage) == [run |-> r, asset |-> a, step |-> step, stage |-> stage]

-----------------------------------------------------------------------------
(* Request handlers.                                                       *)

Goto(q, pc) == slots' = [slots EXCEPT ![q].pc = pc]
Reply(q) == slots' = [slots EXCEPT ![q] = IdleSlot]
SubmitBeforeInsert == {q \in Slots : slots[q].pc \in {"cap", "quota", "insert"}}

\* A client (or the auto-scan coordinator) asks for a scan; whether a model is
\* installed decides the runner before submit_scan is called.
RequestScan(q, u) ==
    /\ slots[q].pc = "idle" /\ u \in users /\ "scan" \in Endpoints
    /\ nextRun + Cardinality(SubmitBeforeInsert) <= MaxRuns
    /\ \E k \in Kinds :
         slots' = [slots EXCEPT ![q] = [pc |-> "cap", user |-> u, kind |-> k, run |-> 0]]
    /\ UNCHANGED <<tables, workers, faults, lateRows>>

\* Variant: the active run is not looked up.
CheckCapSkipped(q) ==
    /\ slots[q].pc = "cap"
    /\ Goto(q, "quota")
    /\ UNCHANGED <<tables, workers, faults, lateRows>>

CheckCap(q) ==
    /\ slots[q].pc = "cap"
    /\ IF has_active_run(slots[q].user) THEN Reply(q) ELSE Goto(q, "quota")
    /\ UNCHANGED <<tables, workers, faults, lateRows>>

CheckQuota(q) ==
    /\ slots[q].pc = "quota"
    /\ IF runs_started_today(slots[q].user) >= DailyQuota THEN Reply(q) ELSE Goto(q, "insert")
    /\ UNCHANGED <<tables, workers, faults, lateRows>>

\* start_run: INSERT and commit.
StartRun(q) ==
    /\ slots[q].pc = "insert" /\ slots[q].user \in users /\ nextRun \in RunIds
    /\ runs' = [runs EXCEPT ![nextRun] = [user |-> slots[q].user, status |-> "running",
                                          today |-> TRUE, summary |-> NoSummary]]
    /\ nextRun' = nextRun + 1
    /\ slots' = [slots EXCEPT ![q].pc = "startAudit", ![q].run = nextRun]
    /\ UNCHANGED <<users, assetRows, analysed, actionRows, errorRows, audit,
                   workers, faults, lateRows>>

\* write_audit("scan.start"), a second commit.
AuditStart(q) ==
    /\ slots[q].pc = "startAudit" /\ slots[q].user \in users
    /\ audit' = audit \cup {AuditRow(slots[q].user, "scan.start", slots[q].run, NoAsset)}
    /\ Goto(q, "spawn")
    /\ UNCHANGED <<users, runs, nextRun, assetRows, analysed, actionRows, errorRows,
                   workers, faults, lateRows>>

\* thread.start() and the 202 answer.
Spawn(q) ==
    /\ slots[q].pc = "spawn"
    /\ workers' = [workers EXCEPT ![slots[q].run] =
                     [NoWorker EXCEPT !.pc = "next", !.user = slots[q].user,
                                      !.kind = slots[q].kind]]
    /\ Reply(q)
    /\ UNCHANGED <<tables, faults, lateRows>>

\* The interpreter refuses the new thread: the handler answers 500.
SpawnFails(q) ==
    /\ slots[q].pc = "spawn" /\ faults < MaxFaults
    /\ faults' = faults + 1
    /\ Reply(q)
    /\ UNCHANGED <<tables, workers, lateRows>>

\* undo_scan after get_run found the caller's run.
RequestUndo(q, u) ==
    /\ slots[q].pc = "idle" /\ u \in users /\ "undo" \in Endpoints
    /\ \E r \in RunIds :
         /\ Present(r) /\ runs[r].user = u
         /\ slots' = [slots EXCEPT ![q] = [pc |-> "revert", user |-> u, kind |-> "none", run |-> r]]
    /\ UNCHANGED <<tables, workers, faults, lateRows>>

\* Variant: undo toggles the flag it should clear.
RevertToggles(q) ==
    /\ slots[q].pc = "revert" /\ Present(slots[q].run)
    /\ actionRows' = {IF x.run = slots[q].run THEN [x EXCEPT !.success = ~@] ELSE x :
                        x \in actionRows}
    /\ Goto(q, "undoAudit")
    /\ UNCHANGED <<users, runs, nextRun, assetRows, analysed, errorRows, audit,
                   workers, faults, lateRows>>

\* revert_run_actions
Revert(q) ==
    /\ slots[q].pc = "revert" /\ Present(slots[q].run)
    /\ actionRows' = {IF x.run = slots[q].run THEN [x EXCEPT !.success = FALSE] ELSE x :
                        x \in actionRows}
    /\ Goto(q, "undoAudit")
    /\ UNCHANGED <<users, runs, nextRun, assetRows, analysed, errorRows, audit,
                   workers, faults, lateRows>>

AuditUndo(q) ==
    /\ slots[q].pc = "undoAudit" /\ slots[q].user \in users
    /\ audit' = audit \cup {AuditRow(slots[q].user, "scan.undo", slots[q].run, NoAsset)}
    /\ Reply(q)
    /\ UNCHANGED <<users, runs, nextRun, assetRows, analysed, actionRows, errorRows,
                   workers, faults, lateRows>>

\* A store call of a handler finds its user or its run purged: 500.
RequestRaises(q) ==
    /\ \/ slots[q].pc \in {"insert", "startAudit", "undoAudit"} /\ slots[q].user \notin users
       \/ slots[q].pc = "revert" /\ ~Present(slots[q].run)
    /\ Reply(q)
    /\ UNCHANGED <<tables, workers, faults, lateRows>>

RequestDelete(q, u) ==
    /\ slots[q].pc = "idle" /\ u \in users /\ "delete" \in Endpoints
    /\ slots' = [slots EXCEPT ![q] = [pc |-> "purgeRows", user |-> u, kind |-> "none", run |-> 0]]
    /\ UNCHANGED <<tables, workers, faults, lateRows>>

\* Every row of u but its audit trail and its users row; deleting a users row
\* cascades to the same tables.
DeleteRowsOf(u) ==
    /\ runs' = [r \in RunIds |-> IF runs[r].user = u THEN NoRow ELSE runs[r]]
    /\ assetRows' = {x \in assetRows : x[1] # u}
    /\ analysed' = {x \in analysed : x[1] # u}
    /\ actionRows' = {x \in actionRows : runs[x.run].user # u}
    /\ errorRows' = {x \in errorRows : runs[x.run].user # u}

PurgeRows(q) ==
    /\ slots[q].pc = "purgeRows"
    /\ DeleteRowsOf(slots[q].user)
    /\ Goto(q, "purgeAudit")
    /\ UNCHANGED <<users, nextRun, audit, workers, faults, lateRows>>

PurgeAudit(q) ==
    /\ slots[q].pc = "purgeAudit"
    /\ audit' = {IF x.user = slots[q].user THEN [x EXCEPT !.user = "user_deleted"] ELSE x :
                   x \in audit}
    /\ Goto(q, "purgeUser")
    /\ UNCHANGED <<users, runs, nextRun, assetRows, analysed, actionRows, errorRows,
                   workers, faults, lateRows>>

\* audit_log.user_id has no cascade: a row written since PurgeAudit makes the
\* DELETE fail and leaves the account in place.
PurgeUser(q) ==
    /\ slots[q].pc = "purgeUser"
    /\ IF \E x \in audit : x.user = slots[q].user
       THEN UNCHANGED <<users, runs, assetRows, analysed, actionRows, errorRows>>
       ELSE /\ users' = users \ {slots[q].user}
            /\ DeleteRowsOf(slots[q].user)
    /\ Reply(q)
    /\ UNCHANGED <<nextRun, audit, workers, faults, lateRows>>

\* upsert_user at login: a purged account may be created again.
Login(u) ==
    /\ u \notin users
    /\ users' = users \cup {u}
    /\ UNCHANGED <<runs, nextRun, assetRows, analysed, actionRows, errorRows, audit,
                   workers, slots, faults, lateRows>>

SlotStep(q) ==
    \/ CheckCap(q) \/ CheckQuota(q) \/ StartRun(q) \/ AuditStart(q) \/ Spawn(q)
    \/ Revert(q) \/ AuditUndo(q) \/ RequestRaises(q)
    \/ PurgeRows(q) \/ PurgeAudit(q) \/ PurgeUser(q)

-----------------------------------------------------------------------------
(* The runner: InTry holds the steps of its try block, InExcept those of    *)
(* its except block.                                                       *)

InTry == {"next", "errors", "analysis", "act", "lockAudit", "finishRun"}
InExcept == {"failAudit", "failRun"}
Live(r) == workers[r].pc \in InTry \cup InExcept

\* Variant: foreign keys are not enforced.
WriteAllowedNoForeignKeys(r) ==
    LET w == workers[r] IN
    CASE w.pc \in {"next", "lockAudit", "failAudit"} -> TRUE
      [] w.pc \in {"errors", "act", "finishRun", "failRun"} -> Present(r)
      [] w.pc = "analysis" -> <<w.user, w.asset>> \in assetRows
      [] OTHER -> FALSE

\* Variant: record_action does not check that the run is still there.
WriteAllowedUnowned(r) ==
    LET w == workers[r] IN
    CASE w.pc \in {"next", "lockAudit", "failAudit", "act", "errors"} -> w.user \in users
      [] w.pc \in {"finishRun", "failRun"} -> Present(r)
      [] w.pc = "analysis" -> <<w.user, w.asset>> \in assetRows
      [] OTHER -> FALSE

\* Whether the store accepts the write the worker is about to make: foreign
\* keys for assets and audit rows, _assert_owns_* for the others.
WriteAllowed(r) ==
    LET w == workers[r] IN
    CASE w.pc \in {"next", "lockAudit", "failAudit"}     -> w.user \in users
      [] w.pc \in {"errors", "act", "finishRun", "failRun"} -> Present(r)
      [] w.pc = "analysis" -> <<w.user, w.asset>> \in assetRows
      [] OTHER -> FALSE

\* Assets a worker may take next: a library may end anywhere, the synthetic
\* runner handles exactly its own.
Candidates(w) == (IF w.kind = "real" THEN Assets ELSE SyntheticAssets) \ w.seen

\* Where the pipeline goes once the errors, or the actions, of an asset are written.
AfterErrors(w) == IF w.classified THEN "analysis" ELSE IF w.plan # <<>> THEN "act" ELSE "next"
AfterAct(plan) == IF plan = <<>> THEN "next" ELSE "act"

\* The next candidate is classified, then upsert_asset.
UpsertAsset(r) ==
    LET w == workers[r] IN
    /\ w.pc = "next" /\ WriteAllowed(r)
    /\ \E a \in Candidates(w), o \in OutcomesOf(w.kind) :
         LET v == [w EXCEPT !.seen = @ \cup {a}, !.asset = a, !.classified = o.classified,
                            !.errors = o.errors, !.plan = o.plan]
         IN  /\ workers' = [workers EXCEPT ![r] =
                  [v EXCEPT !.pc = IF o.errors # <<>> THEN "errors" ELSE AfterErrors(v)]]
             /\ assetRows' = assetRows \cup {<<w.user, a>>}
    /\ lateRows' = [lateRows EXCEPT ![r] = IF Present(r) THEN @ ELSE @ + 1]
    /\ UNCHANGED <<users, runs, nextRun, analysed, actionRows, errorRows, audit, slots, faults>>

\* Variant: the error is recorded but not counted.
RecordErrorUncounted(r) ==
    LET w == workers[r]
        rest == Tail(w.errors)
    IN  /\ w.pc = "errors" /\ WriteAllowed(r)
        /\ errorRows' = errorRows \cup {ErrorRow(r, w.asset, Len(w.errors), Head(w.errors))}
        /\ workers' = [workers EXCEPT ![r].errors = rest,
                                      ![r].pc = IF rest # <<>> THEN "errors" ELSE AfterErrors(w)]
        /\ UNCHANGED <<users, runs, nextRun, assetRows, analysed, actionRows, audit,
                       slots, faults, lateRows>>

\* record_error: a failed classification, a sampling warning or an OCR error.
RecordError(r) ==
    LET w == workers[r]
        rest == Tail(w.errors)
    IN  /\ w.pc = "errors" /\ WriteAllowed(r)
        /\ errorRows' = errorRows \cup {ErrorRow(r, w.asset, Len(w.errors), Head(w.errors))}
        /\ workers' = [workers EXCEPT ![r].errors = rest, ![r].errorCount = @ + 1,
                                      ![r].pc = IF rest # <<>> THEN "errors" ELSE AfterErrors(w)]
        /\ UNCHANGED <<users, runs, nextRun, assetRows, analysed, actionRows, audit,
                       slots, faults, lateRows>>

\* record_asset_analysis, then the decision engine and the executor (no writes
\* in a dry run); every plan holds at least one action.
RecordAnalysis(r) ==
    LET w == workers[r] IN
    /\ w.pc = "analysis" /\ WriteAllowed(r)
    /\ analysed' = analysed \cup {<<w.user, w.asset>>}
    /\ workers' = [workers EXCEPT ![r].pc = "act"]
    /\ UNCHANGED <<users, runs, nextRun, assetRows, actionRows, errorRows, audit,
                   slots, faults, lateRows>>

\* The asset is processed when its last action, and that action's audit, is written.
ActionDone(w, plan) ==
    [w EXCEPT !.plan = plan, !.pc = AfterAct(plan),
              !.processed = IF plan = <<>> THEN @ + 1 ELSE @]

RecordAction(r) ==
    LET w == workers[r]
        name == Head(w.plan)
        v == [w EXCEPT !.actionCount = @ + 1]
    IN  /\ w.pc = "act" /\ WriteAllowed(r)
        /\ actionRows' = actionRows \cup {ActionRow(r, w.asset, Len(w.plan), name)}
        /\ workers' = [workers EXCEPT ![r] =
             IF name = "lock" THEN [v EXCEPT !.pc = "lockAudit"] ELSE ActionDone(v, Tail(w.plan))]
        /\ UNCHANGED <<users, runs, nextRun, assetRows, analysed, errorRows, audit,
                       slots, faults, lateRows>>

\* In a dry run every move to the Locked Folder is an "asset.locked.attempt".
AuditLock(r) ==
    LET w == workers[r] IN
    /\ w.pc = "lockAudit" /\ WriteAllowed(r)
    /\ audit' = audit \cup {AuditRow(w.user, "asset.locked.attempt", r, w.asset)}
    /\ workers' = [workers EXCEPT ![r] = ActionDone(w, Tail(w.plan))]
    /\ UNCHANGED <<users, runs, nextRun, assetRows, analysed, actionRows, errorRows,
                   slots, faults, lateRows>>

\* No candidate left: write_audit("scan.finish") comes before finish_run.
AuditFinish(r) ==
    LET w == workers[r] IN
    /\ w.pc = "next" /\ WriteAllowed(r)
    /\ w.kind = "synthetic" => Candidates(w) = {}
    /\ audit' = audit \cup {AuditRow(w.user, "scan.finish", r, NoAsset)}
    /\ workers' = [workers EXCEPT ![r].pc = "finishRun"]
    /\ UNCHANGED <<users, runs, nextRun, assetRows, analysed, actionRows, errorRows,
                   slots, faults, lateRows>>

Summary(w) ==
    IF w.kind = "real"
    THEN [kind |-> "real", processed |-> w.processed, errors |-> w.errorCount,
          actions |-> w.actionCount]
    ELSE [kind |-> "synthetic", processed |-> Cardinality(SyntheticAssets),
          errors |-> 0, actions |-> 0]

\* Variant: an exception after the commit still reaches the except block.
FinishRunRaises(r) ==
    /\ workers[r].pc = "finishRun" /\ WriteAllowed(r)
    /\ runs' = [runs EXCEPT ![r].status = "completed", ![r].summary = Summary(workers[r])]
    /\ workers' = [workers EXCEPT ![r].pc = "failRun"]
    /\ UNCHANGED <<users, nextRun, assetRows, analysed, actionRows, errorRows, audit,
                   slots, faults, lateRows>>

FinishRun(r) ==
    /\ workers[r].pc = "finishRun" /\ WriteAllowed(r)
    /\ runs' = [runs EXCEPT ![r].status = "completed", ![r].summary = Summary(workers[r])]
    /\ workers' = [workers EXCEPT ![r].pc = "end"]
    /\ UNCHANGED <<users, nextRun, assetRows, analysed, actionRows, errorRows, audit,
                   slots, faults, lateRows>>

\* Variant: the except block does not audit.
RunnerRaisesUnaudited(r) ==
    LET w == workers[r] IN
    /\ w.pc \in InTry
    /\ ~WriteAllowed(r) \/ (w.pc = "next" /\ w.kind = "real")
    /\ workers' = [workers EXCEPT ![r].pc = "failRun"]
    /\ UNCHANGED <<tables, slots, faults, lateRows>>

\* A refused write anywhere in the try block, or an Immich failure while the
\* real runner fetches an asset.  Only the real runner audits the failure.
RunnerRaises(r) ==
    LET w == workers[r] IN
    /\ w.pc \in InTry
    /\ ~WriteAllowed(r) \/ (w.pc = "next" /\ w.kind = "real")
    /\ workers' = [workers EXCEPT ![r].pc = IF w.kind = "real" THEN "failAudit" ELSE "failRun"]
    /\ UNCHANGED <<tables, slots, faults, lateRows>>

AuditFailure(r) ==
    LET w == workers[r] IN
    /\ w.pc = "failAudit" /\ WriteAllowed(r)
    /\ audit' = audit \cup {AuditRow(w.user, "scan.failed", r, NoAsset)}
    /\ workers' = [workers EXCEPT ![r].pc = "failRun"]
    /\ UNCHANGED <<users, runs, nextRun, assetRows, analysed, actionRows, errorRows,
                   slots, faults, lateRows>>

\* Variant: the except block logs and returns.
FailRunForgotten(r) ==
    /\ workers[r].pc = "failRun" /\ WriteAllowed(r)
    /\ workers' = [workers EXCEPT ![r].pc = "end"]
    /\ UNCHANGED <<tables, slots, faults, lateRows>>

FailRun(r) ==
    /\ workers[r].pc = "failRun" /\ WriteAllowed(r)
    /\ runs' = [runs EXCEPT ![r].status = "failed", ![r].summary = NoSummary]
    /\ workers' = [workers EXCEPT ![r].pc = "end"]
    /\ UNCHANGED <<users, nextRun, assetRows, analysed, actionRows, errorRows, audit,
                   slots, faults, lateRows>>

\* The except block itself raises: the daemon thread ends.
RunnerDies(r) ==
    /\ workers[r].pc \in InExcept /\ ~WriteAllowed(r)
    /\ workers' = [workers EXCEPT ![r].pc = "end"]
    /\ UNCHANGED <<tables, slots, faults, lateRows>>

WorkerStep(r) ==
    \/ UpsertAsset(r) \/ RecordError(r) \/ RecordAnalysis(r) \/ RecordAction(r) \/ AuditLock(r)
    \/ AuditFinish(r) \/ FinishRun(r) \/ RunnerRaises(r) \/ AuditFailure(r) \/ FailRun(r)
    \/ RunnerDies(r)

-----------------------------------------------------------------------------
(* The environment.                                                        *)

\* Midnight UTC: _today_start_iso moves past every earlier run.
NewDay ==
    /\ \E r \in RunIds : runs[r].today
    /\ runs' = [r \in RunIds |-> [runs[r] EXCEPT !.today = FALSE]]
    /\ UNCHANGED <<users, nextRun, assetRows, analysed, actionRows, errorRows, audit,
                   workers, slots, faults, lateRows>>

\* The process stops and is started again: committed rows survive, threads do
\* not, and nothing on the start-up path touches the runs table.  A crash
\* inside purge's transaction is left to the model of the shared connection.
Restart ==
    /\ faults < MaxFaults
    /\ \A q \in Slots : slots[q].pc \notin {"purgeAudit", "purgeUser"}
    /\ faults' = faults + 1
    /\ workers' = [r \in RunIds |-> IF Live(r) THEN [workers[r] EXCEPT !.pc = "end"]
                                    ELSE workers[r]]
    /\ slots' = [q \in Slots |-> IdleSlot]
    /\ UNCHANGED <<tables, lateRows>>

Init ==
    /\ users = {}
    /\ runs = [r \in RunIds |-> NoRow]
    /\ nextRun = 1
    /\ assetRows = {} /\ analysed = {} /\ actionRows = {} /\ errorRows = {} /\ audit = {}
    /\ workers = [r \in RunIds |-> NoWorker]
    /\ slots = [q \in Slots |-> IdleSlot]
    /\ faults = 0
    /\ lateRows = [r \in RunIds |-> 0]

Next ==
    \/ \E q \in Slots, u \in Users : RequestScan(q, u) \/ RequestUndo(q, u) \/ RequestDelete(q, u)
    \/ \E q \in Slots : SlotStep(q) \/ SpawnFails(q)
    \/ \E r \in RunIds : WorkerStep(r)
    \/ \E u \in Users : Login(u)
    \/ NewDay
    \/ Restart

Spec == Init /\ [][Next]_vars

\* Pool threads and daemon threads are scheduled by the operating system; what
\* clients, the clock and faults do is never assumed to happen.
Fairness ==
    /\ \A q \in Slots : WF_vars(SlotStep(q))
    /\ \A r \in RunIds : WF_vars(WorkerStep(r))

FairSpec == Spec /\ Fairness

-----------------------------------------------------------------------------
(* Properties.                                                             *)

Row == [user : Users \cup {NoUser}, status : {"absent", "running", "completed", "failed"},
        today : BOOLEAN,
        summary : [kind : {"none", "real", "synthetic"},
                   processed : Nat, errors : Nat, actions : Nat]]
Worker == [pc : InTry \cup InExcept \cup {"none", "end"}, user : Users \cup {NoUser},
           kind : {"none", "real", "synthetic"}, seen : SUBSET Assets,
           asset : Assets \cup {NoAsset}, classified : BOOLEAN,
           errors : Seq(ErrorStages), plan : Seq(ActionNames),
           processed : Nat, errorCount : Nat, actionCount : Nat]
SlotPcs == {"idle", "cap", "quota", "insert", "startAudit", "spawn", "revert", "undoAudit",
            "purgeRows", "purgeAudit", "purgeUser"}
Slot == [pc : SlotPcs, user : Users \cup {NoUser}, kind : {"none", "real", "synthetic"},
         run : RunIds \cup {0}]
AuditActions == {"scan.start", "scan.finish", "scan.failed", "scan.undo", "asset.locked.attempt"}

TablesTyped ==
    /\ users \subseteq Users
    /\ runs \in [RunIds -> Row]
    /\ nextRun \in 1..(MaxRuns + 1)
    /\ assetRows \subseteq Users \X Assets
    /\ analysed \subseteq Users \X Assets
    /\ actionRows \subseteq [run : RunIds, asset : Assets, step : Nat, name : ActionNames,
                             success : BOOLEAN]
    /\ errorRows \subseteq [run : RunIds, asset : Assets, step : Nat, stage : ErrorStages]
    /\ audit \subseteq [user : Users \cup {"user_deleted"}, action : AuditActions,
                        run : RunIds, asset : Assets \cup {NoAsset}]

\* Every table, thread and request holds what its declaration says.
TypeOK ==
    /\ TablesTyped
    /\ workers \in [RunIds -> Worker]
    /\ slots \in [Slots -> Slot]
    /\ faults \in 0..MaxFaults
    /\ lateRows \in [RunIds -> Nat]

\* Requests that were told "no active run" and have not inserted theirs yet.
Admitted(u) == {q \in Slots : slots[q].user = u /\ slots[q].pc \in {"quota", "insert"}}

\* What submit_scan's check-then-insert guarantees: the scans of one user that
\* run at once never outnumber the threads that can submit them.
CapBound ==
    \A u \in Users : Cardinality(Running(u)) + Cardinality(Admitted(u)) <= Cardinality(Slots)

\* The cap as submit_scan documents it: one active scan per user.
OneActiveScan == \A u \in Users : Cardinality(Running(u)) <= 1

\* The quota as submit_scan documents it: a user starts at most DailyQuota
\* scans a day.
DailyQuotaHolds ==
    \A u \in Users : Cardinality({r \in RunIds : runs[r].user = u /\ runs[r].today}) <= DailyQuota

\* A run has one writer for exactly as long as it is running: no thread works
\* for a run that has ended, and a running run has its thread or a request
\* about to start it.
Executing(r) == Live(r) \/ \E q \in Slots : slots[q].run = r /\ slots[q].pc \in {"startAudit", "spawn"}
WorkerOwnsRun ==
    \A r \in RunIds : Present(r) =>
        /\ Executing(r) => runs[r].status = "running"
        /\ faults = 0 /\ runs[r].status = "running" => Executing(r)

\* "scan already running" is only answered while the scan runs: a row that
\* blocks its user has a thread behind it.
RunningMeansActive == \A r \in RunIds : runs[r].status = "running" => Executing(r)

Audited(r, action) == \E x \in audit : x.run = r /\ x.action = action

\* Every run that ended has its start and its own outcome in the audit log,
\* never the other outcome, and each recorded Locked Folder action is audited.
AuditTrail ==
    \A r \in RunIds : runs[r].status \in {"completed", "failed"} =>
        /\ Audited(r, "scan.start")
        /\ runs[r].status = "completed" => Audited(r, "scan.finish") /\ ~Audited(r, "scan.failed")
        /\ runs[r].status = "failed" /\ workers[r].kind = "real" =>
               Audited(r, "scan.failed") /\ ~Audited(r, "scan.finish")
        /\ \A x \in actionRows : x.run = r /\ x.name = "lock" =>
               \E y \in audit : y.run = r /\ y.asset = x.asset

\* The summary of a completed run counts the rows the run left, whatever was
\* undone, purged or started around it.
SummaryMatchesRows ==
    \A r \in RunIds : runs[r].status = "completed" =>
        LET s == runs[r].summary
            rows == {x \in actionRows : x.run = r}
        IN  IF s.kind = "real"
            THEN /\ s.actions = Cardinality(rows)
                 /\ s.errors = Cardinality({x \in errorRows : x.run = r})
                 /\ s.processed = Cardinality({x.asset : x \in rows})
            ELSE s.processed = Cardinality(rows)

\* A purged account has no row left in any table, whichever threads were
\* working for it: actions and errors go with their runs.
PurgeErases ==
    \A u \in Users \ users :
        /\ \A r \in RunIds : runs[r].user # u
        /\ \A x \in assetRows \cup analysed : x[1] # u
        /\ \A x \in audit : x.user # u
        /\ \A x \in actionRows \cup errorRows : Present(x.run)

\* A thread whose run was purged inserts at most one more asset into an account
\* created again under the same id: the next write needs the run.
LateWritesBounded == \A r \in RunIds : lateRows[r] <= 1

\* The run lifecycle of ScanContract, read off the tables: an id below nextRun
\* whose row is gone was deleted.
RowKeys == Assets \X UNION {1..Len(o.plan) : o \in Outcomes \cup {SyntheticOutcome}}
KeysOf(rows) == {<<x.asset, x.step>> : x \in rows}
StatusOf(r) == IF Present(r) THEN runs[r].status ELSE IF r < nextRun THEN "deleted" ELSE "unused"
Contract == INSTANCE ScanContract WITH
    Keys    <- RowKeys,
    status  <- [r \in RunIds |-> StatusOf(r)],
    owner   <- [r \in RunIds |-> runs[r].user],
    rows    <- [r \in RunIds |-> KeysOf({x \in actionRows : x.run = r})],
    applied <- [r \in RunIds |-> KeysOf({x \in actionRows : x.run = r /\ x.success})]

\* Each step of a thread, a request or a fault is a step of the contract: a run
\* that has ended is frozen but for undo and account deletion, whatever runs
\* beside it, and its id is never used again.
ImplementsContract == Contract!Spec

\* What a run left when it ended stays until its account is deleted, whatever
\* undos, threads and faults follow: its outcome, its summary, its errors and
\* which actions it recorded; an undo takes successes back but adds none.
Left(r) == [status |-> runs[r].status, summary |-> runs[r].summary,
            errors |-> {x \in errorRows : x.run = r},
            actions |-> {[x EXCEPT !.success = FALSE] : x \in {y \in actionRows : y.run = r}}]
Succeeded(r) == {x \in actionRows : x.run = r /\ x.success}
EndedRunsStay ==
    [][\A r \in RunIds : runs[r].status \in {"completed", "failed"} /\ Present(r)' =>
          Left(r)' = Left(r) /\ Succeeded(r)' \subseteq Succeeded(r)]_vars

\* Every run ends, whatever fails or is purged on the way: while its process
\* lives it never stays "running".
RunsEnd == \A r \in RunIds : runs[r].status = "running" ~> runs[r].status # "running" \/ faults > 0
=============================================================================
