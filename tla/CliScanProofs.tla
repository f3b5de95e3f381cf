---------------------------- MODULE CliScanProofs ----------------------------
(***************************************************************************)
(* Proofs about the command-line scan: what it may decide and do under an  *)
(* accepted file, that changes in Immich and skipped assets can be         *)
(* explained from the rows, and that reports agree with the rows.          *)
(***************************************************************************)
EXTENDS CliScan, Integers, Folds, FiniteSetTheorems, SequenceTheorems, TLAPS

-----------------------------------------------------------------------------
(* The invariant.                                                           *)

Refs == [id : Assets, sum : Sums]
CategoriesOf == UNION {ToSet(Files[f].categories) : f \in DOMAIN Files}
Tally(K) == UNION {[S -> Nat] : S \in SUBSET K}
\* The codes that the actions of an accepted file can end with.
Codes == {"none", "missing_policy", "live_actions_not_enabled", "review_album_name_missing",
          "review_album_missing", "album_action_failed", "tag_unsupported", "tag_name_missing",
          "tag_missing", "tag_action_failed", "archive_unsupported", "archive_action_failed",
          "locked_folder_unsupported", "locked_folder_action_failed"}
Stages == {"extractor", "classifier", "decision", "action"}
Summaries == [processed : Nat, skipped : Nat, errors : Nat, by_category : Tally(CategoriesOf),
              intended : Tally(ALLOWED_ACTIONS)]
ClassRows == [asset : Assets, category : CategoriesOf, sum : Sums]
ActionRows == [asset : Assets, name : ALLOWED_ACTIONS, dry : BOOLEAN, would : BOOLEAN, success : BOOLEAN,
               error : Codes]
ErrorRows == [asset : Assets, stage : Stages, sum : Sums]
RunRows == [status : {"running", "succeeded", "completed_with_errors"}, dry : BOOLEAN,
            summary : Summaries, classes : Seq(ClassRows), actions : Seq(ActionRows),
            errors : Seq(ErrorRows)]
ResultRecords == [name : ALLOWED_ACTIONS, would : BOOLEAN, success : BOOLEAN, error : Codes, sent : BOOLEAN]
Entries == [category : CategoriesOf, actions : Seq(ALLOWED_ACTIONS)]
Steps == {"idle", "list", "classify", "extractor", "classifier", "decision", "act", "note", "action"}
Processes == [pc : Steps, file : DOMAIN Files \cup {"none"}, live : BOOLEAN, reprocess : BOOLEAN,
              page : SUBSET Refs, more : BOOLEAN, pages : Nat, ref : Refs \cup {NoRef},
              plan : [actions : Seq(ALLOWED_ACTIONS), error : {"none", "missing_policy"}],
              results : Seq(ResultRecords),
              done : Seq(Entries),
              skipped : Nat, errors : Nat]
AssetRows == [known : BOOLEAN, sum : Sums, processed : BOOLEAN]

Typed ==
    /\ library \in [Assets -> Sums] /\ assets \in [Assets -> AssetRows]
    /\ \A a \in Assets : ~assets[a].known => assets[a] = NoAsset
    /\ runs \in Seq(RunRows) /\ scan \in Processes
    /\ applied \subseteq Assets \X SIDE_EFFECT_ACTIONS
    /\ edits \in Nat /\ unlogged \subseteq Assets \X Sums

\* While a process scans it has a run and an accepted file.
Running ==
    scan.pc # "idle" =>
       /\ runs # <<>> /\ runs[run].status = "running"
       /\ scan.file \in DOMAIN Files /\ Accepts(Files[scan.file])

\* What the process holds at each step.
Acting == {"decision", "act", "note", "action"}
Holding ==
    /\ scan.pc = "idle" => scan = Idle
    /\ scan.pc = "list" => scan.ref = NoRef
    /\ scan.pc \notin {"idle", "list"} => scan.ref \in Refs
    /\ scan.pc \in {"list", "classify", "extractor", "classifier"} =>
         scan.plan = NoPlan /\ scan.results = <<>>
    /\ scan.pc = "decision" => scan.results = <<>>
    /\ scan.pc \in {"decision", "act"} =>
         /\ Len(scan.results) < Len(scan.plan.actions)
         /\ \A i \in DOMAIN scan.results : scan.results[i].name = scan.plan.actions[i]
    /\ scan.pc \in {"note", "action"} => scan.results # <<>>
    /\ scan.pc = "action" => ~ Head(scan.results).success

\* The assets in hand passed the filters, the actions in hand the validation.
Admitted ==
    /\ scan.pc # "idle" =>
         \A ref \in scan.page : Matches(Files[scan.file].scanner, Details[ref.id])
    /\ scan.pc \notin {"idle", "list"} => Matches(Files[scan.file].scanner, Details[scan.ref.id])
    /\ \A i \in DOMAIN scan.plan.actions :
         scan.plan.actions[i] = "archive" => Files[scan.file].archive

\* The rows of a run and what the process still has in hand explain every change.
HasClass(r, a) == \E i \in DOMAIN runs[r].classes : runs[r].classes[i].asset = a
Told(r, c) == \E i \in DOMAIN runs[r].actions : LET row == runs[r].actions[i] IN
                 row.asset = c[1] /\ row.name = c[2] /\ row.would
InHand(c) == \E i \in DOMAIN scan.results :
                /\ scan.pc = "action" => i # 1
                /\ c = <<scan.ref.id, scan.results[i].name>> /\ scan.results[i].would
Current(r) == r = run /\ scan.pc # "idle"
Explained ==
    /\ scan.pc \in Acting => HasClass(run, scan.ref.id)
    /\ \A c \in applied : \E r \in DOMAIN runs :
         /\ ~runs[r].dry /\ HasClass(r, c[1])
         /\ \/ runs[r].status = "running" /\ ~ Current(r)
            \/ Told(r, c)
            \/ Current(r) /\ InHand(c)

\* What rows and results call a success happened.
Happened ==
    /\ \A r \in DOMAIN runs : \A i \in DOMAIN runs[r].actions :
         LET row == runs[r].actions[i] IN
         row.success /\ row.would /\ ~row.dry => <<row.asset, row.name>> \in applied
    /\ scan.pc # "idle" => \A i \in DOMAIN scan.results : LET result == scan.results[i] IN
         result.success /\ result.would /\ ~runs[run].dry => <<scan.ref.id, result.name>> \in applied

\* The version of an asset's row has a row of its own, was kept from the log, or
\* is the one whose failure is about to be logged.
ClassRow(a) == \E r \in DOMAIN runs : \E i \in DOMAIN runs[r].classes : runs[r].classes[i].asset = a
ClassRowAt(a, s) == \E r \in DOMAIN runs : \E i \in DOMAIN runs[r].classes :
                       runs[r].classes[i].asset = a /\ runs[r].classes[i].sum = s
ErrorRowAt(a, s) == \E r \in DOMAIN runs : \E i \in DOMAIN runs[r].errors :
                       runs[r].errors[i].asset = a /\ runs[r].errors[i].sum = s
Traced ==
    \A a \in Assets : assets[a].processed =>
       /\ ClassRow(a)
       /\ \/ ClassRowAt(a, assets[a].sum) \/ ErrorRowAt(a, assets[a].sum)
          \/ <<a, assets[a].sum>> \in unlogged
          \/ /\ scan.pc \in {"extractor", "classifier"}
             /\ scan.ref = [id |-> a, sum |-> assets[a].sum]


CliInv == /\ Typed /\ Running /\ Holding /\ Admitted /\ Explained /\ Happened /\ Traced

-----------------------------------------------------------------------------

-----------------------------------------------------------------------------
(* What executing one action of a valid plan reports.                       *)

ResultFields == [would : BOOLEAN, success : BOOLEAN, error : Codes, sent : BOOLEAN]

LEMMA ExecuteOneIs ==
    ASSUME NEW plan, plan.error \in {"none", "missing_policy"}, NEW action \in ALLOWED_ACTIONS,
           NEW dry \in BOOLEAN, NEW client \in ClientSettings,
           action = "archive" => client.archiveOn,
           NEW result, result = ExecuteOne(plan, action, dry, client)
    PROVE  /\ result \in ResultFields
           /\ result.sent => result.would /\ ~dry /\ action \in SIDE_EFFECT_ACTIONS
           /\ result.success /\ result.would /\ ~dry => result.sent
<1> USE DEF Result, Failure, Call, ResultFields, ClientSettings, Codes
<1>1. action \notin DESTRUCTIVE_ACTIONS /\ action \in SUPPORTED_EXECUTOR_ACTIONS
    BY DEF ALLOWED_ACTIONS, DESTRUCTIVE_ACTIONS, SUPPORTED_EXECUTOR_ACTIONS,
           RECORD_ONLY_ACTIONS, SIDE_EFFECT_ACTIONS
<1>3. CASE action \in RECORD_ONLY_ACTIONS
    <2>1. result = Result(FALSE, TRUE, plan.error, FALSE)
        BY <1>1, <1>3 DEF ExecuteOne
    <2> QED BY <2>1
<1>4. CASE action \in SIDE_EFFECT_ACTIONS
    <2>1. /\ action \notin DESTRUCTIVE_ACTIONS /\ action \notin RECORD_ONLY_ACTIONS
          /\ action \in SUPPORTED_EXECUTOR_ACTIONS
        BY <1>1, <1>4 DEF SIDE_EFFECT_ACTIONS, RECORD_ONLY_ACTIONS
    <2>2. CASE dry
        <3>1. result = Result(TRUE, TRUE, "none", FALSE)
            BY <2>1, <2>2 DEF ExecuteOne
        <3>2. dry = TRUE
            BY <2>2
        <3>3. result \in ResultFields /\ result.sent = FALSE
            BY <3>1
        <3> QED BY <3>2, <3>3
    <2>3. CASE ~dry /\ ~ client.live
        <3>1. result = Failure(TRUE, "live_actions_not_enabled")
            BY <2>1, <2>3 DEF ExecuteOne
        <3> QED BY <2>3, <3>1
    <2>4. CASE ~ dry /\ client.live
        <3>1. CASE action = "add_to_review_album"
            <4>1. result = AddToReviewAlbum(client)
                BY <2>1, <2>4, <3>1 DEF ExecuteOne
            <4> QED BY <1>4, <2>4, <4>1 DEF AddToReviewAlbum
        <3>2. CASE action = "add_tag"
            <4>1. result = AddTag(client)
                BY <2>1, <2>4, <3>2 DEF ExecuteOne
            <4> QED BY <1>4, <2>4, <4>1 DEF AddTag
        <3>3. CASE action = "archive"
            <4>1. result = Archive(client)
                BY <2>1, <2>4, <3>3 DEF ExecuteOne
            <4>2. client.archiveOn
                BY <3>3
            <4>3. result = IF ~client.canArchive THEN Failure(TRUE, "archive_unsupported")
                           ELSE Call(client, "archive_action_failed")
                BY <4>1, <4>2 DEF Archive
            <4> QED BY <1>4, <2>4, <4>3
        <3>4. CASE action = "move_to_locked_folder"
            <4>1. result = MoveToLockedFolder(client)
                BY <2>1, <2>4, <3>4 DEF ExecuteOne
            <4> QED BY <1>4, <2>4, <4>1 DEF MoveToLockedFolder
        <3> QED BY <1>4, <3>1, <3>2, <3>3, <3>4 DEF SIDE_EFFECT_ACTIONS
    <2> QED BY <2>2, <2>3, <2>4
<1> QED BY <1>1, <1>3, <1>4 DEF SUPPORTED_EXECUTOR_ACTIONS

\* The decision under an accepted file.
LEMMA DecideIs ==
    ASSUME NEW file \in DOMAIN Files, Accepts(Files[file]),
           NEW category \in AppConfig(Files[file]).outcomes, NEW media,
           NEW plan, plan = decide(AppConfig(Files[file]), category, media)
    PROVE  /\ plan \in [actions : Seq(ALLOWED_ACTIONS), error : {"none", "missing_policy"}]
           /\ Len(plan.actions) > 0
           /\ category \in CategoriesOf
           /\ \A i \in DOMAIN plan.actions : plan.actions[i] = "archive" => Files[file].archive
<1> DEFINE f == Files[file]
           c == AppConfig(f)
           policy == IF category \in DOMAIN f.policies THEN f.policies[category] ELSE <<>>
<1>1. category \in ToSet(f.categories)
    BY DEF AppConfig, Accepts, ValidProfiles
<1>2. category \in CategoriesOf
    BY <1>1 DEF CategoriesOf
<1>3. c.categories = ToSet(f.categories) /\ c.policies = f.policies
    BY DEF AppConfig
<1>4. CASE media \notin DOMAIN policy
    <2>1. PICK only \in ALLOWED_ACTIONS : only = "no_action"
        BY DEF ALLOWED_ACTIONS
    <2>2. plan = [actions |-> <<only>>, error |-> "missing_policy"]
        BY <1>1, <1>3, <1>4, <2>1 DEF decide, ActionPlan, SAFE_NO_ACTION
    <2>3. /\ <<only>> \in Seq(ALLOWED_ACTIONS) /\ Len(<<only>>) > 0
          /\ \A i \in DOMAIN <<only>> : <<only>>[i] # "archive"
        BY <2>1
    <2>4. /\ plan \in [actions : Seq(ALLOWED_ACTIONS), error : {"none", "missing_policy"}]
          /\ plan.actions = <<only>>
        BY <2>2, <2>3
    <2> QED BY <1>2, <2>3, <2>4
<1>5. CASE media \in DOMAIN policy
    <2>1. category \in DOMAIN f.policies /\ media \in DOMAIN f.policies[category]
          /\ policy = f.policies[category]
        BY <1>5
    <2> DEFINE on_match == f.policies[category][media]
    <2>2. /\ on_match # <<>>
          /\ \A i \in DOMAIN on_match : ValidAction(on_match[i], f.archive)
        BY <2>1 DEF Accepts, ValidPolicies
    <2>3. on_match \in Seq(ToSet(on_match))
        BY <2>1, CliConstantsOK
    <2>4. plan = [actions |-> on_match, error |-> "none"]
        BY <1>1, <1>3, <2>1, <2>2 DEF decide, ActionPlan
    <2> HIDE DEF on_match
    <2>5. on_match \in Seq(ALLOWED_ACTIONS)
        BY <2>2, <2>3 DEF ValidAction
    <2>6. Len(on_match) > 0
        BY <2>2, <2>5, EmptySeq
    <2>7. \A i \in DOMAIN on_match : on_match[i] = "archive" => f.archive
        BY <2>2 DEF ValidAction
    <2>8. /\ plan.actions = on_match
          /\ plan \in [actions : Seq(ALLOWED_ACTIONS), error : {"none", "missing_policy"}]
        BY <2>4, <2>5
    <2> QED BY <1>2, <2>6, <2>7, <2>8
<1> QED BY <1>4, <1>5

\* A run takes rows.  What a step that adds a row to a run leaves as it was.
Longer(s, t) == Len(s) <= Len(t) /\ \A i \in DOMAIN s : t[i] = s[i]
Extends(r, s) == /\ Longer(r.classes, s.classes) /\ Longer(r.actions, s.actions)
                 /\ Longer(r.errors, s.errors)
Kept(s, t) ==
    /\ t \in Seq(RunRows) /\ Len(t) = Len(s)
    /\ \A r \in DOMAIN s : /\ t[r].status = s[r].status /\ t[r].dry = s[r].dry
                           /\ Extends(s[r], t[r])
                           /\ r # Len(s) => t[r] = s[r]

LEMMA SeqGrows ==
    ASSUME NEW S, NEW s \in Seq(S), NEW x \in S, NEW t, t = Append(s, x)
    PROVE  /\ t \in Seq(S) /\ Len(t) = Len(s) + 1 /\ t[Len(s) + 1] = x
           /\ \A i \in DOMAIN s : i \in DOMAIN t /\ t[i] = s[i]
           /\ \A i \in DOMAIN t : i \in DOMAIN s \/ i = Len(s) + 1
BY AppendProperties

LEMMA RowFields ==
    ASSUME NEW row \in RunRows
    PROVE  /\ row.classes \in Seq(ClassRows) /\ row.actions \in Seq(ActionRows)
           /\ row.errors \in Seq(ErrorRows) /\ row.dry \in BOOLEAN
           /\ row.status \in {"running", "succeeded", "completed_with_errors"}
           /\ row.summary \in Summaries
           /\ row = [status |-> row.status, dry |-> row.dry, summary |-> row.summary,
                     classes |-> row.classes, actions |-> row.actions, errors |-> row.errors]
BY DEF RunRows

LEMMA LongerItself ==
    ASSUME NEW S, NEW s \in Seq(S)
    PROVE  Longer(s, s)
BY DEF Longer

LEMMA LongerByOne ==
    ASSUME NEW S, NEW s \in Seq(S), NEW x \in S
    PROVE  Append(s, x) \in Seq(S) /\ Longer(s, Append(s, x))
BY AppendProperties DEF Longer

LEMMA ExtendsItself == \A row \in RunRows : Extends(row, row)
BY RowFields, LongerItself DEF Extends

\* Replacing the last run by one that extends it.
LEMMA KeepsRuns ==
    ASSUME NEW s \in Seq(RunRows), s # <<>>, NEW new \in RunRows, Extends(s[Len(s)], new),
           new.status = s[Len(s)].status, new.dry = s[Len(s)].dry,
           NEW t, t = [s EXCEPT ![Len(s)] = new]
    PROVE  Kept(s, t) /\ t[Len(s)] = new
<1>1. Len(s) \in DOMAIN s /\ DOMAIN s = 1 .. Len(s)
    BY EmptySeq
<1>2. \A i \in DOMAIN s : t[i] = IF i = Len(s) THEN new ELSE s[i]
    OBVIOUS
<1>3. t \in Seq(RunRows) /\ Len(t) = Len(s)
    BY <1>1, ExceptSeq
<1>4. \A r \in DOMAIN s : Extends(s[r], s[r])
    BY ExtendsItself, ElementOfSeq
<1> QED BY <1>1, <1>2, <1>3, <1>4 DEF Kept

LEMMA AddClass ==
    ASSUME NEW s \in Seq(RunRows), s # <<>>, NEW x \in ClassRows, NEW t,
           t = [s EXCEPT ![Len(s)]["classes"] = Append(@, x)]
    PROVE  /\ Kept(s, t) /\ t[Len(s)].classes = Append(s[Len(s)].classes, x)
           /\ t[Len(s)].actions = s[Len(s)].actions /\ t[Len(s)].errors = s[Len(s)].errors
           /\ t[Len(s)].summary = s[Len(s)].summary
<1>1. Len(s) \in DOMAIN s /\ s[Len(s)] \in RunRows
    BY EmptySeq
<1> DEFINE old == s[Len(s)]
           new == [old EXCEPT !.classes = Append(@, x)]
<1>2. /\ new.status = old.status /\ new.dry = old.dry /\ new.summary = old.summary
      /\ new.classes = Append(old.classes, x) /\ new.actions = old.actions
      /\ new.errors = old.errors
    BY <1>1, RowFields
<1>3. Append(old.classes, x) \in Seq(ClassRows)
    BY <1>1, RowFields, SeqGrows
<1>4. new \in RunRows
    BY <1>1, <1>3 DEF RunRows
<1>5. Extends(old, new)
    BY <1>1, <1>2, RowFields, LongerItself, LongerByOne DEF Extends
<1>6. t = [s EXCEPT ![Len(s)] = new]
    BY <1>1
<1> HIDE DEF new
<1> QED BY <1>1, <1>2, <1>4, <1>5, <1>6, KeepsRuns

LEMMA AddAction ==
    ASSUME NEW s \in Seq(RunRows), s # <<>>, NEW x \in ActionRows, NEW t,
           t = [s EXCEPT ![Len(s)]["actions"] = Append(@, x)]
    PROVE  /\ Kept(s, t) /\ t[Len(s)].actions = Append(s[Len(s)].actions, x)
           /\ t[Len(s)].classes = s[Len(s)].classes /\ t[Len(s)].errors = s[Len(s)].errors
           /\ t[Len(s)].summary = s[Len(s)].summary
<1>1. Len(s) \in DOMAIN s /\ s[Len(s)] \in RunRows
    BY EmptySeq
<1> DEFINE old == s[Len(s)]
           new == [old EXCEPT !.actions = Append(@, x)]
<1>2. /\ new.status = old.status /\ new.dry = old.dry /\ new.summary = old.summary
      /\ new.actions = Append(old.actions, x) /\ new.classes = old.classes
      /\ new.errors = old.errors
    BY <1>1, RowFields
<1>3. Append(old.actions, x) \in Seq(ActionRows)
    BY <1>1, RowFields, SeqGrows
<1>4. new \in RunRows
    BY <1>1, <1>3 DEF RunRows
<1>5. Extends(old, new)
    BY <1>1, <1>2, RowFields, LongerItself, LongerByOne DEF Extends
<1>6. t = [s EXCEPT ![Len(s)] = new]
    BY <1>1
<1> HIDE DEF new
<1> QED BY <1>1, <1>2, <1>4, <1>5, <1>6, KeepsRuns

LEMMA AddError ==
    ASSUME NEW s \in Seq(RunRows), s # <<>>, NEW x \in ErrorRows, NEW t,
           t = [s EXCEPT ![Len(s)]["errors"] = Append(@, x)]
    PROVE  /\ Kept(s, t) /\ t[Len(s)].errors = Append(s[Len(s)].errors, x)
           /\ t[Len(s)].actions = s[Len(s)].actions /\ t[Len(s)].classes = s[Len(s)].classes
           /\ t[Len(s)].summary = s[Len(s)].summary
<1>1. Len(s) \in DOMAIN s /\ s[Len(s)] \in RunRows
    BY EmptySeq
<1> DEFINE old == s[Len(s)]
           new == [old EXCEPT !.errors = Append(@, x)]
<1>2. /\ new.status = old.status /\ new.dry = old.dry /\ new.summary = old.summary
      /\ new.classes = old.classes /\ new.actions = old.actions
      /\ new.errors = Append(old.errors, x)
    BY <1>1, RowFields
<1>3. Append(old.errors, x) \in Seq(ErrorRows)
    BY <1>1, RowFields, SeqGrows
<1>4. new \in RunRows
    BY <1>1, <1>3 DEF RunRows
<1>5. Extends(old, new)
    BY <1>1, <1>2, RowFields, LongerItself, LongerByOne DEF Extends
<1>6. t = [s EXCEPT ![Len(s)] = new]
    BY <1>1
<1> HIDE DEF new
<1> QED BY <1>1, <1>2, <1>4, <1>5, <1>6, KeepsRuns

\* What rows told once they tell in the longer runs.
LEMMA Monotone ==
    ASSUME Typed, Kept(runs, runs')
    PROVE  /\ DOMAIN runs' = DOMAIN runs /\ run' = run
           /\ \A r \in DOMAIN runs : \A a : HasClass(r, a) => HasClass(r, a)'
           /\ \A r \in DOMAIN runs : \A c : Told(r, c) => Told(r, c)'
           /\ \A a : ClassRow(a) => ClassRow(a)'
           /\ \A a, s : ClassRowAt(a, s) => ClassRowAt(a, s)'
           /\ \A a, s : ErrorRowAt(a, s) => ErrorRowAt(a, s)'
<1>1. DOMAIN runs' = DOMAIN runs /\ run' = run
    BY DEF Typed, Kept, run
<1>2. ASSUME NEW r \in DOMAIN runs
      PROVE  /\ \A i \in DOMAIN runs[r].classes : /\ i \in DOMAIN runs'[r].classes
                                                 /\ runs'[r].classes[i] = runs[r].classes[i]
             /\ \A i \in DOMAIN runs[r].actions : /\ i \in DOMAIN runs'[r].actions
                                                 /\ runs'[r].actions[i] = runs[r].actions[i]
             /\ \A i \in DOMAIN runs[r].errors : /\ i \in DOMAIN runs'[r].errors
                                                /\ runs'[r].errors[i] = runs[r].errors[i]
    <2>1. runs[r] \in RunRows /\ runs'[r] \in RunRows
        BY <1>1, <1>2, ElementOfSeq DEF Typed, Kept
    <2>2. Extends(runs[r], runs'[r])
        BY <1>2 DEF Kept
    <2> QED BY <2>1, <2>2, RowFields DEF Extends, Longer
<1>3. \A r \in DOMAIN runs : \A a : HasClass(r, a) => HasClass(r, a)'
    BY <1>2 DEF HasClass
<1>4. \A r \in DOMAIN runs : \A c : Told(r, c) => Told(r, c)'
    BY <1>2 DEF Told
<1>5. \A a : ClassRow(a) => ClassRow(a)'
    BY <1>1, <1>2 DEF ClassRow
<1>6. \A a, s : ClassRowAt(a, s) => ClassRowAt(a, s)'
    BY <1>1, <1>2 DEF ClassRowAt
<1>7. \A a, s : ErrorRowAt(a, s) => ErrorRowAt(a, s)'
    BY <1>1, <1>2 DEF ErrorRowAt
<1> QED BY <1>1, <1>3, <1>4, <1>5, <1>6, <1>7

LEMMA RunIs ==
    ASSUME Typed
    PROVE  /\ run \in Nat /\ run' = Len(runs')
           /\ runs # <<>> => run \in DOMAIN runs /\ runs[run] \in RunRows
           /\ \A r \in DOMAIN runs : runs[r] \in RunRows
           /\ DOMAIN runs = 1 .. run
BY EmptySeq, ElementOfSeq DEF Typed, run

\* The fields of the process.
LEMMA ScanFields ==
    ASSUME Typed
    PROVE  /\ scan.pc \in Steps /\ scan.file \in DOMAIN Files \cup {"none"}
           /\ scan.page \in SUBSET Refs /\ scan.more \in BOOLEAN /\ scan.pages \in Nat
           /\ scan.live \in BOOLEAN /\ scan.reprocess \in BOOLEAN
           /\ scan.ref \in Refs \cup {NoRef}
           /\ scan.plan \in [actions : Seq(ALLOWED_ACTIONS), error : {"none", "missing_policy"}]
           /\ scan.results \in Seq(ResultRecords)
           /\ scan.done \in Seq(Entries)
           /\ scan.skipped \in Nat /\ scan.errors \in Nat
BY DEF Typed, Processes

LEMMA ConfigIs ==
    ASSUME Running, scan.pc # "idle"
    PROVE  Config = AppConfig(Files[scan.file]) /\ scan.file \in DOMAIN Files
           /\ Accepts(Files[scan.file])
BY DEF Running, Config, Loaded

LEMMA IdleIs ==
    /\ Idle \in Processes /\ Idle.pc = "idle" /\ Idle.page = {} /\ Idle.ref = NoRef
    /\ Idle.plan = NoPlan /\ Idle.plan.actions = <<>> /\ Idle.results = <<>> /\ Idle.done = <<>>
    /\ Idle.errors = 0 /\ Idle.file = "none"
<1>1. <<>> \in Seq(ALLOWED_ACTIONS) /\ <<>> \in Seq(ResultRecords)
      /\ <<>> \in Seq(Entries)
    OBVIOUS
<1>2. NoPlan \in [actions : Seq(ALLOWED_ACTIONS), error : {"none", "missing_policy"}]
      /\ NoPlan.actions = <<>>
    BY <1>1 DEF NoPlan, ActionPlan
<1> QED BY <1>1, <1>2 DEF Idle, Processes, Steps

-----------------------------------------------------------------------------
(* Every step keeps the invariant.                                          *)

\* Steps that leave what is explained alone.
Still == runs' = runs /\ applied' = applied /\ unlogged' = unlogged

LEMMA InitHolds == ASSUME Init PROVE CliInv
<1>1. Typed
    <2>1. library \in [Assets -> Sums]
        BY DEF Init
    <2>2. assets \in [Assets -> AssetRows] /\ \A a \in Assets : assets[a] = NoAsset
        BY DEF Init, NoAsset, AssetRows, Sums
    <2>3. runs \in Seq(RunRows) /\ applied = {} /\ edits = 0 /\ unlogged = {}
        BY DEF Init
    <2> QED BY <2>1, <2>2, <2>3, IdleIs DEF Init, Typed
<1>2. Running /\ Holding
    BY IdleIs DEF Init, Running, Holding, Acting
<1>3. Admitted
    BY IdleIs DEF Init, Admitted
<1>4. Explained /\ Happened
    BY IdleIs DEF Init, Explained, Happened, Acting
<1>5. Traced
    BY DEF Init, Traced, NoAsset
<1> QED BY <1>1, <1>2, <1>3, <1>4, <1>5 DEF CliInv

LEMMA StutterKeeps == ASSUME CliInv, UNCHANGED vars PROVE CliInv'
<1> USE DEF vars, CliInv
<1>1. Typed' /\ Running' /\ Holding' /\ Admitted'
    BY DEF Typed, Running, Holding, Admitted, run
<1>2. Explained' /\ Happened'
    BY DEF Explained, Happened, run, HasClass, Told, InHand, Current
<1>3. Traced'
    BY DEF Traced, ClassRow, ClassRowAt, ErrorRowAt
<1> QED BY <1>1, <1>2, <1>3

LEMMA EditAssetKeeps ==
    ASSUME CliInv, NEW a \in Assets, NEW sum \in Sums, EditAsset(a, sum)
    PROVE  CliInv'
<1>1. Typed'
    BY DEF CliInv, Typed, EditAsset
<1> QED BY <1>1 DEF CliInv, EditAsset, Running, Holding, Admitted, Explained, Happened, Traced, run,
           HasClass, Told, InHand, Current, ClassRow, ClassRowAt, ErrorRowAt

LEMMA StartRunKeeps ==
    ASSUME CliInv, NEW file \in DOMAIN Files, NEW configured \in BOOLEAN,
           NEW override \in BOOLEAN, NEW reprocess \in BOOLEAN,
           StartRun(file, configured, override, reprocess)
    PROVE  CliInv'
<1> USE DEF CliInv
<1> DEFINE dry == IF override THEN TRUE ELSE configured
           row == start_run(dry)
<1>1. row \in RunRows /\ row.status = "running" /\ row.classes = <<>> /\ row.actions = <<>>
      /\ row.errors = <<>> /\ row.dry = dry
    <2>1. NoSummary \in Summaries
        <3>1. \A K : <<>> \in Tally(K)
            <4>1. <<>> \in [{} -> Nat]
                OBVIOUS
            <4> QED BY <4>1 DEF Tally
        <3> QED BY <3>1 DEF NoSummary, Summaries
    <2>2. <<>> \in Seq(ClassRows) /\ <<>> \in Seq(ActionRows) /\ <<>> \in Seq(ErrorRows)
        OBVIOUS
    <2> QED BY <2>1, <2>2 DEF start_run, RunRows
<1> HIDE DEF row
<1>2. /\ runs' \in Seq(RunRows) /\ run' = run + 1 /\ runs'[run + 1] = row
      /\ \A r \in DOMAIN runs : r \in DOMAIN runs' /\ runs'[r] = runs[r]
      /\ \A r \in DOMAIN runs' : r \in DOMAIN runs \/ r = run + 1
    <2>1. runs' = Append(runs, row)
        BY DEF StartRun, row
    <2> QED BY <1>1, <2>1, SeqGrows DEF Typed, run
<1>3. /\ scan' \in Processes /\ scan'.pc = "list" /\ scan'.file = file /\ scan'.ref = NoRef
      /\ scan'.plan = NoPlan /\ scan'.results = <<>> /\ scan'.page = {} /\ scan'.plan.actions = <<>>
    <2> DEFINE s == [Idle EXCEPT !.pc = "list", !.file = file, !.live = ~configured,
                                 !.reprocess = reprocess, !.more = TRUE]
    <2>1. s \in Processes
        BY IdleIs DEF Processes, Steps
    <2>2. /\ s.pc = "list" /\ s.file = file /\ s.ref = Idle.ref /\ s.plan = Idle.plan
          /\ s.results = Idle.results /\ s.page = Idle.page
        BY IdleIs DEF Processes
    <2>3. scan' = s
        BY DEF StartRun
    <2> HIDE DEF s
    <2> QED BY <2>1, <2>2, <2>3, IdleIs
<1>4. /\ library' = library /\ assets' = assets /\ applied' = applied /\ edits' = edits
      /\ unlogged' = unlogged /\ scan.pc = "idle" /\ scan = Idle /\ Accepts(Files[file])
    BY DEF StartRun, Holding
<1>5. Typed'
    BY <1>2, <1>3, <1>4 DEF Typed
<1>6. Running'
    BY <1>1, <1>2, <1>3, <1>4, RunIs DEF Running, Typed
<1>7. Holding'
    BY <1>3 DEF Holding
<1>8. Admitted'
    BY <1>3 DEF Admitted
<1>9. Explained'
    <2>1. \A r \in DOMAIN runs : ~ Current(r)'
        BY <1>2, RunIs DEF Current
    <2>2. ASSUME NEW c \in applied
          PROVE  \E r \in DOMAIN runs : /\ ~runs[r].dry /\ HasClass(r, c[1])
                                        /\ runs[r].status = "running" \/ Told(r, c)
        BY <1>4, <2>2 DEF Explained, Current
    <2>3. \A r \in DOMAIN runs : \A c : /\ HasClass(r, c[1]) => HasClass(r, c[1])'
                                        /\ Told(r, c) => Told(r, c)'
        BY <1>2 DEF HasClass, Told
    <2>4. \A r \in DOMAIN runs : runs'[r].dry = runs[r].dry /\ runs'[r].status = runs[r].status
        BY <1>2
    <2>5. \A c \in applied' : \E r \in DOMAIN runs' :
             /\ ~runs'[r].dry /\ HasClass(r, c[1])'
             /\ (runs'[r].status = "running" /\ ~ Current(r)') \/ Told(r, c)'
        BY <1>2, <1>4, <2>1, <2>2, <2>3, <2>4
    <2> QED BY <1>3, <2>5 DEF Explained, Acting
<1>10. Happened'
    <2>1. ASSUME NEW r \in DOMAIN runs', NEW i \in DOMAIN runs'[r].actions
          PROVE  r \in DOMAIN runs /\ runs'[r] = runs[r]
        BY <1>1, <1>2
    <2> QED BY <1>3, <1>4, <2>1 DEF Happened
<1>11. Traced'
    <2>1. \A a : ClassRow(a) => ClassRow(a)'
        BY <1>2 DEF ClassRow
    <2>2. \A a, s : ClassRowAt(a, s) => ClassRowAt(a, s)'
        BY <1>2 DEF ClassRowAt
    <2>3. \A a, s : ErrorRowAt(a, s) => ErrorRowAt(a, s)'
        BY <1>2 DEF ErrorRowAt
    <2> QED BY <1>4, <2>1, <2>2, <2>3 DEF Traced
<1> QED BY <1>5, <1>6, <1>7, <1>8, <1>9, <1>10, <1>11

\* Steps of a process that add no row and change nothing in Immich.
LEMMA FetchPageKeeps == ASSUME CliInv, FetchPage PROVE CliInv'
<1> USE DEF CliInv
<1>1. PICK shown \in SUBSET Assets, more \in BOOLEAN :
         scan' = [scan EXCEPT !.page = {[id |-> a, sum |-> library[a]] :
                                          a \in {b \in shown : Matches(Config.filters, Details[b])}},
                              !.more = more, !.pages = IF more THEN @ + 1 ELSE 0]
    BY DEF FetchPage
<1> DEFINE page == {[id |-> a, sum |-> library[a]] :
                      a \in {b \in shown : Matches(Config.filters, Details[b])}}
<1>2. /\ page \in SUBSET Refs
      /\ \A ref \in page : Matches(Files[scan.file].scanner, Details[ref.id])
    <2>1. Config.filters = Files[scan.file].scanner
        BY ConfigIs DEF FetchPage, AppConfig
    <2>2. \A ref \in page : ref \in Refs /\ Matches(Config.filters, Details[ref.id])
        BY DEF Refs, Typed
    <2> QED BY <2>1, <2>2
<1> HIDE DEF page
<1>3. /\ scan' \in Processes /\ scan'.pc = "list" /\ scan'.page = page /\ scan'.file = scan.file
      /\ scan'.ref = scan.ref /\ scan'.plan = scan.plan /\ scan'.results = scan.results
      /\ scan.pc = "list"
    <2>1. PICK pages \in Nat : pages = IF more THEN scan.pages + 1 ELSE 0
        BY ScanFields
    <2>2. scan' = [scan EXCEPT !.page = page, !.more = more, !.pages = pages]
        BY <1>1, <2>1 DEF page
    <2>3. scan.pc = "list"
        BY DEF FetchPage
    <2> QED BY <1>2, <2>2, <2>3 DEF Typed, Processes
<1>4. /\ library' = library /\ assets' = assets /\ applied' = applied /\ edits' = edits
      /\ unlogged' = unlogged /\ runs' = runs
    BY DEF FetchPage
<1>5. Typed'
    BY <1>3, <1>4 DEF Typed
<1>6. Running' /\ Holding'
    BY <1>3, <1>4 DEF Running, Holding, run
<1>7. Admitted'
    BY <1>2, <1>3 DEF Admitted
<1>8. Explained' /\ Happened'
    BY <1>3, <1>4 DEF Explained, Happened, run, HasClass, Told, InHand, Current, Acting
<1>9. Traced'
    BY <1>3, <1>4 DEF Traced, ClassRow, ClassRowAt, ErrorRowAt
<1> QED BY <1>5, <1>6, <1>7, <1>8, <1>9

LEMMA ConsiderKeeps == ASSUME CliInv, NEW ref \in scan.page, Consider(ref) PROVE CliInv'
<1> USE DEF CliInv
<1>1. ref \in Refs /\ Matches(Files[scan.file].scanner, Details[ref.id])
    BY ScanFields DEF Consider, Admitted
<1>2. /\ scan' \in Processes /\ scan'.page \subseteq scan.page /\ scan'.file = scan.file
      /\ scan'.plan = scan.plan /\ scan'.results = scan.results /\ scan.pc = "list"
      /\ \/ scan'.pc = "list" /\ scan'.ref = scan.ref
         \/ scan'.pc = "classify" /\ scan'.ref = ref
    <2>1. CASE NeedsProcessing(assets[ref.id], ref.sum, scan.reprocess)
        BY <1>1, <2>1, ScanFields DEF Typed, Processes, Consider, Steps
    <2>2. CASE ~ NeedsProcessing(assets[ref.id], ref.sum, scan.reprocess)
        <3>1. PICK more \in Nat : more = scan.skipped + 1
            BY ScanFields
        <3>2. PICK page \in SUBSET Refs : page = scan.page \ {ref}
            BY ScanFields
        <3>3. scan' = [scan EXCEPT !.page = page, !.skipped = more]
            BY <2>2, <3>1, <3>2 DEF Consider
        <3>4. scan.pc = "list"
            BY DEF Consider
        <3> QED BY <3>2, <3>3, <3>4 DEF Typed, Processes
    <2> QED BY <2>1, <2>2
<1>3. /\ library' = library /\ assets' = assets /\ applied' = applied /\ edits' = edits
      /\ unlogged' = unlogged /\ runs' = runs
    BY DEF Consider
<1>4. Typed'
    BY <1>2, <1>3 DEF Typed
<1>5. Running' /\ Holding'
    BY <1>1, <1>2, <1>3 DEF Running, Holding, run
<1>6. Admitted'
    BY <1>1, <1>2 DEF Admitted
<1>7. Explained' /\ Happened'
    <2>1. scan.results = <<>> /\ scan'.results = <<>>
        BY <1>2 DEF Holding
    <2> QED BY <1>2, <1>3, <2>1 DEF Explained, Happened, run, HasClass, Told, InHand, Current, Acting
<1>8. Traced'
    BY <1>2, <1>3 DEF Traced, ClassRow, ClassRowAt, ErrorRowAt
<1> QED BY <1>4, <1>5, <1>6, <1>7, <1>8

LEMMA ClassifyFailsKeeps ==
    ASSUME CliInv, NEW stage \in {"extractor", "classifier"}, ClassifyFails(stage)
    PROVE  CliInv'
<1> USE DEF CliInv
<1>1. scan.ref \in Refs /\ scan.pc = "classify"
    BY DEF ClassifyFails, Holding
<1>2. /\ scan' \in Processes /\ scan'.page = scan.page /\ scan'.file = scan.file
      /\ scan'.plan = scan.plan /\ scan'.results = scan.results /\ scan'.pc = stage
      /\ scan'.ref = scan.ref
    <2>1. PICK more \in Nat : more = scan.errors + 1
        BY ScanFields
    <2>2. scan' = [scan EXCEPT !.pc = stage, !.errors = more]
        BY <2>1 DEF ClassifyFails
    <2> QED BY <2>2 DEF Typed, Processes, Steps
<1>3. /\ library' = library /\ runs' = runs /\ applied' = applied /\ edits' = edits
      /\ unlogged' = unlogged
    BY DEF ClassifyFails
<1> DEFINE new == [known |-> TRUE, sum |-> scan.ref.sum, processed |-> assets[scan.ref.id].processed]
<1>4. new \in AssetRows /\ scan.ref.id \in Assets
    BY <1>1 DEF Typed, AssetRows, Refs
<1>5. /\ assets' \in [Assets -> AssetRows] /\ assets'[scan.ref.id] = new
      /\ \A a \in Assets : a # scan.ref.id => assets'[a] = assets[a]
    BY <1>4 DEF Typed, ClassifyFails, Upserted
<1>6. Typed'
    BY <1>2, <1>3, <1>5 DEF Typed
<1>7. Running' /\ Holding'
    BY <1>1, <1>2, <1>3 DEF Running, Holding, run
<1>8. Admitted'
    BY <1>1, <1>2 DEF Admitted
<1>9. Explained' /\ Happened'
    <2>1. scan.results = <<>> /\ scan'.results = <<>>
        BY <1>1, <1>2 DEF Holding
    <2> QED BY <1>1, <1>2, <1>3, <2>1 DEF Explained, Happened, run, HasClass, Told, InHand, Current, Acting
<1>10. Traced'
    <2>1. scan'.ref = [id |-> scan.ref.id, sum |-> assets'[scan.ref.id].sum]
        BY <1>1, <1>2, <1>5 DEF Refs
    <2>2. ASSUME NEW a \in Assets, assets'[a].processed
          PROVE  assets[a].processed
        BY <1>4, <1>5, <2>2
    <2>3. ASSUME NEW a \in Assets, assets'[a].processed, a # scan.ref.id
          PROVE  \/ ClassRowAt(a, assets[a].sum) \/ ErrorRowAt(a, assets[a].sum)
                 \/ <<a, assets[a].sum>> \in unlogged
        BY <1>1, <2>2, <2>3 DEF Traced
    <2>4. ASSUME NEW a \in Assets, assets'[a].processed
          PROVE  /\ ClassRow(a)'
                 /\ \/ ClassRowAt(a, assets[a].sum)' \/ ErrorRowAt(a, assets[a].sum)'
                    \/ <<a, assets'[a].sum>> \in unlogged'
                    \/ scan'.ref = [id |-> a, sum |-> assets'[a].sum]
        <3>1. ClassRow(a)'
            BY <1>3, <2>2, <2>4 DEF Traced, ClassRow
        <3>2. CASE a = scan.ref.id
            BY <2>1, <3>1, <3>2
        <3>3. CASE a # scan.ref.id
            BY <1>3, <1>5, <2>3, <2>4, <3>1, <3>3 DEF ClassRowAt, ErrorRowAt
        <3> QED BY <3>2, <3>3
    <2> QED BY <1>2, <2>4 DEF Traced
<1> QED BY <1>6, <1>7, <1>8, <1>9, <1>10

\* Steps of a process that add a row to its run.
LEMMA TracedKept ==
    ASSUME Typed, Traced, Kept(runs, runs'), assets' = assets, unlogged' = unlogged,
           scan.pc \in {"extractor", "classifier"} =>
             \A a, s : scan.ref = [id |-> a, sum |-> s] => ErrorRowAt(a, s)'
    PROVE  Traced'
<1>1. ASSUME NEW a \in Assets, assets[a].processed
      PROVE  /\ ClassRow(a)'
             /\ \/ ClassRowAt(a, assets[a].sum)' \/ ErrorRowAt(a, assets[a].sum)'
                \/ <<a, assets[a].sum>> \in unlogged
    <2>1. PICK s : s = assets[a].sum
        OBVIOUS
    <2>2. ClassRow(a) => ClassRow(a)'
        BY Monotone
    <2>3. (ClassRowAt(a, s) => ClassRowAt(a, s)') /\ (ErrorRowAt(a, s) => ErrorRowAt(a, s)')
        BY Monotone
    <2>6. ClassRowAt(a, s)' \/ ErrorRowAt(a, s)' \/ <<a, s>> \in unlogged
        BY <1>1, <2>1, <2>3 DEF Traced
    <2>7. ClassRowAt(a, s)' => ClassRowAt(a, assets[a].sum)'
        BY <2>1 DEF ClassRowAt
    <2>8. ErrorRowAt(a, s)' => ErrorRowAt(a, assets[a].sum)'
        BY <2>1 DEF ErrorRowAt
    <2> QED BY <1>1, <2>1, <2>2, <2>6, <2>7, <2>8 DEF Traced
<1> QED BY <1>1 DEF Traced

LEMMA ExplainedKept ==
    ASSUME Typed, Explained, Kept(runs, runs'), applied' = applied,
           scan.pc # "idle", scan'.pc # "idle",
           (scan.pc \in Acting => HasClass(run, scan.ref.id))',
           \A c \in applied : InHand(c) => (InHand(c) \/ Told(run, c))'
    PROVE  Explained'
<1>1. DOMAIN runs' = DOMAIN runs /\ run' = run
    BY Monotone
<1>2. ASSUME NEW c \in applied
      PROVE  \E r \in DOMAIN runs' : /\ ~runs'[r].dry /\ HasClass(r, c[1])'
                                     /\ \/ runs'[r].status = "running" /\ ~ Current(r)'
                                        \/ Told(r, c)'
                                        \/ Current(r)' /\ InHand(c)'
    <2>1. PICK r \in DOMAIN runs : /\ ~runs[r].dry /\ HasClass(r, c[1])
                                   /\ \/ runs[r].status = "running" /\ ~ Current(r)
                                      \/ Told(r, c)
                                      \/ Current(r) /\ InHand(c)
        BY <1>2 DEF Explained
    <2>2. HasClass(r, c[1])' /\ (Told(r, c) => Told(r, c)')
        BY <2>1, Monotone
    <2>3. runs'[r].dry = runs[r].dry /\ runs'[r].status = runs[r].status
        BY <2>1 DEF Kept
    <2>4. Current(r)' = Current(r)
        BY <1>1 DEF Current
    <2>5. Current(r) /\ InHand(c) => (Current(r)' /\ InHand(c)') \/ Told(r, c)'
        BY <1>2, <2>4 DEF Current
    <2> QED BY <1>1, <2>1, <2>2, <2>3, <2>4, <2>5
<1> QED BY <1>2 DEF Explained

LEMMA RunningKept ==
    ASSUME Typed, Running, Kept(runs, runs'), scan'.file = scan.file, scan.pc # "idle"
    PROVE  Running' /\ run' = run /\ run \in DOMAIN runs /\ run \in DOMAIN runs'
           /\ runs'[run] \in RunRows /\ runs'[run].dry = runs[run].dry
<1>1. run \in DOMAIN runs /\ DOMAIN runs' = DOMAIN runs /\ run' = run
    BY RunIs, Monotone DEF Running
<1>2. runs'[run].status = runs[run].status /\ runs' # <<>> /\ runs'[run] \in RunRows
      /\ runs'[run].dry = runs[run].dry
    BY <1>1, ElementOfSeq, EmptySeq DEF Kept
<1> QED BY <1>1, <1>2 DEF Running

LEMMA RecordFailureKeeps == ASSUME CliInv, RecordFailure PROVE CliInv'
<1> USE DEF CliInv
<1>1. scan.ref \in Refs /\ scan.pc \in {"extractor", "classifier"} /\ runs # <<>>
    BY DEF RecordFailure, Holding, Running
<1> DEFINE row == ErrorRow(scan.ref.id, scan.pc, scan.ref.sum)
<1>2. row \in ErrorRows /\ row.asset = scan.ref.id /\ row.sum = scan.ref.sum
    BY <1>1 DEF ErrorRow, ErrorRows, Refs, Stages
<1> HIDE DEF row
<1>3. Kept(runs, runs') /\ runs'[run].errors = Append(runs[run].errors, row)
      /\ runs'[run].actions = runs[run].actions
    <2>1. runs' = [runs EXCEPT ![run]["errors"] = Append(@, row)]
        BY DEF RecordFailure, RecordError, InRun, row
    <2> QED BY <1>1, <1>2, <2>1, AddError DEF Typed, run
<1>4. /\ library' = library /\ assets' = assets /\ applied' = applied /\ edits' = edits
      /\ unlogged' = unlogged
    BY DEF RecordFailure
<1>5. /\ scan' \in Processes /\ scan'.page = scan.page /\ scan'.file = scan.file
      /\ scan'.plan = scan.plan /\ scan'.results = scan.results /\ scan'.pc = "list"
      /\ scan'.ref = NoRef
    BY DEF Typed, Processes, RecordFailure, Steps
<1>6. Running' /\ run' = run /\ run \in DOMAIN runs /\ run \in DOMAIN runs' /\ runs'[run] \in RunRows
      /\ runs'[run].dry = runs[run].dry
    BY <1>1, <1>3, <1>5, RunningKept
<1>7. Typed'
    BY <1>3, <1>4, <1>5 DEF Typed, Kept
<1>8. scan.results = <<>> /\ scan.plan = NoPlan
    BY <1>1 DEF Holding
<1>9. Holding' /\ Admitted'
    BY <1>1, <1>5, <1>8 DEF Holding, Admitted
<1>10. Explained'
    <2>1. \A c \in applied : ~ InHand(c)
        BY <1>8 DEF InHand
    <2> QED BY <1>1, <1>3, <1>4, <1>5, <2>1, ExplainedKept DEF Acting
<1>11. Happened'
    <2>1. ASSUME NEW r \in DOMAIN runs'
          PROVE  r \in DOMAIN runs /\ runs'[r].actions = runs[r].actions
        BY <1>3, Monotone DEF Kept, run
    <2> QED BY <1>4, <1>5, <1>8, <2>1 DEF Happened
<1>12. Traced'
    <2>1. Len(runs[run].errors) + 1 \in DOMAIN runs'[run].errors
          /\ runs'[run].errors[Len(runs[run].errors) + 1] = row
        BY <1>1, <1>2, <1>3, RunIs, RowFields, SeqGrows
    <2>2. ASSUME NEW a, NEW s, scan.ref = [id |-> a, sum |-> s]
          PROVE  ErrorRowAt(a, s)'
        BY <1>2, <1>6, <2>1, <2>2 DEF ErrorRowAt
    <2> QED BY <1>3, <1>4, <2>2, TracedKept
<1> QED BY <1>6, <1>7, <1>9, <1>10, <1>11, <1>12

LEMMA ClassifiedKeeps ==
    ASSUME CliInv, NEW category \in Config.outcomes, scan.pc = "classify", Classified(category)
    PROVE  CliInv'
<1> USE DEF CliInv
<1>1. scan.ref \in Refs /\ runs # <<>>
      /\ Matches(Files[scan.file].scanner, Details[scan.ref.id])
    BY DEF Holding, Running, Admitted
<1>2. Config = AppConfig(Files[scan.file]) /\ scan.file \in DOMAIN Files
      /\ Accepts(Files[scan.file])
    BY ConfigIs
<1> DEFINE plan == decide(Config, category, Details[scan.ref.id].media)
<1> HIDE DEF plan
<1>3. /\ plan \in [actions : Seq(ALLOWED_ACTIONS), error : {"none", "missing_policy"}]
      /\ Len(plan.actions) > 0 /\ category \in CategoriesOf
      /\ \A i \in DOMAIN plan.actions : plan.actions[i] = "archive" => Files[scan.file].archive
    BY <1>2, DecideIs DEF plan
<1> DEFINE row == [asset |-> scan.ref.id, category |-> category, sum |-> scan.ref.sum]
<1>4. row \in ClassRows /\ row.asset = scan.ref.id /\ row.sum = scan.ref.sum
    BY <1>1, <1>3 DEF ClassRows, Refs
<1> HIDE DEF row
<1>5. Kept(runs, runs') /\ runs'[run].classes = Append(runs[run].classes, row)
      /\ runs'[run].actions = runs[run].actions
    <2>1. runs' = [runs EXCEPT ![run]["classes"] = Append(@, row)]
        BY DEF Classified, InRun, row
    <2> QED BY <1>1, <1>4, <2>1, AddClass DEF Typed, run
<1>6. library' = library /\ applied' = applied /\ edits' = edits /\ unlogged' = unlogged
    BY DEF Classified
<1>7. /\ scan' \in Processes /\ scan'.page = scan.page /\ scan'.file = scan.file
      /\ scan'.plan = plan /\ scan'.results = scan.results /\ scan'.pc \in {"act", "decision"}
      /\ scan'.ref = scan.ref
    <2>1. PICK errors \in Nat : errors = IF plan.error = "none" THEN scan.errors ELSE scan.errors + 1
        BY ScanFields
    <2>2. PICK entry \in Entries :
             entry = [category |-> category, actions |-> plan.actions]
        BY <1>3 DEF Entries
    <2>3. PICK done \in Seq(Entries) :
             done = Append(scan.done, entry)
        <3>1. scan.done \in Seq(Entries)
            BY ScanFields
        <3>2. Append(scan.done, entry) \in Seq(Entries)
            BY <3>1, AppendProperties
        <3> QED BY <3>2
    <2>4. scan' = [scan EXCEPT !.plan = plan, !.done = done, !.errors = errors,
                               !.pc = IF plan.error = "none" THEN "act" ELSE "decision"]
        BY <2>1, <2>2, <2>3 DEF Classified, plan
    <2> QED BY <1>3, <2>3, <2>4 DEF Typed, Processes, Steps
<1> DEFINE new == [known |-> TRUE, sum |-> scan.ref.sum, processed |-> TRUE]
<1>8. new \in AssetRows /\ scan.ref.id \in Assets
    BY <1>1 DEF Typed, AssetRows, Refs
<1>9. /\ assets' \in [Assets -> AssetRows] /\ assets'[scan.ref.id] = new
      /\ \A a \in Assets : a # scan.ref.id => assets'[a] = assets[a]
    BY <1>8 DEF Typed, Classified, Upserted
<1>10. Typed'
    <2>1. runs' \in Seq(RunRows)
        BY <1>5 DEF Kept
    <2>2. \A a \in Assets : ~assets'[a].known => assets'[a] = NoAsset
        BY <1>9 DEF Typed
    <2> QED BY <1>6, <1>7, <1>9, <2>1, <2>2 DEF Typed
<1>11. Running' /\ run' = run /\ run \in DOMAIN runs /\ run \in DOMAIN runs' /\ runs'[run] \in RunRows
      /\ runs'[run].dry = runs[run].dry
    BY <1>1, <1>5, <1>7, RunningKept
<1>12. scan.results = <<>>
    BY DEF Holding
<1>13. Holding' /\ Admitted'
    <2>1. Holding'
        BY <1>1, <1>3, <1>7, <1>12 DEF Holding
    <2> QED BY <1>1, <1>3, <1>7, <2>1 DEF Admitted
<1>14. /\ Len(runs[run].classes) + 1 \in DOMAIN runs'[run].classes
       /\ runs'[run].classes[Len(runs[run].classes) + 1] = row
    BY <1>1, <1>4, <1>5, RunIs, RowFields, SeqGrows
<1>15. Explained'
    <2>1. \A c \in applied : ~ InHand(c)
        BY <1>12 DEF InHand
    <2>2. HasClass(run, scan.ref.id)'
        BY <1>4, <1>7, <1>11, <1>14 DEF HasClass
    <2> QED BY <1>5, <1>6, <1>7, <2>1, <2>2, ExplainedKept
<1>16. Happened'
    <2>1. ASSUME NEW r \in DOMAIN runs'
          PROVE  r \in DOMAIN runs /\ runs'[r].actions = runs[r].actions
        BY <1>5, Monotone DEF Kept, run
    <2> QED BY <1>6, <1>7, <1>12, <2>1 DEF Happened
<1>17. Traced'
    <2>1. ASSUME NEW a \in Assets, assets'[a].processed, a # scan.ref.id
          PROVE  /\ ClassRow(a)'
                 /\ \/ ClassRowAt(a, assets[a].sum)' \/ ErrorRowAt(a, assets[a].sum)'
                    \/ <<a, assets'[a].sum>> \in unlogged'
        <3>1. PICK s : s = assets[a].sum /\ s = assets'[a].sum
            BY <1>9, <2>1
        <3>2. ClassRow(a) /\ (ClassRowAt(a, s) \/ ErrorRowAt(a, s) \/ <<a, s>> \in unlogged)
            BY <1>9, <2>1, <3>1 DEF Traced
        <3>3. ClassRow(a)' /\ (ClassRowAt(a, s)' \/ ErrorRowAt(a, s)' \/ <<a, s>> \in unlogged)
            BY <1>5, <3>2, Monotone
        <3>4. ClassRowAt(a, s)' => ClassRowAt(a, assets[a].sum)'
            BY <3>1 DEF ClassRowAt
        <3>5. ErrorRowAt(a, s)' => ErrorRowAt(a, assets[a].sum)'
            BY <3>1 DEF ErrorRowAt
        <3> QED BY <1>6, <3>1, <3>3, <3>4, <3>5
    <2>2. ASSUME NEW a \in Assets, a = scan.ref.id
          PROVE  ClassRow(a)' /\ ClassRowAt(a, assets[a].sum)'
        BY <1>4, <1>9, <1>11, <1>14, <2>2 DEF ClassRow, ClassRowAt
    <2> QED BY <2>1, <2>2 DEF Traced
<1> QED BY <1>10, <1>11, <1>13, <1>15, <1>16, <1>17

LEMMA RecordDecisionErrorKeeps == ASSUME CliInv, RecordDecisionError PROVE CliInv'
<1> USE DEF CliInv
<1>1. scan.ref \in Refs /\ scan.pc = "decision" /\ runs # <<>>
    BY DEF RecordDecisionError, Holding, Running
<1> DEFINE row == ErrorRow(scan.ref.id, "decision", scan.ref.sum)
<1>2. row \in ErrorRows
    BY <1>1 DEF ErrorRow, ErrorRows, Refs, Stages
<1> HIDE DEF row
<1>3. Kept(runs, runs') /\ runs'[run].actions = runs[run].actions
    <2>1. runs' = [runs EXCEPT ![run]["errors"] = Append(@, row)]
        BY DEF RecordDecisionError, RecordError, InRun, row
    <2> QED BY <1>1, <1>2, <2>1, AddError DEF Typed, run
<1>4. /\ library' = library /\ assets' = assets /\ applied' = applied /\ edits' = edits
      /\ unlogged' = unlogged
    BY DEF RecordDecisionError
<1>5. /\ scan' \in Processes /\ scan'.page = scan.page /\ scan'.file = scan.file
      /\ scan'.plan = scan.plan /\ scan'.results = scan.results /\ scan'.pc = "act"
      /\ scan'.ref = scan.ref
    BY DEF Typed, Processes, RecordDecisionError, Steps
<1>6. Running' /\ run' = run /\ run \in DOMAIN runs /\ run \in DOMAIN runs' /\ runs'[run] \in RunRows
      /\ runs'[run].dry = runs[run].dry
    BY <1>1, <1>3, <1>5, RunningKept
<1>7. Typed'
    BY <1>3, <1>4, <1>5 DEF Typed, Kept
<1>8. scan.results = <<>>
    BY <1>1 DEF Holding
<1>9. Holding' /\ Admitted'
    BY <1>1, <1>5, <1>8 DEF Holding, Admitted
<1>10. Explained'
    <2>1. \A c \in applied : ~ InHand(c)
        BY <1>8 DEF InHand
    <2>2. HasClass(run, scan.ref.id)
        BY <1>1 DEF Explained, Acting
    <2>3. PICK a : a = scan.ref.id
        OBVIOUS
    <2>4. HasClass(run, a)'
        BY <1>3, <1>6, <2>2, <2>3, Monotone
    <2>5. HasClass(run, scan.ref.id)'
        BY <1>5, <2>3, <2>4 DEF HasClass
    <2> QED BY <1>1, <1>3, <1>4, <1>5, <2>1, <2>5, ExplainedKept
<1>11. Happened'
    <2>1. ASSUME NEW r \in DOMAIN runs'
          PROVE  r \in DOMAIN runs /\ runs'[r].actions = runs[r].actions
        BY <1>3, Monotone DEF Kept, run
    <2> QED BY <1>4, <1>5, <1>8, <2>1 DEF Happened
<1>12. Traced'
    BY <1>1, <1>3, <1>4, TracedKept
<1> QED BY <1>6, <1>7, <1>9, <1>10, <1>11, <1>12

LEMMA ExecuteActionKeeps ==
    ASSUME CliInv, NEW client \in Clients, ExecuteAction(client)
    PROVE  CliInv'
<1> USE DEF CliInv
<1> DEFINE action == scan.plan.actions[Len(scan.results) + 1]
           dry == runs[run].dry
           config == [client EXCEPT !.live = scan.live, !.archiveOn = Config.archive]
           result == ExecuteOne(scan.plan, action, dry, config)
           named == Named(action, result)
<1>1. scan.ref \in Refs /\ scan.pc = "act" /\ run \in DOMAIN runs /\ runs[run] \in RunRows
      /\ dry \in BOOLEAN /\ Len(scan.results) < Len(scan.plan.actions)
    BY RunIs, RowFields DEF ExecuteAction, Holding, Running
<1>2. Len(scan.results) + 1 \in DOMAIN scan.plan.actions /\ action \in ALLOWED_ACTIONS
    BY <1>1, ScanFields
<1>3. action = "archive" => config.archiveOn
    <2>1. Config.archive = Files[scan.file].archive
        BY <1>1, ConfigIs DEF AppConfig
    <2>2. action = "archive" => Files[scan.file].archive
        BY <1>2 DEF Admitted
    <2>3. config.archiveOn = Config.archive
        BY CliConstantsOK DEF ClientSettings
    <2> QED BY <2>1, <2>2, <2>3
<1>4. config \in ClientSettings
    <2>1. Config.archive \in BOOLEAN
        BY <1>1, ConfigIs, CliConstantsOK DEF AppConfig
    <2> QED BY <2>1, ScanFields, CliConstantsOK DEF ClientSettings
<1>5. /\ result \in ResultFields
      /\ result.sent => result.would /\ ~dry /\ action \in SIDE_EFFECT_ACTIONS
      /\ result.success /\ result.would /\ ~dry => result.sent
    <2>1. scan.plan.error \in {"none", "missing_policy"}
        BY ScanFields
    <2> HIDE DEF action, dry, config
    <2> QED BY <1>1, <1>2, <1>3, <1>4, <2>1, ExecuteOneIs
<1>6. /\ scan' = [scan EXCEPT !.results = Append(@, named),
                    !.pc = IF Len(scan.results) + 1 = Len(scan.plan.actions) THEN "note" ELSE "act"]
      /\ applied' \in (IF result.sent THEN {applied \cup {<<scan.ref.id, action>>}} ELSE {})
                      \cup (IF result.sent /\ result.success THEN {} ELSE {applied})
      /\ library' = library /\ assets' = assets /\ runs' = runs /\ edits' = edits
      /\ unlogged' = unlogged
    BY DEF ExecuteAction
<1> HIDE DEF action, dry, config, result
<1>7. /\ named \in ResultRecords /\ named.name = action /\ named.would = result.would
      /\ named.success = result.success
    BY <1>2, <1>5 DEF Named, ResultRecords, ResultFields
<1> HIDE DEF named
<1> DEFINE new == Append(scan.results, named)
<1>8. /\ new \in Seq(ResultRecords) /\ Len(new) = Len(scan.results) + 1
      /\ new[Len(scan.results) + 1] = named /\ Len(scan.results) + 1 \in DOMAIN new
      /\ \A i \in DOMAIN scan.results : i \in DOMAIN new /\ new[i] = scan.results[i]
      /\ \A i \in DOMAIN new : i \in DOMAIN scan.results \/ i = Len(scan.results) + 1
    BY <1>7, ScanFields, SeqGrows
<1> HIDE DEF new
<1>9. /\ scan' \in Processes /\ scan'.page = scan.page /\ scan'.file = scan.file
      /\ scan'.plan = scan.plan /\ scan'.results = new /\ scan'.ref = scan.ref
      /\ scan'.pc = IF Len(scan.results) + 1 = Len(scan.plan.actions) THEN "note" ELSE "act"
    <2>1. scan' = [scan EXCEPT !.results = new,
                    !.pc = IF Len(scan.results) + 1 = Len(scan.plan.actions) THEN "note" ELSE "act"]
        BY <1>6 DEF new
    <2> QED BY <1>8, <2>1 DEF Typed, Processes, Steps
<1>10. /\ applied \subseteq applied' /\ applied' \subseteq applied \cup {<<scan.ref.id, action>>}
       /\ applied' # applied => result.sent
       /\ result.sent /\ result.success => <<scan.ref.id, action>> \in applied'
    BY <1>6
<1>11. Typed'
    <2>1. <<scan.ref.id, action>> \in Assets \X SIDE_EFFECT_ACTIONS \/ ~ result.sent
        BY <1>1, <1>5 DEF Refs
    <2>2. applied' \subseteq Assets \X SIDE_EFFECT_ACTIONS
        BY <1>10, <2>1 DEF Typed
    <2> QED BY <1>6, <1>9, <2>2 DEF Typed
<1>12. Running'
    BY <1>1, <1>6, <1>9 DEF Running, run
<1>13. Holding'
    <2>1. \A i \in DOMAIN scan.results : scan.results[i].name = scan.plan.actions[i]
        BY <1>1 DEF Holding
    <2>2. \A i \in DOMAIN new : new[i].name = scan.plan.actions[i]
        BY <1>7, <1>8, <2>1 DEF action
    <2>3. new # <<>> /\ Len(scan.results) \in Nat /\ Len(scan.plan.actions) \in Nat
        BY <1>8, ScanFields, EmptySeq
    <2>4. CASE Len(scan.results) + 1 = Len(scan.plan.actions)
        BY <1>1, <1>9, <2>3, <2>4 DEF Holding
    <2>5. CASE Len(scan.results) + 1 # Len(scan.plan.actions)
        <3>1. Len(new) < Len(scan.plan.actions)
            BY <1>1, <1>8, <2>3, <2>5
        <3> QED BY <1>1, <1>9, <2>2, <2>5, <3>1 DEF Holding
    <2> QED BY <2>4, <2>5
<1>14. Admitted'
    BY <1>1, <1>9 DEF Admitted
<1>15. scan'.pc \in Acting /\ scan.pc \in Acting /\ scan'.pc # "action" /\ scan'.pc # "idle"
    BY <1>1, <1>9 DEF Acting
<1>16. Explained'
    <2>1. HasClass(run, scan.ref.id)
        BY <1>15 DEF Explained
    <2>2. ASSUME NEW c \in applied', c \notin applied
          PROVE  /\ run \in DOMAIN runs /\ ~runs[run].dry /\ HasClass(run, c[1])
                 /\ Current(run)' /\ InHand(c)'
        <3>1. c = <<scan.ref.id, action>> /\ result.sent
            BY <1>10, <2>2
        <3>2. c[1] = scan.ref.id /\ ~ runs[run].dry /\ result.would
            BY <1>5, <3>1 DEF dry
        <3>3. InHand(c)'
            BY <1>7, <1>8, <1>9, <1>15, <3>1, <3>2 DEF InHand
        <3>4. Current(run)'
            BY <1>6, <1>15 DEF Current, run
        <3> QED BY <1>1, <2>1, <3>2, <3>3, <3>4
    <2>3. ASSUME NEW c \in applied, InHand(c)
          PROVE  InHand(c)'
        BY <1>8, <1>9, <1>15, <2>3 DEF InHand
    <2>4. \A r : Current(r)' = Current(r)
        BY <1>1, <1>6, <1>15 DEF Current, run
    <2>5. \A r, a : HasClass(r, a)' = HasClass(r, a)
        BY <1>6 DEF HasClass
    <2>6. \A r, c : Told(r, c)' = Told(r, c)
        BY <1>6 DEF Told
    <2>7. (scan.pc \in Acting => HasClass(run, scan.ref.id))'
        BY <1>6, <1>9, <2>1 DEF HasClass, run
    <2>8. \A c \in applied' : \E r \in DOMAIN runs :
             /\ ~runs[r].dry /\ HasClass(r, c[1])
             /\ \/ runs[r].status = "running" /\ ~ Current(r)
                \/ Told(r, c)
                \/ Current(r)' /\ InHand(c)'
        <3>1. ASSUME NEW c \in applied
              PROVE  \E r \in DOMAIN runs :
                        /\ ~runs[r].dry /\ HasClass(r, c[1])
                        /\ \/ runs[r].status = "running" /\ ~ Current(r)
                           \/ Told(r, c)
                           \/ Current(r)' /\ InHand(c)'
            <4>1. PICK r \in DOMAIN runs :
                     /\ ~runs[r].dry /\ HasClass(r, c[1])
                     /\ \/ runs[r].status = "running" /\ ~ Current(r)
                        \/ Told(r, c)
                        \/ Current(r) /\ InHand(c)
                BY <3>1 DEF Explained
            <4> QED BY <2>3, <2>4, <3>1, <4>1
        <3>2. ASSUME NEW c \in applied', c \notin applied
              PROVE  \E r \in DOMAIN runs :
                        /\ ~runs[r].dry /\ HasClass(r, c[1]) /\ Current(r)' /\ InHand(c)'
            <4>1. PICK r \in DOMAIN runs : r = run
                BY <1>1
            <4>2. Current(run)' => Current(r)'
                BY <1>6, <4>1 DEF Current, run
            <4>3. HasClass(r, c[1]) /\ ~runs[r].dry /\ InHand(c)'
                BY <2>2, <3>2, <4>1
            <4> QED BY <2>2, <3>2, <4>2, <4>3
        <3> QED BY <3>1, <3>2
    <2> QED BY <1>6, <2>4, <2>5, <2>6, <2>7, <2>8 DEF Explained
<1>17. Happened'
    <2>1. ASSUME NEW i \in DOMAIN new, new[i].success, new[i].would, ~ dry
          PROVE  <<scan.ref.id, new[i].name>> \in applied'
        <3>1. CASE i \in DOMAIN scan.results
            BY <1>1, <1>8, <1>10, <2>1, <3>1 DEF Happened, dry
        <3>2. CASE i = Len(scan.results) + 1
            BY <1>5, <1>7, <1>8, <1>10, <2>1, <3>2
        <3> QED BY <1>8, <3>1, <3>2
    <2>2. runs'[run'].dry = dry
        BY <1>6 DEF dry, run
    <2> QED BY <1>6, <1>9, <1>10, <2>1, <2>2 DEF Happened
<1>18. Traced'
    BY <1>1, <1>6, <1>15 DEF Traced, ClassRow, ClassRowAt, ErrorRowAt, Acting
<1> QED BY <1>11, <1>12, <1>13, <1>14, <1>16, <1>17, <1>18

\* The next result of the same asset, or the list again.
LEMMA NextResultIs ==
    ASSUME Typed, scan.results # <<>>
    PROVE  /\ NextResult \in Processes /\ NextResult.page = scan.page /\ NextResult.file = scan.file
           /\ \/ /\ Len(scan.results) > 1 /\ NextResult.pc = "note" /\ NextResult.ref = scan.ref
                 /\ NextResult.plan = scan.plan /\ NextResult.results = Tail(scan.results)
              \/ /\ Len(scan.results) = 1 /\ NextResult.pc = "list" /\ NextResult.ref = NoRef
                 /\ NextResult.plan = NoPlan /\ NextResult.results = <<>>
           /\ NextResult.done = scan.done /\ NextResult.errors = scan.errors
           /\ Tail(scan.results) \in Seq(ResultRecords)
           /\ Len(Tail(scan.results)) = Len(scan.results) - 1
           /\ Head(scan.results) = scan.results[1] /\ Head(scan.results) \in ResultRecords
           /\ 1 \in DOMAIN scan.results
           /\ \A i \in DOMAIN scan.results : i # 1 =>
                i - 1 \in DOMAIN Tail(scan.results) /\ Tail(scan.results)[i - 1] = scan.results[i]
           /\ \A i \in DOMAIN Tail(scan.results) :
                i + 1 \in DOMAIN scan.results /\ Tail(scan.results)[i] = scan.results[i + 1]
<1>1. scan.results \in Seq(ResultRecords) /\ Len(scan.results) \in Nat /\ Len(scan.results) > 0
      /\ DOMAIN scan.results = 1 .. Len(scan.results)
    BY ScanFields, EmptySeq
<1> DEFINE rest == Tail(scan.results)
<1>2. /\ rest \in Seq(ResultRecords) /\ Len(rest) = Len(scan.results) - 1
      /\ \A i \in 1 .. Len(rest) : rest[i] = scan.results[i + 1]
      /\ Head(scan.results) = scan.results[1]
    BY <1>1, HeadTailProperties
<1>3. DOMAIN rest = 1 .. Len(rest)
    BY <1>2
<1> HIDE DEF rest
<1>4. \A i \in DOMAIN rest : i + 1 \in DOMAIN scan.results /\ rest[i] = scan.results[i + 1]
    BY <1>1, <1>2, <1>3
<1>5. \A i \in DOMAIN scan.results : i # 1 => i - 1 \in DOMAIN rest /\ rest[i - 1] = scan.results[i]
    BY <1>1, <1>2, <1>3
<1>6. 1 \in DOMAIN scan.results /\ Head(scan.results) \in ResultRecords
    BY <1>1, <1>2, ElementOfSeq
<1>7. CASE Len(scan.results) > 1
    <2>1. NextResult = [scan EXCEPT !.pc = "note", !.results = rest]
        BY <1>7 DEF NextResult, rest
    <2>2. /\ NextResult \in Processes /\ NextResult.page = scan.page /\ NextResult.file = scan.file
          /\ NextResult.pc = "note" /\ NextResult.ref = scan.ref
          /\ NextResult.plan = scan.plan /\ NextResult.results = rest
          /\ NextResult.done = scan.done /\ NextResult.errors = scan.errors
        BY <1>2, <2>1 DEF Typed, Processes, Steps
    <2> QED BY <1>2, <1>4, <1>5, <1>6, <1>7, <2>2 DEF rest
<1>8. CASE Len(scan.results) = 1
    <2>1. NextResult = [scan EXCEPT !.pc = "list", !.ref = NoRef, !.plan = NoPlan, !.results = <<>>]
        BY <1>8 DEF NextResult
    <2>2. Idle \in Processes /\ Idle.plan = NoPlan
        BY IdleIs
    <2>3. NoPlan \in [actions : Seq(ALLOWED_ACTIONS), error : {"none", "missing_policy"}]
          /\ <<>> \in Seq(ResultRecords)
        BY <2>2 DEF Processes
    <2>4. /\ NextResult \in Processes /\ NextResult.page = scan.page /\ NextResult.file = scan.file
          /\ NextResult.pc = "list" /\ NextResult.ref = NoRef
          /\ NextResult.plan = NoPlan /\ NextResult.results = <<>>
          /\ NextResult.done = scan.done /\ NextResult.errors = scan.errors
        BY <2>1, <2>3 DEF Typed, Processes, Steps
    <2> QED BY <1>2, <1>4, <1>5, <1>6, <1>8, <2>4 DEF rest
<1>9. Len(scan.results) > 1 \/ Len(scan.results) = 1
    <2>1. \A n \in Nat : n > 0 => n > 1 \/ n = 1
        OBVIOUS
    <2> QED BY <1>1, <2>1
<1> QED BY <1>7, <1>8, <1>9

LEMMA RecordActionErrorKeeps == ASSUME CliInv, RecordActionError PROVE CliInv'
<1> USE DEF CliInv
<1>1. scan.ref \in Refs /\ scan.pc = "action" /\ runs # <<>> /\ scan.results # <<>>
      /\ ~ Head(scan.results).success
    BY DEF RecordActionError, Holding, Running
<1> DEFINE row == ErrorRow(scan.ref.id, "action", scan.ref.sum)
<1>2. row \in ErrorRows
    BY <1>1 DEF ErrorRow, ErrorRows, Refs, Stages
<1> HIDE DEF row
<1>3. Kept(runs, runs') /\ runs'[run].actions = runs[run].actions
    <2>1. runs' = [runs EXCEPT ![run]["errors"] = Append(@, row)]
        BY DEF RecordActionError, RecordError, InRun, row
    <2> QED BY <1>1, <1>2, <2>1, AddError DEF Typed, run
<1>4. /\ library' = library /\ assets' = assets /\ applied' = applied /\ edits' = edits
      /\ unlogged' = unlogged /\ scan' = NextResult
    BY DEF RecordActionError
<1>5. /\ scan' \in Processes /\ scan'.page = scan.page /\ scan'.file = scan.file
      /\ \/ /\ Len(scan.results) > 1 /\ scan'.pc = "note" /\ scan'.ref = scan.ref
            /\ scan'.plan = scan.plan /\ scan'.results = Tail(scan.results)
         \/ /\ Len(scan.results) = 1 /\ scan'.pc = "list" /\ scan'.ref = NoRef
            /\ scan'.plan = NoPlan /\ scan'.results = <<>>
    BY <1>1, <1>4, NextResultIs
<1>6. Running' /\ run' = run /\ run \in DOMAIN runs /\ run \in DOMAIN runs' /\ runs'[run] \in RunRows
      /\ runs'[run].dry = runs[run].dry
    BY <1>1, <1>3, <1>5, RunningKept
<1>7. Typed'
    BY <1>3, <1>4, <1>5 DEF Typed, Kept
<1>8. Holding'
    <2>1. Len(scan.results) > 1 => Tail(scan.results) # <<>>
        <3>1. PICK n \in Nat : n = Len(scan.results)
            BY ScanFields
        <3>2. Len(Tail(scan.results)) = n - 1
            BY <1>1, <3>1, NextResultIs
        <3>3. \A k \in Nat : k > 1 => k - 1 # 0
            OBVIOUS
        <3> QED BY <3>1, <3>2, <3>3
    <2> QED BY <1>1, <1>5, <2>1 DEF Holding
<1>9. Admitted'
    <2>1. NoPlan.actions = <<>>
        BY IdleIs
    <2> QED BY <1>1, <1>5, <2>1 DEF Admitted
<1>10. Explained'
    <2>1. ASSUME NEW c \in applied, InHand(c) PROVE InHand(c)'
        <3>1. PICK i \in DOMAIN scan.results :
                 i # 1 /\ c = <<scan.ref.id, scan.results[i].name>> /\ scan.results[i].would
            BY <1>1, <2>1 DEF InHand
        <3>2. /\ i - 1 \in DOMAIN Tail(scan.results) /\ Tail(scan.results)[i - 1] = scan.results[i]
              /\ Len(scan.results) # 1
            BY <1>1, <3>1, NextResultIs, ScanFields
        <3> QED BY <1>5, <3>1, <3>2 DEF InHand
    <2>2. HasClass(run, scan.ref.id)
        BY <1>1 DEF Explained, Acting
    <2>3. PICK a : a = scan.ref.id
        OBVIOUS
    <2>4. HasClass(run, a)'
        BY <1>3, <1>6, <2>2, <2>3, Monotone
    <2>5. (scan.pc \in Acting => HasClass(run, scan.ref.id))'
        BY <1>5, <2>3, <2>4 DEF HasClass, Acting
    <2> QED BY <1>1, <1>3, <1>4, <1>5, <2>1, <2>5, ExplainedKept
<1>11. Happened'
    <2>1. ASSUME NEW r \in DOMAIN runs'
          PROVE  r \in DOMAIN runs /\ runs'[r].actions = runs[r].actions
        BY <1>3, Monotone DEF Kept, run
    <2>2. ASSUME NEW i \in DOMAIN scan'.results, scan'.results[i].success, scan'.results[i].would,
                 ~runs[run].dry
          PROVE  <<scan'.ref.id, scan'.results[i].name>> \in applied
        <3>1. /\ i + 1 \in DOMAIN scan.results /\ scan'.results[i] = scan.results[i + 1]
              /\ scan'.ref = scan.ref
            <4>1. scan'.results = Tail(scan.results) /\ scan'.ref = scan.ref
                BY <1>5, <2>2
            <4> QED BY <1>1, <2>2, <4>1, NextResultIs
        <3> QED BY <1>1, <2>2, <3>1 DEF Happened
    <2> QED BY <1>4, <1>6, <2>1, <2>2 DEF Happened
<1>12. Traced'
    BY <1>1, <1>3, <1>4, TracedKept
<1> QED BY <1>6, <1>7, <1>8, <1>9, <1>10, <1>11, <1>12

LEMMA RecordActionKeeps == ASSUME CliInv, RecordAction PROVE CliInv'
<1> USE DEF CliInv
<1> DEFINE result == Head(scan.results)
           row == ActionRow(result)
<1>1. scan.ref \in Refs /\ scan.pc = "note" /\ runs # <<>> /\ scan.results # <<>>
      /\ run \in DOMAIN runs /\ runs[run] \in RunRows
    BY RunIs DEF RecordAction, Holding, Running
<1>2. result \in ResultRecords /\ result = scan.results[1] /\ 1 \in DOMAIN scan.results
    BY <1>1, NextResultIs
<1> HIDE DEF result
<1>3. /\ row \in ActionRows /\ row.asset = scan.ref.id /\ row.name = result.name
      /\ row.would = result.would /\ row.success = result.success /\ row.dry = runs[run].dry
    <2>1. runs[run].dry \in BOOLEAN /\ scan.ref.id \in Assets
        BY <1>1, RowFields DEF Refs
    <2> QED BY <1>2, <2>1 DEF ActionRow, ActionRows, ResultRecords
<1> HIDE DEF row
<1>4. Kept(runs, runs') /\ runs'[run].actions = Append(runs[run].actions, row)
    <2>1. runs' = [runs EXCEPT ![run]["actions"] = Append(@, row)]
        BY DEF RecordAction, InRun, row, result
    <2> QED BY <1>1, <1>3, <2>1, AddAction DEF Typed, run
<1>5. /\ library' = library /\ assets' = assets /\ applied' = applied /\ edits' = edits
      /\ unlogged' = unlogged
    BY DEF RecordAction
<1>6. /\ scan' \in Processes /\ scan'.page = scan.page /\ scan'.file = scan.file
      /\ \/ /\ result.success
            /\ Len(scan.results) > 1 /\ scan'.pc = "note" /\ scan'.ref = scan.ref
            /\ scan'.plan = scan.plan /\ scan'.results = Tail(scan.results)
         \/ /\ result.success
            /\ Len(scan.results) = 1 /\ scan'.pc = "list" /\ scan'.ref = NoRef
            /\ scan'.plan = NoPlan /\ scan'.results = <<>>
         \/ /\ ~result.success /\ scan'.pc = "action" /\ scan'.ref = scan.ref
            /\ scan'.plan = scan.plan /\ scan'.results = scan.results
    <2>1. CASE result.success
        <3>1. scan' = NextResult
            BY <2>1 DEF RecordAction, result
        <3> QED BY <1>1, <2>1, <3>1, NextResultIs
    <2>2. CASE ~result.success
        <3>1. PICK more \in Nat : more = scan.errors + 1
            BY ScanFields
        <3>2. scan' = [scan EXCEPT !.pc = "action", !.errors = more]
            BY <2>2, <3>1 DEF RecordAction, result
        <3> QED BY <2>2, <3>2 DEF Typed, Processes, Steps
    <2> QED BY <2>1, <2>2
<1>7. Running' /\ run' = run /\ run \in DOMAIN runs' /\ runs'[run] \in RunRows
      /\ runs'[run].dry = runs[run].dry
    BY <1>1, <1>4, <1>6, RunningKept
<1>8. Typed'
    BY <1>4, <1>5, <1>6 DEF Typed, Kept
<1>9. Holding'
    <2>1. Len(scan.results) > 1 => Tail(scan.results) # <<>>
        <3>1. PICK n \in Nat : n = Len(scan.results)
            BY ScanFields
        <3>2. Len(Tail(scan.results)) = n - 1
            BY <1>1, <3>1, NextResultIs
        <3>3. \A k \in Nat : k > 1 => k - 1 # 0
            OBVIOUS
        <3> QED BY <3>1, <3>2, <3>3
    <2>2. scan'.results = scan.results => Head(scan'.results) = result
        BY DEF result
    <2> QED BY <1>1, <1>6, <2>1, <2>2 DEF Holding
<1>10. Admitted'
    <2>1. NoPlan.actions = <<>>
        BY IdleIs
    <2> QED BY <1>1, <1>6, <2>1 DEF Admitted
<1>11. /\ Len(runs[run].actions) + 1 \in DOMAIN runs'[run].actions
       /\ runs'[run].actions[Len(runs[run].actions) + 1] = row
       /\ \A i \in DOMAIN runs'[run].actions :
            \/ i \in DOMAIN runs[run].actions /\ runs'[run].actions[i] = runs[run].actions[i]
            \/ i = Len(runs[run].actions) + 1
    BY <1>1, <1>3, <1>4, RowFields, SeqGrows
<1>12. Explained'
    <2>1. ASSUME NEW c \in applied, InHand(c) PROVE (InHand(c) \/ Told(run, c))'
        <3>1. PICK i \in DOMAIN scan.results :
                 c = <<scan.ref.id, scan.results[i].name>> /\ scan.results[i].would
            BY <2>1 DEF InHand
        <3>2. CASE i = 1
            <4>1. c[1] = row.asset /\ c[2] = row.name /\ row.would
                BY <1>2, <1>3, <3>1, <3>2
            <4>2. Told(run, c)'
                BY <1>7, <1>11, <4>1 DEF Told
            <4> QED BY <4>2
        <3>3. CASE i # 1 /\ result.success
            <4>1. /\ i - 1 \in DOMAIN Tail(scan.results) /\ Len(scan.results) # 1
                  /\ Tail(scan.results)[i - 1] = scan.results[i]
                BY <1>1, <3>1, <3>3, NextResultIs, ScanFields
            <4> QED BY <1>6, <3>1, <3>3, <4>1 DEF InHand
        <3>4. CASE i # 1 /\ ~result.success
            BY <1>6, <3>1, <3>4 DEF InHand
        <3> QED BY <3>2, <3>3, <3>4
    <2>2. HasClass(run, scan.ref.id)
        BY <1>1 DEF Explained, Acting
    <2>3. PICK a : a = scan.ref.id
        OBVIOUS
    <2>4. HasClass(run, a)'
        BY <1>1, <1>4, <2>2, <2>3, Monotone
    <2>5. (scan.pc \in Acting => HasClass(run, scan.ref.id))'
        BY <1>6, <2>3, <2>4 DEF HasClass, Acting
    <2> QED BY <1>1, <1>4, <1>5, <1>6, <2>1, <2>5, ExplainedKept
<1>13. Happened'
    <2>1. ASSUME NEW r \in DOMAIN runs', NEW i \in DOMAIN runs'[r].actions,
                 runs'[r].actions[i].success, runs'[r].actions[i].would, ~runs'[r].actions[i].dry
          PROVE  <<runs'[r].actions[i].asset, runs'[r].actions[i].name>> \in applied
        <3>1. r \in DOMAIN runs /\ (r # run => runs'[r] = runs[r])
            BY <1>4, Monotone DEF Kept, run
        <3>2. CASE r = run /\ i = Len(runs[run].actions) + 1
            BY <1>1, <1>2, <1>3, <1>11, <2>1, <3>2 DEF Happened
        <3>3. CASE ~(r = run /\ i = Len(runs[run].actions) + 1)
            <4>1. i \in DOMAIN runs[r].actions /\ runs'[r].actions[i] = runs[r].actions[i]
                BY <1>11, <3>1, <3>3
            <4> QED BY <2>1, <3>1, <4>1 DEF Happened
        <3> QED BY <3>2, <3>3
    <2>2. ASSUME NEW i \in DOMAIN scan'.results, scan'.results[i].success, scan'.results[i].would,
                 ~runs[run].dry
          PROVE  <<scan'.ref.id, scan'.results[i].name>> \in applied
        <3>1. CASE scan'.results = scan.results
            BY <1>1, <1>6, <2>2, <3>1 DEF Happened
        <3>2. CASE scan'.results = Tail(scan.results)
            <4>1. i + 1 \in DOMAIN scan.results /\ scan'.results[i] = scan.results[i + 1]
                BY <1>1, <2>2, <3>2, NextResultIs
            <4>2. scan'.ref = scan.ref
                BY <1>6, <2>2
            <4> QED BY <1>1, <2>2, <4>1, <4>2 DEF Happened
        <3> QED BY <1>6, <2>2, <3>1, <3>2
    <2> QED BY <1>5, <1>7, <2>1, <2>2 DEF Happened
<1>14. Traced'
    BY <1>1, <1>4, <1>5, TracedKept
<1> QED BY <1>7, <1>8, <1>9, <1>10, <1>12, <1>13, <1>14

LEMMA FinishRunKeeps == ASSUME CliInv, summarize_scan \in Summaries, FinishRun PROVE CliInv'
<1> USE DEF CliInv
<1>1. scan.pc = "list" /\ run \in DOMAIN runs /\ runs[run] \in RunRows /\ scan.results = <<>>
    BY RunIs DEF FinishRun, Holding, Running
<1> DEFINE new == finish_run(runs[run], summarize_scan)
<1>2. /\ new \in RunRows /\ new.dry = runs[run].dry /\ new.classes = runs[run].classes
      /\ new.actions = runs[run].actions /\ new.errors = runs[run].errors
    BY <1>1 DEF finish_run, RunRows
<1>3. /\ library' = library /\ assets' = assets /\ applied' = applied /\ edits' = edits
      /\ unlogged' = unlogged /\ scan' = Idle /\ runs' = [runs EXCEPT ![run] = new]
    BY <1>1 DEF FinishRun
<1> HIDE DEF new
<1>4. /\ runs' \in Seq(RunRows) /\ DOMAIN runs' = DOMAIN runs /\ run' = run /\ runs'[run] = new
      /\ \A r \in DOMAIN runs : r # run => runs'[r] = runs[r]
    <2>1. run \in 1 .. Len(runs) /\ DOMAIN runs = 1 .. Len(runs) /\ runs \in Seq(RunRows)
        BY <1>1, RunIs DEF Typed, run
    <2>2. runs' \in Seq(RunRows) /\ Len(runs') = Len(runs)
        BY <1>2, <1>3, <2>1, ExceptSeq
    <2> QED BY <1>3, <2>1, <2>2 DEF run
<1>5. \A r \in DOMAIN runs : /\ runs'[r].dry = runs[r].dry /\ runs'[r].classes = runs[r].classes
                             /\ runs'[r].actions = runs[r].actions /\ runs'[r].errors = runs[r].errors
    BY <1>2, <1>4
<1>6. Typed' /\ Running' /\ Holding' /\ Admitted'
    <2>1. Typed'
        BY <1>3, <1>4, IdleIs DEF Typed
    <2> QED BY <1>3, <2>1, IdleIs DEF Running, Holding, Admitted
<1>7. Explained'
    <2>1. ASSUME NEW c \in applied
          PROVE  \E r \in DOMAIN runs' : /\ ~runs'[r].dry /\ HasClass(r, c[1])'
                                         /\ (runs'[r].status = "running" /\ ~ Current(r)') \/ Told(r, c)'
        <3>1. PICK r \in DOMAIN runs : /\ ~runs[r].dry /\ HasClass(r, c[1])
                                       /\ \/ runs[r].status = "running" /\ ~ Current(r)
                                          \/ Told(r, c)
                                          \/ Current(r) /\ InHand(c)
            BY <2>1 DEF Explained
        <3>2. ~ InHand(c) /\ ~ Current(r)'
            BY <1>1, <1>3, IdleIs DEF InHand, Current
        <3>3. (HasClass(r, c[1]) => HasClass(r, c[1])') /\ (Told(r, c) => Told(r, c)')
            BY <1>5 DEF HasClass, Told
        <3>4. ~ Current(r) => r # run
            BY <1>1 DEF Current
        <3> QED BY <1>4, <1>5, <3>1, <3>2, <3>3, <3>4
    <2> QED BY <1>3, <2>1, IdleIs DEF Explained, Acting
<1>8. Happened'
    <2>1. ASSUME NEW r \in DOMAIN runs', NEW i \in DOMAIN runs'[r].actions,
                 runs'[r].actions[i].success, runs'[r].actions[i].would, ~runs'[r].actions[i].dry
          PROVE  <<runs'[r].actions[i].asset, runs'[r].actions[i].name>> \in applied'
        <3>1. r \in DOMAIN runs /\ runs'[r].actions = runs[r].actions
            BY <1>4, <1>5
        <3> QED BY <1>3, <2>1, <3>1 DEF Happened
    <2>2. scan'.pc = "idle"
        BY <1>3, IdleIs
    <2> QED BY <2>1, <2>2 DEF Happened
<1>9. Traced'
    <2>1. \A a : ClassRow(a) => ClassRow(a)'
        BY <1>4, <1>5 DEF ClassRow
    <2>2. \A a, s : ClassRowAt(a, s) => ClassRowAt(a, s)'
        BY <1>4, <1>5 DEF ClassRowAt
    <2>3. \A a, s : ErrorRowAt(a, s) => ErrorRowAt(a, s)'
        BY <1>4, <1>5 DEF ErrorRowAt
    <2> QED BY <1>1, <1>3, <2>1, <2>2, <2>3 DEF Traced
<1> QED BY <1>6, <1>7, <1>8, <1>9

LEMMA InterruptKeeps == ASSUME CliInv, Interrupt PROVE CliInv'
<1> USE DEF CliInv
<1>1. /\ library' = library /\ assets' = assets /\ applied' = applied /\ edits' = edits
      /\ runs' = runs /\ scan' = Idle /\ unlogged \subseteq unlogged' /\ scan.pc # "idle"
      /\ scan.pc \in {"extractor", "classifier"} => <<scan.ref.id, scan.ref.sum>> \in unlogged'
    BY DEF Interrupt
<1>2. Typed'
    <2>1. unlogged' \subseteq Assets \X Sums
        <3>1. scan.pc \in {"extractor", "classifier"} => <<scan.ref.id, scan.ref.sum>> \in Assets \X Sums
            BY DEF Holding, Refs
        <3> QED BY <3>1 DEF Interrupt, Typed
    <2> QED BY <1>1, <2>1, IdleIs DEF Typed
<1>3. Running' /\ Holding' /\ Admitted'
    BY <1>1, IdleIs DEF Running, Holding, Admitted
<1>4. Explained'
    <2>1. \A r : ~ Current(r)'
        BY <1>1, IdleIs DEF Current
    <2>2. \A r : Current(r) => runs[r].status = "running"
        BY DEF Current, Running
    <2>3. \A r, c : HasClass(r, c)' = HasClass(r, c) /\ Told(r, c)' = Told(r, c)
        BY <1>1 DEF HasClass, Told
    <2> QED BY <1>1, <2>1, <2>2, <2>3, IdleIs DEF Explained, Acting
<1>5. Happened'
    BY <1>1, IdleIs DEF Happened
<1>6. Traced'
    <2>1. ASSUME NEW a \in Assets, scan.ref = [id |-> a, sum |-> assets[a].sum],
                 scan.pc \in {"extractor", "classifier"}
          PROVE  <<a, assets[a].sum>> \in unlogged'
        BY <1>1, <2>1
    <2> QED BY <1>1, <2>1 DEF Traced, ClassRow, ClassRowAt, ErrorRowAt
<1> QED BY <1>2, <1>3, <1>4, <1>5, <1>6

-----------------------------------------------------------------------------
(* What a process counts.                                                   *)

LEMMA CountsTyped ==
    ASSUME NEW K, NEW s \in Seq(K)
    PROVE  Counts(s) \in Tally(K)
<1> DEFINE S == {s[i] : i \in DOMAIN s}
           at(v) == {i \in DOMAIN s : s[i] = v}
<1>1. S \in SUBSET K
    OBVIOUS
<1>2. \A v \in S : Cardinality(at(v)) \in Nat
    <2>1. IsFiniteSet(DOMAIN s)
        BY FS_Interval
    <2> QED BY <2>1, FS_Subset, FS_CardinalityType
<1>3. Counts(s) \in [S -> Nat]
    BY <1>2 DEF Counts
<1> QED BY <1>1, <1>3 DEF Tally

LEMMA ColumnIs ==
    ASSUME NEW s, NEW f
    PROVE  DOMAIN Column(s, f) = DOMAIN s /\ \A i \in DOMAIN s : Column(s, f)[i] = s[i][f]
BY DEF Column

\* Flattening a sequence of sequences.

SameUpTo(m, s, t) == \A i \in 1 .. m : s[i] = t[i]
JoinsTo(s, n, F) == F = [i \in 1 .. n |-> IF i = 1 THEN s[i] ELSE F[i - 1] \o s[i]]

\* Among numbers up to n, a set that has one has a least one.
LEMMA Least ==
    ASSUME NEW n \in Nat, NEW S \in SUBSET (0 .. n), S # {}
    PROVE  \E k \in S : \A j \in S : k <= j
<1> DEFINE Sets == {1 .. k : k \in S}
<1>1. IsFiniteSet(1 .. n) /\ \A k \in S : k \in Nat /\ k <= n
    BY FS_Interval
<1>2. \A k \in S : 1 .. k \subseteq 1 .. n
    BY <1>1
<1>3. Sets \subseteq FiniteSubsetsOf(1 .. n) /\ Sets # {}
    BY <1>1, <1>2, FS_Subset DEF FiniteSubsetsOf
<1>4. PICK T \in Sets : \A U \in Sets : <<U, T>> \notin StrictSubsetOrdering(1 .. n)
    BY <1>1, <1>3, WFMin, FS_StrictSubsetOrderingWellFounded
<1>5. PICK k \in S : T = 1 .. k
    BY <1>4
<1>6. ASSUME NEW j \in S, j < k PROVE FALSE
    <2>1. 1 .. j \in Sets /\ 1 .. j # 1 .. k /\ 1 .. j \subseteq 1 .. k
        <3>1. k \in 1 .. k /\ k \notin 1 .. j
            BY <1>1, <1>6
        <3> QED BY <1>1, <1>6, <3>1
    <2>2. <<1 .. j, T>> \in StrictSubsetOrdering(1 .. n)
        BY <1>1, <1>2, <1>5, <2>1 DEF StrictSubsetOrdering
    <2> QED BY <1>4, <2>1, <2>2
<1> QED BY <1>1, <1>6

LEMMA JoinsExist ==
    ASSUME NEW s, NEW n \in Nat
    PROVE  \E F : JoinsTo(s, n, F)
<1> DEFINE Bad == {k \in 0 .. n : ~ \E F : JoinsTo(s, k, F)}
<1>1. SUFFICES ASSUME Bad # {} PROVE FALSE
    OBVIOUS
<1>2. PICK k \in Bad : \A j \in Bad : k <= j
    BY <1>1, Least
<1>3. k \in Nat /\ k <= n
    OBVIOUS
<1>4. k # 0
    <2>1. JoinsTo(s, 0, [i \in 1 .. 0 |-> s[i]])
        BY DEF JoinsTo
    <2> QED BY <1>2, <2>1
<1>5. k - 1 \in 0 .. n /\ ~ (k <= k - 1)
    BY <1>3, <1>4
<1>6. PICK G : JoinsTo(s, k - 1, G)
    BY <1>2, <1>5
<1> DEFINE F == [i \in 1 .. k |-> IF i = k THEN (IF k = 1 THEN s[k] ELSE G[k - 1] \o s[k]) ELSE G[i]]
<1>7. ASSUME NEW i \in 1 .. k
      PROVE  F[i] = IF i = 1 THEN s[i] ELSE F[i - 1] \o s[i]
    <2>1. CASE i = k
        <3>1. i # 1 => i - 1 \in 1 .. k /\ i - 1 # k
            BY <1>3, <2>1
        <3> QED BY <2>1, <3>1
    <2>2. CASE i # k
        <3>1. i \in 1 .. (k - 1) /\ (i # 1 => i - 1 \in 1 .. k /\ i - 1 # k)
            BY <1>3, <2>2
        <3>2. G[i] = IF i = 1 THEN s[i] ELSE G[i - 1] \o s[i]
            BY <1>6, <3>1 DEF JoinsTo
        <3> QED BY <2>2, <3>1, <3>2
    <2> QED BY <2>1, <2>2
<1>8. JoinsTo(s, k, F)
    BY <1>7 DEF JoinsTo
<1> QED BY <1>2, <1>8

LEMMA JoinsAgree ==
    ASSUME NEW s, NEW t, NEW m \in Nat, NEW n \in Nat, NEW F, NEW G,
           JoinsTo(s, m, F), JoinsTo(t, n, G), m <= n, SameUpTo(m, s, t)
    PROVE  \A i \in 1 .. m : F[i] = G[i]
<1> DEFINE Wrong == {j \in 0 .. m : j # 0 /\ F[j] # G[j]}
<1>1. SUFFICES ASSUME Wrong # {} PROVE FALSE
    OBVIOUS
<1>2. PICK j \in Wrong : \A k \in Wrong : j <= k
    BY <1>1, Least
<1>3. j \in 1 .. m /\ j \in 1 .. n
    OBVIOUS
<1>4. F[j] = (IF j = 1 THEN s[j] ELSE F[j - 1] \o s[j])
      /\ G[j] = (IF j = 1 THEN t[j] ELSE G[j - 1] \o t[j])
    BY <1>3 DEF JoinsTo
<1>5. j # 1 => j - 1 \in 0 .. m /\ j - 1 # 0 /\ ~ (j <= j - 1)
    BY <1>3
<1>6. j # 1 => F[j - 1] = G[j - 1]
    BY <1>2, <1>5
<1> QED BY <1>2, <1>3, <1>4, <1>6 DEF SameUpTo

LEMMA FlattenIs ==
    ASSUME NEW K, NEW s \in Seq(Seq(K))
    PROVE  /\ Len(s) = 0 => FlattenSeq(s) = <<>>
           /\ Len(s) # 0 => \E F : JoinsTo(s, Len(s), F) /\ FlattenSeq(s) = F[Len(s)]
<1>1. Len(s) = 0 => FlattenSeq(s) = <<>>
    BY EmptySeq DEF FlattenSeq
<1>2. ASSUME Len(s) # 0 PROVE FlattenSeq(s) = (CHOOSE F : JoinsTo(s, Len(s), F))[Len(s)]
    BY <1>2 DEF FlattenSeq, JoinsTo
<1>3. PICK n \in Nat : n = Len(s)
    OBVIOUS
<1>4. JoinsTo(s, n, CHOOSE F : JoinsTo(s, n, F))
    BY JoinsExist
<1> QED BY <1>1, <1>2, <1>3, <1>4

LEMMA FlattenAppend ==
    ASSUME NEW K, NEW s \in Seq(Seq(K)), NEW x \in Seq(K), NEW t, t = Append(s, x)
    PROVE  FlattenSeq(t) = FlattenSeq(s) \o x
<1>1. PICK n \in Nat : n = Len(s)
    OBVIOUS
<1>2. PICK m \in Nat : m = n + 1
    OBVIOUS
<1>3. t \in Seq(Seq(K)) /\ Len(t) = m /\ t[m] = x /\ \A i \in 1 .. n : s[i] = t[i]
    BY <1>1, <1>2, AppendProperties
<1>4. m # 0 /\ m \in 1 .. m /\ m - 1 = n /\ n <= m /\ (m = 1 <=> n = 0)
    BY <1>2
<1>5. PICK G : JoinsTo(t, m, G) /\ FlattenSeq(t) = G[m]
    BY <1>3, <1>4, FlattenIs
<1>6. G[m] = IF m = 1 THEN x ELSE G[n] \o x
    <2>1. G[m] = IF m = 1 THEN t[m] ELSE G[m - 1] \o t[m]
        BY <1>4, <1>5 DEF JoinsTo
    <2> QED BY <1>3, <1>4, <2>1
<1>7. CASE n = 0
    <2>1. FlattenSeq(s) = <<>>
        BY <1>1, <1>7, FlattenIs
    <2>2. FlattenSeq(t) = x
        BY <1>4, <1>5, <1>6, <1>7
    <2> QED BY <2>1, <2>2, ConcatEmptySeq
<1>8. CASE n # 0
    <2>1. PICK F : JoinsTo(s, n, F) /\ FlattenSeq(s) = F[n]
        BY <1>1, <1>8, FlattenIs
    <2>2. n \in 1 .. n
        BY <1>8
    <2>3. F[n] = G[n]
        <3>1. SameUpTo(n, s, t) /\ n <= m /\ JoinsTo(s, n, F) /\ JoinsTo(t, m, G)
            BY <1>3, <1>4, <1>5, <2>1 DEF SameUpTo
        <3>2. \A i \in 1 .. n : F[i] = G[i]
            BY <3>1, JoinsAgree
        <3> QED BY <2>2, <3>2
    <2> QED BY <1>4, <1>5, <1>6, <1>8, <2>1, <2>3
<1> QED BY <1>7, <1>8

\* A sum over the values of a key, of how often each occurs, is how many there are.
Pick(T) == CHOOSE x \in T : TRUE
Adds(g, S, F) == F = [s \in SUBSET S |-> IF s = {} THEN 0 ELSE g[Pick(s)] + F[s \ {Pick(s)}]]
At(key, D, T) == {i \in D : key[i] \in T}

LEMMA AtGrows ==
    ASSUME NEW D, IsFiniteSet(D), NEW key, NEW T, NEW x \in T
    PROVE  /\ Cardinality(At(key, D, T)) \in Nat
           /\ Cardinality(At(key, D, T))
                = Cardinality({i \in D : key[i] = x}) + Cardinality(At(key, D, T \ {x}))
<1> DEFINE A == {i \in D : key[i] = x}
           B == At(key, D, T \ {x})
<1>1. IsFiniteSet(A) /\ IsFiniteSet(B) /\ IsFiniteSet(At(key, D, T))
    BY FS_Subset DEF At
<1>2. At(key, D, T) = A \cup B /\ A \cap B = {}
    BY DEF At
<1>3. Cardinality(A \cap B) = 0 /\ Cardinality(A) \in Nat /\ Cardinality(B) \in Nat
    BY <1>1, <1>2, FS_EmptySet, FS_CardinalityType
<1>4. Cardinality(A \cup B) = Cardinality(A) + Cardinality(B) - Cardinality(A \cap B)
    BY <1>1, FS_Union
<1> HIDE DEF A, B
<1>5. Cardinality(At(key, D, T)) = Cardinality(A) + Cardinality(B)
    BY <1>2, <1>3, <1>4
<1>6. Cardinality(At(key, D, T)) \in Nat
    BY <1>1, FS_CardinalityType
<1> QED BY <1>5, <1>6 DEF A, B

LEMMA SumIsFold ==
    ASSUME NEW g, \E F : Adds(g, DOMAIN g, F)
    PROVE  \E F : Adds(g, DOMAIN g, F) /\ SumFunction(g) = F[DOMAIN g]
<1>1. SumFunction(g) = (CHOOSE F : Adds(g, DOMAIN g, F))[DOMAIN g]
    BY DEF SumFunction, SumFunctionOnSet, FoldFunctionOnSet, MapThenFoldSet, Adds, Pick
<1>2. Adds(g, DOMAIN g, CHOOSE F : Adds(g, DOMAIN g, F))
    OBVIOUS
<1> QED BY <1>1, <1>2

LEMMA PartitionSum ==
    ASSUME NEW D, IsFiniteSet(D), NEW key, NEW g, DOMAIN g = {key[i] : i \in D},
           \A k \in DOMAIN g : g[k] = Cardinality({i \in D : key[i] = k})
    PROVE  SumFunction(g) = Cardinality(D)
<1> DEFINE K == DOMAIN g
           f == [i \in D |-> key[i]]
<1>1. IsFiniteSet(K)
    <2>1. f \in Surjection(D, K)
        BY DEF Surjection
    <2> QED BY <2>1, FS_Surjection
<1>2. ASSUME NEW T \in SUBSET K, NEW x \in T
      PROVE  Cardinality(At(key, D, T)) = g[x] + Cardinality(At(key, D, T \ {x}))
    <2>1. g[x] = Cardinality({i \in D : key[i] = x})
        BY <1>2
    <2> QED BY <1>2, <2>1, AtGrows
<1>3. Cardinality(At(key, D, {})) = 0
    <2>1. At(key, D, {}) = {}
        BY DEF At
    <2> QED BY <2>1, FS_EmptySet
<1> HIDE DEF K
<1>4. Adds(g, K, [s \in SUBSET K |-> Cardinality(At(key, D, s))])
    <2> DEFINE F == [s \in SUBSET K |-> Cardinality(At(key, D, s))]
    <2>1. ASSUME NEW s \in SUBSET K, s # {}
          PROVE  F[s] = g[Pick(s)] + F[s \ {Pick(s)}]
        <3>1. Pick(s) \in s
            BY <2>1 DEF Pick
        <3> QED BY <1>2, <3>1
    <2>2. F[{}] = 0
        BY <1>3
    <2> QED BY <2>1, <2>2 DEF Adds
<1>5. PICK F : Adds(g, K, F) /\ SumFunction(g) = F[K]
    BY <1>4, SumIsFold DEF K
<1> DEFINE Wrong == {T \in SUBSET K : F[T] # Cardinality(At(key, D, T))}
<1>6. Wrong = {}
    <2>1. SUFFICES ASSUME Wrong # {} PROVE FALSE
        OBVIOUS
    <2>2. Wrong \subseteq FiniteSubsetsOf(K)
        BY <1>1, FS_Subset DEF FiniteSubsetsOf
    <2>3. PICK T \in Wrong : \A U \in Wrong : <<U, T>> \notin StrictSubsetOrdering(K)
        BY <1>1, <2>1, <2>2, WFMin, FS_StrictSubsetOrderingWellFounded
    <2>4. F[T] = IF T = {} THEN 0 ELSE g[Pick(T)] + F[T \ {Pick(T)}]
        BY <1>5 DEF Adds
    <2>5. T # {}
        BY <1>3, <2>3, <2>4
    <2>6. Pick(T) \in T
        BY <2>5 DEF Pick
    <2>7. <<T \ {Pick(T)}, T>> \in StrictSubsetOrdering(K)
        BY <2>6 DEF StrictSubsetOrdering
    <2>8. F[T \ {Pick(T)}] = Cardinality(At(key, D, T \ {Pick(T)}))
        BY <2>3, <2>7
    <2>9. F[T] = Cardinality(At(key, D, T))
        BY <1>2, <2>4, <2>5, <2>6, <2>8
    <2> QED BY <2>9
<1>7. At(key, D, K) = D
    BY DEF At, K
<1>8. F[K] = Cardinality(At(key, D, K))
    BY <1>6
<1> QED BY <1>5, <1>7, <1>8

\* The counters of the process keep up with the rows of its run: each error has
\* its row or is about to get one, and each planned action its row or is pending.
Pending ==
    CASE scan.pc \in {"decision", "act"} -> scan.plan.actions
      [] scan.pc = "note" -> Column(scan.results, "name")
      [] scan.pc = "action" -> Column(Tail(scan.results), "name")
      [] OTHER -> <<>>
Unrecorded == IF scan.pc \in {"extractor", "classifier", "decision", "action"} THEN 1 ELSE 0
Counted ==
    scan.pc # "idle" =>
       /\ Column(scan.done, "category") = Column(runs[run].classes, "category")
       /\ scan.errors = Len(runs[run].errors) + Unrecorded
       /\ scan.errors = 0 => \A i \in DOMAIN runs[run].actions : runs[run].actions[i].success
       /\ FlattenSeq(Column(scan.done, "actions")) = Column(runs[run].actions, "name") \o Pending

\* What is stored for a run that has ended.
Summed(row) ==
    /\ row.summary.processed = Len(row.classes) /\ row.summary.errors = Len(row.errors)
    /\ row.summary.by_category = Counts(Column(row.classes, "category"))
    /\ row.summary.intended = Counts(Column(row.actions, "name"))
    /\ row.status = "succeeded" <=> row.summary.errors = 0
    /\ row.status = "succeeded" => \A i \in DOMAIN row.actions : row.actions[i].success
Summarised == \A r \in DOMAIN runs : runs[r].status # "running" => Summed(runs[r])

-----------------------------------------------------------------------------
(* The counters of a process and the rows of its run.                       *)

LEMMA ColumnTyped ==
    ASSUME NEW S, NEW T, NEW f, NEW s \in Seq(S), \A x \in S : x[f] \in T
    PROVE  Column(s, f) \in Seq(T) /\ Len(Column(s, f)) = Len(s)
<1>1. PICK n \in Nat : n = Len(s)
    OBVIOUS
<1>2. DOMAIN s = 1 .. n /\ \A i \in 1 .. n : s[i] \in S
    BY <1>1, ElementOfSeq
<1>3. Column(s, f) = [i \in 1 .. n |-> s[i][f]]
    BY <1>2 DEF Column
<1>4. \A i \in 1 .. n : s[i][f] \in T
    BY <1>2
<1> QED BY <1>1, <1>3, <1>4

LEMMA NamesTyped ==
    /\ \A s \in Seq(ActionRows) : /\ Column(s, "name") \in Seq(ALLOWED_ACTIONS)
                                  /\ Len(Column(s, "name")) = Len(s)
    /\ \A s \in Seq(ResultRecords) : /\ Column(s, "name") \in Seq(ALLOWED_ACTIONS)
                                     /\ Len(Column(s, "name")) = Len(s)
<1>1. PICK f : f = "name"
    OBVIOUS
<1>2. /\ \A x \in ActionRows : x[f] \in ALLOWED_ACTIONS
      /\ \A x \in ResultRecords : x[f] \in ALLOWED_ACTIONS
    BY <1>1 DEF ActionRows, ResultRecords
<1>3. \A s \in Seq(ActionRows) : Column(s, f) \in Seq(ALLOWED_ACTIONS) /\ Len(Column(s, f)) = Len(s)
    BY <1>2, ColumnTyped
<1>4. \A s \in Seq(ResultRecords) : Column(s, f) \in Seq(ALLOWED_ACTIONS) /\ Len(Column(s, f)) = Len(s)
    BY <1>2, ColumnTyped
<1> QED BY <1>1, <1>3, <1>4

LEMMA ColumnAppend ==
    ASSUME NEW S, NEW T, NEW f, NEW s \in Seq(S), \A x \in S : x[f] \in T, NEW x \in S
    PROVE  /\ Column(s, f) \in Seq(T) /\ Len(Column(s, f)) = Len(s)
           /\ Column(Append(s, x), f) = Append(Column(s, f), x[f])
<1>1. PICK n \in Nat : n = Len(s)
    OBVIOUS
<1>2. DOMAIN s = 1 .. n /\ \A i \in 1 .. n : s[i] \in S
    BY <1>1, ElementOfSeq
<1> DEFINE c == Column(s, f)
           a == Append(s, x)
<1>3. c = [i \in 1 .. n |-> s[i][f]]
    BY <1>2 DEF Column
<1>4. c \in Seq(T) /\ Len(c) = n
    <2>1. \A i \in 1 .. n : s[i][f] \in T
        BY <1>2
    <2> QED BY <1>3, <2>1
<1>5. a \in Seq(S) /\ Len(a) = n + 1 /\ a[n + 1] = x /\ \A i \in 1 .. n : a[i] = s[i]
    BY <1>1, AppendProperties
<1>6. Column(a, f) \in Seq(T) /\ Len(Column(a, f)) = n + 1
      /\ \A i \in 1 .. (n + 1) : Column(a, f)[i] = a[i][f]
    <2>1. DOMAIN a = 1 .. (n + 1) /\ \A i \in 1 .. (n + 1) : a[i][f] \in T
        BY <1>5, ElementOfSeq
    <2>2. Column(a, f) = [i \in 1 .. (n + 1) |-> a[i][f]]
        BY <2>1 DEF Column
    <2> HIDE DEF a
    <2>3. PICK m \in Nat : m = n + 1
        OBVIOUS
    <2>4. \A i \in 1 .. m : a[i][f] \in T
        BY <2>1, <2>3
    <2>5. Column(a, f) = [i \in 1 .. m |-> a[i][f]]
        BY <2>2, <2>3
    <2>6. Column(a, f) \in Seq(T) /\ Len(Column(a, f)) = m
        BY <2>4, <2>5
    <2> QED BY <2>2, <2>3, <2>6
<1>7. x[f] \in T
    OBVIOUS
<1>8. Append(c, x[f]) \in Seq(T) /\ Len(Append(c, x[f])) = n + 1 /\ Append(c, x[f])[n + 1] = x[f]
      /\ \A i \in 1 .. n : Append(c, x[f])[i] = s[i][f]
    <2> HIDE DEF c
    <2>1. Append(c, x[f]) \in Seq(T) /\ Len(Append(c, x[f])) = n + 1
          /\ Append(c, x[f])[n + 1] = x[f] /\ \A i \in 1 .. n : Append(c, x[f])[i] = c[i]
        BY <1>4, <1>7, AppendProperties
    <2> QED BY <1>3, <2>1
<1> HIDE DEF c, a
<1>9. \A i \in 1 .. (n + 1) : Column(a, f)[i] = Append(c, x[f])[i]
    <2> TAKE i \in 1 .. (n + 1)
    <2>1. CASE i = n + 1
        BY <1>5, <1>6, <1>8, <2>1
    <2>2. CASE i # n + 1
        <3>1. i \in 1 .. n
            BY <2>2
        <3> QED BY <1>5, <1>6, <1>8, <3>1
    <2> QED BY <2>1, <2>2
<1>10. Column(a, f) = Append(c, x[f])
    BY <1>6, <1>8, <1>9, SeqEqual
<1> QED BY <1>1, <1>4, <1>10 DEF c, a

\* The columns of the rows, and what one more row adds to them.
LEMMA Columns ==
    /\ \A s \in Seq(Entries) : \A x \in Entries :
         /\ Column(s, "category") \in Seq(CategoriesOf) /\ Len(Column(s, "category")) = Len(s)
         /\ Column(s, "actions") \in Seq(Seq(ALLOWED_ACTIONS))
         /\ Column(Append(s, x), "category") = Append(Column(s, "category"), x.category)
         /\ Column(Append(s, x), "actions") = Append(Column(s, "actions"), x.actions)
    /\ \A s \in Seq(ClassRows) : \A x \in ClassRows :
         /\ Column(s, "category") \in Seq(CategoriesOf) /\ Len(Column(s, "category")) = Len(s)
         /\ Column(Append(s, x), "category") = Append(Column(s, "category"), x.category)
    /\ \A s \in Seq(ActionRows) : \A x \in ActionRows :
         /\ Column(s, "name") \in Seq(ALLOWED_ACTIONS) /\ Len(Column(s, "name")) = Len(s)
         /\ Column(Append(s, x), "name") = Append(Column(s, "name"), x.name)
<1>1. ASSUME NEW s \in Seq(Entries), NEW x \in Entries
      PROVE  /\ Column(s, "category") \in Seq(CategoriesOf) /\ Len(Column(s, "category")) = Len(s)
             /\ Column(s, "actions") \in Seq(Seq(ALLOWED_ACTIONS))
             /\ Column(Append(s, x), "category") = Append(Column(s, "category"), x.category)
             /\ Column(Append(s, x), "actions") = Append(Column(s, "actions"), x.actions)
    <2>1. PICK f : f = "category"
        OBVIOUS
    <2>2. \A y \in Entries : y[f] \in CategoriesOf
        BY <2>1 DEF Entries
    <2>3. /\ Column(s, f) \in Seq(CategoriesOf) /\ Len(Column(s, f)) = Len(s)
          /\ Column(Append(s, x), f) = Append(Column(s, f), x[f])
        BY <2>2, ColumnAppend
    <2>4. /\ Column(s, "category") \in Seq(CategoriesOf) /\ Len(Column(s, "category")) = Len(s)
          /\ Column(Append(s, x), "category") = Append(Column(s, "category"), x.category)
        BY <2>1, <2>3
    <2>5. PICK g : g = "actions"
        OBVIOUS
    <2>6. \A y \in Entries : y[g] \in Seq(ALLOWED_ACTIONS)
        BY <2>5 DEF Entries
    <2>7. /\ Column(s, g) \in Seq(Seq(ALLOWED_ACTIONS)) /\ Len(Column(s, g)) = Len(s)
          /\ Column(Append(s, x), g) = Append(Column(s, g), x[g])
        <3>1. PICK T : T = Seq(ALLOWED_ACTIONS)
            OBVIOUS
        <3>2. \A y \in Entries : y[g] \in T
            BY <2>6, <3>1
        <3>3. /\ Column(s, g) \in Seq(T) /\ Len(Column(s, g)) = Len(s)
              /\ Column(Append(s, x), g) = Append(Column(s, g), x[g])
            BY <3>2, ColumnAppend
        <3> QED BY <3>1, <3>3
    <2>8. /\ Column(s, "actions") \in Seq(Seq(ALLOWED_ACTIONS)) /\ Len(Column(s, "actions")) = Len(s)
          /\ Column(Append(s, x), "actions") = Append(Column(s, "actions"), x.actions)
        BY <2>5, <2>7
    <2> QED BY <2>4, <2>8
<1>2. ASSUME NEW s \in Seq(ClassRows), NEW x \in ClassRows
      PROVE  /\ Column(s, "category") \in Seq(CategoriesOf) /\ Len(Column(s, "category")) = Len(s)
             /\ Column(Append(s, x), "category") = Append(Column(s, "category"), x.category)
    <2>1. PICK f : f = "category"
        OBVIOUS
    <2>2. \A y \in ClassRows : y[f] \in CategoriesOf
        BY <2>1 DEF ClassRows
    <2>3. /\ Column(s, f) \in Seq(CategoriesOf) /\ Len(Column(s, f)) = Len(s)
          /\ Column(Append(s, x), f) = Append(Column(s, f), x[f])
        BY <2>2, ColumnAppend
    <2>4. /\ Column(s, "category") \in Seq(CategoriesOf) /\ Len(Column(s, "category")) = Len(s)
          /\ Column(Append(s, x), "category") = Append(Column(s, "category"), x.category)
        BY <2>1, <2>3
    <2> QED BY <2>4
<1>3. ASSUME NEW s \in Seq(ActionRows), NEW x \in ActionRows
      PROVE  /\ Column(s, "name") \in Seq(ALLOWED_ACTIONS) /\ Len(Column(s, "name")) = Len(s)
             /\ Column(Append(s, x), "name") = Append(Column(s, "name"), x.name)
    <2>1. PICK f : f = "name"
        OBVIOUS
    <2>2. \A y \in ActionRows : y[f] \in ALLOWED_ACTIONS
        BY <2>1 DEF ActionRows
    <2>3. /\ Column(s, f) \in Seq(ALLOWED_ACTIONS) /\ Len(Column(s, f)) = Len(s)
          /\ Column(Append(s, x), f) = Append(Column(s, f), x[f])
        BY <2>2, ColumnAppend
    <2>4. /\ Column(s, "name") \in Seq(ALLOWED_ACTIONS) /\ Len(Column(s, "name")) = Len(s)
          /\ Column(Append(s, x), "name") = Append(Column(s, "name"), x.name)
        BY <2>1, <2>3
    <2> QED BY <2>4
<1> QED BY <1>1, <1>2, <1>3

LEMMA SummarisedKept ==
    ASSUME Typed, Running, Summarised, Kept(runs, runs'), scan.pc # "idle"
    PROVE  Summarised'
<1>1. DOMAIN runs' = DOMAIN runs /\ run = Len(runs)
    BY Monotone DEF run
<1>2. ASSUME NEW r \in DOMAIN runs', runs'[r].status # "running"
      PROVE  runs'[r] = runs[r] /\ r \in DOMAIN runs
    BY <1>1, <1>2 DEF Kept, Running
<1> QED BY <1>2 DEF Summarised

LEMMA CountedStill ==
    ASSUME Counted, scan.pc # "idle", runs' = runs, scan'.done = scan.done,
           scan'.errors = scan.errors, Pending' = Pending, Unrecorded' = Unrecorded
    PROVE  Counted'
BY DEF Counted, run

LEMMA FetchPageCounts == ASSUME CliInv, Counted, FetchPage PROVE Counted'
<1>1. /\ scan'.pc = "list" /\ scan.pc = "list" /\ scan'.done = scan.done /\ runs' = runs
      /\ scan'.errors = scan.errors
    BY DEF CliInv, Typed, Processes, FetchPage
<1> QED BY <1>1, CountedStill DEF Pending, Unrecorded

LEMMA ConsiderCounts == ASSUME CliInv, Counted, NEW ref \in scan.page, Consider(ref) PROVE Counted'
<1>1. /\ scan'.pc \in {"list", "classify"} /\ scan.pc = "list" /\ scan'.done = scan.done
      /\ runs' = runs /\ scan'.errors = scan.errors
    BY DEF CliInv, Typed, Processes, Consider
<1> QED BY <1>1, CountedStill DEF Pending, Unrecorded

LEMMA ClassifyFailsCounts ==
    ASSUME CliInv, Counted, NEW stage \in {"extractor", "classifier"}, ClassifyFails(stage)
    PROVE  Counted'
<1>1. /\ scan'.pc = stage /\ scan.pc = "classify" /\ scan'.done = scan.done
      /\ runs' = runs /\ scan'.errors = scan.errors + 1
    BY DEF CliInv, Typed, Processes, ClassifyFails
<1>2. Unrecorded = 0 /\ Unrecorded' = 1 /\ Pending = <<>> /\ Pending' = <<>>
    BY <1>1 DEF Unrecorded, Pending
<1>3. PICK n \in Nat : n = Len(runs[run].errors)
    BY RunIs, RowFields DEF CliInv, Running, ClassifyFails
<1>4. scan.errors = n /\ scan'.errors = n + 1
    BY <1>1, <1>2, <1>3 DEF Counted
<1> QED BY <1>1, <1>2, <1>3, <1>4 DEF Counted, run

LEMMA RecordsErrorCounts ==
    ASSUME CliInv, Counted, scan.pc \in {"extractor", "classifier", "decision", "action"},
           NEW row \in ErrorRows, runs' = [runs EXCEPT ![run]["errors"] = Append(@, row)],
           scan'.done = scan.done, scan'.errors = scan.errors, Pending' = Pending, Unrecorded' = 0
    PROVE  Counted'
<1>1. run \in DOMAIN runs /\ runs[run] \in RunRows /\ runs # <<>>
    BY RunIs DEF CliInv, Running
<1>2. /\ runs'[run].errors = Append(runs[run].errors, row)
      /\ runs'[run].actions = runs[run].actions /\ runs'[run].classes = runs[run].classes
      /\ Kept(runs, runs')
    BY <1>1, AddError DEF CliInv, Typed, run
<1>3. run' = run
    BY <1>2, Monotone DEF CliInv
<1>4. Len(runs'[run].errors) = Len(runs[run].errors) + 1 /\ Len(runs[run].errors) \in Nat
    BY <1>1, <1>2, RowFields, SeqGrows
<1>5. scan.errors = Len(runs[run].errors) + 1
    BY DEF Counted, Unrecorded
<1> QED BY <1>2, <1>3, <1>4, <1>5 DEF Counted

LEMMA RecordFailureCounts == ASSUME CliInv, Counted, RecordFailure PROVE Counted'
<1> DEFINE row == ErrorRow(scan.ref.id, scan.pc, scan.ref.sum)
<1>1. row \in ErrorRows
    BY DEF CliInv, RecordFailure, Holding, ErrorRow, ErrorRows, Refs, Stages
<1>2. runs' = [runs EXCEPT ![run]["errors"] = Append(@, row)]
    BY DEF RecordFailure, RecordError, InRun
<1>3. /\ scan'.pc = "list" /\ scan.pc \in {"extractor", "classifier"} /\ scan'.done = scan.done
      /\ scan'.errors = scan.errors
    BY DEF CliInv, Typed, Processes, RecordFailure
<1> HIDE DEF row
<1>4. Pending' = Pending /\ Unrecorded' = 0
    BY <1>3 DEF Pending, Unrecorded
<1> QED BY <1>1, <1>2, <1>3, <1>4, RecordsErrorCounts

LEMMA RecordDecisionErrorCounts == ASSUME CliInv, Counted, RecordDecisionError PROVE Counted'
<1> DEFINE row == ErrorRow(scan.ref.id, "decision", scan.ref.sum)
<1>1. row \in ErrorRows
    BY DEF CliInv, RecordDecisionError, Holding, ErrorRow, ErrorRows, Refs, Stages
<1>2. runs' = [runs EXCEPT ![run]["errors"] = Append(@, row)]
    BY DEF RecordDecisionError, RecordError, InRun
<1>3. /\ scan'.pc = "act" /\ scan.pc = "decision" /\ scan'.done = scan.done
      /\ scan'.errors = scan.errors /\ scan'.plan = scan.plan
    BY DEF CliInv, Typed, Processes, RecordDecisionError
<1> HIDE DEF row
<1>4. Pending' = Pending /\ Unrecorded' = 0
    BY <1>3 DEF Pending, Unrecorded
<1> QED BY <1>1, <1>2, <1>3, <1>4, RecordsErrorCounts

LEMMA RecordActionErrorCounts == ASSUME CliInv, Counted, RecordActionError PROVE Counted'
<1> DEFINE row == ErrorRow(scan.ref.id, "action", scan.ref.sum)
<1>1. row \in ErrorRows
    BY DEF CliInv, RecordActionError, Holding, ErrorRow, ErrorRows, Refs, Stages
<1>2. runs' = [runs EXCEPT ![run]["errors"] = Append(@, row)]
    BY DEF RecordActionError, RecordError, InRun
<1>3. scan.pc = "action" /\ scan.results # <<>> /\ scan' = NextResult
    BY DEF CliInv, RecordActionError, Holding
<1>4. /\ scan'.done = scan.done /\ scan'.errors = scan.errors
      /\ \/ scan'.pc = "note" /\ scan'.results = Tail(scan.results)
         \/ scan'.pc = "list" /\ Len(scan.results) = 1
    BY <1>3, NextResultIs DEF CliInv
<1> HIDE DEF row
<1>5. Pending' = Pending /\ Unrecorded' = 0
    <2>1. Unrecorded' = 0 /\ Pending = Column(Tail(scan.results), "name")
        BY <1>3, <1>4 DEF Unrecorded, Pending
    <2>2. CASE scan'.pc = "note"
        BY <1>4, <2>1, <2>2 DEF Pending
    <2>3. CASE scan'.pc = "list"
        <3>1. Len(Tail(scan.results)) = 0 /\ Tail(scan.results) \in Seq(ResultRecords)
            BY <1>3, <1>4, <2>3, NextResultIs DEF CliInv
        <3>2. Tail(scan.results) = <<>>
            BY <3>1, EmptySeq
        <3>3. Column(<<>>, "name") = <<>>
            BY DEF Column
        <3> QED BY <2>1, <2>3, <3>2, <3>3 DEF Pending
    <2> QED BY <1>4, <2>2, <2>3
<1> QED BY <1>1, <1>2, <1>3, <1>4, <1>5, RecordsErrorCounts

LEMMA ClassifiedCounts ==
    ASSUME CliInv, Counted, NEW category \in Config.outcomes, scan.pc = "classify",
           Classified(category)
    PROVE  Counted'
<1>1. run \in DOMAIN runs /\ runs[run] \in RunRows /\ runs # <<>> /\ scan.ref \in Refs
      /\ scan.results = <<>>
    BY RunIs DEF CliInv, Running, Holding
<1>2. Config = AppConfig(Files[scan.file]) /\ scan.file \in DOMAIN Files
      /\ Accepts(Files[scan.file])
    BY ConfigIs DEF CliInv
<1> DEFINE plan == decide(Config, category, Details[scan.ref.id].media)
<1> HIDE DEF plan
<1>3. /\ plan \in [actions : Seq(ALLOWED_ACTIONS), error : {"none", "missing_policy"}]
      /\ Len(plan.actions) > 0 /\ category \in CategoriesOf
    BY <1>2, DecideIs DEF plan
<1> DEFINE row == [asset |-> scan.ref.id, category |-> category, sum |-> scan.ref.sum]
           entry == [category |-> category, actions |-> plan.actions]
<1>4. row \in ClassRows /\ row.category = category
    BY <1>1, <1>3 DEF ClassRows, Refs
<1>5. entry \in Entries /\ entry.category = category /\ entry.actions = plan.actions
    BY <1>3 DEF Entries
<1>6. /\ runs' = [runs EXCEPT ![run]["classes"] = Append(@, row)]
      /\ scan'.done = Append(scan.done, entry) /\ scan'.plan = plan
      /\ scan'.pc = IF plan.error = "none" THEN "act" ELSE "decision"
      /\ scan'.errors = IF plan.error = "none" THEN scan.errors ELSE scan.errors + 1
    BY DEF CliInv, Typed, Processes, Classified, InRun, plan
<1> HIDE DEF row, entry
<1>7. /\ runs'[run].classes = Append(runs[run].classes, row)
      /\ runs'[run].actions = runs[run].actions /\ runs'[run].errors = runs[run].errors
      /\ Kept(runs, runs')
    BY <1>1, <1>4, <1>6, AddClass DEF CliInv, Typed, run
<1>8. run' = run
    BY <1>7, Monotone DEF CliInv
<1>9. runs[run].classes \in Seq(ClassRows) /\ scan.done \in Seq(Entries)
      /\ runs[run].actions \in Seq(ActionRows) /\ Len(runs[run].errors) \in Nat
    BY <1>1, RowFields, ScanFields DEF CliInv
<1>10. Column(scan'.done, "category") = Column(runs'[run].classes, "category")
    <2>1. Column(Append(scan.done, entry), "category") = Append(Column(scan.done, "category"), category)
        BY <1>5, <1>9, Columns
    <2>2. Column(Append(runs[run].classes, row), "category")
            = Append(Column(runs[run].classes, "category"), category)
        BY <1>4, <1>9, Columns
    <2>3. Column(scan.done, "category") = Column(runs[run].classes, "category")
        BY DEF Counted
    <2> QED BY <1>6, <1>7, <2>1, <2>2, <2>3
<1>11. scan'.errors = Len(runs'[run].errors) + Unrecorded'
       /\ (scan'.errors = 0 => scan.errors = 0)
    <2>1. PICK n \in Nat : n = Len(runs[run].errors)
        BY <1>9
    <2>2. scan.errors = n
        BY <2>1 DEF Counted, Unrecorded
    <2>3. Unrecorded' = IF plan.error = "none" THEN 0 ELSE 1
        BY <1>6 DEF Unrecorded
    <2>4. CASE plan.error = "none"
        BY <1>6, <1>7, <2>1, <2>2, <2>3, <2>4
    <2>5. CASE plan.error # "none"
        BY <1>6, <1>7, <2>1, <2>2, <2>3, <2>5
    <2> QED BY <2>4, <2>5
<1>12. FlattenSeq(Column(scan'.done, "actions")) = Column(runs'[run].actions, "name") \o Pending'
    <2>1. PICK old \in Seq(Seq(ALLOWED_ACTIONS)) : old = Column(scan.done, "actions")
        BY <1>5, <1>9, Columns
    <2>2. PICK added \in Seq(ALLOWED_ACTIONS) : added = plan.actions
        BY <1>3
    <2>3. Column(scan'.done, "actions") = Append(old, added)
        BY <1>5, <1>6, <1>9, <2>1, <2>2, Columns
    <2>4. FlattenSeq(Append(old, added)) = FlattenSeq(old) \o added
        BY FlattenAppend
    <2>5. PICK names \in Seq(ALLOWED_ACTIONS) : names = Column(runs[run].actions, "name")
        BY <1>9, NamesTyped
    <2>6. FlattenSeq(old) = names
        <3>1. Pending = <<>>
            BY DEF Pending
        <3> QED BY <2>1, <2>5, <3>1, ConcatEmptySeq DEF Counted
    <2>7. Pending' = added
        BY <1>6, <2>2 DEF Pending
    <2> QED BY <1>7, <2>3, <2>4, <2>5, <2>6, <2>7
<1> QED BY <1>7, <1>8, <1>10, <1>11, <1>12 DEF Counted

LEMMA ExecuteActionCounts ==
    ASSUME CliInv, Counted, NEW client \in Clients, ExecuteAction(client), CliInv'
    PROVE  Counted'
<1>1. scan.pc = "act" /\ scan'.done = scan.done /\ runs' = runs /\ scan'.errors = scan.errors
      /\ scan'.pc = (IF Len(scan.results) + 1 = Len(scan.plan.actions) THEN "note" ELSE "act")
      /\ scan'.plan = scan.plan
    BY DEF CliInv, Typed, Processes, ExecuteAction
<1>2. Unrecorded' = Unrecorded
    BY <1>1 DEF Unrecorded
<1>3. Pending' = Pending
    <2>1. CASE scan'.pc = "act"
        BY <1>1, <2>1 DEF Pending
    <2>2. CASE scan'.pc = "note"
        <3> DEFINE action == scan.plan.actions[Len(scan.results) + 1]
                   result == ExecuteOne(scan.plan, action, runs[run].dry,
                                        [client EXCEPT !.live = scan.live, !.archiveOn = Config.archive])
                   named == Named(action, result)
        <3>1. scan'.results = Append(scan.results, named)
            BY DEF CliInv, Typed, Processes, ExecuteAction
        <3>2. named.name = action
            BY DEF Named
        <3> HIDE DEF named
        <3>3. PICK n \in Nat : n = Len(scan.results)
            BY ScanFields DEF CliInv
        <3>4. /\ scan.results \in Seq(ResultRecords) /\ scan.plan.actions \in Seq(ALLOWED_ACTIONS)
              /\ scan'.results \in Seq(ResultRecords)
            BY ScanFields DEF CliInv, Typed, Processes
        <3>5. Len(scan.plan.actions) = n + 1
            BY <1>1, <2>2, <3>3
        <3>6. /\ Len(scan'.results) = n + 1 /\ scan'.results[n + 1] = named
              /\ \A i \in 1 .. n : scan'.results[i] = scan.results[i]
            BY <3>1, <3>3, <3>4
        <3>7. \A i \in 1 .. n : scan.results[i].name = scan.plan.actions[i]
            BY <1>1, <3>3, <3>4 DEF CliInv, Holding
        <3>8. PICK names \in Seq(ALLOWED_ACTIONS) : /\ names = Column(scan'.results, "name")
                                                    /\ Len(names) = n + 1
            BY <3>4, <3>6, NamesTyped
        <3>9. \A i \in 1 .. (n + 1) : names[i] = scan.plan.actions[i]
            <4> TAKE i \in 1 .. (n + 1)
            <4>1. i \in DOMAIN scan'.results
                BY <3>4, <3>6
            <4>2. names[i] = scan'.results[i].name
                BY <3>8, <4>1 DEF Column
            <4>3. CASE i = n + 1
                BY <3>2, <3>3, <3>6, <4>2, <4>3
            <4>4. CASE i # n + 1
                <5>1. i \in 1 .. n
                    BY <4>4
                <5> QED BY <3>6, <3>7, <4>2, <5>1
            <4> QED BY <4>3, <4>4
        <3>10. names = scan.plan.actions
            BY <3>4, <3>5, <3>8, <3>9, SeqEqual
        <3> QED BY <1>1, <2>2, <3>8, <3>10 DEF Pending
    <2> QED BY <1>1, <2>1, <2>2
<1> QED BY <1>1, <1>2, <1>3, CountedStill

LEMMA ConsNames ==
    ASSUME NEW s \in Seq(ResultRecords), s # <<>>
    PROVE  /\ Column(s, "name") = <<Head(s).name>> \o Column(Tail(s), "name")
           /\ Column(Tail(s), "name") \in Seq(ALLOWED_ACTIONS)
<1>1. PICK n \in Nat : n = Len(s) /\ n # 0
    BY EmptySeq
<1>2. /\ Tail(s) \in Seq(ResultRecords) /\ Len(Tail(s)) = n - 1 /\ Head(s) = s[1]
      /\ \A i \in 1 .. (n - 1) : Tail(s)[i] = s[i + 1]
      /\ Head(s) \in ResultRecords
    BY <1>1, HeadTailProperties
<1>3. PICK name \in ALLOWED_ACTIONS : name = Head(s).name
    BY <1>2 DEF ResultRecords
<1>4. PICK c \in Seq(ALLOWED_ACTIONS) : c = Column(s, "name") /\ Len(c) = n
    BY <1>1, NamesTyped
<1>5. PICK t \in Seq(ALLOWED_ACTIONS) : t = Column(Tail(s), "name") /\ Len(t) = n - 1
    BY <1>2, NamesTyped
<1>6. \A i \in 1 .. n : c[i] = s[i].name
    BY <1>1, <1>4 DEF Column
<1>7. \A i \in 1 .. (n - 1) : t[i] = s[i + 1].name
    <2> TAKE i \in 1 .. (n - 1)
    <2>1. i \in DOMAIN Tail(s)
        BY <1>2
    <2> QED BY <1>2, <1>5, <2>1 DEF Column
<1>8. <<name>> \in Seq(ALLOWED_ACTIONS) /\ Len(<<name>>) = 1 /\ <<name>>[1] = name
    OBVIOUS
<1>9. PICK d \in Seq(ALLOWED_ACTIONS) :
         d = <<name>> \o t /\ Len(d) = n /\ d[1] = name /\ \A i \in 2 .. n : d[i] = t[i - 1]
    <2>1. /\ <<name>> \o t \in Seq(ALLOWED_ACTIONS) /\ Len(<<name>> \o t) = 1 + (n - 1)
          /\ \A i \in 1 .. (1 + (n - 1)) : (<<name>> \o t)[i] = IF i <= 1 THEN <<name>>[i] ELSE t[i - 1]
        BY <1>5, <1>8, ConcatProperties
    <2> DEFINE e == <<name>> \o t
    <2>2. 1 + (n - 1) = n /\ 1 \in 1 .. n
        BY <1>1
    <2> HIDE DEF e
    <2>3. e \in Seq(ALLOWED_ACTIONS) /\ Len(e) = n
          /\ \A i \in 1 .. n : e[i] = IF i <= 1 THEN <<name>>[i] ELSE t[i - 1]
        BY <2>1, <2>2 DEF e
    <2>4. e[1] = name
        BY <1>8, <2>2, <2>3
    <2>5. \A i \in 2 .. n : e[i] = t[i - 1]
        BY <2>3
    <2> QED BY <2>3, <2>4, <2>5 DEF e
<1>10. \A i \in 1 .. n : c[i] = d[i]
    <2> TAKE i \in 1 .. n
    <2>1. CASE i = 1
        BY <1>2, <1>3, <1>6, <1>9, <2>1
    <2>2. CASE i # 1
        <3>1. i \in 2 .. n /\ i - 1 \in 1 .. (n - 1) /\ (i - 1) + 1 = i
            BY <2>2
        <3> QED BY <1>6, <1>7, <1>9, <3>1
    <2> QED BY <2>1, <2>2
<1>11. c = d
    BY <1>4, <1>9, <1>10, SeqEqual
<1> QED BY <1>3, <1>4, <1>5, <1>9, <1>11

LEMMA RecordActionCounts == ASSUME CliInv, Counted, RecordAction PROVE Counted'
<1> DEFINE result == Head(scan.results)
           row == ActionRow(result)
<1>1. /\ scan.ref \in Refs /\ scan.pc = "note" /\ runs # <<>> /\ scan.results # <<>>
      /\ run \in DOMAIN runs /\ runs[run] \in RunRows /\ scan.results \in Seq(ResultRecords)
    BY RunIs, ScanFields DEF CliInv, RecordAction, Holding, Running
<1>2. result \in ResultRecords
    BY <1>1, NextResultIs DEF CliInv
<1> HIDE DEF result
<1>3. row \in ActionRows /\ row.name = result.name /\ row.success = result.success
    <2>1. runs[run].dry \in BOOLEAN /\ scan.ref.id \in Assets
        BY <1>1, RowFields DEF Refs
    <2> QED BY <1>2, <2>1 DEF ActionRow, ActionRows, ResultRecords
<1>4. runs' = [runs EXCEPT ![run]["actions"] = Append(@, row)]
    BY DEF RecordAction, InRun, result
<1> HIDE DEF row
<1>5. /\ runs'[run].actions = Append(runs[run].actions, row)
      /\ runs'[run].classes = runs[run].classes /\ runs'[run].errors = runs[run].errors
      /\ Kept(runs, runs')
    BY <1>1, <1>3, <1>4, AddAction DEF CliInv, Typed, run
<1>6. run' = run
    BY <1>5, Monotone DEF CliInv
<1>7. /\ scan'.done = scan.done
      /\ \/ /\ result.success /\ scan'.errors = scan.errors
            /\ \/ scan'.pc = "note" /\ scan'.results = Tail(scan.results)
               \/ scan'.pc = "list" /\ Len(scan.results) = 1
         \/ /\ ~result.success /\ scan'.errors = scan.errors + 1 /\ scan'.pc = "action"
            /\ scan'.results = scan.results
    <2>1. CASE result.success
        <3>1. scan' = NextResult
            BY <2>1 DEF RecordAction, result
        <3> QED BY <1>1, <2>1, <3>1, NextResultIs DEF CliInv
    <2>2. CASE ~result.success
        BY <2>2 DEF CliInv, Typed, Processes, RecordAction, result
    <2> QED BY <2>1, <2>2
<1>8. PICK rest \in Seq(ALLOWED_ACTIONS) : rest = Column(Tail(scan.results), "name")
                                           /\ Column(scan.results, "name") = <<result.name>> \o rest
    BY <1>1, ConsNames DEF result
<1>9. Pending' = rest
    <2>1. CASE scan'.pc = "note"
        BY <1>7, <1>8, <2>1 DEF Pending
    <2>2. CASE scan'.pc = "action"
        BY <1>7, <1>8, <2>2 DEF Pending
    <2>3. CASE scan'.pc = "list"
        <3>1. Len(Tail(scan.results)) = 0 /\ Tail(scan.results) \in Seq(ResultRecords)
            BY <1>1, <1>7, <2>3, NextResultIs DEF CliInv
        <3>2. Tail(scan.results) = <<>>
            BY <3>1, EmptySeq
        <3>3. Column(<<>>, "name") = <<>>
            BY DEF Column
        <3> QED BY <1>8, <2>3, <3>2, <3>3 DEF Pending
    <2> QED BY <1>7, <2>1, <2>2, <2>3
<1>10. FlattenSeq(Column(scan'.done, "actions")) = Column(runs'[run].actions, "name") \o Pending'
    <2>1. PICK names \in Seq(ALLOWED_ACTIONS) : names = Column(runs[run].actions, "name")
        BY <1>1, RowFields, NamesTyped
    <2>2. PICK name \in ALLOWED_ACTIONS : name = result.name
        BY <1>2 DEF ResultRecords
    <2>3. Column(runs'[run].actions, "name") = Append(names, name)
        BY <1>1, <1>3, <1>5, <2>1, <2>2, RowFields, Columns
    <2>4. FlattenSeq(Column(scan.done, "actions")) = names \o (<<name>> \o rest)
        <3>1. Pending = <<name>> \o rest
            BY <1>1, <1>8, <2>2 DEF Pending
        <3> QED BY <1>1, <2>1, <3>1 DEF Counted
    <2>5. names \o (<<name>> \o rest) = Append(names, name) \o rest
        <3>1. <<name>> \in Seq(ALLOWED_ACTIONS)
            OBVIOUS
        <3>2. names \o (<<name>> \o rest) = (names \o <<name>>) \o rest
            BY <3>1, ConcatAssociative
        <3>3. Append(names, name) = names \o <<name>>
            BY AppendIsConcat
        <3> QED BY <3>2, <3>3
    <2> QED BY <1>7, <1>9, <2>3, <2>4, <2>5
<1>11. scan'.errors = Len(runs'[run].errors) + Unrecorded'
    <2>0. Len(runs[run].errors) \in Nat
        <3>1. runs[run].errors \in Seq(ErrorRows)
            BY <1>1, RowFields
        <3> QED BY <3>1, LenProperties
    <2>1. PICK n \in Nat : n = Len(runs[run].errors)
        BY <2>0
    <2>2. scan.errors = n
        BY <1>1, <2>1 DEF Counted, Unrecorded
    <2>3. CASE result.success
        <3>1. Unrecorded' = 0 /\ scan'.errors = n
            BY <1>7, <2>2, <2>3 DEF Unrecorded
        <3> QED BY <1>5, <2>1, <3>1
    <2>4. CASE ~result.success
        BY <1>5, <1>7, <2>1, <2>2, <2>4 DEF Unrecorded
    <2> QED BY <2>3, <2>4
<1>12. scan'.errors = 0 => \A i \in DOMAIN runs'[run].actions : runs'[run].actions[i].success
    <2>1. PICK n \in Nat : n = scan.errors
        BY ScanFields DEF CliInv
    <2>2. scan'.errors = 0 => scan.errors = 0 /\ result.success
        <3>1. n + 1 # 0
            OBVIOUS
        <3> QED BY <1>7, <2>1, <3>1
    <2>3. runs[run].actions \in Seq(ActionRows)
        BY <1>1, RowFields
    <2>4. /\ Append(runs[run].actions, row)[Len(runs[run].actions) + 1] = row
          /\ \A i \in DOMAIN runs[run].actions :
               Append(runs[run].actions, row)[i] = runs[run].actions[i]
          /\ \A i \in DOMAIN Append(runs[run].actions, row) :
               i \in DOMAIN runs[run].actions \/ i = Len(runs[run].actions) + 1
        BY <1>3, <2>3, SeqGrows
    <2>5. scan.errors = 0 => \A i \in DOMAIN runs[run].actions : runs[run].actions[i].success
        BY <1>1 DEF Counted
    <2> QED BY <1>3, <1>5, <2>2, <2>4, <2>5
<1>13. Column(scan'.done, "category") = Column(runs'[run].classes, "category")
    BY <1>1, <1>5, <1>7 DEF Counted
<1> QED BY <1>6, <1>10, <1>11, <1>12, <1>13 DEF Counted

LEMMA StartRunCounts ==
    ASSUME CliInv, NEW file \in DOMAIN Files, NEW configured \in BOOLEAN,
           NEW override \in BOOLEAN, NEW reprocess \in BOOLEAN,
           StartRun(file, configured, override, reprocess), CliInv'
    PROVE  Counted'
<1> DEFINE row == start_run(IF override THEN TRUE ELSE configured)
<1>1. row.classes = <<>> /\ row.actions = <<>> /\ row.errors = <<>>
    BY DEF start_run
<1>2. runs' = Append(runs, row)
    BY DEF StartRun
<1> HIDE DEF row
<1>3. runs'[run'] = row
    <2>1. PICK n \in Nat : n = Len(runs)
        BY DEF CliInv, Typed
    <2>2. Len(runs') = n + 1 /\ runs'[n + 1] = row
        BY <1>2, <2>1 DEF CliInv, Typed
    <2> QED BY <2>2 DEF run
<1>4. scan'.done = <<>> /\ scan'.errors = 0 /\ scan'.pc = "list"
    BY IdleIs DEF StartRun, Idle
<1>5. Column(<<>>, "category") = <<>> /\ Column(<<>>, "name") = <<>> /\ Column(<<>>, "actions") = <<>>
    BY DEF Column
<1>6. FlattenSeq(<<>>) = <<>> /\ <<>> \o <<>> = <<>>
    BY DEF FlattenSeq
<1>7. Pending' = <<>> /\ Unrecorded' = 0
    BY <1>4 DEF Pending, Unrecorded
<1> QED BY <1>1, <1>3, <1>4, <1>5, <1>6, <1>7 DEF Counted

\* The summary that a process stores is what the rows of its run say.
LEMMA SummaryIs ==
    ASSUME CliInv, Counted, FinishRun
    PROVE  summarize_scan \in Summaries /\ Summed(finish_run(runs[run], summarize_scan))
<1>1. scan.pc = "list" /\ run \in DOMAIN runs /\ runs[run] \in RunRows
    BY RunIs DEF CliInv, FinishRun, Running
<1>2. /\ Pending = <<>> /\ Unrecorded = 0
    BY <1>1 DEF Pending, Unrecorded
<1>3. /\ runs[run].classes \in Seq(ClassRows) /\ runs[run].actions \in Seq(ActionRows)
      /\ runs[run].errors \in Seq(ErrorRows) /\ scan.done \in Seq(Entries)
      /\ scan.skipped \in Nat /\ scan.errors \in Nat
    BY <1>1, RowFields, ScanFields DEF CliInv
<1>4. PICK names \in Seq(ALLOWED_ACTIONS) : names = Column(runs[run].actions, "name")
    BY <1>3, NamesTyped
<1>5. PICK categories \in Seq(CategoriesOf) : /\ categories = Column(scan.done, "category")
                                              /\ Len(categories) = Len(scan.done)
    <2>1. PICK f : f = "category"
        OBVIOUS
    <2>2. \A x \in Entries : x[f] \in CategoriesOf
        BY <2>1 DEF Entries
    <2>3. Column(scan.done, f) \in Seq(CategoriesOf) /\ Len(Column(scan.done, f)) = Len(scan.done)
        BY <1>3, <2>2, ColumnTyped
    <2> QED BY <2>1, <2>3
<1>6. Len(runs[run].classes) = Len(scan.done)
    <2>1. PICK f : f = "category"
        OBVIOUS
    <2>2. \A x \in ClassRows : x[f] \in CategoriesOf
        BY <2>1 DEF ClassRows
    <2>3. PICK rows \in Seq(ClassRows) : rows = runs[run].classes
        BY <1>3
    <2>4. Column(rows, f) \in Seq(CategoriesOf) /\ Len(Column(rows, f)) = Len(rows)
        BY <2>2, ColumnTyped
    <2>5. Len(Column(runs[run].classes, f)) = Len(runs[run].classes)
        BY <2>3, <2>4
    <2> QED BY <1>1, <1>5, <2>1, <2>5 DEF Counted
<1>7. FlattenSeq(Column(scan.done, "actions")) = names
    BY <1>1, <1>2, <1>4, ConcatEmptySeq DEF Counted
<1>8. /\ summarize_scan.processed = Len(scan.done) /\ summarize_scan.errors = scan.errors
      /\ summarize_scan.by_category = Counts(categories) /\ summarize_scan.intended = Counts(names)
    BY <1>5, <1>7 DEF summarize_scan
<1>9. Counts(categories) \in Tally(CategoriesOf) /\ Counts(names) \in Tally(ALLOWED_ACTIONS)
    BY CountsTyped
<1>10. summarize_scan \in Summaries
    <2>1. PICK n \in Nat : n = Len(scan.done)
        BY <1>3
    <2>2. PICK t \in Tally(CategoriesOf) : t = Counts(categories)
        BY <1>9
    <2>3. PICK u \in Tally(ALLOWED_ACTIONS) : u = Counts(names)
        BY <1>9
    <2>4. summarize_scan = [processed |-> n, skipped |-> scan.skipped, errors |-> scan.errors,
                            by_category |-> t, intended |-> u]
        BY <1>5, <1>7, <2>1, <2>2, <2>3 DEF summarize_scan
    <2> QED BY <1>3, <2>4 DEF Summaries
<1>11. scan.errors = Len(runs[run].errors)
    <2>1. PICK n \in Nat : n = Len(runs[run].errors)
        BY <1>3
    <2> QED BY <1>1, <1>2, <2>1 DEF Counted
<1>12. Column(scan.done, "category") = Column(runs[run].classes, "category")
       /\ (scan.errors = 0 => \A i \in DOMAIN runs[run].actions : runs[run].actions[i].success)
    BY <1>1 DEF Counted
<1> DEFINE new == finish_run(runs[run], summarize_scan)
<1>13. /\ new.summary = summarize_scan /\ new.classes = runs[run].classes
       /\ new.actions = runs[run].actions /\ new.errors = runs[run].errors
       /\ new.status = (IF summarize_scan.errors = 0 THEN "succeeded" ELSE "completed_with_errors")
    BY <1>1 DEF finish_run, RunRows
<1> HIDE DEF new
<1>14. new.status = "succeeded" <=> summarize_scan.errors = 0
    BY <1>13
<1>15. Summed(new)
    BY <1>4, <1>5, <1>6, <1>8, <1>11, <1>12, <1>13, <1>14 DEF Summed
<1> QED BY <1>10, <1>15 DEF new

\* Everything that is known between two steps.
ScanInv == CliInv /\ Counted /\ Summarised

LEMMA StillSummarised == ASSUME Summarised, runs' = runs PROVE Summarised'
BY DEF Summarised

LEMMA StartRunSummarised ==
    ASSUME CliInv, Summarised, NEW file \in DOMAIN Files, NEW configured \in BOOLEAN,
           NEW override \in BOOLEAN, NEW reprocess \in BOOLEAN,
           StartRun(file, configured, override, reprocess)
    PROVE  Summarised'
<1> DEFINE row == start_run(IF override THEN TRUE ELSE configured)
<1>1. row.status = "running" /\ runs' = Append(runs, row) /\ runs \in Seq(RunRows)
    BY DEF CliInv, Typed, StartRun, start_run
<1> HIDE DEF row
<1>2. PICK n \in Nat : n = Len(runs)
    BY <1>1
<1>3. /\ DOMAIN runs' = 1 .. (n + 1) /\ runs'[n + 1] = row
      /\ \A r \in 1 .. n : r \in DOMAIN runs /\ runs'[r] = runs[r]
    BY <1>1, <1>2
<1>4. ASSUME NEW r \in DOMAIN runs', runs'[r].status # "running"
      PROVE  r \in DOMAIN runs /\ runs'[r] = runs[r]
    <2>1. r # n + 1
        BY <1>1, <1>3, <1>4
    <2>2. r \in 1 .. n
        BY <1>3, <2>1
    <2> QED BY <1>3, <2>2
<1> QED BY <1>4 DEF Summarised

LEMMA FinishRunSummarised == ASSUME CliInv, Counted, Summarised, FinishRun PROVE Summarised'
<1>1. run \in DOMAIN runs /\ runs \in Seq(RunRows)
    BY RunIs DEF CliInv, Typed, FinishRun, Running
<1> DEFINE new == finish_run(runs[run], summarize_scan)
<1>2. runs' = [runs EXCEPT ![run] = new]
    BY <1>1 DEF FinishRun
<1>3. Summed(new)
    BY SummaryIs
<1> HIDE DEF new
<1>4. DOMAIN runs' = DOMAIN runs /\ \A r \in DOMAIN runs : runs'[r] = IF r = run THEN new ELSE runs[r]
    BY <1>1, <1>2
<1> QED BY <1>3, <1>4 DEF Summarised

LEMMA InitScan == ASSUME Init PROVE ScanInv
<1>1. runs = <<>> /\ scan.pc = "idle"
    BY IdleIs DEF Init
<1> QED BY <1>1, InitHolds DEF ScanInv, Counted, Summarised

LEMMA StepScan == ASSUME ScanInv, [Next]_vars PROVE ScanInv'
<1> USE DEF ScanInv
<1>1. Typed /\ Running
    BY DEF CliInv
<1>2. CASE FetchPage
    <2>1. runs' = runs
        BY <1>2 DEF FetchPage
    <2> QED BY <1>2, <2>1, FetchPageKeeps, FetchPageCounts, StillSummarised
<1>3. CASE RecordFailure
    <2> DEFINE row == ErrorRow(scan.ref.id, scan.pc, scan.ref.sum)
    <2>1. /\ row \in ErrorRows /\ runs' = [runs EXCEPT ![run]["errors"] = Append(@, row)]
          /\ scan.pc # "idle"
        BY <1>3 DEF CliInv, RecordFailure, RecordError, InRun, Holding, ErrorRow, ErrorRows, Refs, Stages
    <2> HIDE DEF row
    <2>2. Kept(runs, runs')
        BY <1>1, <2>1, AddError DEF Typed, Running, run
    <2> QED BY <1>1, <1>3, <2>1, <2>2, RecordFailureKeeps, RecordFailureCounts, SummarisedKept
<1>4. CASE RecordDecisionError
    <2> DEFINE row == ErrorRow(scan.ref.id, "decision", scan.ref.sum)
    <2>1. /\ row \in ErrorRows /\ runs' = [runs EXCEPT ![run]["errors"] = Append(@, row)]
          /\ scan.pc # "idle"
        BY <1>4 DEF CliInv, RecordDecisionError, RecordError, InRun, Holding, ErrorRow, ErrorRows,
                    Refs, Stages
    <2> HIDE DEF row
    <2>2. Kept(runs, runs')
        BY <1>1, <2>1, AddError DEF Typed, Running, run
    <2> QED BY <1>1, <1>4, <2>1, <2>2, RecordDecisionErrorKeeps, RecordDecisionErrorCounts,
               SummarisedKept
<1>5. CASE RecordAction
    <2> DEFINE row == ActionRow(Head(scan.results))
    <2>1. scan.results # <<>> /\ scan.pc # "idle" /\ scan.ref \in Refs
        BY <1>5 DEF CliInv, RecordAction, Holding
    <2>2. Head(scan.results) \in ResultRecords
        BY <1>1, <2>1, NextResultIs
    <2>3. runs[run].dry \in BOOLEAN
        BY <1>1, <2>1, RunIs, RowFields DEF Running
    <2>4. row \in ActionRows /\ runs' = [runs EXCEPT ![run]["actions"] = Append(@, row)]
        BY <1>5, <2>1, <2>2, <2>3 DEF RecordAction, InRun, ActionRow, ActionRows, ResultRecords, Refs
    <2> HIDE DEF row
    <2>5. Kept(runs, runs')
        BY <1>1, <2>1, <2>4, AddAction DEF Typed, Running, run
    <2> QED BY <1>1, <1>5, <2>1, <2>5, RecordActionKeeps, RecordActionCounts, SummarisedKept
<1>6. CASE RecordActionError
    <2> DEFINE row == ErrorRow(scan.ref.id, "action", scan.ref.sum)
    <2>1. /\ row \in ErrorRows /\ runs' = [runs EXCEPT ![run]["errors"] = Append(@, row)]
          /\ scan.pc # "idle"
        BY <1>6 DEF CliInv, RecordActionError, RecordError, InRun, Holding, ErrorRow, ErrorRows,
                    Refs, Stages
    <2> HIDE DEF row
    <2>2. Kept(runs, runs')
        BY <1>1, <2>1, AddError DEF Typed, Running, run
    <2> QED BY <1>1, <1>6, <2>1, <2>2, RecordActionErrorKeeps, RecordActionErrorCounts, SummarisedKept
<1>7. CASE FinishRun
    <2>1. Counted'
        BY <1>7, IdleIs DEF FinishRun, Counted
    <2> QED BY <1>7, <2>1, SummaryIs, FinishRunKeeps, FinishRunSummarised
<1>8. ASSUME NEW ref \in scan.page, Consider(ref) PROVE ScanInv'
    <2>1. runs' = runs
        BY <1>8 DEF Consider
    <2> QED BY <1>8, <2>1, ConsiderKeeps, ConsiderCounts, StillSummarised
<1>9. ASSUME NEW stage \in {"extractor", "classifier"}, ClassifyFails(stage) PROVE ScanInv'
    <2>1. runs' = runs
        BY <1>9 DEF ClassifyFails
    <2> QED BY <1>9, <2>1, ClassifyFailsKeeps, ClassifyFailsCounts, StillSummarised
<1>10. ASSUME scan.pc = "classify", NEW category \in Config.outcomes, Classified(category)
       PROVE  ScanInv'
    <2> DEFINE row == [asset |-> scan.ref.id, category |-> category, sum |-> scan.ref.sum]
    <2>1. category \in CategoriesOf /\ scan.ref \in Refs
        BY <1>10, ConfigIs, DecideIs DEF CliInv, Holding
    <2>2. row \in ClassRows /\ runs' = [runs EXCEPT ![run]["classes"] = Append(@, row)]
        BY <1>10, <2>1 DEF Classified, InRun, ClassRows, Refs
    <2> HIDE DEF row
    <2>3. Kept(runs, runs')
        BY <1>1, <1>10, <2>2, AddClass DEF Typed, Running, run
    <2> QED BY <1>1, <1>10, <2>3, ClassifiedKeeps, ClassifiedCounts, SummarisedKept
<1>11. ASSUME NEW client \in Clients, ExecuteAction(client) PROVE ScanInv'
    <2>1. runs' = runs
        BY <1>11 DEF ExecuteAction
    <2>2. CliInv'
        BY <1>11, ExecuteActionKeeps
    <2> QED BY <1>11, <2>1, <2>2, ExecuteActionCounts, StillSummarised
<1>12. CASE Interrupt
    <2>1. runs' = runs /\ Counted'
        BY <1>12, IdleIs DEF Interrupt, Counted
    <2> QED BY <1>12, <2>1, InterruptKeeps, StillSummarised
<1>13. ASSUME NEW file \in DOMAIN Files, NEW configured \in BOOLEAN, NEW override \in BOOLEAN,
              NEW reprocess \in BOOLEAN, StartRun(file, configured, override, reprocess)
       PROVE  ScanInv'
    <2>1. CliInv'
        BY <1>13, StartRunKeeps
    <2> QED BY <1>13, <2>1, StartRunCounts, StartRunSummarised
<1>14. ASSUME NEW a \in Assets, NEW sum \in Sums, EditAsset(a, sum) PROVE ScanInv'
    <2>1. runs' = runs /\ scan' = scan
        BY <1>14 DEF EditAsset
    <2>2. Counted'
        BY <2>1 DEF Counted, run, Pending, Unrecorded
    <2> QED BY <1>14, <2>1, <2>2, EditAssetKeeps, StillSummarised
<1>15. CASE UNCHANGED vars
    <2>1. runs' = runs /\ scan' = scan
        BY <1>15 DEF vars
    <2>2. Counted'
        BY <2>1 DEF Counted, run, Pending, Unrecorded
    <2> QED BY <1>15, <2>1, <2>2, StutterKeeps, StillSummarised
<1> QED BY <1>2, <1>3, <1>4, <1>5, <1>6, <1>7, <1>8, <1>9, <1>10, <1>11, <1>12, <1>13, <1>14, <1>15
        DEF Next, RunScan

\* The invariant holds whatever the files, the library and the answers of Immich
\* are, and wherever the process is interrupted.
THEOREM ScanInvariant == Spec => []ScanInv
<1>1. Init => ScanInv
    BY InitScan
<1>2. ScanInv /\ [Next]_vars => ScanInv'
    BY StepScan
<1> QED BY <1>1, <1>2, PTL DEF Spec


-----------------------------------------------------------------------------
(* What the invariant says about the tables and about every scan.           *)

\* The tables and the process keep their types: a process that scans has a run
\* that is open and an accepted file (pipeline.run_scan).
THEOREM CliTypeTheorem == Spec => []TypeOK
<1>1. ScanInv => TypeOK
    <2> SUFFICES ASSUME ScanInv PROVE TypeOK
        OBVIOUS
    <2>1. \A r \in DOMAIN runs : /\ runs[r].status \in {"running", "succeeded", "completed_with_errors"}
                                 /\ runs[r].dry \in BOOLEAN
        BY RunIs DEF ScanInv, CliInv, RunRows
    <2>2. scan.pc \in Steps
        BY ScanFields DEF ScanInv, CliInv
    <2> QED BY <2>1, <2>2 DEF TypeOK, ScanInv, CliInv, Typed, AssetRows, Running, Steps
<1> QED BY <1>1, ScanInvariant, PTL

\* Every change in Immich belongs to a live run that classified the asset, with a
\* row for it unless the run was cut short; a live row's success happened.
THEOREM ChangesTheorem == Spec => []ChangesAreAccountedFor
<1>1. ScanInv => ChangesAreAccountedFor
    <2> SUFFICES ASSUME ScanInv PROVE ChangesAreAccountedFor
        OBVIOUS
    <2>1. ASSUME NEW c \in applied
          PROVE  \E r \in DOMAIN runs :
                   /\ ~runs[r].dry
                   /\ \E i \in DOMAIN runs[r].classes : runs[r].classes[i].asset = c[1]
                   /\ \/ runs[r].status = "running"
                      \/ \E i \in DOMAIN runs[r].actions : LET row == runs[r].actions[i] IN
                           row.asset = c[1] /\ row.name = c[2] /\ row.would
        <3>1. PICK r \in DOMAIN runs :
                 /\ ~runs[r].dry /\ HasClass(r, c[1])
                 /\ \/ runs[r].status = "running" /\ ~ Current(r)
                    \/ Told(r, c)
                    \/ Current(r) /\ InHand(c)
            BY <2>1 DEF ScanInv, CliInv, Explained
        <3>2. Current(r) => runs[r].status = "running"
            BY DEF ScanInv, CliInv, Running, Current
        <3> QED BY <3>1, <3>2 DEF HasClass, Told
    <2>2. \A r \in DOMAIN runs : \A i \in DOMAIN runs[r].actions :
             LET row == runs[r].actions[i] IN
             row.success /\ row.would /\ ~row.dry => <<row.asset, row.name>> \in applied
        BY DEF ScanInv, CliInv, Happened
    <2> QED BY <2>1, <2>2 DEF ChangesAreAccountedFor
<1> QED BY <1>1, ScanInvariant, PTL

\* An asset that scans skip was classified once, and the version in its row was
\* classified, has an error row, is in hand, or is one whose failure the end of
\* a process kept from the log.
THEOREM SkippedTheorem == Spec => []SkippedWithReason
<1>1. ScanInv => SkippedWithReason
    <2> SUFFICES ASSUME ScanInv PROVE SkippedWithReason
        OBVIOUS
    <2> DEFINE rows(f) == UNION {ToSet(runs[r][f]) : r \in DOMAIN runs}
    <2>1. \A r \in DOMAIN runs : \A i \in DOMAIN runs[r].classes :
             runs[r].classes[i] \in rows("classes")
        BY DEF ToSet
    <2>2. \A r \in DOMAIN runs : \A i \in DOMAIN runs[r].errors :
             runs[r].errors[i] \in rows("errors")
        BY DEF ToSet
    <2> HIDE DEF rows
    <2>3. ASSUME NEW a \in {b \in Assets : assets[b].processed}
          PROVE  /\ \E row \in rows("classes") : row.asset = a
                 /\ \/ \E row \in rows("classes") \cup rows("errors") :
                         row.asset = a /\ row.sum = assets[a].sum
                    \/ <<a, assets[a].sum>> \in unlogged
                    \/ scan.ref = [id |-> a, sum |-> assets[a].sum]
        <3>1. /\ ClassRow(a)
              /\ \/ ClassRowAt(a, assets[a].sum) \/ ErrorRowAt(a, assets[a].sum)
                 \/ <<a, assets[a].sum>> \in unlogged
                 \/ scan.ref = [id |-> a, sum |-> assets[a].sum]
            BY <2>3 DEF ScanInv, CliInv, Traced
        <3>2. \E row \in rows("classes") : row.asset = a
            BY <2>1, <3>1 DEF ClassRow
        <3>3. ClassRowAt(a, assets[a].sum) \/ ErrorRowAt(a, assets[a].sum)
              => \E row \in rows("classes") \cup rows("errors") :
                    row.asset = a /\ row.sum = assets[a].sum
            BY <2>1, <2>2 DEF ClassRowAt, ErrorRowAt
        <3> QED BY <3>1, <3>2, <3>3
    <2> QED BY <2>3 DEF SkippedWithReason, rows
<1> QED BY <1>1, ScanInvariant, PTL

\* Under an accepted file no decision fails for its category or rule, no action
\* for its name or the archive switch, and what is touched is what the scan mode
\* stands for.
THEOREM AcceptedRulesTheorem == Spec => []AcceptedRulesWork
<1>1. ScanInv => AcceptedRulesWork
    <2> SUFFICES ASSUME ScanInv, scan.pc # "idle" PROVE AcceptedRulesWork
        BY DEF AcceptedRulesWork
    <2> DEFINE wanted == Files[scan.file].scanner
    <2>1. scan.plan.error \in {"none", "missing_policy"}
        BY ScanFields DEF ScanInv, CliInv
    <2>2. \A i \in DOMAIN scan.results : scan.results[i].error \in Codes
        <3>1. scan.results \in Seq(ResultRecords)
            BY ScanFields DEF ScanInv, CliInv
        <3>2. \A i \in DOMAIN scan.results : scan.results[i] \in ResultRecords
            BY <3>1, ElementOfSeq
        <3> QED BY <3>2 DEF ResultRecords
    <2>3. ASSUME scan.ref # NoRef
          PROVE  LET asset == Details[scan.ref.id] IN
                 /\ wanted.mode = "date_range" => asset.time # 0 /\ wanted.since \in 1..asset.time
                 /\ wanted.mode = "album" => asset.albums \cap wanted.include # {}
        <3>1. scan.pc \notin {"idle", "list"} /\ scan.ref \in Refs
            BY <2>3 DEF ScanInv, CliInv, Holding
        <3>2. Matches(wanted, Details[scan.ref.id])
            BY <3>1 DEF ScanInv, CliInv, Admitted
        <3>3. ValidScanner(wanted) /\ wanted.since \in Nat
            BY CliConstantsOK DEF ScanInv, CliInv, Running, Accepts
        <3>4. Details[scan.ref.id].time \in Nat
            BY <3>1, CliConstantsOK DEF Refs
        <3> QED BY <3>2, <3>3, <3>4 DEF Matches, ValidScanner
    <2> QED BY <2>1, <2>2, <2>3 DEF AcceptedRulesWork, Codes
<1> QED BY <1>1, ScanInvariant, PTL

-----------------------------------------------------------------------------
(* What changes Immich.                                                     *)

\* A live run has a live executor, and the plan in hand was decided from the
\* classification last recorded.
LastClass == runs[run].classes[Len(runs[run].classes)]
Decided ==
    /\ runs[run].classes # <<>>
    /\ LastClass.asset = scan.ref.id /\ LastClass.category \in Config.outcomes
    /\ scan.plan = decide(Config, LastClass.category, Details[scan.ref.id].media)
Follows ==
    /\ scan.pc # "idle" => runs[run].dry \/ scan.live
    /\ scan.pc \in {"decision", "act"} => Decided

\* Only the rule itself asks for an action that changes Immich.
LEMMA RulesActOnly ==
    ASSUME NEW config, NEW category, NEW media, NEW plan, plan = decide(config, category, media),
           NEW i \in DOMAIN plan.actions, plan.actions[i] \in SIDE_EFFECT_ACTIONS
    PROVE  /\ category \in DOMAIN config.policies
           /\ media \in DOMAIN config.policies[category]
           /\ plan.actions = config.policies[category][media]
<1> DEFINE policy == IF category \in DOMAIN config.policies
                     THEN config.policies[category] ELSE <<>>
<1>1. plan.actions # SAFE_NO_ACTION
    <2> SUFFICES ASSUME plan.actions = SAFE_NO_ACTION PROVE FALSE
        OBVIOUS
    <2>1. plan.actions[i] = "no_action"
        BY DEF SAFE_NO_ACTION
    <2> QED BY <2>1 DEF SIDE_EFFECT_ACTIONS
<1>2. plan = IF category \notin config.categories THEN ActionPlan(SAFE_NO_ACTION, "unknown_category")
             ELSE IF media \notin DOMAIN policy THEN ActionPlan(SAFE_NO_ACTION, "missing_policy")
             ELSE IF policy[media] = <<>> THEN ActionPlan(SAFE_NO_ACTION, "invalid_policy")
             ELSE ActionPlan(policy[media], "none")
    BY DEF decide
<1>3. \A code : ActionPlan(SAFE_NO_ACTION, code).actions = SAFE_NO_ACTION
    BY DEF ActionPlan
<1> HIDE DEF policy
<1>4. media \in DOMAIN policy /\ plan = ActionPlan(policy[media], "none")
    BY <1>1, <1>2, <1>3
<1>5. plan.actions = policy[media]
    BY <1>4 DEF ActionPlan
<1>6. category \in DOMAIN config.policies
    <2> SUFFICES ASSUME category \notin DOMAIN config.policies PROVE FALSE
        OBVIOUS
    <2>1. policy = <<>>
        BY DEF policy
    <2> QED BY <1>4, <2>1
<1>7. policy = config.policies[category]
    BY <1>6 DEF policy
<1> QED BY <1>4, <1>5, <1>6, <1>7

LEMMA KeptItself == ASSUME Typed, runs' = runs PROVE Kept(runs, runs')
BY RunIs, ExtendsItself DEF Kept, Typed

\* Steps between two plans.
LEMMA FollowsBetween ==
    ASSUME CliInv, Follows, scan.pc # "idle", Kept(runs, runs'), scan'.live = scan.live,
           scan'.pc \notin {"decision", "act"}
    PROVE  Follows'
<1>1. run \in DOMAIN runs /\ run' = run
    BY RunIs, Monotone DEF CliInv, Running
<1>2. runs'[run].dry = runs[run].dry
    BY <1>1 DEF Kept
<1> QED BY <1>1, <1>2 DEF Follows

\* Steps with the plan in hand.
LEMMA FollowsOn ==
    ASSUME CliInv, Follows, scan.pc \in {"decision", "act"}, Kept(runs, runs'),
           runs'[run].classes = runs[run].classes, scan'.live = scan.live,
           scan'.file = scan.file, scan'.ref = scan.ref, scan'.plan = scan.plan
    PROVE  Follows'
<1>1. run \in DOMAIN runs /\ run' = run
    BY RunIs, Monotone DEF CliInv, Running
<1>2. runs'[run].dry = runs[run].dry
    BY <1>1 DEF Kept
<1>3. LastClass' = LastClass /\ Config' = Config
    BY <1>1 DEF LastClass, Config, Loaded
<1>4. Decided
    BY DEF Follows
<1>5. Decided'
    BY <1>1, <1>3, <1>4 DEF Decided
<1>6. runs'[run'].dry \/ scan'.live
    BY <1>1, <1>2 DEF Follows
<1> QED BY <1>5, <1>6 DEF Follows

LEMMA NextResultLive == ASSUME Typed PROVE NextResult.live = scan.live
<1>1. CASE Len(scan.results) > 1
    BY <1>1 DEF NextResult, Typed, Processes
<1>2. CASE ~ (Len(scan.results) > 1)
    BY <1>2 DEF NextResult, Typed, Processes
<1> QED BY <1>1, <1>2

LEMMA ClassifiedFollows ==
    ASSUME CliInv, Follows, NEW category \in Config.outcomes, scan.pc = "classify",
           Classified(category)
    PROVE  Follows'
<1> USE DEF CliInv
<1>1. scan.ref \in Refs /\ runs # <<>> /\ run \in DOMAIN runs /\ runs[run] \in RunRows
    BY RunIs DEF Holding, Running
<1>2. category \in CategoriesOf
    BY ConfigIs, DecideIs
<1> DEFINE row == [asset |-> scan.ref.id, category |-> category, sum |-> scan.ref.sum]
           plan == decide(Config, category, Details[scan.ref.id].media)
<1>3. row \in ClassRows /\ row.asset = scan.ref.id /\ row.category = category
    BY <1>1, <1>2 DEF ClassRows, Refs
<1>4. runs' = [runs EXCEPT ![run]["classes"] = Append(@, row)]
    BY DEF Classified, InRun
<1>5. scan' = [scan EXCEPT !.plan = plan,
                 !.done = Append(@, [category |-> category, actions |-> plan.actions]),
                 !.pc = IF plan.error = "none" THEN "act" ELSE "decision",
                 !.errors = IF plan.error = "none" THEN @ ELSE @ + 1]
    BY DEF Classified
<1> HIDE DEF row, plan
<1>6. Kept(runs, runs') /\ runs'[run].classes = Append(runs[run].classes, row)
    BY <1>1, <1>3, <1>4, AddClass DEF Typed, run
<1>7. /\ runs'[run].classes # <<>>
      /\ runs'[run].classes[Len(runs'[run].classes)] = row
    <2>1. runs[run].classes \in Seq(ClassRows)
        BY <1>1, RowFields
    <2>2. Append(runs[run].classes, row) \in Seq(ClassRows)
          /\ Len(Append(runs[run].classes, row)) = Len(runs[run].classes) + 1
          /\ Append(runs[run].classes, row)[Len(runs[run].classes) + 1] = row
        BY <1>3, <2>1, SeqGrows
    <2>3. Len(runs[run].classes) \in Nat
        BY <2>1
    <2> QED BY <1>6, <2>2, <2>3, EmptySeq
<1>8. /\ scan'.file = scan.file /\ scan'.ref = scan.ref /\ scan'.live = scan.live
      /\ scan'.plan = plan
    BY <1>5 DEF Typed, Processes
<1>9. run' = run /\ runs'[run].dry = runs[run].dry
    <2>1. run' = run
        BY <1>6, Monotone
    <2> QED BY <1>1, <1>6, <2>1 DEF Kept
<1>10. Config' = Config
    BY <1>8 DEF Config, Loaded
<1>11. LastClass' = row
    BY <1>7, <1>9 DEF LastClass
<1>12. Decided'
    BY <1>3, <1>7, <1>8, <1>9, <1>10, <1>11 DEF Decided, plan
<1>13. runs'[run'].dry \/ scan'.live
    BY <1>8, <1>9 DEF Follows
<1> QED BY <1>12, <1>13 DEF Follows

LEMMA StartRunFollows ==
    ASSUME CliInv, NEW file \in DOMAIN Files, NEW configured \in BOOLEAN,
           NEW override \in BOOLEAN, NEW reprocess \in BOOLEAN,
           StartRun(file, configured, override, reprocess)
    PROVE  Follows'
<1> DEFINE dry == IF override THEN TRUE ELSE configured
           row == start_run(dry)
<1>1. runs' = Append(runs, row) /\ row.dry = dry
    BY DEF StartRun, start_run
<1>2. runs \in Seq(RunRows)
    BY DEF CliInv, Typed
<1> HIDE DEF row
<1>3. runs'[run'] = row
    BY <1>1, <1>2 DEF run
<1>4. scan'.live = ~configured /\ scan'.pc = "list"
    BY IdleIs DEF StartRun, Processes
<1> QED BY <1>1, <1>3, <1>4 DEF Follows

LEMMA StepFollows == ASSUME ScanInv, Follows, [Next]_vars PROVE Follows'
<1> USE DEF ScanInv
<1>1. CliInv /\ Typed /\ Running
    BY DEF CliInv
<1>2. CASE FetchPage
    <2>1. runs' = runs /\ scan.pc = "list"
        BY <1>2 DEF FetchPage
    <2>2. scan'.pc = "list" /\ scan'.live = scan.live
        BY <1>1, <1>2, <2>1 DEF FetchPage, Typed, Processes
    <2> QED BY <1>1, <2>1, <2>2, KeptItself, FollowsBetween
<1>3. CASE RecordFailure
    <2> DEFINE row == ErrorRow(scan.ref.id, scan.pc, scan.ref.sum)
    <2>1. /\ row \in ErrorRows /\ runs' = [runs EXCEPT ![run]["errors"] = Append(@, row)]
          /\ scan.pc # "idle"
        BY <1>3 DEF CliInv, RecordFailure, RecordError, InRun, Holding, ErrorRow, ErrorRows, Refs, Stages
    <2> HIDE DEF row
    <2>2. Kept(runs, runs')
        BY <1>1, <2>1, AddError DEF Typed, Running, run
    <2>3. scan'.pc = "list" /\ scan'.live = scan.live
        BY <1>1, <1>3 DEF RecordFailure, Typed, Processes
    <2> QED BY <1>1, <2>1, <2>2, <2>3, FollowsBetween
<1>4. CASE RecordDecisionError
    <2> DEFINE row == ErrorRow(scan.ref.id, "decision", scan.ref.sum)
    <2>1. /\ row \in ErrorRows /\ runs' = [runs EXCEPT ![run]["errors"] = Append(@, row)]
          /\ scan.pc = "decision"
        BY <1>4 DEF CliInv, RecordDecisionError, RecordError, InRun, Holding, ErrorRow, ErrorRows,
                    Refs, Stages
    <2> HIDE DEF row
    <2>2. Kept(runs, runs') /\ runs'[run].classes = runs[run].classes
        BY <1>1, <2>1, AddError DEF Typed, Running, run
    <2>3. /\ scan'.live = scan.live /\ scan'.file = scan.file /\ scan'.ref = scan.ref
          /\ scan'.plan = scan.plan
        BY <1>1, <1>4 DEF RecordDecisionError, Typed, Processes
    <2> QED BY <1>1, <2>1, <2>2, <2>3, FollowsOn
<1>5. CASE RecordAction
    <2> DEFINE row == ActionRow(Head(scan.results))
    <2>1. scan.results # <<>> /\ scan.pc = "note" /\ scan.ref \in Refs
        BY <1>5 DEF CliInv, RecordAction, Holding
    <2>2. Head(scan.results) \in ResultRecords
        BY <1>1, <2>1, NextResultIs
    <2>3. runs[run].dry \in BOOLEAN
        BY <1>1, <2>1, RunIs, RowFields DEF Running
    <2>4. row \in ActionRows /\ runs' = [runs EXCEPT ![run]["actions"] = Append(@, row)]
        BY <1>5, <2>1, <2>2, <2>3 DEF RecordAction, InRun, ActionRow, ActionRows, ResultRecords, Refs
    <2> HIDE DEF row
    <2>5. Kept(runs, runs')
        BY <1>1, <2>1, <2>4, AddAction DEF Typed, Running, run
    <2>6. CASE Head(scan.results).success
        <3>1. scan' = NextResult
            BY <1>5, <2>6 DEF RecordAction
        <3>2. scan'.live = scan.live
            BY <1>1, <3>1, NextResultLive
        <3>3. scan'.pc \in {"note", "list"}
            BY <1>1, <2>1, <3>1, NextResultIs
        <3> QED BY <1>1, <2>1, <2>5, <3>2, <3>3, FollowsBetween
    <2>7. CASE ~ Head(scan.results).success
        <3>1. scan' = [scan EXCEPT !.pc = "action", !.errors = @ + 1]
            BY <1>5, <2>7 DEF RecordAction
        <3>2. scan'.live = scan.live /\ scan'.pc = "action"
            BY <1>1, <3>1 DEF Typed, Processes
        <3> QED BY <1>1, <2>1, <2>5, <3>2, FollowsBetween
    <2> QED BY <2>6, <2>7
<1>6. CASE RecordActionError
    <2> DEFINE row == ErrorRow(scan.ref.id, "action", scan.ref.sum)
    <2>1. /\ row \in ErrorRows /\ runs' = [runs EXCEPT ![run]["errors"] = Append(@, row)]
          /\ scan.pc = "action" /\ scan.results # <<>>
        BY <1>6 DEF CliInv, RecordActionError, RecordError, InRun, Holding, ErrorRow, ErrorRows,
                    Refs, Stages
    <2> HIDE DEF row
    <2>2. Kept(runs, runs')
        BY <1>1, <2>1, AddError DEF Typed, Running, run
    <2>3. scan' = NextResult
        BY <1>6 DEF RecordActionError
    <2>4. scan'.live = scan.live
        BY <1>1, <2>3, NextResultLive
    <2>5. scan'.pc \in {"note", "list"}
        BY <1>1, <2>1, <2>3, NextResultIs
    <2> QED BY <1>1, <2>1, <2>2, <2>4, <2>5, FollowsBetween
<1>7. CASE FinishRun \/ Interrupt
    <2>1. scan'.pc = "idle"
        BY <1>7, IdleIs DEF FinishRun, Interrupt
    <2> QED BY <2>1 DEF Follows
<1>8. ASSUME NEW ref \in scan.page, Consider(ref) PROVE Follows'
    <2>1. runs' = runs /\ scan.pc = "list"
        BY <1>8 DEF Consider
    <2> DEFINE rest == [scan EXCEPT !.page = @ \ {ref}]
    <2>2. /\ rest.live = scan.live /\ rest.pc = "list"
          /\ DOMAIN rest = DOMAIN scan
        BY <1>1, <2>1 DEF Typed, Processes
    <2>3. \/ scan' = [rest EXCEPT !.pc = "classify", !.ref = ref]
          \/ scan' = [rest EXCEPT !.skipped = @ + 1]
        BY <1>8 DEF Consider
    <2> HIDE DEF rest
    <2>4. {"pc", "live", "ref", "skipped"} \subseteq DOMAIN rest
        BY <1>1, <2>2 DEF Typed, Processes
    <2>5. scan'.live = scan.live /\ scan'.pc \in {"list", "classify"}
        BY <2>2, <2>3, <2>4
    <2> QED BY <1>1, <2>1, <2>5, KeptItself, FollowsBetween
<1>9. ASSUME NEW stage \in {"extractor", "classifier"}, ClassifyFails(stage) PROVE Follows'
    <2>1. runs' = runs /\ scan.pc = "classify"
        BY <1>9 DEF ClassifyFails
    <2>2. scan'.live = scan.live /\ scan'.pc = stage
        BY <1>1, <1>9 DEF ClassifyFails, Typed, Processes
    <2> QED BY <1>1, <2>1, <2>2, KeptItself, FollowsBetween
<1>10. ASSUME scan.pc = "classify", NEW category \in Config.outcomes, Classified(category)
       PROVE  Follows'
    BY <1>1, <1>10, ClassifiedFollows
<1>11. ASSUME NEW client \in Clients, ExecuteAction(client) PROVE Follows'
    <2>1. runs' = runs /\ scan.pc = "act"
        BY <1>11 DEF ExecuteAction
    <2> DEFINE action == scan.plan.actions[Len(scan.results) + 1]
               config == [client EXCEPT !.live = scan.live, !.archiveOn = Config.archive]
               result == ExecuteOne(scan.plan, action, runs[run].dry, config)
               results == Append(scan.results, Named(action, result))
               pc == IF Len(scan.results) + 1 = Len(scan.plan.actions) THEN "note" ELSE "act"
    <2>2. scan' = [scan EXCEPT !.results = results, !.pc = pc]
        BY <1>11 DEF ExecuteAction
    <2> HIDE DEF results, pc
    <2>3. /\ scan'.live = scan.live /\ scan'.file = scan.file /\ scan'.ref = scan.ref
          /\ scan'.plan = scan.plan
        BY <1>1, <2>2 DEF Typed, Processes
    <2> QED BY <1>1, <2>1, <2>3, KeptItself, FollowsOn
<1>12. ASSUME NEW file \in DOMAIN Files, NEW configured \in BOOLEAN, NEW override \in BOOLEAN,
              NEW reprocess \in BOOLEAN, StartRun(file, configured, override, reprocess)
       PROVE  Follows'
    BY <1>1, <1>12, StartRunFollows
<1>13. CASE UNCHANGED <<runs, scan>>
    BY <1>13 DEF Follows, Decided, LastClass, Config, Loaded, run
<1>14. ASSUME NEW a \in Assets, NEW sum \in Sums, EditAsset(a, sum) PROVE Follows'
    BY <1>13, <1>14 DEF EditAsset
<1>15. CASE UNCHANGED vars
    BY <1>13, <1>15 DEF vars
<1> QED BY <1>2, <1>3, <1>4, <1>5, <1>6, <1>7, <1>8, <1>9, <1>10, <1>11, <1>12, <1>14, <1>15
        DEF Next, RunScan

LEMMA ActionsFollow ==
    ASSUME CliInv, Follows, NEW client \in Clients, ExecuteAction(client), NEW c \in applied' \ applied
    PROVE  Ruled(c)
<1> USE DEF CliInv
<1> DEFINE at == Len(scan.results) + 1
           action == scan.plan.actions[at]
           dry == runs[run].dry
           config == [client EXCEPT !.live = scan.live, !.archiveOn = Config.archive]
           result == ExecuteOne(scan.plan, action, dry, config)
<1>1. scan.ref \in Refs /\ scan.pc = "act" /\ run \in DOMAIN runs /\ runs[run] \in RunRows
      /\ dry \in BOOLEAN /\ Len(scan.results) < Len(scan.plan.actions)
    BY RunIs, RowFields DEF ExecuteAction, Holding, Running
<1>2. at \in DOMAIN scan.plan.actions /\ action \in ALLOWED_ACTIONS
    BY <1>1, ScanFields
<1>3. Config = AppConfig(Files[scan.file])
    BY <1>1, ConfigIs
<1>4. Config.archive = Files[scan.file].archive /\ Config.policies = Files[scan.file].policies
    BY <1>3 DEF AppConfig
<1>5. action = "archive" => config.archiveOn
    <2>1. action = "archive" => Files[scan.file].archive
        BY <1>2 DEF Admitted
    <2>2. config.archiveOn = Config.archive
        BY CliConstantsOK DEF ClientSettings
    <2> QED BY <1>4, <2>1, <2>2
<1>6. config \in ClientSettings
    <2>1. Config.archive \in BOOLEAN
        BY <1>1, <1>4, ConfigIs, CliConstantsOK
    <2> QED BY <2>1, ScanFields, CliConstantsOK DEF ClientSettings
<1>7. result.sent => ~dry /\ action \in SIDE_EFFECT_ACTIONS
    <2>1. scan.plan.error \in {"none", "missing_policy"}
        BY ScanFields
    <2> HIDE DEF action, dry, config
    <2> QED BY <1>1, <1>2, <1>5, <1>6, <2>1, ExecuteOneIs
<1>8. applied' \in (IF result.sent THEN {applied \cup {<<scan.ref.id, action>>}} ELSE {})
                   \cup (IF result.sent /\ result.success THEN {} ELSE {applied})
    BY DEF ExecuteAction
<1> HIDE DEF result
<1>9. result.sent /\ c = <<scan.ref.id, action>>
    BY <1>8
<1>10. c[1] = scan.ref.id /\ c[2] = action /\ ~dry /\ action \in SIDE_EFFECT_ACTIONS
    BY <1>7, <1>9
<1>11. Decided /\ scan.live
    BY <1>1, <1>10 DEF Follows
<1>12. /\ LastClass.asset = scan.ref.id
       /\ scan.plan = decide(Config, LastClass.category, Details[scan.ref.id].media)
    BY <1>11 DEF Decided
<1> DEFINE category == LastClass.category
           media == Details[scan.ref.id].media
<1>13. /\ category \in DOMAIN Config.policies /\ media \in DOMAIN Config.policies[category]
       /\ scan.plan.actions = Config.policies[category][media]
    <2> HIDE DEF category, media, at
    <2>1. scan.plan = decide(Config, category, media)
        BY <1>12 DEF category, media
    <2> QED BY <1>2, <1>10, <2>1, RulesActOnly
<1>14. Matches(Files[scan.file].scanner, Details[scan.ref.id])
    BY <1>1 DEF Admitted
<1>15. action \in ToSet(scan.plan.actions)
    BY <1>2 DEF ToSet
<1> HIDE DEF action, dry
<1>16. /\ ~runs[run].dry /\ scan.live /\ Matches(Files[scan.file].scanner, Details[c[1]])
       /\ LastClass.asset = c[1]
    BY <1>10, <1>11, <1>12, <1>14 DEF dry
<1>17. /\ LastClass.category \in DOMAIN Files[scan.file].policies
       /\ Details[c[1]].media \in DOMAIN Files[scan.file].policies[LastClass.category]
       /\ c[2] \in ToSet(Files[scan.file].policies[LastClass.category][Details[c[1]].media])
    BY <1>4, <1>10, <1>13, <1>15
<1> QED BY <1>16, <1>17, Zenon DEF Ruled, LastClass

LEMMA StepRuled ==
    ASSUME ScanInv, Follows, [Next]_vars
    PROVE  \A c \in applied' \ applied : Ruled(c)
<1>1. ASSUME NEW client \in Clients, ExecuteAction(client)
      PROVE  \A c \in applied' \ applied : Ruled(c)
    BY <1>1, ActionsFollow DEF ScanInv
<1>2. CASE applied' = applied
    BY <1>2
<1>3. FetchPage \/ RecordFailure \/ RecordDecisionError \/ RecordAction \/ RecordActionError
      \/ FinishRun \/ Interrupt \/ UNCHANGED vars => applied' = applied
    BY Zenon DEF FetchPage, RecordFailure, RecordDecisionError, RecordAction, RecordActionError,
                 FinishRun, Interrupt, vars
<1>4. /\ \A ref : Consider(ref) => applied' = applied
      /\ \A stage : ClassifyFails(stage) => applied' = applied
      /\ \A category : Classified(category) => applied' = applied
      /\ \A a, sum : EditAsset(a, sum) => applied' = applied
    BY Zenon DEF Consider, ClassifyFails, Classified, EditAsset
<1>5. \A file, configured, override, reprocess :
         StartRun(file, configured, override, reprocess) => applied' = applied
    BY Zenon DEF StartRun
<1>6. (\E client \in Clients : ExecuteAction(client)) \/ applied' = applied
    BY <1>3, <1>4, <1>5 DEF Next, RunScan
<1> QED BY <1>1, <1>2, <1>6

\* Whatever the files, the library and the answers of Immich are, a scan changes
\* Immich only in a live run and only as the rule of its own file says for the
\* category it has just recorded (pipeline.run_scan, DecisionEngine.decide).
THEOREM PolicyTheorem == Spec => ChangesFollowPolicy
<1>1. Init => Follows
    BY IdleIs DEF Init, Follows
<1>2. ScanInv /\ Follows /\ [Next]_vars => Follows'
    BY StepFollows
<1>3. ScanInv /\ Follows /\ [Next]_vars => [\A c \in applied' \ applied : Ruled(c)]_vars
    BY StepRuled
<1> QED BY <1>1, <1>2, <1>3, ScanInvariant, PTL DEF Spec, ChangesFollowPolicy

-----------------------------------------------------------------------------
(* What a report adds up to.                                                *)

Totals(f) == [k \in DOMAIN f |-> f[k].total]

\* A sequence is divided by a key of its rows.
LEMMA Divided ==
    ASSUME NEW S, NEW s \in Seq(S)
    PROVE  /\ IsFiniteSet(DOMAIN s) /\ Cardinality(DOMAIN s) = Len(s)
           /\ \A T \in SUBSET DOMAIN s : IsFiniteSet(T) /\ Cardinality(T) \in Nat
<1>1. PICK n \in Nat : n = Len(s) /\ DOMAIN s = 1 .. n
    OBVIOUS
<1>2. IsFiniteSet(1 .. n) /\ Cardinality(1 .. n) = n
    BY FS_Interval
<1> QED BY <1>1, <1>2, FS_Subset, FS_CardinalityType

LEMMA StagesAddUp ==
    ASSUME NEW rows \in Seq(ErrorRows)
    PROVE  SumFunction(Totals(ReportErrorCounts(rows))) = Len(rows)
<1> DEFINE D == DOMAIN rows
           key == [i \in D |-> rows[i].stage]
           g == Totals(ReportErrorCounts(rows))
<1>1. DOMAIN g = {key[i] : i \in D}
    BY DEF Totals, ReportErrorCounts, ToSet
<1>2. ASSUME NEW k \in DOMAIN g PROVE g[k] = Cardinality({i \in D : key[i] = k})
    <2>1. g[k] = Cardinality({i \in D : rows[i].stage = k})
        BY <1>2 DEF Totals, ReportErrorCounts, CountOf
    <2>2. {i \in D : rows[i].stage = k} = {i \in D : key[i] = k}
        OBVIOUS
    <2> QED BY <2>1, <2>2
<1>3. IsFiniteSet(D) /\ Cardinality(D) = Len(rows)
    BY Divided
<1> HIDE DEF D, key, g
<1>4. SumFunction(g) = Cardinality(D)
    BY <1>1, <1>2, <1>3, PartitionSum
<1> QED BY <1>3, <1>4 DEF g

LEMMA ActionsAddUp ==
    ASSUME NEW rows \in Seq(ActionRows)
    PROVE  /\ SumFunction(Totals(ReportActionCounts(rows))) = Len(rows)
           /\ \A k \in DOMAIN ReportActionCounts(rows) :
                LET n == ReportActionCounts(rows)[k] IN n.total = n.succeeded + n.failed
<1> DEFINE D == DOMAIN rows
           key == [i \in D |-> <<rows[i].name, rows[i].error>>]
           report == ReportActionCounts(rows)
           g == Totals(report)
           at(k) == {i \in D : <<rows[i].name, rows[i].error>> = k}
           done(k) == {i \in D : <<rows[i].name, rows[i].error>> = k /\ rows[i].success}
           failed(k) == {i \in D : <<rows[i].name, rows[i].error>> = k /\ ~rows[i].success}
<1>1. DOMAIN report = {key[i] : i \in D} /\ DOMAIN g = DOMAIN report
    BY DEF Totals, ReportActionCounts, ToSet
<1>2. ASSUME NEW k \in DOMAIN report
      PROVE  /\ report[k].total = Cardinality(at(k)) /\ report[k].succeeded = Cardinality(done(k))
             /\ report[k].failed = Cardinality(failed(k)) /\ g[k] = report[k].total
    BY <1>2 DEF Totals, ReportActionCounts, CountOf
<1>3. IsFiniteSet(D) /\ Cardinality(D) = Len(rows)
    BY Divided
<1>4. \A k : at(k) = {i \in D : key[i] = k}
    OBVIOUS
<1>5. ASSUME NEW k PROVE Cardinality(at(k)) = Cardinality(done(k)) + Cardinality(failed(k))
    <2>1. at(k) = done(k) \cup failed(k) /\ done(k) \cap failed(k) = {}
        OBVIOUS
    <2>2. done(k) \in SUBSET D /\ failed(k) \in SUBSET D
        OBVIOUS
    <2>3. /\ IsFiniteSet(done(k)) /\ IsFiniteSet(failed(k))
          /\ Cardinality(done(k)) \in Nat /\ Cardinality(failed(k)) \in Nat
        BY <2>2, Divided
    <2>4. PICK a, b : a = done(k) /\ b = failed(k)
        OBVIOUS
    <2>5. Cardinality(a \cup b) = Cardinality(a) + Cardinality(b) - Cardinality(a \cap b)
        BY <2>3, <2>4, FS_Union
    <2>6. a \cap b = {} /\ Cardinality(a \cap b) = 0 /\ at(k) = a \cup b
        BY <2>1, <2>4, FS_EmptySet
    <2> HIDE DEF at, done, failed
    <2> QED BY <2>3, <2>4, <2>5, <2>6
<1> HIDE DEF D, key, g, report
<1>6. \A k \in DOMAIN g : g[k] = Cardinality({i \in D : key[i] = k})
    BY <1>1, <1>2, <1>4
<1>7. SumFunction(g) = Cardinality(D)
    BY <1>1, <1>3, <1>6, PartitionSum
<1>8. \A k \in DOMAIN report : report[k].total = report[k].succeeded + report[k].failed
    <2> HIDE DEF at, done, failed
    <2> QED BY <1>2, <1>5
<1> QED BY <1>3, <1>7, <1>8 DEF g, report

\* A closed run without action rows intended nothing.
LEMMA NothingAddsUp ==
    ASSUME NEW intended, DOMAIN intended = {}
    PROVE  /\ DOMAIN SummaryActionCounts(intended) = {}
           /\ SumFunction(Totals(SummaryActionCounts(intended))) = 0
<1> DEFINE g == Totals(SummaryActionCounts(intended))
<1>1. DOMAIN SummaryActionCounts(intended) = {} /\ DOMAIN g = {}
    BY DEF Totals, SummaryActionCounts
<1>2. IsFiniteSet({}) /\ Cardinality({}) = 0
    BY FS_EmptySet
<1> HIDE DEF g
<1>3. PICK D : D = {}
    OBVIOUS
<1>4. PICK key : key = [i \in D |-> 0]
    OBVIOUS
<1>5. SumFunction(g) = Cardinality(D)
    BY <1>1, <1>2, <1>3, PartitionSum
<1> QED BY <1>1, <1>2, <1>3, <1>5 DEF g

LEMMA ColumnCounts ==
    ASSUME NEW rows \in Seq(ActionRows)
    PROVE  /\ \A name \in DOMAIN Counts(Column(rows, "name")) :
                Counts(Column(rows, "name"))[name] = Cardinality({i \in DOMAIN rows : rows[i].name = name})
           /\ rows = <<>> => DOMAIN Counts(Column(rows, "name")) = {}
<1>1. PICK names : names = Column(rows, "name")
    OBVIOUS
<1>2. DOMAIN names = DOMAIN rows /\ \A i \in DOMAIN rows : names[i] = rows[i].name
    BY <1>1 DEF Column
<1>3. ASSUME NEW name \in DOMAIN Counts(names)
      PROVE  Counts(names)[name] = Cardinality({i \in DOMAIN rows : rows[i].name = name})
    <2>1. {i \in DOMAIN names : names[i] = name} = {i \in DOMAIN rows : rows[i].name = name}
        BY <1>2
    <2>2. Counts(names)[name] = Cardinality({i \in DOMAIN names : names[i] = name})
        BY <1>3 DEF Counts
    <2> QED BY <2>1, <2>2
<1>4. ASSUME rows = <<>> PROVE DOMAIN Counts(names) = {}
    <2>1. DOMAIN names = {}
        BY <1>2, <1>4
    <2> QED BY <2>1 DEF Counts
<1> QED BY <1>1, <1>3, <1>4

\* What a closed run reports is what its rows say.
ReportAgrees(row) ==
    LET report == Report(row)
        total(f) == SumFunction([k \in DOMAIN f |-> f[k].total])
    IN /\ report.processed = Len(row.classes)
       /\ report.errors = Len(row.errors) /\ report.errors = total(report.stages)
       /\ report.by_category = Counts(Column(row.classes, "category"))
       /\ \A name \in DOMAIN row.summary.intended :
            row.summary.intended[name] =
                CountOf(row.actions, LAMBDA action : action.name = name)
       /\ total(report.actions) = Len(row.actions)
       /\ \A key \in DOMAIN report.actions : LET n == report.actions[key] IN
            n.total = n.succeeded + n.failed
       /\ ~report.partial <=> row.status = "succeeded"
       /\ row.status = "succeeded" =>
            \A i \in DOMAIN row.actions : row.actions[i].success

LEMMA SummedAgrees ==
    ASSUME NEW row \in RunRows, row.status # "running", Summed(row)
    PROVE  ReportAgrees(row)
<1>1. /\ row.errors \in Seq(ErrorRows) /\ row.actions \in Seq(ActionRows)
      /\ row.classes \in Seq(ClassRows)
      /\ row.status \in {"running", "succeeded", "completed_with_errors"}
      /\ row.summary.errors \in Nat
    BY DEF RunRows, Summaries
<1> DEFINE report == Report(row)
<1>2. /\ report.processed = row.summary.processed /\ report.errors = row.summary.errors
      /\ report.by_category = row.summary.by_category
      /\ report.stages = ReportErrorCounts(row.errors)
      /\ report.actions = IF row.actions # <<>> THEN ReportActionCounts(row.actions)
                          ELSE SummaryActionCounts(row.summary.intended)
      /\ report.partial <=> (row.summary.errors > 0 \/ row.status = "completed_with_errors")
    BY DEF Report
<1> HIDE DEF report
<1>3. /\ report.processed = Len(row.classes) /\ report.errors = Len(row.errors)
      /\ report.by_category = Counts(Column(row.classes, "category"))
      /\ SumFunction(Totals(report.stages)) = Len(row.errors)
    BY <1>1, <1>2, StagesAddUp DEF Summed
<1>4. row.summary.intended = Counts(Column(row.actions, "name"))
    BY DEF Summed
<1>5. \A name \in DOMAIN row.summary.intended :
         row.summary.intended[name] = Cardinality({i \in DOMAIN row.actions : row.actions[i].name = name})
    BY <1>1, <1>4, ColumnCounts
<1>6. /\ SumFunction(Totals(report.actions)) = Len(row.actions)
      /\ \A key \in DOMAIN report.actions : LET n == report.actions[key] IN
           n.total = n.succeeded + n.failed
    <2>1. CASE row.actions # <<>>
        BY <1>1, <1>2, <2>1, ActionsAddUp
    <2>2. CASE row.actions = <<>>
        <3>1. DOMAIN row.summary.intended = {} /\ Len(row.actions) = 0
            BY <1>1, <1>4, <2>2, ColumnCounts
        <3>2. report.actions = SummaryActionCounts(row.summary.intended)
            BY <1>2, <2>2
        <3> QED BY <3>1, <3>2, NothingAddsUp
    <2> QED BY <2>1, <2>2
<1>7. /\ ~report.partial <=> row.status = "succeeded"
      /\ row.status = "succeeded" => \A i \in DOMAIN row.actions : row.actions[i].success
    <2>1. row.status = "succeeded" <=> row.summary.errors = 0
        BY DEF Summed
    <2>2. row.status = "succeeded" => \A i \in DOMAIN row.actions : row.actions[i].success
        BY DEF Summed
    <2> QED BY <1>1, <1>2, <2>1, <2>2
<1> QED BY <1>3, <1>5, <1>6, <1>7 DEF ReportAgrees, Totals, CountOf, report

\* The counters that run_scan keeps beside its commits never drift from the rows:
\* what a closed run reports adds up to its rows, whatever failed and when.
THEOREM ReportTheorem == Spec => []ReportMatchesRows
<1>1. ScanInv => ReportMatchesRows
    <2> SUFFICES ASSUME ScanInv PROVE ReportMatchesRows
        OBVIOUS
    <2>1. ASSUME NEW r \in {q \in DOMAIN runs : runs[q].status # "running"}
          PROVE  ReportAgrees(runs[r])
        <3>1. runs[r] \in RunRows
            BY RunIs DEF ScanInv, CliInv
        <3>2. Summed(runs[r])
            BY DEF ScanInv, Summarised
        <3> QED BY <3>1, <3>2, SummedAgrees
    <2> QED BY <2>1 DEF ReportMatchesRows, ReportAgrees
<1> QED BY <1>1, ScanInvariant, PTL

=============================================================================
