----------------------------- MODULE EventGroups -----------------------------
(***************************************************************************)
(* The event groups of one user: the edits of /api/me/events (rename,      *)
(* merge, split, remove, reset) and the membership sync with which a scan  *)
(* records the analysis of an asset.                                       *)
(*                                                                         *)
(* All threads share one SQLite connection, so each sees the statements of *)
(* the others at once, committed or not, and an edit is as many steps as   *)
(* it has statements.  The first statement of every edit is the check that *)
(* its event is visible; an edit that fails a check answers 404 or 400 and *)
(* leaves the tables alone.                                                *)
(*                                                                         *)
(* The id of an automatic group is a hash of its key, so the key stands    *)
(* for it.  Titles are "auto" (derived from an analysis) or "custom"; of a *)
(* group's source_json only merged_into_event_id is read.  A missing       *)
(* analysis and one without an event key are alike to every reader.  Rows  *)
(* of audit_log, which nothing here reads, are left out.                   *)
(* Bound: ManualIds, the ids that splits may draw.                         *)
(***************************************************************************)
EXTENDS Naturals, FiniteSets

CONSTANTS
    Assets,     \* assets of the user
    Keys,       \* automatic event keys of analyses
    ManualIds,  \* ids of events created by a split
    Editors,    \* threads that serve requests
    Scanners,   \* threads that run scans; the same set as Editors: nothing overlaps
    None

Threads == Editors \cup Scanners
EventIds == Keys \cup ManualIds

ASSUME EventConstantsOK ==
    /\ None \notin Assets \cup Keys \cup ManualIds
    /\ Keys \cap ManualIds = {}
    /\ IsFiniteSet(ManualIds) /\ IsFiniteSet(Threads)

VARIABLES
    groups,   \* event_groups by id; status "absent": no such row
    members,  \* asset_event_memberships by asset; source "none": no such row
    latest,   \* the event key of each asset's stored analysis
    threads   \* the statement each thread executes next

vars == <<groups, members, latest, threads>>

NoGroup == [status |-> "absent", title |-> "auto", into |-> None]
AutoGroup == [status |-> "auto", title |-> "auto", into |-> None]
SplitGroup == [status |-> "manual", title |-> "custom", into |-> None]
NoMember == [source |-> "none", event |-> None]
IdleThread == [pc |-> "idle", op |-> "none", event |-> None, sources |-> {}, ids |-> {},
               assets |-> {}, asset |-> None, key |-> None, join |-> None]

\* _assert_visible_event
Visible(e) == groups[e].status \in {"auto", "manual"}
Pinned(a) == members[a].source \in {"manual", "removed"}
MembersOf(E) == {a \in Assets : members[a].event \in E}

Goto(t, pc) == threads' = [threads EXCEPT ![t].pc = pc]
Answer(t) == threads' = [threads EXCEPT ![t] = IdleThread]
At(t, pc) == threads[t].pc = pc

\* A request whose event passed _assert_visible_event.
Begin(t, request) ==
    /\ t \in Editors /\ At(t, "idle") /\ Visible(request.event)
    /\ threads' = [threads EXCEPT ![t] = request]
    /\ UNCHANGED <<groups, members, latest>>

-----------------------------------------------------------------------------
(* rename_event_group                                                      *)

RequestRename(t, e) ==
    Begin(t, [IdleThread EXCEPT !.pc = "rename", !.op = "rename", !.event = e])

RenameGroup(t) ==
    /\ At(t, "rename")
    /\ groups' = [groups EXCEPT ![threads[t].event].title = "custom",
                                ![threads[t].event].status = "manual"]
    /\ Answer(t)
    /\ UNCHANGED <<members, latest>>

-----------------------------------------------------------------------------
(* merge_event_groups                                                      *)

\* Variant: the target is not dropped from its sources.
RequestMergeIntoItself(t, e) ==
    \E S \in SUBSET EventIds :
        /\ S # {}
        /\ Begin(t, [IdleThread EXCEPT !.pc = "readSource", !.op = "merge", !.event = e,
                                       !.sources = S, !.ids = S])

\* The list of sources is deduplicated and the target dropped from it.
RequestMerge(t, e) ==
    \E S \in SUBSET (EventIds \ {e}) :
        /\ S # {}
        /\ Begin(t, [IdleThread EXCEPT !.pc = "readSource", !.op = "merge", !.event = e,
                                       !.sources = S, !.ids = S])

ReadSource(t) ==
    /\ At(t, "readSource")
    /\ \E s \in threads[t].ids :
         IF Visible(s)
         THEN threads' = [threads EXCEPT ![t].ids = @ \ {s},
                             ![t].pc = IF threads[t].ids = {s} THEN "moveMembers" ELSE @]
         ELSE Answer(t)
    /\ UNCHANGED <<groups, members, latest>>

Pin(A, e) == members' = [a \in Assets |-> IF a \in A THEN [source |-> "manual", event |-> e]
                                          ELSE members[a]]

\* Variant: the members of the target are not pinned.
MoveSourcesOnly(t) ==
    /\ At(t, "moveMembers")
    /\ Pin(MembersOf(threads[t].sources), threads[t].event)
    /\ Goto(t, "markTarget")
    /\ UNCHANGED <<groups, latest>>

MoveMembers(t) ==
    /\ At(t, "moveMembers")
    /\ Pin(MembersOf(threads[t].sources \cup {threads[t].event}), threads[t].event)
    /\ Goto(t, "markTarget")
    /\ UNCHANGED <<groups, latest>>

MarkTarget(t) ==
    /\ At(t, "markTarget")
    /\ groups' = [groups EXCEPT ![threads[t].event].status = "manual"]
    /\ threads' = [threads EXCEPT ![t].ids = threads[t].sources, ![t].pc = "markSource"]
    /\ UNCHANGED <<members, latest>>

\* One UPDATE per source; the handler ends with the last.
MarkSource(t) ==
    /\ At(t, "markSource")
    /\ \E s \in threads[t].ids :
         /\ groups' = [groups EXCEPT ![s].status = "merged", ![s].into = threads[t].event]
         /\ IF threads[t].ids = {s} THEN Answer(t)
            ELSE threads' = [threads EXCEPT ![t].ids = @ \ {s}]
    /\ UNCHANGED <<members, latest>>

-----------------------------------------------------------------------------
(* split_event_group                                                       *)

FreshIds == {m \in ManualIds : groups[m].status = "absent"}
Splitting == {t \in Threads : threads[t].pc \in {"readSplit", "insertSplit"}}

RequestSplit(t, e) ==
    /\ Cardinality(Splitting) < Cardinality(FreshIds)
    /\ \E A \in SUBSET Assets :
         /\ A # {}
         /\ Begin(t, [IdleThread EXCEPT !.pc = "readSplit", !.op = "split", !.event = e,
                                        !.assets = A])

ReadSplit(t) ==
    /\ At(t, "readSplit")
    /\ IF threads[t].assets \subseteq MembersOf({threads[t].event})
       THEN Goto(t, "insertSplit") ELSE Answer(t)
    /\ UNCHANGED <<groups, members, latest>>

InsertSplit(t) ==
    /\ At(t, "insertSplit")
    /\ \E m \in FreshIds :
         /\ groups' = [groups EXCEPT ![m] = SplitGroup]
         /\ threads' = [threads EXCEPT ![t].join = m, ![t].pc = "moveSplit"]
    /\ UNCHANGED <<members, latest>>

\* The UPDATE names the assets only: whatever event they are in by now.
MoveSplit(t) ==
    /\ At(t, "moveSplit")
    /\ Pin({a \in threads[t].assets : members[a].source # "none"}, threads[t].join)
    /\ Answer(t)
    /\ UNCHANGED <<groups, latest>>

-----------------------------------------------------------------------------
(* remove_asset_from_event                                                 *)

RequestRemove(t, e) ==
    \E a \in Assets :
        Begin(t, [IdleThread EXCEPT !.pc = "readRemove", !.op = "remove", !.event = e,
                                    !.asset = a])

ReadRemove(t) ==
    /\ At(t, "readRemove")
    /\ IF threads[t].asset \in MembersOf({threads[t].event})
       THEN Goto(t, "writeRemove") ELSE Answer(t)
    /\ UNCHANGED <<groups, members, latest>>

WriteRemove(t) ==
    /\ At(t, "writeRemove")
    /\ members' = [members EXCEPT ![threads[t].asset] =
                     IF @.source = "none" THEN @ ELSE [source |-> "removed", event |-> None]]
    /\ Answer(t)
    /\ UNCHANGED <<groups, latest>>

-----------------------------------------------------------------------------
(* reset_event_group                                                       *)

RequestReset(t, e) ==
    Begin(t, [IdleThread EXCEPT !.pc = "readReset", !.op = "reset", !.event = e])

ReadReset(t) ==
    /\ At(t, "readReset")
    /\ threads' = [threads EXCEPT ![t].assets = MembersOf({threads[t].event}),
                                  ![t].pc = "nextAsset"]
    /\ UNCHANGED <<groups, members, latest>>

\* get_asset_analysis of the next asset, which is then synced.
ResetAsset(t) ==
    /\ At(t, "nextAsset")
    /\ \E a \in threads[t].assets :
         threads' = [threads EXCEPT ![t].assets = @ \ {a}, ![t].asset = a,
                                    ![t].key = latest[a], ![t].pc = "readMember"]
    /\ UNCHANGED <<groups, members, latest>>

\* Variant: a split event is hidden before its assets have left it.
FinishResetEarly(t) ==
    /\ At(t, "nextAsset")
    /\ groups' = IF threads[t].event \in ManualIds
                 THEN [groups EXCEPT ![threads[t].event].status = "reset"] ELSE groups
    /\ Answer(t)
    /\ UNCHANGED <<members, latest>>

FinishReset(t) ==
    /\ At(t, "nextAsset") /\ threads[t].assets = {}
    /\ groups' = IF threads[t].event \in ManualIds
                 THEN [groups EXCEPT ![threads[t].event].status = "reset"] ELSE groups
    /\ Answer(t)
    /\ UNCHANGED <<members, latest>>

-----------------------------------------------------------------------------
(* record_asset_analysis and _sync_asset_event_membership: a scan keeps    *)
(* manual edits (preserve_manual), a reset does not.                       *)

RecordAnalysis(t, a, k) ==
    /\ t \in Scanners /\ At(t, "idle")
    /\ latest' = [latest EXCEPT ![a] = k]
    /\ threads' = [threads EXCEPT ![t] = [IdleThread EXCEPT !.pc = "readMember", !.op = "scan",
                                                            !.asset = a, !.key = k]]
    /\ UNCHANGED <<groups, members>>

PreserveManual(t) == threads[t].op = "scan"
SyncDone(t) ==
    IF threads[t].op = "reset"
    THEN threads' = [threads EXCEPT ![t].pc = "nextAsset", ![t].asset = None,
                                    ![t].key = None, ![t].join = None]
    ELSE Answer(t)

\* Variant: only a manual membership is kept by a rescan.
ReadMemberForgetsRemoved(t) ==
    LET w == threads[t]
        source == members[w.asset].source
        kept == PreserveManual(t) /\ source = "manual"
    IN  /\ At(t, "readMember")
        /\ \/ w.key = None /\ source # "none" /\ ~kept /\ Goto(t, "deleteMember")
           \/ w.key # None /\ ~kept /\ Goto(t, "readGroup")
           \/ (kept \/ (w.key = None /\ source = "none")) /\ SyncDone(t)
        /\ UNCHANGED <<groups, members, latest>>

ReadMember(t) ==
    LET w == threads[t]
        source == members[w.asset].source
        kept == PreserveManual(t) /\ Pinned(w.asset)
    IN  /\ At(t, "readMember")
        /\ \/ w.key = None /\ source # "none" /\ ~kept /\ Goto(t, "deleteMember")
           \/ w.key # None /\ ~kept /\ Goto(t, "readGroup")
           \/ (kept \/ (w.key = None /\ source = "none")) /\ SyncDone(t)
        /\ UNCHANGED <<groups, members, latest>>

DeleteMember(t) ==
    /\ At(t, "deleteMember")
    /\ members' = [members EXCEPT ![threads[t].asset] = NoMember]
    /\ SyncDone(t)
    /\ UNCHANGED <<groups, latest>>

\* _ensure_auto_event_group: the SELECT decides which statement follows.  A
\* merged group sends the assets of a scan to the group it was merged into.
ReadGroup(t) ==
    LET g == groups[threads[t].key]
        joinTarget == g.status = "merged" /\ PreserveManual(t) /\ g.into # None
    IN  /\ At(t, "readGroup")
        /\ \/ g.status = "absent" /\ Goto(t, "insertGroup")
           \/ /\ joinTarget
              /\ threads' = [threads EXCEPT ![t].join = g.into, ![t].pc = "writeMember"]
           \/ /\ g.status # "absent" /\ ~joinTarget
              /\ Goto(t, IF g.status = "auto" \/ ~PreserveManual(t)
                         THEN "restoreGroup" ELSE "refreshGroup")
        /\ UNCHANGED <<groups, members, latest>>

JoinOwnGroup(t) == threads' = [threads EXCEPT ![t].join = threads[t].key, ![t].pc = "writeMember"]

\* The id and the key are unique: a second INSERT of the same key raises, and the
\* request, or the scan, fails.
InsertGroup(t) ==
    /\ At(t, "insertGroup")
    /\ IF groups[threads[t].key].status = "absent"
       THEN groups' = [groups EXCEPT ![threads[t].key] = AutoGroup] /\ JoinOwnGroup(t)
       ELSE UNCHANGED groups /\ Answer(t)
    /\ UNCHANGED <<members, latest>>

RestoreGroup(t) ==
    /\ At(t, "restoreGroup")
    /\ groups' = [groups EXCEPT ![threads[t].key] = AutoGroup]
    /\ JoinOwnGroup(t)
    /\ UNCHANGED <<members, latest>>

\* A manual group keeps its title and status; its source_json is written anew.
RefreshGroup(t) ==
    /\ At(t, "refreshGroup")
    /\ groups' = [groups EXCEPT ![threads[t].key].into = None]
    /\ JoinOwnGroup(t)
    /\ UNCHANGED <<members, latest>>

WriteMember(t) ==
    /\ At(t, "writeMember")
    /\ members' = [members EXCEPT ![threads[t].asset] =
                     [source |-> "auto", event |-> threads[t].join]]
    /\ SyncDone(t)
    /\ UNCHANGED <<groups, latest>>

-----------------------------------------------------------------------------

Init ==
    /\ groups = [e \in EventIds |-> NoGroup]
    /\ members = [a \in Assets |-> NoMember]
    /\ latest = [a \in Assets |-> None]
    /\ threads = [t \in Threads |-> IdleThread]

Request(t, e) ==
    \/ RequestRename(t, e) \/ RequestMerge(t, e) \/ RequestSplit(t, e)
    \/ RequestRemove(t, e) \/ RequestReset(t, e)

EditStep(t) ==
    \/ RenameGroup(t)
    \/ ReadSource(t) \/ MoveMembers(t) \/ MarkTarget(t) \/ MarkSource(t)
    \/ ReadSplit(t) \/ InsertSplit(t) \/ MoveSplit(t)
    \/ ReadRemove(t) \/ WriteRemove(t)
    \/ ReadReset(t) \/ ResetAsset(t) \/ FinishReset(t)

SyncStep(t) ==
    \/ ReadMember(t) \/ DeleteMember(t) \/ ReadGroup(t) \/ InsertGroup(t)
    \/ RestoreGroup(t) \/ RefreshGroup(t) \/ WriteMember(t)

Next ==
    \/ \E t \in Threads, e \in EventIds : Request(t, e)
    \/ \E t \in Threads, a \in Assets, k \in Keys \cup {None} : RecordAnalysis(t, a, k)
    \/ \E t \in Threads : EditStep(t) \/ SyncStep(t)

Spec == Init /\ [][Next]_vars

\* The threads are scheduled by the operating system; clients need not ask.
FairSpec == Spec /\ \A t \in Threads : WF_vars(EditStep(t) \/ SyncStep(t))

-----------------------------------------------------------------------------
(* Properties.                                                             *)

Group == [status : {"absent", "auto", "manual", "merged", "reset"},
          title : {"auto", "custom"}, into : EventIds \cup {None}]
Member == [source : {"none", "auto", "manual", "removed"}, event : EventIds \cup {None}]
EditPcs == {"rename", "readSource", "moveMembers", "markTarget", "markSource", "readSplit",
            "insertSplit", "moveSplit", "readRemove", "writeRemove", "readReset", "nextAsset"}
SyncPcs == {"readMember", "deleteMember", "readGroup", "insertGroup", "restoreGroup",
            "refreshGroup", "writeMember"}
Thread == [pc : {"idle"} \cup EditPcs \cup SyncPcs,
           op : {"none", "rename", "merge", "split", "remove", "reset", "scan"},
           event : EventIds \cup {None}, sources : SUBSET EventIds, ids : SUBSET EventIds,
           assets : SUBSET Assets, asset : Assets \cup {None},
           key : Keys \cup {None}, join : EventIds \cup {None}]

\* Every row and every thread holds what its declaration says.
TypeOK ==
    /\ groups \in [EventIds -> Group]
    /\ members \in [Assets -> Member]
    /\ latest \in [Assets -> Keys \cup {None}]
    /\ threads \in [Threads -> Thread]

\* An asset a user put somewhere can be seen there: the event of a manual
\* membership is never hidden, whatever scans run beside the edit.
PinnedVisible ==
    \A a \in Assets : members[a].source = "manual" => Visible(members[a].event)

\* Merged events form a forest: following "merged into" from any of them leaves
\* the merged events, so a merge never hides events in each other.
MergedEvents == {e \in EventIds : groups[e].status = "merged"}
MergeForest ==
    \A S \in SUBSET MergedEvents : S # {} => \E e \in S : groups[e].into \notin S

Scanning(t) == threads[t].op = "scan"
ScanMoves == \E t \in Threads : Scanning(t) /\ threads'[t] # threads[t]
EditsKept ==
    /\ \A a \in Assets : Pinned(a) => members'[a] = members[a]
    /\ \A e \in EventIds : groups[e].title = "custom" => groups'[e].title = "custom"
    /\ \A e \in EventIds : groups[e].status = "merged" => groups'[e] = groups[e]

\* The manual conflict policy: a rescan undoes no rename, merge, split or removal.
ScansKeepEdits == [][ScanMoves => EditsKept]_vars

\* Removing an asset records a membership so that a rescan does not re-add it.
RemovedStaysRemoved ==
    [][ScanMoves => \A a \in Assets :
          members[a].source = "removed" => members'[a].source # "auto"]_vars

\* A custom title is overwritten only while its own event is reset.
TitleKeptUntilReset ==
    [][\A e \in EventIds : groups[e].title = "custom" /\ groups'[e].title = "auto" =>
          \E t \in Threads : threads[t].op = "reset" /\ threads[t].event = e]_vars

\* New assets of a merged key join the target: what a scan places is visible.
AtRest == \A t \in Threads : At(t, "idle")
NewAssetsVisible ==
    AtRest => \A a \in Assets : members[a].source = "auto" => Visible(members[a].event)

\* A merge pins its members to an event that is still there when it is over.
PinnedVisibleAtRest == AtRest => PinnedVisible

\* The promise of the event API, about assets and where they are.
Contract == INSTANCE EventContract WITH
    Events <- EventIds,
    place  <- [a \in Assets |-> members[a].event],
    pin    <- [a \in Assets |-> Pinned(a)]

\* Each statement of an edit or of a scan is one step of the contract.
ImplementsContract == Contract!Spec
=============================================================================
