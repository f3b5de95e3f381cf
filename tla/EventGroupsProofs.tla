-------------------------- MODULE EventGroupsProofs --------------------------
(***************************************************************************)
(* Theorems about EventGroups for every set of assets, keys and threads:   *)
(* its types; what one editor at a time keeps of its merges and pins       *)
(* however many scans run beside it; and, when nothing overlaps, that      *)
(* scans keep edits and that the statements implement EventContract.       *)
(***************************************************************************)
EXTENDS EventGroups, FiniteSetTheorems, TLAPS

Merging == {"readSource", "moveMembers", "markTarget", "markSource"}
Grouping == {"readGroup", "insertGroup", "restoreGroup", "refreshGroup"}

\* A thread knows what its next statement needs; only editors edit.
ThreadOK(t, w) ==
    /\ w.pc \in EditPcs => t \in Editors /\ w.event \in EventIds
    /\ w.pc \in Merging => w.event \notin w.sources /\ w.ids \subseteq w.sources
    /\ w.pc = "moveSplit" => w.join \in ManualIds
    /\ w.pc \in {"readRemove", "writeRemove"} => w.asset \in Assets
    /\ w.pc \in {"readReset", "nextAsset"} => w.op = "reset"
    /\ w.pc \in SyncPcs =>
          /\ w.asset \in Assets /\ w.op \in {"scan", "reset"}
          /\ w.op = "reset" => t \in Editors /\ w.event \in EventIds
    /\ w.pc \in Grouping => w.key \in Keys
    /\ w.pc = "writeMember" => w.join \in EventIds
ThreadInv == \A t \in Threads : ThreadOK(t, threads[t])

WellFormed == TypeOK /\ ThreadInv

LEMMA InitWellFormed == Init => WellFormed
BY DEF Init, WellFormed, TypeOK, ThreadInv, ThreadOK, Merging, Grouping, EditPcs, SyncPcs,
   NoGroup, NoMember, IdleThread, Group, Member, Thread

\* A step that gives one thread a sound value keeps the threads sound.
LEMMA ThreadMoves ==
    ASSUME WellFormed, NEW t \in Threads, NEW w \in Thread, ThreadOK(t, w),
           threads' = [threads EXCEPT ![t] = w]
    PROVE  threads' \in [Threads -> Thread] /\ ThreadInv'
<1>1. /\ threads' \in [Threads -> Thread] /\ threads'[t] = w
      /\ \A u \in Threads \ {t} : threads'[u] = threads[u]
    BY DEF WellFormed, TypeOK
<1> QED BY <1>1 DEF WellFormed, ThreadInv, ThreadOK

LEMMA IdleThreadOK == IdleThread \in Thread /\ \A t \in Threads : ThreadOK(t, IdleThread)
BY DEF IdleThread, Thread, ThreadOK, Merging, Grouping, EditPcs, SyncPcs

LEMMA AnswerOK ==
    ASSUME WellFormed, NEW t \in Threads, Answer(t)
    PROVE  threads' \in [Threads -> Thread] /\ ThreadInv'
BY ThreadMoves, IdleThreadOK DEF Answer

\* A thread that only changes its statement.
LEMMA GotoOK ==
    ASSUME WellFormed, NEW t \in Threads, NEW pc \in EditPcs \cup SyncPcs, Goto(t, pc),
           ThreadOK(t, [threads[t] EXCEPT !.pc = pc])
    PROVE  threads' \in [Threads -> Thread] /\ ThreadInv'
<1>1. [threads[t] EXCEPT !.pc = pc] \in Thread
    BY DEF WellFormed, TypeOK, Thread
<1>2. threads' = [threads EXCEPT ![t] = [threads[t] EXCEPT !.pc = pc]]
    BY DEF Goto
<1> QED BY <1>1, <1>2, ThreadMoves

LEMMA SyncDoneOK ==
    ASSUME WellFormed, NEW t \in Threads, threads[t].pc \in SyncPcs, SyncDone(t)
    PROVE  threads' \in [Threads -> Thread] /\ ThreadInv'
<1>1. CASE threads[t].op = "reset"
    <2> DEFINE w == [threads[t] EXCEPT !.pc = "nextAsset", !.asset = None, !.key = None,
                                       !.join = None]
    <2>1. threads[t] \in Thread /\ ThreadOK(t, threads[t])
        BY DEF WellFormed, TypeOK, ThreadInv
    <2>2. w \in Thread
        BY <2>1 DEF Thread, EditPcs
    <2>3. ThreadOK(t, w)
        BY <1>1, <2>1 DEF Thread, ThreadOK, EditPcs, SyncPcs, Merging, Grouping
    <2>4. threads' = [threads EXCEPT ![t] = w]
        BY <1>1 DEF SyncDone
    <2> QED BY <2>2, <2>3, <2>4, ThreadMoves
<1>2. CASE threads[t].op # "reset"
    BY <1>2, AnswerOK DEF SyncDone
<1> QED BY <1>1, <1>2

\* A request that passed its check, at its first statement.
LEMMA RequestBegins ==
    ASSUME NEW t \in Threads, NEW e \in EventIds, Request(t, e)
    PROVE  \E w \in Thread :
              /\ ThreadOK(t, w) /\ Begin(t, w)
              /\ w.pc \in {"rename", "readSource", "readSplit", "readRemove", "readReset"}
              /\ w.op # "scan" /\ (w.pc = "readSplit" => w.assets # {})
<1>1. CASE RequestRename(t, e)
    <2> DEFINE w == [IdleThread EXCEPT !.pc = "rename", !.op = "rename", !.event = e]
    <2>1. w \in Thread /\ Begin(t, w)
        BY <1>1 DEF RequestRename, IdleThread, Thread, EditPcs
    <2>2. ThreadOK(t, w) /\ w.pc \in {"rename", "readReset"}
         /\ w.op # "scan" /\ (w.pc = "readSplit" => w.assets # {})
        BY <2>1 DEF Begin, IdleThread, ThreadOK, EditPcs, SyncPcs, Merging, Grouping
    <2> QED BY <2>1, <2>2
<1>2. CASE RequestMerge(t, e)
    <2>1. PICK S \in SUBSET (EventIds \ {e}) :
             Begin(t, [IdleThread EXCEPT !.pc = "readSource", !.op = "merge", !.event = e,
                                         !.sources = S, !.ids = S])
        BY <1>2 DEF RequestMerge
    <2> DEFINE w == [IdleThread EXCEPT !.pc = "readSource", !.op = "merge", !.event = e,
                                       !.sources = S, !.ids = S]
    <2>2. w \in Thread
        BY DEF IdleThread, Thread, EditPcs
    <2>3. ThreadOK(t, w) /\ w.pc \in {"readSource", "readSplit", "readRemove"}
         /\ w.op # "scan" /\ (w.pc = "readSplit" => w.assets # {})
        BY <2>1 DEF Begin, IdleThread, ThreadOK, EditPcs, SyncPcs, Merging, Grouping
    <2> QED BY <2>1, <2>2, <2>3
<1>3. CASE RequestSplit(t, e)
    <2>1. PICK A \in SUBSET Assets : A # {} /\
             Begin(t, [IdleThread EXCEPT !.pc = "readSplit", !.op = "split", !.event = e,
                                         !.assets = A])
        BY <1>3 DEF RequestSplit
    <2> DEFINE w == [IdleThread EXCEPT !.pc = "readSplit", !.op = "split", !.event = e,
                                       !.assets = A]
    <2>2. w \in Thread
        BY DEF IdleThread, Thread, EditPcs
    <2>3. ThreadOK(t, w) /\ w.pc \in {"readSource", "readSplit", "readRemove"}
         /\ w.op # "scan" /\ (w.pc = "readSplit" => w.assets # {})
        BY <2>1 DEF Begin, IdleThread, ThreadOK, EditPcs, SyncPcs, Merging, Grouping
    <2> QED BY <2>1, <2>2, <2>3
<1>4. CASE RequestRemove(t, e)
    <2>1. PICK a \in Assets :
             Begin(t, [IdleThread EXCEPT !.pc = "readRemove", !.op = "remove", !.event = e,
                                         !.asset = a])
        BY <1>4 DEF RequestRemove
    <2> DEFINE w == [IdleThread EXCEPT !.pc = "readRemove", !.op = "remove", !.event = e,
                                       !.asset = a]
    <2>2. w \in Thread
        BY DEF IdleThread, Thread, EditPcs
    <2>3. ThreadOK(t, w) /\ w.pc \in {"readSource", "readSplit", "readRemove"}
         /\ w.op # "scan" /\ (w.pc = "readSplit" => w.assets # {})
        BY <2>1 DEF Begin, IdleThread, ThreadOK, EditPcs, SyncPcs, Merging, Grouping
    <2> QED BY <2>1, <2>2, <2>3
<1>5. CASE RequestReset(t, e)
    <2> DEFINE w == [IdleThread EXCEPT !.pc = "readReset", !.op = "reset", !.event = e]
    <2>1. w \in Thread /\ Begin(t, w)
        BY <1>5 DEF RequestReset, IdleThread, Thread, EditPcs
    <2>2. ThreadOK(t, w) /\ w.pc \in {"rename", "readReset"}
         /\ w.op # "scan" /\ (w.pc = "readSplit" => w.assets # {})
        BY <2>1 DEF Begin, IdleThread, ThreadOK, EditPcs, SyncPcs, Merging, Grouping
    <2> QED BY <2>1, <2>2
<1> QED BY <1>1, <1>2, <1>3, <1>4, <1>5 DEF Request

LEMMA RequestWellFormed ==
    ASSUME WellFormed, NEW t \in Threads, NEW e \in EventIds, Request(t, e)
    PROVE  WellFormed'
BY RequestBegins, ThreadMoves DEF Begin, WellFormed, TypeOK

\* The two shapes of a statement's effect on the tables.
LEMMA PinTyped ==
    ASSUME members \in [Assets -> Member], NEW A, NEW e \in EventIds, Pin(A, e)
    PROVE  members' \in [Assets -> Member]
BY DEF Pin, Member

LEMMA GroupTyped ==
    ASSUME groups \in [EventIds -> Group], NEW e \in EventIds, NEW g \in Group,
           groups' = [groups EXCEPT ![e] = g]
    PROVE  groups' \in [EventIds -> Group]
OBVIOUS

LEMMA MergeWellFormed ==
    ASSUME WellFormed, NEW t \in Threads,
           ReadSource(t) \/ MoveMembers(t) \/ MarkTarget(t) \/ MarkSource(t)
    PROVE  WellFormed'
<1>0. /\ groups \in [EventIds -> Group] /\ members \in [Assets -> Member]
      /\ latest \in [Assets -> Keys \cup {None}]
      /\ threads[t] \in Thread /\ ThreadOK(t, threads[t])
    BY DEF WellFormed, TypeOK, ThreadInv
<1>1. CASE ReadSource(t)
    <2>1. PICK s \in threads[t].ids :
             \/ threads' = [threads EXCEPT ![t].ids = @ \ {s},
                              ![t].pc = IF threads[t].ids = {s} THEN "moveMembers" ELSE @]
             \/ Answer(t)
        BY <1>1 DEF ReadSource
    <2> DEFINE w == [threads[t] EXCEPT !.ids = @ \ {s},
                        !.pc = IF threads[t].ids = {s} THEN "moveMembers" ELSE @]
    <2>2. w \in Thread
        <3> DEFINE pc == IF threads[t].ids = {s} THEN "moveMembers" ELSE threads[t].pc
                   ids == threads[t].ids \ {s}
        <3>1. pc \in {"idle"} \cup EditPcs \cup SyncPcs /\ ids \in SUBSET EventIds
            BY <1>0 DEF Thread, EditPcs
        <3>2. w = [threads[t] EXCEPT !.ids = ids, !.pc = pc]
            OBVIOUS
        <3> HIDE DEF pc, ids, w
        <3> QED BY <1>0, <3>1, <3>2 DEF Thread
    <2>3. ThreadOK(t, w)
        <3>1. threads[t].pc = "readSource" /\ threads[t].ids \ {s} \subseteq threads[t].ids
            BY <1>1 DEF ReadSource, At
        <3>2. /\ w.pc \in {"readSource", "moveMembers"} /\ w.event = threads[t].event
              /\ w.sources = threads[t].sources /\ w.ids = threads[t].ids \ {s}
            BY <1>0, <3>1 DEF Thread
        <3> HIDE DEF w
        <3> QED BY <1>0, <3>1, <3>2 DEF ThreadOK, EditPcs, SyncPcs, Merging, Grouping
    <2>4. CASE Answer(t)
        BY <1>0, <1>1, <2>4, AnswerOK DEF ReadSource, WellFormed, TypeOK
    <2>5. CASE threads' = [threads EXCEPT ![t] = w]
        BY <1>0, <1>1, <2>2, <2>3, <2>5, ThreadMoves DEF ReadSource, WellFormed, TypeOK
    <2> QED BY <2>1, <2>4, <2>5
<1>2. CASE MoveMembers(t)
    <2>1. members' \in [Assets -> Member]
        BY <1>0, <1>2, PinTyped DEF MoveMembers, At, ThreadOK, EditPcs
    <2>2. ThreadOK(t, [threads[t] EXCEPT !.pc = "markTarget"])
        BY <1>0, <1>2 DEF MoveMembers, At, Thread, ThreadOK, EditPcs, SyncPcs, Merging, Grouping
    <2>3. threads' \in [Threads -> Thread] /\ ThreadInv'
        BY <1>2, <2>2, GotoOK DEF MoveMembers, EditPcs
    <2> QED BY <1>0, <1>2, <2>1, <2>3 DEF MoveMembers, WellFormed, TypeOK
<1>3. CASE MarkTarget(t)
    <2> DEFINE w == [threads[t] EXCEPT !.ids = threads[t].sources, !.pc = "markSource"]
    <2>1. w \in Thread
        BY <1>0 DEF Thread, EditPcs
    <2>2. ThreadOK(t, w)
        BY <1>0, <1>3 DEF MarkTarget, At, Thread, ThreadOK, EditPcs, SyncPcs, Merging, Grouping
    <2>3. groups' \in [EventIds -> Group]
        BY <1>0, <1>3 DEF MarkTarget, Group
    <2>4. threads' = [threads EXCEPT ![t] = w]
        BY <1>3 DEF MarkTarget
    <2> QED BY <1>0, <1>3, <2>1, <2>2, <2>3, <2>4, ThreadMoves DEF MarkTarget, WellFormed, TypeOK
<1>4. CASE MarkSource(t)
    <2>1. PICK s \in threads[t].ids :
             /\ groups' = [groups EXCEPT ![s].status = "merged", ![s].into = threads[t].event]
             /\ \/ Answer(t)
                \/ threads' = [threads EXCEPT ![t].ids = @ \ {s}]
        BY <1>4 DEF MarkSource
    <2>2. groups' \in [EventIds -> Group]
        BY <1>0, <1>4, <2>1 DEF MarkSource, At, ThreadOK, EditPcs, Thread, Group
    <2> DEFINE w == [threads[t] EXCEPT !.ids = @ \ {s}]
    <2>3. w \in Thread
        BY <1>0 DEF Thread
    <2>4. ThreadOK(t, w)
        BY <1>0, <1>4 DEF MarkSource, At, Thread, ThreadOK, EditPcs, SyncPcs, Merging, Grouping
    <2>5. CASE Answer(t)
        BY <1>0, <1>4, <2>2, <2>5, AnswerOK DEF MarkSource, WellFormed, TypeOK
    <2>6. CASE threads' = [threads EXCEPT ![t] = w]
        BY <1>0, <1>4, <2>2, <2>3, <2>4, <2>6, ThreadMoves DEF MarkSource, WellFormed, TypeOK
    <2> QED BY <2>1, <2>5, <2>6
<1> QED BY <1>1, <1>2, <1>3, <1>4

LEMMA EditWellFormed ==
    ASSUME WellFormed, NEW t \in Threads, EditStep(t)
    PROVE  WellFormed'
<1>0. /\ groups \in [EventIds -> Group] /\ members \in [Assets -> Member]
      /\ latest \in [Assets -> Keys \cup {None}]
      /\ threads[t] \in Thread /\ ThreadOK(t, threads[t])
    BY DEF WellFormed, TypeOK, ThreadInv
<1>1. CASE RenameGroup(t)
    <2>1. groups' \in [EventIds -> Group]
        <3> DEFINE e == threads[t].event
                   g == [groups[e] EXCEPT !.title = "custom", !.status = "manual"]
        <3>1. e \in EventIds
            BY <1>0, <1>1 DEF RenameGroup, At, ThreadOK, EditPcs
        <3> HIDE DEF e
        <3>2. groups[e] \in Group
            BY <1>0, <3>1
        <3>3. g \in Group
            BY <3>2 DEF Group
        <3>4. groups' = [groups EXCEPT ![e] = g]
            BY <1>0, <1>1, <3>1, <3>2 DEF RenameGroup, Group, e
        <3> HIDE DEF g
        <3> QED BY <1>0, <3>1, <3>3, <3>4, GroupTyped
    <2> QED BY <1>0, <1>1, <2>1, AnswerOK DEF RenameGroup, WellFormed, TypeOK
<1>2. CASE ReadSource(t) \/ MoveMembers(t) \/ MarkTarget(t) \/ MarkSource(t)
    BY <1>2, MergeWellFormed
<1>3. CASE ReadSplit(t)
    <2>1. ThreadOK(t, [threads[t] EXCEPT !.pc = "insertSplit"])
        BY <1>0, <1>3 DEF ReadSplit, At, Thread, ThreadOK, EditPcs, SyncPcs, Merging, Grouping
    <2>2. threads' \in [Threads -> Thread] /\ ThreadInv'
        BY <1>3, <2>1, GotoOK, AnswerOK DEF ReadSplit, EditPcs
    <2> QED BY <1>0, <1>3, <2>2 DEF ReadSplit, WellFormed, TypeOK
<1>4. CASE InsertSplit(t)
    <2>1. PICK m \in FreshIds :
             /\ groups' = [groups EXCEPT ![m] = SplitGroup]
             /\ threads' = [threads EXCEPT ![t].join = m, ![t].pc = "moveSplit"]
        BY <1>4 DEF InsertSplit
    <2>2. m \in ManualIds /\ m \in EventIds
        BY <2>1 DEF FreshIds, EventIds
    <2> DEFINE w == [threads[t] EXCEPT !.join = m, !.pc = "moveSplit"]
    <2>3. w \in Thread
        BY <1>0, <2>2 DEF Thread, EditPcs
    <2>4. ThreadOK(t, w)
        BY <1>0, <1>4, <2>2
           DEF InsertSplit, At, Thread, ThreadOK, EditPcs, SyncPcs, Merging, Grouping
    <2>5. groups' \in [EventIds -> Group]
        BY <1>0, <2>1, <2>2 DEF Group, SplitGroup
    <2> QED BY <1>0, <1>4, <2>1, <2>3, <2>4, <2>5, ThreadMoves DEF InsertSplit, WellFormed, TypeOK
<1>5. CASE MoveSplit(t)
    <2>1. members' \in [Assets -> Member]
        BY <1>0, <1>5, PinTyped DEF MoveSplit, At, ThreadOK, EventIds
    <2> QED BY <1>0, <1>5, <2>1, AnswerOK DEF MoveSplit, WellFormed, TypeOK
<1>6. CASE ReadRemove(t)
    <2>1. ThreadOK(t, [threads[t] EXCEPT !.pc = "writeRemove"])
        BY <1>0, <1>6 DEF ReadRemove, At, Thread, ThreadOK, EditPcs, SyncPcs, Merging, Grouping
    <2>2. threads' \in [Threads -> Thread] /\ ThreadInv'
        BY <1>6, <2>1, GotoOK, AnswerOK DEF ReadRemove, EditPcs
    <2> QED BY <1>0, <1>6, <2>2 DEF ReadRemove, WellFormed, TypeOK
<1>7. CASE WriteRemove(t)
    <2>1. members' \in [Assets -> Member]
        BY <1>0, <1>7 DEF WriteRemove, Member
    <2> QED BY <1>0, <1>7, <2>1, AnswerOK DEF WriteRemove, WellFormed, TypeOK
<1>8. CASE ReadReset(t)
    <2> DEFINE w == [threads[t] EXCEPT !.assets = MembersOf({threads[t].event}),
                                       !.pc = "nextAsset"]
    <2>1. w \in Thread
        BY <1>0 DEF Thread, EditPcs, MembersOf
    <2>2. ThreadOK(t, w)
        BY <1>0, <1>8 DEF ReadReset, At, Thread, ThreadOK, EditPcs, SyncPcs, Merging, Grouping
    <2>3. threads' = [threads EXCEPT ![t] = w]
        BY <1>8 DEF ReadReset
    <2> QED BY <1>0, <1>8, <2>1, <2>2, <2>3, ThreadMoves DEF ReadReset, WellFormed, TypeOK
<1>9. CASE ResetAsset(t)
    <2>1. PICK a \in threads[t].assets :
             threads' = [threads EXCEPT ![t].assets = @ \ {a}, ![t].asset = a,
                                        ![t].key = latest[a], ![t].pc = "readMember"]
        BY <1>9 DEF ResetAsset
    <2> DEFINE w == [threads[t] EXCEPT !.assets = @ \ {a}, !.asset = a,
                                       !.key = latest[a], !.pc = "readMember"]
    <2>2. a \in Assets
        BY <1>0, <2>1 DEF Thread
    <2>3. w \in Thread
        BY <1>0, <2>2 DEF Thread, SyncPcs
    <2>4. ThreadOK(t, w)
        BY <1>0, <1>9, <2>2
           DEF ResetAsset, At, Thread, ThreadOK, EditPcs, SyncPcs, Merging, Grouping
    <2>5. threads' = [threads EXCEPT ![t] = w]
        BY <2>1
    <2> QED BY <1>0, <1>9, <2>3, <2>4, <2>5, ThreadMoves DEF ResetAsset, WellFormed, TypeOK
<1>10. CASE FinishReset(t)
    <2>1. groups' \in [EventIds -> Group]
        BY <1>0, <1>10 DEF FinishReset, Group
    <2> QED BY <1>0, <1>10, <2>1, AnswerOK DEF FinishReset, WellFormed, TypeOK
<1> QED BY <1>1, <1>2, <1>3, <1>4, <1>5, <1>6, <1>7, <1>8, <1>9, <1>10 DEF EditStep

LEMMA SyncWellFormed ==
    ASSUME WellFormed, NEW t \in Threads, SyncStep(t)
    PROVE  WellFormed'
<1>0. /\ groups \in [EventIds -> Group] /\ members \in [Assets -> Member]
      /\ latest \in [Assets -> Keys \cup {None}]
      /\ threads[t] \in Thread /\ ThreadOK(t, threads[t])
    BY DEF WellFormed, TypeOK, ThreadInv
<1>1. threads[t].pc \in SyncPcs
    BY DEF SyncStep, ReadMember, DeleteMember, ReadGroup, InsertGroup, RestoreGroup, RefreshGroup,
       WriteMember, At, SyncPcs
<1>2. threads[t].pc \in Grouping => threads[t].key \in EventIds
    BY <1>0 DEF ThreadOK, EventIds
<1>3. ASSUME JoinOwnGroup(t), threads[t].pc \in Grouping
      PROVE  threads' \in [Threads -> Thread] /\ ThreadInv'
    <2> DEFINE w == [threads[t] EXCEPT !.join = threads[t].key, !.pc = "writeMember"]
    <2>1. w \in Thread
        BY <1>0, <1>2, <1>3 DEF Thread, SyncPcs
    <2>2. ThreadOK(t, w)
        BY <1>0, <1>1, <1>2, <1>3 DEF Thread, ThreadOK, EditPcs, SyncPcs, Merging, Grouping
    <2>3. threads' = [threads EXCEPT ![t] = w]
        BY <1>3 DEF JoinOwnGroup
    <2> QED BY <2>1, <2>2, <2>3, ThreadMoves
<1>4. CASE ReadMember(t)
    <2>1. CASE Goto(t, "deleteMember")
        <3>1. ThreadOK(t, [threads[t] EXCEPT !.pc = "deleteMember"])
            BY <1>0, <1>1 DEF Thread, ThreadOK, EditPcs, SyncPcs, Merging, Grouping
        <3> QED BY <1>0, <1>4, <2>1, <3>1, GotoOK DEF ReadMember, SyncPcs, WellFormed, TypeOK
    <2>2. CASE threads[t].key # None /\ Goto(t, "readGroup")
        <3>1. threads[t].key \in Keys
            BY <1>0, <2>2 DEF Thread
        <3>2. ThreadOK(t, [threads[t] EXCEPT !.pc = "readGroup"])
            BY <1>0, <1>1, <3>1 DEF Thread, ThreadOK, EditPcs, SyncPcs, Merging, Grouping
        <3> QED BY <1>0, <1>4, <2>2, <3>2, GotoOK DEF ReadMember, SyncPcs, WellFormed, TypeOK
    <2>3. CASE SyncDone(t)
        BY <1>0, <1>1, <1>4, <2>3, SyncDoneOK DEF ReadMember, WellFormed, TypeOK
    <2> QED BY <1>4, <2>1, <2>2, <2>3 DEF ReadMember
<1>5. CASE DeleteMember(t)
    <2>1. members' \in [Assets -> Member]
        BY <1>0, <1>5 DEF DeleteMember, NoMember, Member
    <2> QED BY <1>0, <1>1, <1>5, <2>1, SyncDoneOK DEF DeleteMember, WellFormed, TypeOK
<1>6. CASE ReadGroup(t)
    <2> DEFINE g == groups[threads[t].key]
               w == [threads[t] EXCEPT !.join = g.into, !.pc = "writeMember"]
    <2>0. threads[t].pc = "readGroup" /\ g \in Group
        BY <1>0, <1>2, <1>6 DEF ReadGroup, At, Grouping
    <2>1. CASE g.into # None /\ threads' = [threads EXCEPT ![t].join = g.into, ![t].pc = "writeMember"]
        <3>1. g.into \in EventIds
            BY <2>0, <2>1 DEF Group
        <3>2. w \in Thread
            BY <1>0, <3>1 DEF Thread, SyncPcs
        <3>3. ThreadOK(t, w)
            BY <1>0, <2>0, <3>1 DEF Thread, ThreadOK, EditPcs, SyncPcs, Merging, Grouping
        <3>4. threads' = [threads EXCEPT ![t] = w]
            BY <2>1
        <3> QED BY <1>0, <1>6, <3>2, <3>3, <3>4, ThreadMoves DEF ReadGroup, WellFormed, TypeOK
    <2>2. ASSUME NEW pc \in {"insertGroup", "restoreGroup", "refreshGroup"}, Goto(t, pc)
          PROVE  WellFormed'
        <3>1. ThreadOK(t, [threads[t] EXCEPT !.pc = pc])
            BY <1>0, <2>0 DEF Thread, ThreadOK, EditPcs, SyncPcs, Merging, Grouping
        <3>2. pc \in EditPcs \cup SyncPcs
            BY DEF SyncPcs
        <3> QED BY <1>0, <1>6, <2>2, <3>1, <3>2, GotoOK DEF ReadGroup, WellFormed, TypeOK
    <2> QED BY <1>6, <2>1, <2>2 DEF ReadGroup
<1>7. CASE InsertGroup(t) \/ RestoreGroup(t) \/ RefreshGroup(t)
    <2>1. groups' \in [EventIds -> Group]
        BY <1>0, <1>7 DEF InsertGroup, RestoreGroup, RefreshGroup, AutoGroup, Group
    <2>2. threads' \in [Threads -> Thread] /\ ThreadInv'
        BY <1>3, <1>7, AnswerOK DEF InsertGroup, RestoreGroup, RefreshGroup, At, Grouping
    <2> QED BY <1>0, <1>7, <2>1, <2>2 DEF InsertGroup, RestoreGroup, RefreshGroup, WellFormed, TypeOK
<1>8. CASE WriteMember(t)
    <2>1. members' \in [Assets -> Member]
        BY <1>0, <1>8 DEF WriteMember, At, ThreadOK, Member
    <2> QED BY <1>0, <1>1, <1>8, <2>1, SyncDoneOK DEF WriteMember, WellFormed, TypeOK
<1> QED BY <1>4, <1>5, <1>6, <1>7, <1>8 DEF SyncStep

LEMMA RecordWellFormed ==
    ASSUME WellFormed, NEW t \in Threads, NEW a \in Assets, NEW k \in Keys \cup {None},
           RecordAnalysis(t, a, k)
    PROVE  WellFormed'
<1> DEFINE w == [IdleThread EXCEPT !.pc = "readMember", !.op = "scan", !.asset = a, !.key = k]
<1>1. w \in Thread /\ ThreadOK(t, w)
    BY DEF IdleThread, Thread, ThreadOK, EditPcs, SyncPcs, Merging, Grouping
<1>2. latest' \in [Assets -> Keys \cup {None}]
    BY DEF RecordAnalysis, WellFormed, TypeOK
<1> QED BY <1>1, <1>2, ThreadMoves DEF RecordAnalysis, WellFormed, TypeOK

LEMMA NextWellFormed == WellFormed /\ [Next]_vars => WellFormed'
<1> SUFFICES ASSUME WellFormed, [Next]_vars PROVE WellFormed'
    OBVIOUS
<1>1. CASE UNCHANGED vars
    BY <1>1 DEF vars, WellFormed, TypeOK, ThreadInv
<1> QED BY <1>1, RequestWellFormed, RecordWellFormed, EditWellFormed, SyncWellFormed DEF Next

LEMMA WellFormedAlways == Spec => []WellFormed
BY InitWellFormed, NextWellFormed, PTL DEF Spec

\* Every row and every thread holds what its declaration says.
THEOREM EventTypeCorrect == Spec => []TypeOK
<1>1. WellFormed => TypeOK
    BY DEF WellFormed
<1> QED BY <1>1, WellFormedAlways, PTL

-----------------------------------------------------------------------------
(* One editor at a time.                                                   *)

OneEditor == \A t, u \in Editors : t = u

\* A pinned asset is in an event that can be seen.
PinsOK ==
    \A a \in Assets : members[a].source = "manual" =>
        members[a].event \in EventIds /\ Visible(members[a].event)

\* What an edit has established when it reaches its next statement: its target is
\* visible, its sources have no pinned member left, and a reset has not passed over
\* a pinned asset.
Resetting(w) == w.op = "reset" /\ w.pc \in {"nextAsset"} \cup SyncPcs
EditorOK(t) ==
    LET w == threads[t] IN
    /\ w.pc \in Merging => Visible(w.event)
    /\ w.pc \in {"markTarget", "markSource"} =>
          \A a \in Assets : members[a].source = "manual" => members[a].event \notin w.sources
    /\ w.pc = "moveSplit" => Visible(w.join)
    /\ Resetting(w) =>
          \A a \in Assets : members[a].source = "manual" /\ members[a].event = w.event =>
              a \in w.assets \/ (w.pc \in SyncPcs /\ a = w.asset)
EditorInv == \A t \in Editors : EditorOK(t)

\* The effect of a step that neither hides an event nor pins an asset.
Quiet ==
    /\ \A e \in EventIds : Visible(e) => Visible(e)'
    /\ \A a \in Assets : members'[a].source = "manual" => members'[a] = members[a]
Moves(t) == \A u \in Threads \ {t} : threads'[u] = threads[u]

LEMMA QuietKeeps ==
    ASSUME WellFormed, PinsOK, EditorInv, Quiet, NEW t \in Threads, Moves(t),
           t \in Editors => EditorOK(t)'
    PROVE  PinsOK' /\ EditorInv'
<1>1. PinsOK'
    BY DEF PinsOK, Quiet
<1>2. ASSUME NEW u \in Editors, u # t
      PROVE  EditorOK(u)'
    <2>1. u \in Threads /\ threads'[u] = threads[u] /\ threads[u] \in Thread
          /\ ThreadOK(u, threads[u]) /\ EditorOK(u)
        BY <1>2 DEF Moves, Threads, WellFormed, TypeOK, ThreadInv, EditorInv
    <2>2. threads[u].pc \in Merging => threads[u].event \in EventIds
        BY <2>1 DEF ThreadOK, Merging, EditPcs
    <2>3. threads[u].pc = "moveSplit" => threads[u].join \in EventIds
        BY <2>1 DEF ThreadOK, EventIds
    <2> QED BY <2>1, <2>2, <2>3 DEF EditorOK, Quiet
<1> QED BY <1>1, <1>2 DEF EditorInv

LEMMA RequestQuiet ==
    ASSUME WellFormed, NEW t \in Threads, NEW e \in EventIds, Request(t, e)
    PROVE  Quiet /\ Moves(t) /\ (t \in Editors => EditorOK(t)')
<1>1. PICK w \in Thread : /\ Begin(t, w)
                          /\ w.pc \in {"rename", "readSource", "readSplit", "readRemove", "readReset"}
    BY RequestBegins
<1>2. threads'[t] = w /\ Moves(t) /\ UNCHANGED <<groups, members>> /\ Visible(w.event)
    BY <1>1 DEF Begin, Moves, WellFormed, TypeOK
<1>3. Quiet
    BY <1>2 DEF Quiet, Visible
<1>4. EditorOK(t)'
    BY <1>1, <1>2 DEF EditorOK, Visible, Resetting, SyncPcs
<1> QED BY <1>2, <1>3, <1>4

LEMMA RecordQuiet ==
    ASSUME WellFormed, NEW t \in Threads, NEW a \in Assets, NEW k, RecordAnalysis(t, a, k)
    PROVE  Quiet /\ Moves(t) /\ EditorOK(t)'
<1>1. /\ threads'[t].pc = "readMember" /\ threads'[t].op = "scan" /\ Moves(t)
      /\ UNCHANGED <<groups, members>>
    BY DEF RecordAnalysis, Moves, IdleThread, WellFormed, TypeOK
<1> QED BY <1>1 DEF Quiet, Visible, EditorOK, Resetting, Merging

\* Where a sync step takes its thread; an asset a reset is done with is not pinned.
LEMMA SyncMoves ==
    ASSUME WellFormed, NEW t \in Threads, SyncStep(t)
    PROVE  LET w == threads[t] v == threads'[t] IN
           \/ v = IdleThread
           \/ /\ v.op = w.op /\ v.event = w.event /\ v.assets = w.assets
              /\ \/ v.pc \in SyncPcs /\ v.asset = w.asset
                 \/ /\ v.pc = "nextAsset" /\ w.asset \in Assets
                    /\ members'[w.asset].source # "manual"
<1> DEFINE w == threads[t]  v == threads'[t]
<1>0. /\ w \in Thread /\ ThreadOK(t, w) /\ threads \in [Threads -> Thread]
      /\ members \in [Assets -> Member]
    BY DEF WellFormed, TypeOK, ThreadInv
<1>1. ASSUME NEW pc \in SyncPcs, Goto(t, pc)
      PROVE  /\ v.op = w.op /\ v.event = w.event /\ v.assets = w.assets
             /\ v.pc \in SyncPcs /\ v.asset = w.asset
    BY <1>0, <1>1 DEF Goto, Thread
<1>2. ASSUME NEW j, threads' = [threads EXCEPT ![t].join = j, ![t].pc = "writeMember"]
      PROVE  /\ v.op = w.op /\ v.event = w.event /\ v.assets = w.assets
             /\ v.pc \in SyncPcs /\ v.asset = w.asset
    <2>1. v = [threads[t] EXCEPT !.join = j, !.pc = "writeMember"]
        BY <1>0, <1>2
    <2> QED BY <1>0, <2>1 DEF Thread, SyncPcs
<1>3. ASSUME SyncDone(t)
      PROVE  \/ v = IdleThread
             \/ /\ v.op = w.op /\ v.event = w.event /\ v.assets = w.assets
                /\ v.pc = "nextAsset" /\ w.op = "reset"
    BY <1>0, <1>3 DEF SyncDone, Answer, Thread
<1>4. CASE ReadMember(t)
    <2>1. CASE Goto(t, "deleteMember") \/ Goto(t, "readGroup")
        BY <1>1, <2>1 DEF SyncPcs
    <2>2. CASE SyncDone(t) /\ ~Goto(t, "deleteMember") /\ ~Goto(t, "readGroup")
        <3>1. w.asset \in Assets /\ UNCHANGED members
              /\ (PreserveManual(t) \/ members[w.asset].source = "none")
            BY <1>0, <1>4, <2>2 DEF ReadMember, At, ThreadOK, SyncPcs
        <3>2. w.op = "reset" => members'[w.asset].source # "manual"
            BY <3>1 DEF PreserveManual
        <3> QED BY <1>3, <2>2, <3>1, <3>2
    <2> QED BY <1>4, <2>1, <2>2 DEF ReadMember
<1>5. CASE DeleteMember(t)
    <2>1. w.asset \in Assets /\ members'[w.asset] = NoMember
        BY <1>0, <1>5 DEF DeleteMember, At, ThreadOK, SyncPcs
    <2> QED BY <1>3, <1>5, <2>1 DEF DeleteMember, NoMember
<1>6. CASE ReadGroup(t)
    BY <1>1, <1>2, <1>6 DEF ReadGroup, SyncPcs
<1>7. CASE InsertGroup(t) \/ RestoreGroup(t) \/ RefreshGroup(t)
    <2>1. JoinOwnGroup(t) \/ Answer(t)
        BY <1>7 DEF InsertGroup, RestoreGroup, RefreshGroup
    <2>2. CASE JoinOwnGroup(t)
        BY <1>2, <2>2 DEF JoinOwnGroup
    <2>3. CASE Answer(t)
        BY <1>0, <2>3 DEF Answer
    <2> QED BY <2>1, <2>2, <2>3
<1>8. CASE WriteMember(t)
    <2>1. w.asset \in Assets /\ members'[w.asset].source = "auto"
        BY <1>0, <1>8 DEF WriteMember, At, ThreadOK, SyncPcs
    <2> QED BY <1>3, <1>8, <2>1 DEF WriteMember
<1> QED BY <1>4, <1>5, <1>6, <1>7, <1>8 DEF SyncStep

LEMMA SyncQuiet ==
    ASSUME WellFormed, EditorInv, NEW t \in Threads, SyncStep(t)
    PROVE  Quiet /\ Moves(t) /\ (t \in Editors => EditorOK(t)')
<1>0. /\ threads[t] \in Thread /\ ThreadOK(t, threads[t]) /\ threads \in [Threads -> Thread]
      /\ members \in [Assets -> Member] /\ groups \in [EventIds -> Group]
    BY DEF WellFormed, TypeOK, ThreadInv
<1>1. \A a \in Assets : members'[a].source = "manual" => members'[a] = members[a]
    BY <1>0 DEF SyncStep, ReadMember, DeleteMember, ReadGroup, InsertGroup, RestoreGroup,
       RefreshGroup, WriteMember, NoMember
<1>2. \A e \in EventIds : Visible(e) => Visible(e)'
    <2>1. CASE InsertGroup(t) \/ RestoreGroup(t)
        BY <1>0, <2>1 DEF InsertGroup, RestoreGroup, AutoGroup, Visible
    <2>2. CASE RefreshGroup(t)
        BY <1>0, <2>2 DEF RefreshGroup, Visible, Group
    <2>3. CASE UNCHANGED groups
        BY <2>3 DEF Visible
    <2> QED BY <2>1, <2>2, <2>3 DEF SyncStep, ReadMember, DeleteMember, ReadGroup, WriteMember
<1>3. Moves(t)
    BY <1>0 DEF SyncStep, ReadMember, DeleteMember, ReadGroup, InsertGroup, RestoreGroup,
       RefreshGroup, WriteMember, SyncDone, Answer, Goto, JoinOwnGroup, Moves
<1>4. threads[t].pc \in SyncPcs
    BY DEF SyncStep, ReadMember, DeleteMember, ReadGroup, InsertGroup, RestoreGroup, RefreshGroup,
       WriteMember, At, SyncPcs
<1>5. ASSUME t \in Editors
      PROVE  EditorOK(t)'
    <2>1. CASE threads'[t] = IdleThread
        BY <2>1 DEF EditorOK, IdleThread, Resetting, Merging, SyncPcs
    <2>2. CASE threads'[t] # IdleThread
        <3>1. /\ threads'[t].pc \in {"nextAsset"} \cup SyncPcs
              /\ threads'[t].op = threads[t].op /\ threads'[t].event = threads[t].event
              /\ threads'[t].assets = threads[t].assets
              /\ threads'[t].pc \in SyncPcs => threads'[t].asset = threads[t].asset
              /\ threads'[t].pc \notin SyncPcs => members'[threads[t].asset].source # "manual"
            BY <2>2, SyncMoves DEF SyncPcs
        <3>2. ASSUME Resetting(threads'[t]), NEW a \in Assets, members'[a].source = "manual",
                     members'[a].event = threads'[t].event
              PROVE  a \in threads'[t].assets \/ (threads'[t].pc \in SyncPcs /\ a = threads'[t].asset)
            <4>1. members[a] = members'[a]
                BY <1>1, <3>2
            <4>2. Resetting(threads[t])
                BY <1>4, <3>1, <3>2 DEF Resetting
            <4>3. a \in threads[t].assets \/ a = threads[t].asset
                BY <1>5, <3>1, <3>2, <4>1, <4>2 DEF EditorInv, EditorOK
            <4> QED BY <3>1, <3>2, <4>3
        <3> QED BY <3>1, <3>2 DEF EditorOK, Merging, SyncPcs
    <2> QED BY <2>1, <2>2
<1> QED BY <1>1, <1>2, <1>3, <1>5 DEF Quiet

LEMMA EditKeeps ==
    ASSUME OneEditor, WellFormed, PinsOK, EditorInv, NEW t \in Threads, EditStep(t)
    PROVE  PinsOK' /\ EditorInv'
<1> DEFINE w == threads[t]
<1>0. /\ w \in Thread /\ ThreadOK(t, w) /\ threads \in [Threads -> Thread]
      /\ members \in [Assets -> Member] /\ groups \in [EventIds -> Group]
    BY DEF WellFormed, TypeOK, ThreadInv
<1>1. w.pc \in EditPcs /\ t \in Editors /\ w.event \in EventIds
    BY <1>0 DEF EditStep, RenameGroup, ReadSource, MoveMembers, MarkTarget, MarkSource, ReadSplit,
       InsertSplit, MoveSplit, ReadRemove, WriteRemove, ReadReset, ResetAsset, FinishReset, At,
       ThreadOK, EditPcs
<1>2. EditorOK(t) /\ (EditorOK(t)' => EditorInv')
    BY <1>1 DEF EditorInv, OneEditor
<1>3. ASSUME Answer(t) PROVE EditorOK(t)'
    <2>1. threads'[t] = IdleThread
        BY <1>0, <1>3 DEF Answer
    <2> QED BY <2>1 DEF EditorOK, IdleThread, Resetting, Merging, SyncPcs
<1>4. ASSUME Quiet PROVE PinsOK'
    BY <1>4 DEF PinsOK, Quiet
<1>5. CASE RenameGroup(t)
    <2>1. Quiet
        BY <1>0, <1>5 DEF RenameGroup, Quiet, Visible, Group
    <2> QED BY <1>2, <1>3, <1>4, <1>5, <2>1 DEF RenameGroup
<1>6. CASE ReadSource(t)
    <2>1. Quiet
        BY <1>6 DEF ReadSource, Quiet, Visible
    <2>2. PICK s \in w.ids :
             \/ threads' = [threads EXCEPT ![t].ids = @ \ {s},
                              ![t].pc = IF w.ids = {s} THEN "moveMembers" ELSE @]
             \/ Answer(t)
        BY <1>6 DEF ReadSource
    <2>3. CASE threads' = [threads EXCEPT ![t].ids = @ \ {s},
                              ![t].pc = IF w.ids = {s} THEN "moveMembers" ELSE @]
        <3>1. threads'[t].pc \in {"readSource", "moveMembers"} /\ threads'[t].event = w.event
            BY <1>0, <1>6, <2>3 DEF ReadSource, At, Thread
        <3>2. Visible(w.event) /\ groups' = groups
            BY <1>0, <1>2, <1>6 DEF ReadSource, At, EditorOK, Merging
        <3>3. EditorOK(t)'
            BY <3>1, <3>2 DEF EditorOK, Merging, Resetting, SyncPcs, Visible
        <3> QED BY <1>2, <1>4, <2>1, <3>3
    <2> QED BY <1>2, <1>3, <1>4, <2>1, <2>2, <2>3
<1>7. CASE MoveMembers(t)
    <2>1. /\ threads'[t].pc = "markTarget" /\ threads'[t].event = w.event
          /\ threads'[t].sources = w.sources
        BY <1>0, <1>7 DEF MoveMembers, Goto, Thread
    <2>2. Visible(w.event) /\ w.event \notin w.sources
        BY <1>0, <1>2, <1>7 DEF MoveMembers, At, EditorOK, Merging, ThreadOK
    <2>3. UNCHANGED groups /\ \A e \in EventIds : Visible(e)' = Visible(e)
        BY <1>7 DEF MoveMembers, Visible
    <2>4. \A a \in Assets :
             IF members[a].event \in w.sources \cup {w.event}
             THEN members'[a] = [source |-> "manual", event |-> w.event]
             ELSE members'[a] = members[a]
        BY <1>7 DEF MoveMembers, Pin, MembersOf
    <2>5. PinsOK'
        BY <1>1, <2>2, <2>3, <2>4 DEF PinsOK
    <2>6. \A a \in Assets : members'[a].source = "manual" => members'[a].event \notin w.sources
        BY <2>2, <2>4
    <2>7. EditorOK(t)'
        BY <1>1, <2>1, <2>2, <2>3, <2>6 DEF EditorOK, Resetting, SyncPcs
    <2> QED BY <1>2, <2>5, <2>7
<1>8. CASE MarkTarget(t)
    <2>1. /\ threads'[t].pc = "markSource" /\ threads'[t].event = w.event
          /\ threads'[t].sources = w.sources
        BY <1>0, <1>8 DEF MarkTarget, Thread
    <2>2. UNCHANGED members /\ Visible(w.event)'
        BY <1>0, <1>1, <1>8 DEF MarkTarget, Visible, Group
    <2>3. Quiet
        BY <1>0, <1>1, <1>8 DEF MarkTarget, Quiet, Visible, Group
    <2>4. \A a \in Assets : members[a].source = "manual" => members[a].event \notin w.sources
        BY <1>2, <1>8 DEF MarkTarget, At, EditorOK
    <2>5. EditorOK(t)'
        BY <2>1, <2>2, <2>4 DEF EditorOK, Resetting, SyncPcs
    <2> QED BY <1>2, <1>4, <2>3, <2>5
<1>9. CASE MarkSource(t)
    <2>1. PICK s \in w.ids :
             /\ groups' = [groups EXCEPT ![s].status = "merged", ![s].into = w.event]
             /\ Answer(t) \/ threads' = [threads EXCEPT ![t].ids = @ \ {s}]
        BY <1>9 DEF MarkSource
    <2>2. s \in w.sources /\ w.event \notin w.sources /\ Visible(w.event)
        BY <1>0, <1>2, <1>9, <2>1 DEF MarkSource, At, ThreadOK, EditorOK, Merging
    <2>3. UNCHANGED members /\ \A e \in EventIds \ {s} : Visible(e)' = Visible(e)
        BY <1>0, <1>9, <2>1 DEF MarkSource, Visible
    <2>4. \A a \in Assets : members[a].source = "manual" => members[a].event \notin w.sources
        BY <1>2, <1>9 DEF MarkSource, At, EditorOK
    <2>5. PinsOK'
        BY <2>2, <2>3, <2>4 DEF PinsOK
    <2>6. CASE threads' = [threads EXCEPT ![t].ids = @ \ {s}]
        <3>1. /\ threads'[t].pc = "markSource" /\ threads'[t].event = w.event
              /\ threads'[t].sources = w.sources
            BY <1>0, <1>9, <2>6 DEF MarkSource, At, Thread
        <3>2. groups'[w.event] = groups[w.event] /\ Visible(w.event)
            BY <1>0, <1>1, <2>1, <2>2
        <3>3. EditorOK(t)'
            BY <2>3, <2>4, <3>1, <3>2 DEF EditorOK, Resetting, SyncPcs, Visible
        <3> QED BY <1>2, <2>5, <3>3
    <2> QED BY <1>2, <1>3, <2>1, <2>5, <2>6
<1>10. CASE ReadSplit(t) \/ ReadRemove(t)
    <2>1. Quiet
        BY <1>10 DEF ReadSplit, ReadRemove, Quiet, Visible
    <2>2. Goto(t, "insertSplit") \/ Goto(t, "writeRemove") \/ Answer(t)
        BY <1>10 DEF ReadSplit, ReadRemove
    <2>3. Goto(t, "insertSplit") \/ Goto(t, "writeRemove") => EditorOK(t)'
        <3>1. Goto(t, "insertSplit") => threads'[t].pc = "insertSplit"
            BY <1>0 DEF Goto, Thread
        <3>2. Goto(t, "writeRemove") => threads'[t].pc = "writeRemove"
            BY <1>0 DEF Goto, Thread
        <3> QED BY <3>1, <3>2 DEF EditorOK, Merging, Resetting, SyncPcs
    <2> QED BY <1>2, <1>3, <1>4, <2>1, <2>2, <2>3
<1>11. CASE InsertSplit(t)
    <2>1. PICK m \in FreshIds :
             /\ groups' = [groups EXCEPT ![m] = SplitGroup]
             /\ threads' = [threads EXCEPT ![t].join = m, ![t].pc = "moveSplit"]
        BY <1>11 DEF InsertSplit
    <2>2. m \in EventIds /\ ~Visible(m)
        BY <2>1 DEF FreshIds, EventIds, Visible
    <2>3. threads'[t].pc = "moveSplit" /\ threads'[t].join = m
        BY <1>0, <2>1 DEF Thread
    <2>4. Quiet /\ Visible(m)'
        BY <1>0, <1>11, <2>1, <2>2 DEF InsertSplit, Quiet, Visible, SplitGroup
    <2>5. EditorOK(t)'
        BY <2>3, <2>4 DEF EditorOK, Merging, Resetting, SyncPcs
    <2> QED BY <1>2, <1>4, <2>4, <2>5
<1>12. CASE MoveSplit(t)
    <2>1. w.join \in EventIds /\ Visible(w.join) /\ UNCHANGED groups
        BY <1>0, <1>2, <1>12 DEF MoveSplit, At, ThreadOK, EventIds, EditorOK
    <2>2. \A e \in EventIds : Visible(e)' = Visible(e)
        BY <2>1 DEF Visible
    <2>3. \A a \in Assets : \/ members'[a] = members[a]
                            \/ members'[a] = [source |-> "manual", event |-> w.join]
        BY <1>12 DEF MoveSplit, Pin
    <2>4. PinsOK'
        BY <2>1, <2>2, <2>3 DEF PinsOK
    <2> QED BY <1>2, <1>3, <1>12, <2>4 DEF MoveSplit
<1>13. CASE WriteRemove(t)
    <2>1. Quiet
        BY <1>0, <1>13 DEF WriteRemove, Quiet, Visible
    <2> QED BY <1>2, <1>3, <1>4, <1>13, <2>1 DEF WriteRemove
<1>14. CASE ReadReset(t)
    <2>1. /\ threads'[t].pc = "nextAsset" /\ threads'[t].event = w.event
          /\ threads'[t].assets = MembersOf({w.event})
        BY <1>0, <1>14 DEF ReadReset, Thread
    <2>2. Quiet /\ UNCHANGED members
        BY <1>14 DEF ReadReset, Quiet, Visible
    <2>3. EditorOK(t)'
        BY <2>1, <2>2 DEF EditorOK, Merging, Resetting, SyncPcs, MembersOf
    <2> QED BY <1>2, <1>4, <2>2, <2>3
<1>15. CASE ResetAsset(t)
    <2>1. PICK a \in w.assets :
             threads' = [threads EXCEPT ![t].assets = @ \ {a}, ![t].asset = a,
                                        ![t].key = latest[a], ![t].pc = "readMember"]
        BY <1>15 DEF ResetAsset
    <2>2. /\ threads'[t].pc = "readMember" /\ threads'[t].event = w.event
          /\ threads'[t].assets = w.assets \ {a} /\ threads'[t].asset = a
        BY <1>0, <2>1 DEF Thread
    <2>3. Quiet /\ UNCHANGED members /\ w.pc = "nextAsset" /\ w.op = "reset"
        BY <1>0, <1>15 DEF ResetAsset, Quiet, Visible, At, ThreadOK
    <2>4. \A b \in Assets : members[b].source = "manual" /\ members[b].event = w.event => b \in w.assets
        BY <1>2, <2>3 DEF EditorOK, Resetting, SyncPcs
    <2>5. EditorOK(t)'
        BY <2>2, <2>3, <2>4 DEF EditorOK, Merging, SyncPcs
    <2> QED BY <1>2, <1>4, <2>3, <2>5
<1>16. CASE FinishReset(t)
    <2>1. w.assets = {} /\ w.pc = "nextAsset" /\ w.op = "reset" /\ UNCHANGED members /\ Answer(t)
        BY <1>0, <1>16 DEF FinishReset, At, ThreadOK
    <2>2. \A a \in Assets : members[a].source = "manual" => members[a].event # w.event
        BY <1>2, <2>1 DEF EditorOK, Resetting, SyncPcs
    <2>3. \A e \in EventIds \ {w.event} : Visible(e)' = Visible(e)
        BY <1>0, <1>16 DEF FinishReset, Visible
    <2>4. PinsOK'
        BY <2>1, <2>2, <2>3 DEF PinsOK
    <2> QED BY <1>2, <1>3, <2>1, <2>4
<1> QED BY <1>5, <1>6, <1>7, <1>8, <1>9, <1>10, <1>11, <1>12, <1>13, <1>14, <1>15, <1>16 DEF EditStep

\* Merged events that stay merged, or lead nowhere any more, keep the forest.
LEMMA ForestShrinks ==
    ASSUME MergeForest,
           \A e \in EventIds : groups'[e].status = "merged" =>
               /\ groups[e].status = "merged"
               /\ groups'[e].into \in {groups[e].into, None}
    PROVE  MergeForest'
<1> SUFFICES ASSUME NEW S \in SUBSET MergedEvents', S # {}
             PROVE  \E e \in S : groups'[e].into \notin S
    BY DEF MergeForest
<1>1. S \in SUBSET MergedEvents /\ S \subseteq EventIds
    BY DEF MergedEvents
<1>2. PICK e \in S : groups[e].into \notin S
    BY <1>1 DEF MergeForest
<1>3. None \notin S
    BY <1>1, EventConstantsOK DEF EventIds
<1> QED BY <1>1, <1>2, <1>3 DEF MergedEvents

LEMMA ForestKept ==
    ASSUME OneEditor, WellFormed, EditorInv, MergeForest, [Next]_vars
    PROVE  MergeForest'
<1>0. groups \in [EventIds -> Group] /\ ThreadInv /\ threads \in [Threads -> Thread]
    BY DEF WellFormed, TypeOK
<1>1. CASE UNCHANGED groups
    BY <1>1, ForestShrinks
<1>2. ASSUME NEW t \in Threads, MarkSource(t)
      PROVE  MergeForest'
    <2> DEFINE w == threads[t]
    <2>1. PICK s \in w.ids : groups' = [groups EXCEPT ![s].status = "merged", ![s].into = w.event]
        BY <1>2 DEF MarkSource
    <2>2. /\ s \in EventIds /\ s # w.event /\ w.event \in EventIds /\ t \in Editors
          /\ w.pc = "markSource"
        BY <1>0, <1>2, <2>1 DEF MarkSource, At, ThreadInv, ThreadOK, EditPcs, Merging, Thread
    <2>3. Visible(w.event)
        BY <2>2 DEF EditorInv, EditorOK, Merging
    <2>4. /\ groups'[s].status = "merged" /\ groups'[s].into = w.event
          /\ \A e \in EventIds \ {s} : groups'[e] = groups[e]
        BY <1>0, <2>1, <2>2 DEF Group
    <2> SUFFICES ASSUME NEW S \in SUBSET MergedEvents', S # {}
                 PROVE  \E e \in S : groups'[e].into \notin S
        BY DEF MergeForest
    <2>5. w.event \notin S
        BY <2>2, <2>3, <2>4 DEF Visible, MergedEvents
    <2>6. CASE s \in S
        BY <2>4, <2>5, <2>6
    <2>7. CASE s \notin S
        <3>1. S \in SUBSET MergedEvents
            BY <2>4, <2>7 DEF MergedEvents
        <3> QED BY <2>4, <2>7, <3>1 DEF MergeForest, MergedEvents
    <2> QED BY <2>6, <2>7
<1>3. ASSUME NEW t \in Threads, EditStep(t), ~MarkSource(t)
      PROVE  MergeForest'
    <2>1. CASE RenameGroup(t) \/ MarkTarget(t) \/ FinishReset(t)
        BY <1>0, <2>1, ForestShrinks DEF RenameGroup, MarkTarget, FinishReset, Group
    <2>2. CASE InsertSplit(t)
        BY <1>0, <2>2, ForestShrinks DEF InsertSplit, SplitGroup
    <2> QED BY <1>1, <1>3, <2>1, <2>2 DEF EditStep, ReadSource, MoveMembers, ReadSplit, MoveSplit,
            ReadRemove, WriteRemove, ReadReset, ResetAsset
<1>4. ASSUME NEW t \in Threads, SyncStep(t)
      PROVE  MergeForest'
    <2>1. CASE InsertGroup(t) \/ RestoreGroup(t)
        BY <1>0, <1>1, <2>1, ForestShrinks DEF InsertGroup, RestoreGroup, AutoGroup
    <2>2. CASE RefreshGroup(t)
        BY <1>0, <2>2, ForestShrinks DEF RefreshGroup, Group
    <2> QED BY <1>1, <1>4, <2>1, <2>2 DEF SyncStep, ReadMember, DeleteMember, ReadGroup, WriteMember
<1>5. ASSUME NEW t \in Threads, NEW e \in EventIds, Request(t, e)
      PROVE  MergeForest'
    BY <1>1, <1>5, RequestBegins DEF Begin
<1> QED BY <1>1, <1>2, <1>3, <1>4, <1>5 DEF Next, RecordAnalysis, vars

EditorsInv == WellFormed /\ PinsOK /\ EditorInv /\ MergeForest

LEMMA EditorsInvInit == Init => EditorsInv
<1> SUFFICES ASSUME Init PROVE EditorsInv
    OBVIOUS
<1>1. MergedEvents = {}
    BY DEF Init, MergedEvents, NoGroup
<1> QED BY <1>1, InitWellFormed DEF Init, EditorsInv, PinsOK, EditorInv, EditorOK, MergeForest, NoMember,
        IdleThread, Threads, Resetting, Merging, SyncPcs

LEMMA EditorsInvNext == OneEditor /\ EditorsInv /\ [Next]_vars => EditorsInv'
<1> SUFFICES ASSUME OneEditor, EditorsInv, [Next]_vars PROVE EditorsInv'
    OBVIOUS
<1>0. WellFormed /\ PinsOK /\ EditorInv /\ MergeForest
    BY DEF EditorsInv
<1>1. WellFormed' /\ MergeForest'
    BY <1>0, NextWellFormed, ForestKept
<1>2. PinsOK' /\ EditorInv'
    <2>1. ASSUME NEW t \in Threads, NEW e \in EventIds, Request(t, e)
          PROVE  PinsOK' /\ EditorInv'
        BY <1>0, <2>1, RequestQuiet, QuietKeeps
    <2>2. ASSUME NEW t \in Threads, NEW a \in Assets, NEW k, RecordAnalysis(t, a, k)
          PROVE  PinsOK' /\ EditorInv'
        BY <1>0, <2>2, RecordQuiet, QuietKeeps
    <2>3. ASSUME NEW t \in Threads, EditStep(t)
          PROVE  PinsOK' /\ EditorInv'
        BY <1>0, <2>3, EditKeeps
    <2>4. ASSUME NEW t \in Threads, SyncStep(t)
          PROVE  PinsOK' /\ EditorInv'
        BY <1>0, <2>4, SyncQuiet, QuietKeeps
    <2>5. CASE UNCHANGED vars
        BY <1>0, <2>5 DEF vars, PinsOK, EditorInv, EditorOK, Visible
    <2> QED BY <2>1, <2>2, <2>3, <2>4, <2>5 DEF Next
<1> QED BY <1>1, <1>2 DEF EditorsInv

\* With one editor at a time, whatever scans do beside it, an asset a user put
\* into an event by a merge or a split can be seen there.
THEOREM PinsStayVisible ==
    ASSUME OneEditor
    PROVE  Spec => []PinnedVisible
<1>1. EditorsInv => PinnedVisible
    BY DEF EditorsInv, PinsOK, PinnedVisible
<1>2. EditorsInv /\ [Next]_vars => EditorsInv'
    BY EditorsInvNext
<1> QED BY <1>1, <1>2, EditorsInvInit, PTL DEF Spec

\* With one editor at a time merged events never lead back to themselves.
THEOREM MergesFormForest ==
    ASSUME OneEditor
    PROVE  Spec => []MergeForest
<1>1. EditorsInv => MergeForest
    BY DEF EditorsInv
<1>2. EditorsInv /\ [Next]_vars => EditorsInv'
    BY EditorsInvNext
<1> QED BY <1>1, <1>2, EditorsInvInit, PTL DEF Spec

-----------------------------------------------------------------------------
(* One thread for edits and scans: what a scan keeps, and the contract.    *)

OneThread == \A t, u \in Threads : t = u

Exists(e) == groups[e].status # "absent"

\* What the rows say of each other: no member and no merged event points to an
\* event without a row, and only edits write titles of their own.
GroupKnown(g) ==
    /\ g.status \in {"absent", "auto"} => g.title = "auto"
    /\ g.status = "merged" => g.into # None
    /\ g.into # None => Exists(g.into)
MemberKnown(m) ==
    /\ m.event # None => Exists(m.event)
    /\ m.source \in {"none", "removed"} => m.event = None
Rows ==
    /\ \A e \in EventIds : GroupKnown(groups[e])
    /\ \A a \in Assets : MemberKnown(members[a])

\* What the statements before have established is still so at the next one,
\* because nothing ran in between.
Knows(w) ==
    /\ w.op = "scan" => w.pc \in SyncPcs
    /\ w.pc \in Merging => Exists(w.event)
    /\ w.pc \in {"readSplit", "insertSplit", "moveSplit"} => w.assets # {}
    /\ w.pc \in {"insertSplit", "moveSplit"} => w.assets \subseteq MembersOf({w.event})
    /\ w.pc = "moveSplit" => Exists(w.join) /\ MembersOf({w.join}) = {}
    /\ w.pc = "writeRemove" => w.asset \in MembersOf({w.event})
    /\ Resetting(w) => w.assets \subseteq MembersOf({w.event})
    /\ Resetting(w) /\ w.pc \in SyncPcs => w.asset \in MembersOf({w.event}) \ w.assets
    /\ w.op = "scan" /\ w.pc # "readMember" => ~Pinned(w.asset)
    /\ w.pc = "restoreGroup" =>
          Exists(w.key) /\ (w.op = "scan" => groups[w.key].status = "auto")
    /\ w.pc = "refreshGroup" =>
          w.op = "scan" /\ groups[w.key].status \in {"manual", "reset"}
    /\ w.pc = "writeMember" => Exists(w.join)

SerialInv == WellFormed /\ Rows /\ \A t \in Threads : Knows(threads[t])

LEMMA SerialInit == Init => SerialInv
<1> SUFFICES ASSUME Init PROVE SerialInv
    OBVIOUS
<1>1. WellFormed
    BY InitWellFormed
<1>2. Rows
    BY DEF Init, Rows, GroupKnown, MemberKnown, NoGroup, NoMember
<1>3. \A t \in Threads : Knows(threads[t])
    BY DEF Init, Knows, IdleThread, Merging, SyncPcs, Resetting
<1> QED BY <1>1, <1>2, <1>3 DEF SerialInv

\* A statement on event_groups writes one row.
LEMMA RowsWritten ==
    ASSUME WellFormed, Rows, NEW e \in EventIds, NEW g \in Group,
           groups' = [groups EXCEPT ![e] = g], members' = members,
           g.status # "absent", g.status = "auto" => g.title = "auto",
           g.status = "merged" => g.into # None, g.into # None => Exists(g.into)
    PROVE  Rows' /\ groups'[e] = g /\ \A d \in EventIds : Exists(d) => Exists(d)'
<1>0. groups \in [EventIds -> Group] /\ members \in [Assets -> Member]
    BY DEF WellFormed, TypeOK
<1>1. \A d \in EventIds : Exists(d) => Exists(d)'
    BY <1>0 DEF Exists
<1>2. ASSUME NEW d \in EventIds PROVE GroupKnown(groups[d])'
    <2>1. CASE d = e
        <3>1. g.into # None => g.into \in EventIds
            BY DEF Group
        <3> QED BY <1>0, <1>1, <2>1, <3>1 DEF GroupKnown
    <2>2. CASE d # e
        <3>1. groups'[d] = groups[d] /\ (groups[d].into # None => groups[d].into \in EventIds)
            BY <1>0, <2>2 DEF Group
        <3> QED BY <1>1, <3>1 DEF GroupKnown, Rows
    <2> QED BY <2>1, <2>2
<1>3. ASSUME NEW a \in Assets PROVE MemberKnown(members[a])'
    <2>1. members[a].event # None => members[a].event \in EventIds
        BY <1>0 DEF Member
    <2> QED BY <1>1, <2>1 DEF MemberKnown, Rows
<1> QED BY <1>0, <1>1, <1>2, <1>3 DEF Rows

\* A statement on the memberships leaves each asset in an event with a row.
LEMMA RowsMoved ==
    ASSUME Rows, groups' = groups, \A a \in Assets : members'[a] = members[a] \/ MemberKnown(members'[a])
    PROVE  Rows'
BY DEF Rows, GroupKnown, MemberKnown, Exists

\* What a step of the contract is about.
LEMMA NothingMoves == UNCHANGED members => UNCHANGED Contract!vars
BY DEF Contract!vars, Pinned

LEMMA PinToIs ==
    ASSUME NEW A, NEW e,
           \A a \in Assets :
               /\ members'[a].event = IF a \in A THEN e ELSE members[a].event
               /\ (members'[a].source \in {"manual", "removed"})
                     = (a \in A \/ members[a].source \in {"manual", "removed"})
    PROVE  Contract!PinTo(A, e)
<1>1. [a \in Assets |-> members[a].event]'
        = [a \in Assets |-> IF a \in A THEN e ELSE [b \in Assets |-> members[b].event][a]]
    OBVIOUS
<1>2. [a \in Assets |-> Pinned(a)]'
        = [a \in Assets |-> a \in A \/ [b \in Assets |-> Pinned(b)][a]]
    BY DEF Pinned
<1> QED BY <1>1, <1>2 DEF Contract!PinTo

LEMMA PinIsPinTo ==
    ASSUME WellFormed, NEW A \in SUBSET Assets, NEW e \in EventIds, Pin(A, e)
    PROVE  Contract!PinTo(A, e)
<1>1. \A a \in Assets :
         members'[a] = IF a \in A THEN [source |-> "manual", event |-> e] ELSE members[a]
    BY DEF Pin
<1> QED BY <1>1, PinToIs

LEMMA PlacesAre == \A E : Contract!In(E) = MembersOf(E)
BY DEF Contract!In, MembersOf

-----------------------------------------------------------------------------

LEMMA SerialRequest ==
    ASSUME SerialInv, NEW t \in Threads, NEW e \in EventIds, Request(t, e)
    PROVE  /\ UNCHANGED <<groups, members>> /\ Rows' /\ Knows(threads[t])'
           /\ ~Scanning(t)
<1>1. PICK w \in Thread :
         /\ Begin(t, w) /\ w.op # "scan" /\ (w.pc = "readSplit" => w.assets # {})
         /\ w.pc \in {"rename", "readSource", "readSplit", "readRemove", "readReset"}
    BY RequestBegins
<1>2. threads'[t] = w /\ UNCHANGED <<groups, members>> /\ Visible(w.event) /\ threads[t].pc = "idle"
    BY <1>1 DEF Begin, At, SerialInv, WellFormed, TypeOK
<1>3. Rows'
    BY <1>2 DEF SerialInv, Rows, GroupKnown, MemberKnown, Exists
<1>4. Knows(threads[t])'
    BY <1>1, <1>2 DEF Knows, Exists, Visible, Resetting, SyncPcs, Merging
<1>5. ~Scanning(t)
    BY <1>2 DEF SerialInv, Knows, Scanning, SyncPcs
<1> QED BY <1>2, <1>3, <1>4, <1>5

LEMMA SerialRecord ==
    ASSUME SerialInv, NEW t \in Threads, NEW a \in Assets, NEW k, RecordAnalysis(t, a, k)
    PROVE  /\ UNCHANGED <<groups, members>> /\ Rows' /\ Knows(threads[t])'
           /\ ~Scanning(t)
<1>1. /\ threads'[t] = [IdleThread EXCEPT !.pc = "readMember", !.op = "scan", !.asset = a, !.key = k]
      /\ UNCHANGED <<groups, members>> /\ threads[t].pc = "idle"
    BY DEF RecordAnalysis, At, SerialInv, WellFormed, TypeOK
<1>2. threads'[t].pc = "readMember" /\ threads'[t].op = "scan"
    BY <1>1 DEF IdleThread
<1>3. Rows'
    BY <1>1 DEF SerialInv, Rows, GroupKnown, MemberKnown, Exists
<1>4. Knows(threads[t])'
    BY <1>2 DEF Knows, Resetting, SyncPcs, Merging
<1>5. ~Scanning(t)
    BY <1>1 DEF SerialInv, Knows, Scanning, SyncPcs
<1> QED BY <1>1, <1>3, <1>4, <1>5

\* A thread that answers knows nothing.
LEMMA AnswerKnows ==
    ASSUME WellFormed, NEW t \in Threads, Answer(t)
    PROVE  Knows(threads[t])'
<1>1. threads'[t] = IdleThread
    BY DEF Answer, WellFormed, TypeOK
<1> QED BY <1>1 DEF Knows, IdleThread, Merging, SyncPcs, Resetting

LEMMA SerialMerge ==
    ASSUME SerialInv, NEW t \in Threads, NEW w \in Thread, w = threads[t],
           ReadSource(t) \/ MoveMembers(t) \/ MarkTarget(t) \/ MarkSource(t)
    PROVE  Rows' /\ Knows(threads[t])' /\ [Contract!Next]_Contract!vars
<1>0. /\ WellFormed /\ Rows /\ Knows(w) /\ ThreadOK(t, w)
      /\ threads \in [Threads -> Thread] /\ groups \in [EventIds -> Group]
      /\ members \in [Assets -> Member]
    BY DEF SerialInv, WellFormed, TypeOK, ThreadInv
<1>1. w.pc \in Merging /\ w.event \in EventIds /\ Exists(w.event) /\ w.op # "scan"
    BY <1>0 DEF ReadSource, MoveMembers, MarkTarget, MarkSource, At, Merging, ThreadOK, EditPcs,
       Knows, SyncPcs
<1>2. ASSUME threads'[t].pc \in Merging, threads'[t].event = w.event,
             Exists(w.event)', threads'[t].op = w.op
      PROVE  Knows(threads[t])'
    BY <1>1, <1>2 DEF Knows, Merging, Resetting, SyncPcs, Exists
<1>3. CASE ReadSource(t)
    <2>1. UNCHANGED <<groups, members>> /\ Rows' /\ Exists(w.event)'
        BY <1>0, <1>1, <1>3 DEF ReadSource, Rows, GroupKnown, MemberKnown, Exists
    <2>2. PICK s \in w.ids :
             \/ threads' = [threads EXCEPT ![t].ids = @ \ {s},
                              ![t].pc = IF w.ids = {s} THEN "moveMembers" ELSE @]
             \/ Answer(t)
        BY <1>3 DEF ReadSource
    <2>3. CASE threads' = [threads EXCEPT ![t].ids = @ \ {s},
                              ![t].pc = IF w.ids = {s} THEN "moveMembers" ELSE @]
        <3>1. /\ threads'[t].pc \in {"readSource", "moveMembers"} /\ threads'[t].event = w.event
              /\ threads'[t].op = w.op
            BY <1>0, <1>3, <2>3 DEF ReadSource, At, Thread
        <3> QED BY <1>2, <2>1, <3>1, NothingMoves DEF Merging
    <2> QED BY <1>0, <2>1, <2>2, <2>3, AnswerKnows, NothingMoves
<1>4. CASE MoveMembers(t)
    <2> DEFINE A == MembersOf(w.sources \cup {w.event})
    <2>1. Pin(A, w.event) /\ Goto(t, "markTarget") /\ groups' = groups /\ A \subseteq Assets
        BY <1>4 DEF MoveMembers, MembersOf
    <2>2. \A a \in Assets : members'[a] = members[a] \/ MemberKnown(members'[a])
        BY <1>1, <2>1 DEF Pin, MemberKnown
    <2>3. Rows' /\ Exists(w.event)'
        BY <1>0, <1>1, <2>1, <2>2, RowsMoved DEF Exists
    <2>4. /\ threads'[t].pc = "markTarget" /\ threads'[t].event = w.event
          /\ threads'[t].op = w.op
        BY <1>0, <2>1 DEF Goto, Thread
    <2>5. Contract!PinTo(A, w.event)
        BY <1>0, <1>1, <2>1, PinIsPinTo
    <2>6. w.sources \in SUBSET EventIds
        BY <1>0 DEF Thread
    <2>7. Contract!Merge(w.event, w.sources)
        BY <2>5, PlacesAre DEF Contract!Merge
    <2>8. Contract!Next
        BY <1>1, <2>6, <2>7 DEF Contract!Next
    <2> QED BY <1>2, <2>3, <2>4, <2>8 DEF Merging
<1>5. CASE MarkTarget(t)
    <2> DEFINE g == [groups[w.event] EXCEPT !.status = "manual"]
    <2>1. g \in Group /\ g.status = "manual" /\ g.into = groups[w.event].into
        BY <1>0, <1>1 DEF Group
    <2>2. groups' = [groups EXCEPT ![w.event] = g] /\ UNCHANGED members
        BY <1>5 DEF MarkTarget
    <2>3. g.into # None => Exists(g.into)
        BY <1>0, <1>1, <2>1 DEF Rows, GroupKnown
    <2> HIDE DEF g
    <2>4. Rows' /\ Exists(w.event)'
        BY <1>0, <1>1, <2>1, <2>2, <2>3, RowsWritten
    <2>5. /\ threads'[t].pc = "markSource" /\ threads'[t].event = w.event
          /\ threads'[t].op = w.op
        BY <1>0, <1>5 DEF MarkTarget, Thread
    <2> QED BY <1>2, <2>2, <2>4, <2>5, NothingMoves DEF Merging
<1>6. CASE MarkSource(t)
    <2>1. PICK s \in w.ids :
             /\ groups' = [groups EXCEPT ![s].status = "merged", ![s].into = w.event]
             /\ \/ Answer(t)
                \/ threads' = [threads EXCEPT ![t].ids = @ \ {s}]
        BY <1>6 DEF MarkSource
    <2> DEFINE g == [groups[s] EXCEPT !.status = "merged", !.into = w.event]
    <2>2. s \in EventIds
        BY <1>0, <2>1 DEF Thread
    <2>3. g \in Group /\ g.status = "merged" /\ g.into = w.event
        BY <1>0, <1>1, <2>2 DEF Group
    <2>4. groups' = [groups EXCEPT ![s] = g] /\ UNCHANGED members
        BY <1>0, <1>6, <2>1, <2>2 DEF MarkSource, Group
    <2>5. w.event # None
        BY <1>1, EventConstantsOK DEF EventIds
    <2> HIDE DEF g
    <2>6. Rows' /\ Exists(w.event)'
        BY <1>0, <1>1, <2>2, <2>3, <2>4, <2>5, RowsWritten
    <2>7. CASE threads' = [threads EXCEPT ![t].ids = @ \ {s}]
        <3>1. /\ threads'[t].pc = w.pc /\ threads'[t].event = w.event
              /\ threads'[t].op = w.op
            BY <1>0, <2>7 DEF Thread
        <3> QED BY <1>1, <1>2, <2>4, <2>6, <3>1, NothingMoves
    <2> QED BY <1>0, <2>1, <2>4, <2>6, <2>7, AnswerKnows, NothingMoves
<1> QED BY <1>3, <1>4, <1>5, <1>6

LEMMA SerialEdit ==
    ASSUME SerialInv, NEW t \in Threads, NEW w \in Thread, w = threads[t], EditStep(t)
    PROVE  Rows' /\ Knows(threads[t])' /\ [Contract!Next]_Contract!vars /\ ~Scanning(t)
<1>0. /\ WellFormed /\ Rows /\ Knows(w) /\ ThreadOK(t, w)
      /\ threads \in [Threads -> Thread] /\ groups \in [EventIds -> Group]
      /\ members \in [Assets -> Member]
    BY DEF SerialInv, WellFormed, TypeOK, ThreadInv
<1>1. w.pc \in EditPcs /\ w.event \in EventIds /\ w.op # "scan"
    BY <1>0 DEF EditStep, RenameGroup, ReadSource, MoveMembers, MarkTarget, MarkSource, ReadSplit,
       InsertSplit, MoveSplit, ReadRemove, WriteRemove, ReadReset, ResetAsset, FinishReset, At,
       ThreadOK, EditPcs, Knows, SyncPcs
<1>2. ASSUME UNCHANGED groups, UNCHANGED members PROVE Rows'
    BY <1>0, <1>2 DEF Rows, GroupKnown, MemberKnown, Exists
<1>3. w.event # None
    BY <1>1, EventConstantsOK DEF EventIds
<1>4. CASE RenameGroup(t)
    <2> DEFINE g == [groups[w.event] EXCEPT !.title = "custom", !.status = "manual"]
    <2>1. g \in Group /\ g.status = "manual" /\ g.into = groups[w.event].into
        BY <1>0, <1>1 DEF Group
    <2>2. groups' = [groups EXCEPT ![w.event] = g] /\ UNCHANGED members
        BY <1>0, <1>1, <1>4 DEF RenameGroup, Group
    <2>3. g.into # None => Exists(g.into)
        BY <1>0, <1>1, <2>1 DEF Rows, GroupKnown
    <2> HIDE DEF g
    <2>4. Rows'
        BY <1>0, <1>1, <2>1, <2>2, <2>3, RowsWritten
    <2> QED BY <1>0, <1>1, <1>4, <2>2, <2>4, AnswerKnows, NothingMoves DEF RenameGroup, Scanning
<1>5. CASE ReadSource(t) \/ MoveMembers(t) \/ MarkTarget(t) \/ MarkSource(t)
    BY <1>1, <1>5, SerialMerge DEF Scanning
<1>6. CASE ReadSplit(t)
    <2>1. CASE w.assets \subseteq MembersOf({w.event}) /\ Goto(t, "insertSplit")
        <3>1. /\ threads'[t].pc = "insertSplit" /\ threads'[t].op = w.op
              /\ threads'[t].event = w.event /\ threads'[t].assets = w.assets
            BY <1>0, <2>1 DEF Goto, Thread
        <3>2. w.assets # {} /\ UNCHANGED members
            BY <1>0, <1>6 DEF ReadSplit, At, Knows
        <3>3. w.assets \subseteq MembersOf({w.event})'
            BY <2>1, <3>2 DEF MembersOf
        <3>4. Knows(threads[t])'
            BY <1>1, <3>1, <3>2, <3>3 DEF Knows, Merging, Resetting, SyncPcs
        <3> QED BY <1>1, <1>2, <1>6, <3>4, NothingMoves DEF ReadSplit, Scanning
    <2>2. CASE Answer(t)
        BY <1>0, <1>1, <1>2, <1>6, <2>2, AnswerKnows, NothingMoves DEF ReadSplit, Scanning
    <2> QED BY <1>6, <2>1, <2>2 DEF ReadSplit
<1>7. CASE InsertSplit(t)
    <2>1. PICK m \in FreshIds :
             /\ groups' = [groups EXCEPT ![m] = SplitGroup]
             /\ threads' = [threads EXCEPT ![t].join = m, ![t].pc = "moveSplit"]
        BY <1>7 DEF InsertSplit
    <2>2. m \in EventIds /\ ~Exists(m) /\ m # None /\ UNCHANGED members
        BY <1>7, <2>1, EventConstantsOK DEF FreshIds, EventIds, Exists, InsertSplit
    <2>3. SplitGroup \in Group /\ SplitGroup.status = "manual" /\ SplitGroup.into = None
        BY DEF SplitGroup, Group
    <2>4. Rows' /\ Exists(m)'
        BY <1>0, <2>1, <2>2, <2>3, RowsWritten DEF Exists
    <2>5. MembersOf({m}) = {}
        BY <1>0, <2>2 DEF MembersOf, Rows, MemberKnown
    <2>6. /\ threads'[t].pc = "moveSplit" /\ threads'[t].op = w.op /\ threads'[t].join = m
          /\ threads'[t].event = w.event /\ threads'[t].assets = w.assets
        BY <1>0, <2>1 DEF Thread
    <2>7. w.assets # {} /\ w.assets \subseteq MembersOf({w.event})
        BY <1>0, <1>7 DEF InsertSplit, At, Knows
    <2>8. MembersOf({m})' = {} /\ w.assets \subseteq MembersOf({w.event})'
        BY <2>2, <2>5, <2>7 DEF MembersOf
    <2>9. Knows(threads[t])'
        BY <1>1, <2>4, <2>6, <2>7, <2>8 DEF Knows, Merging, Resetting, SyncPcs, Exists
    <2> QED BY <1>1, <2>2, <2>4, <2>9, NothingMoves DEF Scanning
<1>8. CASE MoveSplit(t)
    <2> DEFINE A == {a \in w.assets : members[a].source # "none"}
    <2>1. Pin(A, w.join) /\ Answer(t) /\ UNCHANGED groups
        BY <1>8 DEF MoveSplit
    <2>2. /\ w.join \in EventIds /\ Exists(w.join) /\ MembersOf({w.join}) = {}
          /\ w.assets # {} /\ w.assets \subseteq MembersOf({w.event})
        BY <1>0, <1>8 DEF MoveSplit, At, Knows, ThreadOK, EventIds
    <2>3. A = w.assets
        BY <1>0, <1>3, <2>2 DEF Rows, MemberKnown, MembersOf
    <2>4. A \subseteq Assets
        BY <2>2, <2>3 DEF MembersOf
    <2>5. Contract!PinTo(w.assets, w.join)
        BY <1>0, <2>1, <2>2, <2>3, <2>4, PinIsPinTo
    <2>6. Contract!Split(w.event)
        BY <2>2, <2>5, PlacesAre DEF Contract!Split
    <2>7. Contract!Next
        BY <1>1, <2>6 DEF Contract!Next
    <2>8. \A a \in Assets : members'[a] = members[a] \/ MemberKnown(members'[a])
        BY <2>1, <2>2 DEF Pin, MemberKnown
    <2>9. Rows'
        BY <1>0, <2>1, <2>8, RowsMoved
    <2> QED BY <1>0, <1>1, <2>1, <2>7, <2>9, AnswerKnows DEF Scanning
<1>9. CASE ReadRemove(t)
    <2>1. CASE w.asset \in MembersOf({w.event}) /\ Goto(t, "writeRemove")
        <3>1. /\ threads'[t].pc = "writeRemove" /\ threads'[t].op = w.op
              /\ threads'[t].event = w.event /\ threads'[t].asset = w.asset
            BY <1>0, <2>1 DEF Goto, Thread
        <3>2. w.asset \in MembersOf({w.event})' /\ UNCHANGED members
            BY <1>9, <2>1 DEF MembersOf, ReadRemove
        <3>3. Knows(threads[t])'
            BY <1>1, <3>1, <3>2 DEF Knows, Merging, Resetting, SyncPcs
        <3> QED BY <1>1, <1>2, <1>9, <3>3, NothingMoves DEF ReadRemove, Scanning
    <2>2. CASE Answer(t)
        BY <1>0, <1>1, <1>2, <1>9, <2>2, AnswerKnows, NothingMoves DEF ReadRemove, Scanning
    <2> QED BY <1>9, <2>1, <2>2 DEF ReadRemove
<1>10. CASE WriteRemove(t)
    <2> DEFINE m == [source |-> "removed", event |-> None]
    <2>1. w.asset \in Assets /\ w.asset \in MembersOf({w.event})
        BY <1>0, <1>10 DEF WriteRemove, At, Knows, ThreadOK
    <2>2. members[w.asset].source # "none" /\ members[w.asset].event # None
        BY <1>0, <1>3, <2>1 DEF MembersOf, Rows, MemberKnown
    <2>3. members' = [members EXCEPT ![w.asset] = m] /\ Answer(t) /\ UNCHANGED groups
        BY <1>10, <2>2 DEF WriteRemove
    <2>4. m \in Member /\ MemberKnown(m) /\ MemberKnown(m)'
        BY DEF Member, MemberKnown
    <2>5. Rows'
        BY <1>0, <2>1, <2>3, <2>4, RowsMoved DEF MemberKnown
    <2>6. Contract!Remove(w.asset)
        <3>1. \A a \in Assets : members'[a] = IF a = w.asset THEN m ELSE members[a]
            BY <1>0, <2>1, <2>3
        <3>2. Contract!PinTo({w.asset}, None)
            BY <3>1, PinToIs
        <3> QED BY <2>1, <2>2, <3>2 DEF Contract!Remove
    <2> QED BY <1>0, <1>1, <2>1, <2>3, <2>5, <2>6, AnswerKnows DEF Contract!Next, Scanning
<1>11. CASE ReadReset(t)
    <2>1. /\ threads'[t].pc = "nextAsset" /\ threads'[t].op = w.op
          /\ threads'[t].event = w.event /\ threads'[t].assets = MembersOf({w.event})
          /\ UNCHANGED <<groups, members>>
        BY <1>0, <1>11 DEF ReadReset, Thread
    <2>2. MembersOf({w.event})' = MembersOf({w.event})
        BY <2>1 DEF MembersOf
    <2>3. Knows(threads[t])'
        BY <1>1, <2>1, <2>2 DEF Knows, Merging, Resetting, SyncPcs
    <2> QED BY <1>1, <1>2, <2>1, <2>3, NothingMoves DEF Scanning
<1>12. CASE ResetAsset(t)
    <2>1. PICK a \in w.assets :
             threads' = [threads EXCEPT ![t].assets = @ \ {a}, ![t].asset = a,
                                        ![t].key = latest[a], ![t].pc = "readMember"]
        BY <1>12 DEF ResetAsset
    <2>2. /\ threads'[t].pc = "readMember" /\ threads'[t].op = w.op /\ threads'[t].asset = a
          /\ threads'[t].event = w.event /\ threads'[t].assets = w.assets \ {a}
        BY <1>0, <2>1 DEF Thread
    <2>3. w.assets \subseteq MembersOf({w.event}) /\ UNCHANGED <<groups, members>>
        BY <1>0, <1>12 DEF ResetAsset, At, Knows, Resetting, ThreadOK
    <2>4. MembersOf({w.event})' = MembersOf({w.event})
        BY <2>3 DEF MembersOf
    <2>5. Knows(threads[t])'
        BY <1>1, <2>1, <2>2, <2>3, <2>4 DEF Knows, Merging, Resetting, SyncPcs
    <2> QED BY <1>1, <1>2, <2>3, <2>5, NothingMoves DEF Scanning
<1>13. CASE FinishReset(t)
    <2>1. Answer(t) /\ UNCHANGED members
        BY <1>13 DEF FinishReset
    <2>2. Rows'
        <3>1. CASE UNCHANGED groups
            BY <1>2, <2>1, <3>1
        <3>2. CASE groups' = [groups EXCEPT ![w.event].status = "reset"]
            <4> DEFINE g == [groups[w.event] EXCEPT !.status = "reset"]
            <4>1. g \in Group /\ g.status = "reset" /\ g.into = groups[w.event].into
                BY <1>0, <1>1 DEF Group
            <4>2. groups' = [groups EXCEPT ![w.event] = g]
                BY <3>2
            <4>3. g.into # None => Exists(g.into)
                BY <1>0, <1>1, <4>1 DEF Rows, GroupKnown
            <4> HIDE DEF g
            <4> QED BY <1>0, <1>1, <2>1, <4>1, <4>2, <4>3, RowsWritten
        <3> QED BY <1>13, <3>1, <3>2 DEF FinishReset
    <2> QED BY <1>0, <1>1, <2>1, <2>2, AnswerKnows, NothingMoves DEF Scanning
<1> QED BY <1>4, <1>5, <1>6, <1>7, <1>8, <1>9, <1>10, <1>11, <1>12, <1>13 DEF EditStep

\* The next statement of a sync that has touched no membership yet.
LEMMA SyncKnows ==
    ASSUME SerialInv, NEW t \in Threads, NEW w \in Thread, w = threads[t], w.pc \in SyncPcs,
           UNCHANGED members, w.op = "scan" => ~Pinned(w.asset),
           NEW v, threads'[t] = v, v.pc \in SyncPcs \ {"readMember"},
           v.op = w.op, v.event = w.event, v.assets = w.assets, v.asset = w.asset,
           v.pc = "restoreGroup" =>
              groups'[v.key].status # "absent" /\ (v.op = "scan" => groups'[v.key].status = "auto"),
           v.pc = "refreshGroup" =>
              v.op = "scan" /\ groups'[v.key].status \in {"manual", "reset"},
           v.pc = "writeMember" => groups'[v.join].status # "absent"
    PROVE  Knows(threads[t])'
<1>1. Knows(w)
    BY DEF SerialInv
<1>2. Resetting(w) <=> w.op = "reset"
    BY DEF Resetting
<1>3. MembersOf({w.event})' = MembersOf({w.event}) /\ (Pinned(w.asset)' <=> Pinned(w.asset))
    BY DEF MembersOf, Pinned
<1> QED BY <1>1, <1>2, <1>3 DEF Knows, Exists, Resetting, Merging, SyncPcs

\* A reset goes on with an asset that is still in its event.
LEMMA SyncDoneKnows ==
    ASSUME SerialInv, NEW t \in Threads, NEW w \in Thread, w = threads[t], w.pc \in SyncPcs,
           SyncDone(t), \A a \in Assets \ {w.asset} : members'[a] = members[a]
    PROVE  Knows(threads[t])'
<1>1. CASE w.op = "reset"
    <2>1. w.assets \subseteq MembersOf({w.event}) /\ w.asset \notin w.assets
        BY <1>1 DEF SerialInv, Knows, Resetting
    <2>2. w.assets \subseteq MembersOf({w.event})'
        BY <2>1 DEF MembersOf
    <2>3. /\ threads'[t].pc = "nextAsset" /\ threads'[t].op = "reset"
          /\ threads'[t].event = w.event /\ threads'[t].assets = w.assets
        BY <1>1 DEF SyncDone, SerialInv, WellFormed, TypeOK, Thread
    <2> QED BY <2>2, <2>3 DEF Knows, Merging, Resetting, SyncPcs
<1>2. CASE w.op # "reset"
    BY <1>2, AnswerKnows DEF SyncDone, SerialInv
<1> QED BY <1>1, <1>2

\* A sync puts one asset somewhere, for a scan or for a reset.
LEMMA SyncMovesOne ==
    ASSUME SerialInv, NEW t \in Threads, NEW w \in Thread, w = threads[t], w.pc \in SyncPcs,
           w.pc # "readMember", w.asset \in Assets,
           NEW m \in Member, m.source \notin {"manual", "removed"}, MemberKnown(m),
           m.source = "none" => m.event = None,
           members' = [members EXCEPT ![w.asset] = m], UNCHANGED groups, SyncDone(t)
    PROVE  Rows' /\ Knows(threads[t])' /\ Contract!Next /\ (w.op = "scan" => EditsKept)
<1>0. /\ WellFormed /\ Rows /\ Knows(w) /\ ThreadOK(t, w) /\ members \in [Assets -> Member]
    BY DEF SerialInv, WellFormed, TypeOK, ThreadInv
<1>1. \A a \in Assets : members'[a] = IF a = w.asset THEN m ELSE members[a]
    BY <1>0
<1>2. Rows'
    BY <1>0, <1>1, RowsMoved
<1>3. Knows(threads[t])'
    BY <1>1, SyncDoneKnows
<1> DEFINE place == [a \in Assets |-> members[a].event]
           pin == [a \in Assets |-> Pinned(a)]
<1>4. place' = [place EXCEPT ![w.asset] = m.event] /\ pin' = [pin EXCEPT ![w.asset] = FALSE]
    <2>1. ASSUME NEW a \in Assets
          PROVE  /\ members'[a].event = IF a = w.asset THEN m.event ELSE members[a].event
                 /\ a = w.asset => (members'[a].source \in {"manual", "removed"}) = FALSE
                 /\ a # w.asset => (members'[a].source \in {"manual", "removed"})
                                      = (members[a].source \in {"manual", "removed"})
        BY <1>1
    <2>2. place' = [place EXCEPT ![w.asset] = m.event]
        BY <2>1
    <2>3. pin' = [pin EXCEPT ![w.asset] = FALSE]
        <3>1. \A a \in Assets : pin'[a] = [pin EXCEPT ![w.asset] = FALSE][a]
            BY <2>1 DEF Pinned
        <3> QED BY <3>1
    <2> QED BY <2>2, <2>3
<1>5. m.event \in EventIds \cup {None}
    BY DEF Member
<1>6. CASE w.op = "scan"
    <2>1. ~Pinned(w.asset)
        BY <1>0, <1>6 DEF Knows
    <2>2. pin' = pin
        <3>1. \A a \in Assets : (members'[a].source \in {"manual", "removed"})
                                   = (members[a].source \in {"manual", "removed"})
            BY <1>1, <2>1 DEF Pinned
        <3> QED BY <3>1 DEF Pinned
    <2>3. Contract!Place(w.asset)
        BY <1>4, <1>5, <2>1, <2>2 DEF Contract!Place
    <2>4. EditsKept
        BY <1>1, <2>1 DEF EditsKept
    <2> QED BY <1>2, <1>3, <2>3, <2>4 DEF Contract!Next
<1>7. CASE w.op = "reset"
    <2>1. place[w.asset] # None
        <3>1. w.event \in EventIds /\ w.asset \in MembersOf({w.event})
            BY <1>0, <1>7 DEF Knows, Resetting, ThreadOK
        <3> QED BY <3>1, EventConstantsOK DEF MembersOf, EventIds
    <2>2. Contract!Replay(w.asset)
        BY <1>4, <1>5, <2>1 DEF Contract!Replay
    <2> QED BY <1>2, <1>3, <1>7, <2>2 DEF Contract!Next
<1> QED BY <1>0, <1>6, <1>7 DEF ThreadOK

LEMMA SerialSync ==
    ASSUME SerialInv, NEW t \in Threads, NEW w \in Thread, w = threads[t], SyncStep(t)
    PROVE  /\ Rows' /\ Knows(threads[t])' /\ [Contract!Next]_Contract!vars
           /\ w.op = "scan" => EditsKept
<1>0. /\ WellFormed /\ Rows /\ Knows(w) /\ ThreadOK(t, w)
      /\ threads \in [Threads -> Thread] /\ groups \in [EventIds -> Group]
      /\ members \in [Assets -> Member]
    BY DEF SerialInv, WellFormed, TypeOK, ThreadInv
<1>1. w.pc \in SyncPcs /\ w.asset \in Assets /\ w.op \in {"scan", "reset"}
    BY <1>0 DEF SyncStep, ReadMember, DeleteMember, ReadGroup, InsertGroup, RestoreGroup,
       RefreshGroup, WriteMember, At, SyncPcs, ThreadOK
<1>2. ASSUME UNCHANGED groups, UNCHANGED members
      PROVE  Rows' /\ EditsKept /\ UNCHANGED Contract!vars
    BY <1>0, <1>2, NothingMoves DEF Rows, GroupKnown, MemberKnown, Exists, EditsKept
<1>3. w.pc \in Grouping => w.key \in Keys /\ w.key \in EventIds
    BY <1>0 DEF ThreadOK, EventIds
<1>4. w.pc # "readMember" => (w.op = "scan" => ~Pinned(w.asset))
    BY <1>0 DEF Knows
\* What _ensure_auto_event_group leaves in the row of the key.
<1>5. ASSUME w.pc \in {"insertGroup", "restoreGroup", "refreshGroup"}, UNCHANGED members,
             JoinOwnGroup(t), NEW g \in Group, groups' = [groups EXCEPT ![w.key] = g],
             g.into = None, g.status \notin {"absent", "merged"}, g.status = "auto" => g.title = "auto",
             w.op = "scan" => groups[w.key].status # "merged"
                              /\ (groups[w.key].title = "custom" => g.title = "custom")
      PROVE  /\ Rows' /\ Knows(threads[t])' /\ UNCHANGED Contract!vars
             /\ w.op = "scan" => EditsKept
    <2>1. w.key \in EventIds /\ w.pc # "readMember"
        BY <1>3, <1>5 DEF Grouping
    <2>2. Rows' /\ groups'[w.key] = g
        BY <1>0, <1>5, <2>1, RowsWritten
    <2> DEFINE v == [w EXCEPT !.join = w.key, !.pc = "writeMember"]
    <2>3. threads'[t] = v
        BY <1>0, <1>5 DEF JoinOwnGroup
    <2>4. /\ v.pc = "writeMember" /\ v.op = w.op /\ v.event = w.event /\ v.assets = w.assets
          /\ v.asset = w.asset /\ v.join = w.key
        BY DEF Thread
    <2> HIDE DEF v
    <2>5. Knows(threads[t])'
        BY <1>1, <1>4, <1>5, <2>1, <2>2, <2>3, <2>4, SyncKnows DEF SyncPcs
    <2>6. w.op = "scan" => EditsKept
        BY <1>0, <1>5, <2>1 DEF EditsKept
    <2> QED BY <1>5, <2>2, <2>5, <2>6, NothingMoves
<1>6. CASE ReadMember(t)
    <2>1. UNCHANGED <<groups, members>>
        BY <1>6 DEF ReadMember
    <2>2. CASE SyncDone(t)
        BY <1>1, <1>2, <2>1, <2>2, SyncDoneKnows
    <2>3. ASSUME NEW pc \in {"deleteMember", "readGroup"}, Goto(t, pc), w.op = "scan" => ~Pinned(w.asset)
          PROVE  Knows(threads[t])'
        <3> DEFINE v == [w EXCEPT !.pc = pc]
        <3>1. threads'[t] = v
            BY <1>0, <2>3 DEF Goto
        <3>2. /\ v.pc = pc /\ v.op = w.op /\ v.event = w.event /\ v.assets = w.assets
              /\ v.asset = w.asset
            BY DEF Thread
        <3> HIDE DEF v
        <3> QED BY <1>1, <2>1, <2>3, <3>1, <3>2, SyncKnows DEF SyncPcs
    <2>4. \/ SyncDone(t)
          \/ /\ w.op = "scan" => ~Pinned(w.asset)
             /\ Goto(t, "deleteMember") \/ Goto(t, "readGroup")
        BY <1>6 DEF ReadMember, PreserveManual
    <2> QED BY <1>2, <2>1, <2>2, <2>3, <2>4
<1>7. CASE DeleteMember(t)
    <2>1. NoMember \in Member /\ MemberKnown(NoMember) /\ NoMember.event = None
          /\ NoMember.source \notin {"manual", "removed"}
        BY DEF NoMember, Member, MemberKnown
    <2>2. w.pc = "deleteMember" /\ members' = [members EXCEPT ![w.asset] = NoMember]
          /\ UNCHANGED groups /\ SyncDone(t)
        BY <1>7 DEF DeleteMember, At
    <2> QED BY <1>1, <2>1, <2>2, SyncMovesOne
<1>8. CASE ReadGroup(t)
    <2> DEFINE g == groups[w.key]
    <2>0. /\ w.pc = "readGroup" /\ g \in Group /\ GroupKnown(g) /\ UNCHANGED <<groups, members>>
          /\ w.pc # "readMember"
        BY <1>0, <1>3, <1>8 DEF ReadGroup, At, Grouping, Rows
    <2>1. CASE g.into # None /\ threads' = [threads EXCEPT ![t].join = g.into, ![t].pc = "writeMember"]
        <3> DEFINE v == [w EXCEPT !.join = g.into, !.pc = "writeMember"]
        <3>1. threads'[t] = v
            BY <1>0, <2>1
        <3>2. /\ v.pc = "writeMember" /\ v.op = w.op /\ v.event = w.event /\ v.assets = w.assets
              /\ v.asset = w.asset /\ v.join = g.into
            BY DEF Thread
        <3>3. groups'[g.into].status # "absent"
            BY <2>0, <2>1 DEF GroupKnown, Exists
        <3> HIDE DEF v, g
        <3>4. Knows(threads[t])'
            BY <1>1, <1>4, <2>0, <3>1, <3>2, <3>3, SyncKnows DEF SyncPcs
        <3> QED BY <1>2, <2>0, <3>4
    <2>2. ASSUME NEW pc \in {"insertGroup", "restoreGroup", "refreshGroup"}, Goto(t, pc),
                 pc = "restoreGroup" => g.status # "absent" /\ (w.op = "scan" => g.status = "auto"),
                 pc = "refreshGroup" => w.op = "scan" /\ g.status \in {"manual", "reset"}
          PROVE  Knows(threads[t])'
        <3> DEFINE v == [w EXCEPT !.pc = pc]
        <3>1. threads'[t] = v
            BY <1>0, <2>2 DEF Goto
        <3>2. /\ v.pc = pc /\ v.op = w.op /\ v.event = w.event /\ v.assets = w.assets
              /\ v.asset = w.asset /\ v.key = w.key
            BY DEF Thread
        <3> HIDE DEF v
        <3> QED BY <1>1, <1>4, <2>0, <2>2, <3>1, <3>2, SyncKnows DEF SyncPcs
    <2>3. CASE g.status = "absent" /\ Goto(t, "insertGroup")
        BY <1>2, <2>0, <2>2, <2>3
    <2>4. CASE g.status # "absent" /\ Goto(t, "restoreGroup") /\ (w.op = "scan" => g.status = "auto")
        BY <1>2, <2>0, <2>2, <2>4
    <2>5. CASE w.op = "scan" /\ g.status \in {"manual", "reset"} /\ Goto(t, "refreshGroup")
        BY <1>2, <2>0, <2>2, <2>5
    <2>6. g.status \in {"absent", "auto", "manual", "merged", "reset"}
        BY <2>0 DEF Group
    <2>7. g.status = "merged" => g.into # None
        BY <2>0 DEF GroupKnown
    <2>8. \/ g.into # None /\ threads' = [threads EXCEPT ![t].join = g.into, ![t].pc = "writeMember"]
          \/ g.status = "absent" /\ Goto(t, "insertGroup")
          \/ g.status # "absent" /\ Goto(t, "restoreGroup") /\ (w.op = "scan" => g.status = "auto")
          \/ w.op = "scan" /\ g.status \in {"manual", "reset"} /\ Goto(t, "refreshGroup")
        <3> HIDE DEF g
        <3>1. \/ g.status = "absent" /\ Goto(t, "insertGroup")
              \/ g.into # None /\ threads' = [threads EXCEPT ![t].join = g.into, ![t].pc = "writeMember"]
              \/ /\ g.status # "absent" /\ ~(g.status = "merged" /\ w.op = "scan" /\ g.into # None)
                 /\ Goto(t, IF g.status = "auto" \/ w.op # "scan" THEN "restoreGroup" ELSE "refreshGroup")
            BY <1>8 DEF ReadGroup, PreserveManual, g
        <3>2. CASE g.status = "auto" \/ w.op # "scan"
            BY <3>1, <3>2
        <3>3. CASE ~(g.status = "auto" \/ w.op # "scan")
            BY <2>6, <2>7, <3>1, <3>3
        <3> QED BY <3>2, <3>3
    <2> QED BY <2>1, <2>3, <2>4, <2>5, <2>8, <1>2, <2>0
<1>9. CASE InsertGroup(t)
    <2>0. w.pc = "insertGroup" /\ UNCHANGED members /\ w.key \in EventIds
        BY <1>3, <1>9 DEF InsertGroup, At, Grouping
    <2>1. CASE ~Exists(w.key)
        <3>1. AutoGroup \in Group /\ AutoGroup.status = "auto" /\ AutoGroup.title = "auto" /\ AutoGroup.into = None
            BY DEF AutoGroup, Group
        <3>2. groups' = [groups EXCEPT ![w.key] = AutoGroup] /\ JoinOwnGroup(t)
            BY <1>9, <2>1 DEF InsertGroup, Exists
        <3>3. groups[w.key].status # "merged" /\ groups[w.key].title # "custom"
            BY <1>0, <2>0, <2>1 DEF Exists, Rows, GroupKnown
        <3> QED BY <1>5, <2>0, <3>1, <3>2, <3>3
    <2>2. CASE Exists(w.key)
        BY <1>0, <1>2, <1>9, <2>0, <2>2, AnswerKnows DEF InsertGroup, Exists
    <2> QED BY <2>1, <2>2
<1>10. CASE RestoreGroup(t)
    <2>1. w.pc = "restoreGroup" /\ UNCHANGED members /\ w.key \in EventIds /\ JoinOwnGroup(t)
          /\ groups' = [groups EXCEPT ![w.key] = AutoGroup]
        BY <1>3, <1>10 DEF RestoreGroup, At, Grouping
    <2>2. AutoGroup \in Group /\ AutoGroup.status = "auto" /\ AutoGroup.title = "auto" /\ AutoGroup.into = None
        BY DEF AutoGroup, Group
    <2>3. w.op = "scan" => groups[w.key].status = "auto"
        BY <1>0, <2>1 DEF Knows
    <2>4. w.op = "scan" => groups[w.key].status # "merged" /\ groups[w.key].title # "custom"
        BY <1>0, <2>1, <2>3 DEF Rows, GroupKnown
    <2> QED BY <1>5, <2>1, <2>2, <2>4
<1>11. CASE RefreshGroup(t)
    <2> DEFINE g == [groups[w.key] EXCEPT !.into = None]
    <2>1. w.pc = "refreshGroup" /\ UNCHANGED members /\ w.key \in EventIds /\ JoinOwnGroup(t)
          /\ groups' = [groups EXCEPT ![w.key] = g]
        BY <1>3, <1>11 DEF RefreshGroup, At, Grouping
    <2>2. groups[w.key].status \in {"manual", "reset"}
        BY <1>0, <2>1 DEF Knows
    <2>3. g \in Group /\ g.status = groups[w.key].status /\ g.title = groups[w.key].title /\ g.into = None
        BY <1>0, <2>1 DEF Group
    <2> HIDE DEF g
    <2> QED BY <1>5, <2>1, <2>2, <2>3
<1>12. CASE WriteMember(t)
    <2> DEFINE m == [source |-> "auto", event |-> w.join]
    <2>1. w.pc = "writeMember" /\ members' = [members EXCEPT ![w.asset] = m]
          /\ UNCHANGED groups /\ SyncDone(t) /\ w.join \in EventIds /\ Exists(w.join)
        BY <1>0, <1>12 DEF WriteMember, At, Knows, ThreadOK
    <2>2. m \in Member /\ MemberKnown(m) /\ m.source = "auto"
        BY <2>1 DEF Member, MemberKnown
    <2> HIDE DEF m
    <2> QED BY <1>1, <2>1, <2>2, SyncMovesOne
<1> QED BY <1>6, <1>7, <1>8, <1>9, <1>10, <1>11, <1>12 DEF SyncStep

LEMMA SerialNext ==
    ASSUME OneThread, SerialInv, [Next]_vars
    PROVE  SerialInv' /\ [Contract!Next]_Contract!vars /\ [ScanMoves => EditsKept]_vars
<1>0. WellFormed' /\ threads \in [Threads -> Thread]
    BY NextWellFormed DEF SerialInv, WellFormed, TypeOK
<1>1. ASSUME NEW t \in Threads, Knows(threads[t])'
      PROVE  (\A u \in Threads : Knows(threads[u]))' /\ (ScanMoves => Scanning(t))
    BY <1>1 DEF OneThread, ScanMoves
<1>2. ASSUME NEW t \in Threads, NEW e \in EventIds, Request(t, e)
      PROVE  SerialInv' /\ [Contract!Next]_Contract!vars /\ (ScanMoves => EditsKept)
    BY <1>0, <1>1, <1>2, SerialRequest, NothingMoves DEF SerialInv
<1>3. ASSUME NEW t \in Threads, NEW a \in Assets, NEW k, RecordAnalysis(t, a, k)
      PROVE  SerialInv' /\ [Contract!Next]_Contract!vars /\ (ScanMoves => EditsKept)
    BY <1>0, <1>1, <1>3, SerialRecord, NothingMoves DEF SerialInv
<1>4. ASSUME NEW t \in Threads, EditStep(t)
      PROVE  SerialInv' /\ [Contract!Next]_Contract!vars /\ (ScanMoves => EditsKept)
    BY <1>0, <1>1, <1>4, SerialEdit DEF SerialInv
<1>5. ASSUME NEW t \in Threads, SyncStep(t)
      PROVE  SerialInv' /\ [Contract!Next]_Contract!vars /\ (ScanMoves => EditsKept)
    BY <1>0, <1>1, <1>5, SerialSync DEF SerialInv, Scanning
<1>6. CASE UNCHANGED vars
    <2>1. SerialInv'
        BY <1>0, <1>6 DEF vars, SerialInv, Rows, GroupKnown, MemberKnown, Knows, Exists, MembersOf,
           Pinned, Resetting
    <2> QED BY <1>6, <2>1, NothingMoves DEF vars
<1> QED BY <1>2, <1>3, <1>4, <1>5, <1>6 DEF Next

\* With one thread for edits and scans a scan keeps every pin, every custom title
\* and every merge.
THEOREM ScansKeepEditsTheorem ==
    ASSUME OneThread
    PROVE  Spec => ScansKeepEdits
<1>1. SerialInv /\ [Next]_vars => SerialInv' /\ [ScanMoves => EditsKept]_vars
    BY SerialNext
<1> QED BY <1>1, SerialInit, PTL DEF Spec, ScansKeepEdits

\* With one thread an asset that a user removed from an event is not put into one
\* by a later scan, the promise that an editor beside a scan breaks.
THEOREM RemovedTheorem ==
    ASSUME OneThread
    PROVE  Spec => RemovedStaysRemoved
<1>1. EditsKept => \A a \in Assets : members[a].source = "removed" => members'[a].source # "auto"
    BY DEF EditsKept, Pinned
<1>2. SerialInv /\ [Next]_vars => SerialInv' /\ [ScanMoves => EditsKept]_vars
    BY SerialNext
<1>3. SerialInv /\ [Next]_vars =>
        [ScanMoves => \A a \in Assets :
             members[a].source = "removed" => members'[a].source # "auto"]_vars
    BY <1>1, <1>2
<1> QED BY <1>2, <1>3, SerialInit, PTL DEF Spec, RemovedStaysRemoved

\* With one thread each statement of an edit, a reset or a scan is one step of the
\* contract, or none.
THEOREM EventContractTheorem ==
    ASSUME OneThread
    PROVE  Spec => ImplementsContract
<1>1. Init => Contract!Init
    <2> SUFFICES ASSUME Init PROVE Contract!Init
        OBVIOUS
    <2>1. \A a \in Assets : members[a].event = None
                            /\ (members[a].source \in {"manual", "removed"}) = FALSE
        BY DEF Init, NoMember
    <2>2. [a \in Assets |-> members[a].event] = [a \in Assets |-> None]
        BY <2>1
    <2>3. [a \in Assets |-> Pinned(a)] = [a \in Assets |-> FALSE]
        BY <2>1 DEF Pinned
    <2> QED BY <2>2, <2>3 DEF Contract!Init
<1>2. SerialInv /\ [Next]_vars => SerialInv' /\ [Contract!Next]_Contract!vars
    BY SerialNext
<1> QED BY <1>1, <1>2, SerialInit, PTL DEF Spec, ImplementsContract, Contract!Spec
=============================================================================
