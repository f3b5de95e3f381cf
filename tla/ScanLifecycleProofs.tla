------------------------- MODULE ScanLifecycleProofs -------------------------
(***************************************************************************)
(* Theorems about ScanLifecycle, for every value of its constants: types,  *)
(* the cap and the executors of runs; then what the tables hold of a run   *)
(* and of an account, and that the runs keep the contract of ScanContract. *)
(***************************************************************************)
EXTENDS ScanLifecycle, FiniteSetTheorems, SequenceTheorems, TLAPS

\* A request past its first check has a user; the run it holds was handed out.
SlotInv ==
    \A q \in Slots :
        /\ slots[q].pc # "idle" => slots[q].user \in Users
        /\ slots[q].pc \in {"cap", "quota", "insert", "startAudit", "spawn"} =>
               slots[q].kind \in {"real", "synthetic"}
        /\ slots[q].pc \in {"startAudit", "spawn", "revert", "undoAudit"} =>
               slots[q].run \in RunIds

\* A live worker has a user and, where it needs them, an asset, an error to
\* record and an action to record.
WorkerOK(w) ==
    /\ w.pc \in InTry \cup InExcept => w.user \in Users /\ w.kind \in {"real", "synthetic"}
    /\ w.pc \in {"errors", "analysis", "act", "lockAudit"} => w.asset \in Assets
    /\ w.pc = "errors" => w.errors # <<>>
    /\ w.pc \in {"analysis", "act", "lockAudit"} => w.plan # <<>>
    /\ w.pc = "errors" /\ w.classified => w.plan # <<>>
WorkerInv == \A r \in RunIds : WorkerOK(workers[r])

WellFormed == TypeOK /\ SlotInv /\ WorkerInv

LEMMA InitWellFormed == Init => WellFormed
BY ConstantsOK DEF Init, WellFormed, TypeOK, TablesTyped, SlotInv, WorkerInv, WorkerOK, InTry, InExcept, RunIds,
   NoRow, NoSummary, NoWorker, IdleSlot, Row, Worker, Slot, SlotPcs, NoAsset


\* Effects of the two ways a request moves on.
LEMMA SlotMoves ==
    ASSUME slots \in [Slots -> Slot], NEW q \in Slots
    PROVE  /\ \A pc \in SlotPcs : Goto(q, pc) =>
                 /\ slots' \in [Slots -> Slot]
                 /\ slots'[q] = [slots[q] EXCEPT !.pc = pc]
                 /\ \A p \in Slots \ {q} : slots'[p] = slots[p]
           /\ Reply(q) =>
                 /\ slots' \in [Slots -> Slot]
                 /\ slots'[q] = IdleSlot
                 /\ \A p \in Slots \ {q} : slots'[p] = slots[p]
<1>1. ASSUME NEW pc \in SlotPcs, Goto(q, pc)
      PROVE  /\ slots' \in [Slots -> Slot]
             /\ slots'[q] = [slots[q] EXCEPT !.pc = pc]
             /\ \A p \in Slots \ {q} : slots'[p] = slots[p]
    <2>1. [slots[q] EXCEPT !.pc = pc] \in Slot
        BY <1>1 DEF Slot
    <2> QED BY <1>1, <2>1 DEF Goto
<1>2. ASSUME Reply(q)
      PROVE  /\ slots' \in [Slots -> Slot]
             /\ slots'[q] = IdleSlot
             /\ \A p \in Slots \ {q} : slots'[p] = slots[p]
    <2>1. IdleSlot \in Slot
        BY DEF IdleSlot, Slot, SlotPcs
    <2> QED BY <1>2, <2>1 DEF Reply
<1> QED BY <1>1, <1>2

LEMMA GotoInv ==
    ASSUME slots \in [Slots -> Slot], SlotInv, NEW q \in Slots, NEW pc \in SlotPcs, Goto(q, pc),
           slots[q].pc # "idle",
           pc \in {"cap", "quota", "insert", "startAudit", "spawn"} =>
               slots[q].kind \in {"real", "synthetic"},
           pc \in {"startAudit", "spawn", "revert", "undoAudit"} => slots[q].run \in RunIds
    PROVE  slots' \in [Slots -> Slot] /\ SlotInv'
<1>1. /\ slots' \in [Slots -> Slot]
      /\ slots'[q] = [slots[q] EXCEPT !.pc = pc]
      /\ \A p \in Slots \ {q} : slots'[p] = slots[p]
    BY SlotMoves
<1>2. slots'[q].pc = pc /\ slots'[q].user = slots[q].user
      /\ slots'[q].kind = slots[q].kind /\ slots'[q].run = slots[q].run
    BY <1>1 DEF Slot
<1> QED BY <1>1, <1>2 DEF SlotInv

LEMMA ReplyInv ==
    ASSUME slots \in [Slots -> Slot], SlotInv, NEW q \in Slots, Reply(q)
    PROVE  slots' \in [Slots -> Slot] /\ SlotInv'
<1>1. /\ slots' \in [Slots -> Slot]
      /\ slots'[q] = IdleSlot
      /\ \A p \in Slots \ {q} : slots'[p] = slots[p]
    BY SlotMoves
<1> QED BY <1>1 DEF SlotInv, IdleSlot

\* Deleting one user's rows keeps the tables well typed.
LEMMA DeleteRowsTyped ==
    ASSUME TablesTyped, NEW u \in Users, DeleteRowsOf(u)
    PROVE  /\ runs' \in [RunIds -> Row]
           /\ assetRows' \subseteq assetRows
           /\ analysed' \subseteq analysed
           /\ actionRows' \subseteq actionRows
           /\ errorRows' \subseteq errorRows
BY DEF TablesTyped, DeleteRowsOf, NoRow, NoSummary, Row

LEMMA WorkersUnchanged ==
    ASSUME WorkerInv, UNCHANGED workers
    PROVE  WorkerInv'
BY DEF WorkerInv

\* Writing one audit fact keeps the audit log well typed.
LEMMA AuditTyped ==
    ASSUME TablesTyped, NEW u \in Users, NEW act \in AuditActions, NEW r \in RunIds,
           NEW a \in Assets \cup {NoAsset},
           audit' = audit \cup {AuditRow(u, act, r, a)},
           UNCHANGED <<users, runs, nextRun, assetRows, analysed, actionRows, errorRows>>
    PROVE  TablesTyped'
BY DEF TablesTyped, AuditRow

LEMMA SlotStepWellFormed ==
    ASSUME WellFormed, NEW q \in Slots, SlotStep(q) \/ SpawnFails(q)
    PROVE  WellFormed'
<1> SUFFICES TablesTyped' /\ (workers \in [RunIds -> Worker] /\ WorkerInv)'
             /\ (slots \in [Slots -> Slot] /\ SlotInv)'
             /\ (faults \in 0..MaxFaults)' /\ (lateRows \in [RunIds -> Nat])'
    BY DEF WellFormed, TypeOK
<1> USE DEF WellFormed, TypeOK
<1>1. CASE CheckCap(q)
    BY <1>1, GotoInv, ReplyInv, WorkersUnchanged
       DEF CheckCap, tables, TablesTyped, SlotInv, SlotPcs
<1>2. CASE CheckQuota(q)
    BY <1>2, GotoInv, ReplyInv, WorkersUnchanged
       DEF CheckQuota, tables, TablesTyped, SlotInv, SlotPcs
<1>3. CASE StartRun(q)
    <2>0. slots[q].pc = "insert" /\ slots[q] \in Slot
        BY <1>3 DEF StartRun
    <2>1. slots[q].user \in Users /\ slots[q].kind \in {"real", "synthetic"}
        <3> HIDE DEF WellFormed, TypeOK
        <3>1. SlotInv
            BY DEF WellFormed
        <3>2. /\ slots[q].pc # "idle" => slots[q].user \in Users
              /\ slots[q].pc = "insert" => slots[q].kind \in {"real", "synthetic"}
            BY <3>1 DEF SlotInv
        <3> QED BY <2>0, <3>2
    <2>2. (slots \in [Slots -> Slot] /\ SlotInv)'
        <3> DEFINE moved == [slots[q] EXCEPT !.pc = "startAudit", !.run = nextRun]
        <3>1. moved \in Slot /\ nextRun \in RunIds
            BY <1>3, <2>0 DEF StartRun, Slot, SlotPcs, RunIds
        <3>2. slots' = [slots EXCEPT ![q] = moved]
            BY <1>3 DEF StartRun
        <3>3. /\ moved.pc = "startAudit" /\ moved.user = slots[q].user
              /\ moved.kind = slots[q].kind /\ moved.run = nextRun
            BY <2>0 DEF Slot
        <3> HIDE DEF moved
        <3> QED BY <2>1, <3>1, <3>2, <3>3 DEF SlotInv
    <2> DEFINE row == [user |-> slots[q].user, status |-> "running",
                       today |-> TRUE, summary |-> NoSummary]
    <2>4. row \in Row
        BY <2>1 DEF Row, NoSummary
    <2>5. runs' \in [RunIds -> Row]
        BY <1>3, <2>4 DEF StartRun, TablesTyped
    <2>6. nextRun' \in 1..(MaxRuns + 1)
        BY <1>3, ConstantsOK DEF StartRun, RunIds
    <2>3. TablesTyped'
        BY <1>3, <2>5, <2>6 DEF StartRun, TablesTyped
    <2> QED BY <1>3, <2>2, <2>3, WorkersUnchanged DEF StartRun
<1>4. CASE AuditStart(q)
    <2>1. slots[q].user \in Users /\ slots[q].run \in RunIds
          /\ slots[q].kind \in {"real", "synthetic"} /\ slots[q].pc = "startAudit"
        BY <1>4 DEF AuditStart, SlotInv
    <2>2. TablesTyped'
        BY <1>4, <2>1, AuditTyped DEF AuditStart, AuditActions
    <2>3. (slots \in [Slots -> Slot] /\ SlotInv)'
        BY <1>4, <2>1, GotoInv DEF AuditStart, SlotPcs
    <2> QED BY <1>4, <2>2, <2>3, WorkersUnchanged DEF AuditStart
<1>5. CASE Spawn(q)
    <2>1. slots[q].user \in Users /\ slots[q].run \in RunIds
          /\ slots[q].kind \in {"real", "synthetic"}
        BY <1>5 DEF Spawn, SlotInv
    <2> DEFINE w == [NoWorker EXCEPT !.pc = "next", !.user = slots[q].user,
                                     !.kind = slots[q].kind]
    <2>2. w \in Worker
        <3>1. <<>> \in Seq(ErrorStages) /\ <<>> \in Seq(ActionNames)
            OBVIOUS
        <3> QED BY <2>1, <3>1 DEF NoWorker, Worker, InTry, InExcept
    <2>3. w.pc = "next" /\ w.user \in Users /\ w.kind \in {"real", "synthetic"}
        BY <2>1 DEF NoWorker
    <2>4. workers' = [workers EXCEPT ![slots[q].run] = w]
        BY <1>5 DEF Spawn
    <2> HIDE DEF w
    <2>5. (workers \in [RunIds -> Worker] /\ WorkerInv)'
        BY <2>1, <2>2, <2>3, <2>4 DEF WorkerInv, WorkerOK
    <2> QED BY <1>5, <2>5, ReplyInv DEF Spawn, tables, TablesTyped
<1>6. CASE Revert(q)
    <2>1. slots[q].user \in Users /\ slots[q].run \in RunIds /\ slots[q].pc = "revert"
        BY <1>6 DEF Revert, SlotInv
    <2>2. TablesTyped'
        <3> DEFINE Rows == [run : RunIds, asset : Assets, step : Nat, name : ActionNames,
                            success : BOOLEAN]
        <3>1. \A x \in Rows : [x EXCEPT !.success = FALSE] \in Rows
            OBVIOUS
        <3>2. actionRows \subseteq Rows
            BY DEF TablesTyped
        <3>3. actionRows' = {IF x.run = slots[q].run THEN [x EXCEPT !.success = FALSE] ELSE x :
                               x \in actionRows}
            BY <1>6 DEF Revert
        <3> HIDE DEF Rows
        <3>4. actionRows' \subseteq Rows
            BY <3>1, <3>2, <3>3
        <3> QED BY <1>6, <3>4 DEF Revert, TablesTyped, Rows
    <2>3. (slots \in [Slots -> Slot] /\ SlotInv)'
        BY <1>6, <2>1, GotoInv DEF Revert, SlotPcs
    <2> QED BY <1>6, <2>2, <2>3, WorkersUnchanged DEF Revert
<1>7. CASE AuditUndo(q)
    <2>1. slots[q].user \in Users /\ slots[q].run \in RunIds
        BY <1>7 DEF AuditUndo, SlotInv
    <2>2. TablesTyped'
        BY <1>7, <2>1, AuditTyped DEF AuditUndo, AuditActions
    <2> QED BY <1>7, <2>2, ReplyInv, WorkersUnchanged DEF AuditUndo
<1>8. CASE RequestRaises(q)
    BY <1>8, ReplyInv, WorkersUnchanged DEF RequestRaises, tables, TablesTyped
<1>9. CASE PurgeRows(q)
    <2>1. slots[q].user \in Users /\ slots[q].pc = "purgeRows"
        BY <1>9 DEF PurgeRows, SlotInv
    <2>2. TablesTyped'
        BY <1>9, <2>1, DeleteRowsTyped DEF PurgeRows, TablesTyped
    <2>3. (slots \in [Slots -> Slot] /\ SlotInv)'
        BY <1>9, <2>1, GotoInv DEF PurgeRows, SlotPcs
    <2> QED BY <1>9, <2>2, <2>3, WorkersUnchanged DEF PurgeRows
<1>10. CASE PurgeAudit(q)
    <2>1. slots[q].user \in Users /\ slots[q].pc = "purgeAudit"
        BY <1>10 DEF PurgeAudit, SlotInv
    <2>2. TablesTyped'
        BY <1>10 DEF PurgeAudit, TablesTyped
    <2>3. (slots \in [Slots -> Slot] /\ SlotInv)'
        BY <1>10, <2>1, GotoInv DEF PurgeAudit, SlotPcs
    <2> QED BY <1>10, <2>2, <2>3, WorkersUnchanged DEF PurgeAudit
<1>11. CASE PurgeUser(q)
    <2>1. slots[q].user \in Users
        BY <1>11 DEF PurgeUser, SlotInv
    <2>2. TablesTyped'
        BY <1>11, <2>1, DeleteRowsTyped DEF PurgeUser, TablesTyped
    <2> QED BY <1>11, <2>2, ReplyInv, WorkersUnchanged DEF PurgeUser
<1>12. CASE SpawnFails(q)
    <2>1. (faults \in 0..MaxFaults)'
        BY <1>12, ConstantsOK DEF SpawnFails
    <2> QED BY <1>12, <2>1, ReplyInv, WorkersUnchanged DEF SpawnFails, tables, TablesTyped
<1> QED BY <1>1, <1>2, <1>3, <1>4, <1>5, <1>6, <1>7, <1>8, <1>9, <1>10, <1>11, <1>12
        DEF SlotStep

\* A worker moves on alone.
LEMMA WorkerMoves ==
    ASSUME workers \in [RunIds -> Worker], WorkerInv, NEW r \in RunIds, NEW v \in Worker,
           WorkerOK(v), workers' = [workers EXCEPT ![r] = v]
    PROVE  (workers \in [RunIds -> Worker] /\ WorkerInv)'
BY DEF WorkerInv

LEMMA SlotsUnchanged ==
    ASSUME SlotInv, UNCHANGED slots
    PROVE  SlotInv'
BY DEF SlotInv

\* Every outcome a worker may meet is typed, and a classified one has a plan.
LEMMA OutcomesTyped ==
    ASSUME NEW kind \in {"real", "synthetic"}, NEW o \in OutcomesOf(kind)
    PROVE  /\ o.classified \in BOOLEAN /\ o.errors \in Seq(ErrorStages)
           /\ o.plan \in Seq(ActionNames)
           /\ o.classified => o.plan # <<>>
<1>1. CASE kind = "real"
    BY <1>1, ConstantsOK DEF OutcomesOf
<1>2. CASE kind = "synthetic"
    <2>1. <<>> \in Seq(ErrorStages) /\ <<"tag">> \in Seq(ActionNames)
        BY DEF ActionNames
    <2>2. o = SyntheticOutcome
        BY <1>2 DEF OutcomesOf
    <2>3. o.classified = FALSE /\ o.errors = <<>> /\ o.plan = <<"tag">>
        BY <2>2 DEF SyntheticOutcome
    <2> QED BY <2>1, <2>3
<1> QED BY <1>1, <1>2

LEMMA ActionDoneOK ==
    ASSUME NEW w \in Worker, w.user \in Users, w.kind \in {"real", "synthetic"},
           w.asset \in Assets, NEW plan \in Seq(ActionNames)
    PROVE  ActionDone(w, plan) \in Worker /\ WorkerOK(ActionDone(w, plan))
<1> DEFINE pc == AfterAct(plan)
           n == IF plan = <<>> THEN w.processed + 1 ELSE w.processed
           v == ActionDone(w, plan)
<1>1. pc \in {"next", "act"} /\ (pc = "act" => plan # <<>>)
    BY DEF AfterAct
<1>2. n \in Nat
    BY DEF Worker
<1>3. v = [w EXCEPT !.plan = plan, !.pc = pc, !.processed = n]
    BY DEF ActionDone
<1> HIDE DEF pc, n, v
<1>4. v \in Worker
    BY <1>1, <1>2, <1>3 DEF Worker, InTry
<1>5. v.user = w.user /\ v.kind = w.kind /\ v.asset = w.asset /\ v.plan = plan /\ v.pc = pc
    BY <1>3 DEF Worker
<1> QED BY <1>1, <1>4, <1>5 DEF v, WorkerOK

LEMMA WorkerStepWellFormed ==
    ASSUME WellFormed, NEW r \in RunIds, WorkerStep(r)
    PROVE  WellFormed'
<1> SUFFICES TablesTyped' /\ (workers \in [RunIds -> Worker] /\ WorkerInv)'
             /\ (slots \in [Slots -> Slot] /\ SlotInv)'
             /\ (faults \in 0..MaxFaults)' /\ (lateRows \in [RunIds -> Nat])'
    BY DEF WellFormed, TypeOK
<1> USE DEF WellFormed, TypeOK
<1> DEFINE w == workers[r]
<1>0. w \in Worker /\ WorkerOK(w)
    BY DEF WorkerInv
<1>1. CASE UpsertAsset(r)
    <2>1. PICK a \in Candidates(w), o \in OutcomesOf(w.kind) :
             LET v == [w EXCEPT !.seen = @ \cup {a}, !.asset = a, !.classified = o.classified,
                                !.errors = o.errors, !.plan = o.plan]
             IN  /\ workers' = [workers EXCEPT ![r] =
                      [v EXCEPT !.pc = IF o.errors # <<>> THEN "errors" ELSE AfterErrors(v)]]
                 /\ assetRows' = assetRows \cup {<<w.user, a>>}
        BY <1>1 DEF UpsertAsset
    <2> DEFINE v == [w EXCEPT !.seen = @ \cup {a}, !.asset = a, !.classified = o.classified,
                              !.errors = o.errors, !.plan = o.plan]
               x == [v EXCEPT !.pc = IF o.errors # <<>> THEN "errors" ELSE AfterErrors(v)]
    <2>2. w.pc = "next" /\ w.user \in Users /\ w.kind \in {"real", "synthetic"} /\ a \in Assets
        BY <1>0, <1>1, ConstantsOK DEF UpsertAsset, WorkerOK, InTry, Candidates
    <2>3. /\ o.classified \in BOOLEAN /\ o.errors \in Seq(ErrorStages)
          /\ o.plan \in Seq(ActionNames)
          /\ o.classified => o.plan # <<>>
        BY <2>2, OutcomesTyped
    <2>4. v \in Worker /\ v.classified = o.classified /\ v.plan = o.plan
          /\ v.errors = o.errors /\ v.asset = a /\ v.user = w.user /\ v.kind = w.kind
        <3> DEFINE s == w.seen \cup {a}
        <3>1. s \in SUBSET Assets
            BY <1>0, <2>2 DEF Worker
        <3>2. v = [w EXCEPT !.seen = s, !.asset = a, !.classified = o.classified,
                            !.errors = o.errors, !.plan = o.plan]
            OBVIOUS
        <3> HIDE DEF s, v
        <3>3. o.classified \in BOOLEAN
            BY <2>3
        <3> QED BY <1>0, <2>2, <2>3, <3>1, <3>2, <3>3 DEF Worker
    <2> HIDE DEF v
    <2>5. x \in Worker /\ WorkerOK(x)
        BY <2>2, <2>3, <2>4 DEF Worker, WorkerOK, AfterErrors, InTry, InExcept
    <2>6. workers' = [workers EXCEPT ![r] = x]
        BY <2>1 DEF v
    <2> HIDE DEF x
    <2>7. (workers \in [RunIds -> Worker] /\ WorkerInv)'
        BY <2>5, <2>6, WorkerMoves
    <2>8. TablesTyped'
        BY <1>1, <2>1, <2>2 DEF UpsertAsset, TablesTyped
    <2> QED BY <1>1, <2>7, <2>8, SlotsUnchanged DEF UpsertAsset
<1>2. CASE RecordError(r)
    <2> DEFINE rest == Tail(w.errors)
               v == [w EXCEPT !.errors = rest, !.errorCount = @ + 1,
                              !.pc = IF rest # <<>> THEN "errors" ELSE AfterErrors(w)]
    <2>1. w.pc = "errors" /\ w.user \in Users /\ w.kind \in {"real", "synthetic"}
          /\ w.asset \in Assets /\ w.errors # <<>> /\ w.errors \in Seq(ErrorStages)
        BY <1>0, <1>2 DEF RecordError, WorkerOK, InTry, Worker
    <2>2. Head(w.errors) \in ErrorStages /\ rest \in Seq(ErrorStages)
        BY <2>1
    <2> DEFINE pc == IF rest # <<>> THEN "errors" ELSE AfterErrors(w)
    <2>7. /\ pc \in {"errors", "analysis", "act", "next"}
          /\ pc = "errors" => rest # <<>>
          /\ pc \in {"analysis", "act"} \/ (pc = "errors" /\ w.classified) => w.plan # <<>>
        BY <1>0, <2>1 DEF AfterErrors, WorkerOK
    <2>8. w.errorCount + 1 \in Nat
        BY <1>0 DEF Worker
    <2>9. v = [w EXCEPT !.errors = rest, !.errorCount = w.errorCount + 1, !.pc = pc]
        OBVIOUS
    <2> HIDE DEF v, pc, rest
    <2>10. v \in Worker
        BY <1>0, <2>2, <2>7, <2>8, <2>9 DEF Worker, InTry
    <2>11. v.user = w.user /\ v.kind = w.kind /\ v.asset = w.asset /\ v.plan = w.plan
           /\ v.pc = pc /\ v.errors = rest /\ v.classified = w.classified
        BY <1>0, <2>9 DEF Worker
    <2>3. v \in Worker /\ WorkerOK(v)
        BY <2>1, <2>7, <2>10, <2>11 DEF WorkerOK
    <2>4. workers' = [workers EXCEPT ![r] = v]
        BY <1>2 DEF RecordError, v, rest
    <2>5. (workers \in [RunIds -> Worker] /\ WorkerInv)'
        BY <2>3, <2>4, WorkerMoves
    <2>12. ErrorRow(r, w.asset, Len(w.errors), Head(w.errors)) \in
               [run : RunIds, asset : Assets, step : Nat, stage : ErrorStages]
        BY <2>1, <2>2 DEF ErrorRow
    <2>6. TablesTyped'
        BY <1>2, <2>12 DEF RecordError, TablesTyped
    <2> QED BY <1>2, <2>5, <2>6, SlotsUnchanged DEF RecordError
<1>3. CASE RecordAnalysis(r)
    <2> DEFINE v == [w EXCEPT !.pc = "act"]
    <2>1. w.pc = "analysis" /\ w.user \in Users /\ w.asset \in Assets
        BY <1>0, <1>3 DEF RecordAnalysis, WorkerOK, InTry
    <2>2. v \in Worker /\ WorkerOK(v)
        BY <1>0, <2>1 DEF Worker, WorkerOK, InTry, InExcept
    <2>3. workers' = [workers EXCEPT ![r] = v]
        BY <1>3 DEF RecordAnalysis
    <2>4. (workers \in [RunIds -> Worker] /\ WorkerInv)'
        BY <2>2, <2>3, WorkerMoves
    <2>5. TablesTyped'
        BY <1>3, <2>1 DEF RecordAnalysis, TablesTyped
    <2> QED BY <1>3, <2>4, <2>5, SlotsUnchanged DEF RecordAnalysis
<1>4. CASE RecordAction(r)
    <2> DEFINE name == Head(w.plan)
               x == [w EXCEPT !.actionCount = @ + 1]
               v == IF name = "lock" THEN [x EXCEPT !.pc = "lockAudit"]
                    ELSE ActionDone(x, Tail(w.plan))
    <2>1. w.pc = "act" /\ w.user \in Users /\ w.kind \in {"real", "synthetic"}
          /\ w.asset \in Assets /\ w.plan # <<>> /\ w.plan \in Seq(ActionNames)
        BY <1>0, <1>4 DEF RecordAction, WorkerOK, InTry, Worker
    <2>2. name \in ActionNames /\ Tail(w.plan) \in Seq(ActionNames) /\ Len(w.plan) \in Nat
        BY <2>1
    <2>3. x \in Worker /\ x.user = w.user /\ x.kind = w.kind /\ x.asset = w.asset
          /\ x.plan = w.plan
        <3>1. w.actionCount + 1 \in Nat
            BY <1>0 DEF Worker
        <3>2. x = [w EXCEPT !.actionCount = w.actionCount + 1]
            OBVIOUS
        <3> HIDE DEF x
        <3> QED BY <1>0, <3>1, <3>2 DEF Worker
    <2> HIDE DEF x
    <2>4. ActionDone(x, Tail(w.plan)) \in Worker /\ WorkerOK(ActionDone(x, Tail(w.plan)))
        BY <2>1, <2>2, <2>3, ActionDoneOK
    <2>5. [x EXCEPT !.pc = "lockAudit"] \in Worker /\ WorkerOK([x EXCEPT !.pc = "lockAudit"])
        BY <2>1, <2>3 DEF Worker, WorkerOK, InTry, InExcept
    <2>6. workers' = [workers EXCEPT ![r] = v]
        BY <1>4 DEF RecordAction, x
    <2>7. (workers \in [RunIds -> Worker] /\ WorkerInv)'
        BY <2>4, <2>5, <2>6, WorkerMoves
    <2>8. ActionRow(r, w.asset, Len(w.plan), name) \in
              [run : RunIds, asset : Assets, step : Nat, name : ActionNames, success : BOOLEAN]
        BY <2>1, <2>2 DEF ActionRow
    <2>9. TablesTyped'
        BY <1>4, <2>8 DEF RecordAction, TablesTyped
    <2> QED BY <1>4, <2>7, <2>9, SlotsUnchanged DEF RecordAction
<1>5. CASE AuditLock(r)
    <2>1. w.pc = "lockAudit" /\ w.user \in Users /\ w.kind \in {"real", "synthetic"}
          /\ w.asset \in Assets /\ w.plan # <<>> /\ w.plan \in Seq(ActionNames)
        BY <1>0, <1>5 DEF AuditLock, WorkerOK, InTry, Worker
    <2>2. Tail(w.plan) \in Seq(ActionNames)
        BY <2>1
    <2>3. workers' = [workers EXCEPT ![r] = ActionDone(w, Tail(w.plan))]
        BY <1>5 DEF AuditLock
    <2>4. (workers \in [RunIds -> Worker] /\ WorkerInv)'
        BY <1>0, <2>1, <2>2, <2>3, ActionDoneOK, WorkerMoves
    <2>5. TablesTyped'
        BY <1>5, <2>1, AuditTyped DEF AuditLock, AuditActions
    <2> QED BY <1>5, <2>4, <2>5, SlotsUnchanged DEF AuditLock
<1>6. ASSUME NEW pc \in {"finishRun", "failAudit", "failRun", "end"},
             workers' = [workers EXCEPT ![r].pc = pc],
             w.pc \in InTry \cup InExcept
      PROVE  (workers \in [RunIds -> Worker] /\ WorkerInv)'
    <2> DEFINE v == [w EXCEPT !.pc = pc]
    <2>1. v \in Worker /\ WorkerOK(v)
        BY <1>0, <1>6 DEF Worker, WorkerOK, InTry, InExcept
    <2>2. workers' = [workers EXCEPT ![r] = v]
        BY <1>6
    <2> QED BY <2>1, <2>2, WorkerMoves
<1>7. CASE AuditFinish(r)
    <2>1. w.user \in Users
        BY <1>0, <1>7 DEF AuditFinish, WorkerOK, InTry
    <2>2. TablesTyped'
        BY <1>7, <2>1, AuditTyped DEF AuditFinish, AuditActions
    <2> QED BY <1>6, <1>7, <2>2, SlotsUnchanged DEF AuditFinish, InTry
<1>8. CASE FinishRun(r)
    <2>1. Summary(w) \in [kind : {"none", "real", "synthetic"},
                          processed : Nat, errors : Nat, actions : Nat]
        BY <1>0, ConstantsOK, FS_CardinalityType DEF Summary, Worker
    <2>2. runs' \in [RunIds -> Row]
        <3> DEFINE row == [runs[r] EXCEPT !.status = "completed", !.summary = Summary(w)]
        <3>1. runs \in [RunIds -> Row] /\ runs[r] \in Row
            BY DEF TablesTyped
        <3>2. row \in Row
            BY <2>1, <3>1 DEF Row
        <3>3. runs' = [runs EXCEPT ![r] = row]
            BY <1>8, <3>1 DEF FinishRun
        <3> QED BY <3>1, <3>2, <3>3
    <2>3. TablesTyped'
        BY <1>8, <2>2 DEF FinishRun, TablesTyped
    <2> QED BY <1>6, <1>8, <2>3, SlotsUnchanged DEF FinishRun, InTry
<1>9. CASE RunnerRaises(r)
    BY <1>6, <1>9, SlotsUnchanged DEF RunnerRaises, tables, TablesTyped
<1>10. CASE AuditFailure(r)
    <2>1. w.user \in Users
        BY <1>0, <1>10 DEF AuditFailure, WorkerOK, InExcept
    <2>2. TablesTyped'
        BY <1>10, <2>1, AuditTyped DEF AuditFailure, AuditActions
    <2> QED BY <1>6, <1>10, <2>2, SlotsUnchanged DEF AuditFailure, InExcept
<1>11. CASE FailRun(r)
    <2>1. runs' \in [RunIds -> Row]
        <3> DEFINE row == [runs[r] EXCEPT !.status = "failed", !.summary = NoSummary]
        <3>1. runs \in [RunIds -> Row] /\ runs[r] \in Row
            BY DEF TablesTyped
        <3>2. row \in Row
            BY <3>1 DEF Row, NoSummary
        <3>3. runs' = [runs EXCEPT ![r] = row]
            BY <1>11, <3>1 DEF FailRun
        <3> QED BY <3>1, <3>2, <3>3
    <2>2. TablesTyped'
        BY <1>11, <2>1 DEF FailRun, TablesTyped
    <2> QED BY <1>6, <1>11, <2>2, SlotsUnchanged DEF FailRun, InExcept
<1>12. CASE RunnerDies(r)
    BY <1>6, <1>12, SlotsUnchanged DEF RunnerDies, tables, TablesTyped
<1> QED BY <1>1, <1>2, <1>3, <1>4, <1>5, <1>7, <1>8, <1>9, <1>10, <1>11, <1>12 DEF WorkerStep

LEMMA NextWellFormed == WellFormed /\ [Next]_vars => WellFormed'
<1> SUFFICES ASSUME WellFormed, [Next]_vars
             PROVE  WellFormed'
    OBVIOUS
<1>1. CASE \E q \in Slots, u \in Users :
               RequestScan(q, u) \/ RequestUndo(q, u) \/ RequestDelete(q, u)
    <2>1. PICK q \in Slots, u \in Users :
               RequestScan(q, u) \/ RequestUndo(q, u) \/ RequestDelete(q, u)
        BY <1>1
    <2>2. ASSUME NEW k \in {"none", "real", "synthetic"}, NEW pc \in {"cap", "revert", "purgeRows"},
                 NEW r \in RunIds \cup {0},
                 pc = "cap" => k # "none", pc = "revert" => r \in RunIds,
                 slots' = [slots EXCEPT ![q] = [pc |-> pc, user |-> u, kind |-> k, run |-> r]]
          PROVE  (slots \in [Slots -> Slot] /\ SlotInv)'
        <3> DEFINE s == [pc |-> pc, user |-> u, kind |-> k, run |-> r]
        <3>1. s \in Slot
            BY DEF Slot, SlotPcs
        <3>2. slots' \in [Slots -> Slot] /\ slots'[q] = s /\ \A p \in Slots \ {q} : slots'[p] = slots[p]
            BY <2>2, <3>1 DEF WellFormed, TypeOK
        <3>3. s.pc = pc /\ s.user = u /\ s.kind = k /\ s.run = r
            OBVIOUS
        <3> HIDE DEF s
        <3> QED BY <2>2, <3>2, <3>3 DEF SlotInv, WellFormed
    <2>3. (slots \in [Slots -> Slot] /\ SlotInv)'
        <3>1. CASE RequestScan(q, u)
            BY <2>2, <3>1, ConstantsOK DEF RequestScan
        <3>2. CASE RequestUndo(q, u)
            BY <2>2, <3>2 DEF RequestUndo
        <3>3. CASE RequestDelete(q, u)
            BY <2>2, <3>3 DEF RequestDelete
        <3> QED BY <2>1, <3>1, <3>2, <3>3
    <2>4. UNCHANGED <<tables, workers, faults, lateRows>>
        BY <2>1 DEF RequestScan, RequestUndo, RequestDelete
    <2> QED BY <2>3, <2>4, WorkersUnchanged DEF WellFormed, TypeOK, tables, TablesTyped
<1>2. CASE \E q \in Slots : SlotStep(q) \/ SpawnFails(q)
    BY <1>2, SlotStepWellFormed
<1>3. CASE \E r \in RunIds : WorkerStep(r)
    BY <1>3, WorkerStepWellFormed
<1>4. CASE \E u \in Users : Login(u)
    BY <1>4, WorkersUnchanged, SlotsUnchanged DEF Login, WellFormed, TypeOK, TablesTyped
<1>5. CASE NewDay
    <2>1. \A r \in RunIds : runs'[r] \in Row
        <3> TAKE r \in RunIds
        <3>1. runs[r] \in Row
            BY DEF WellFormed, TypeOK, TablesTyped
        <3>2. [runs[r] EXCEPT !.today = FALSE] \in Row
            BY <3>1 DEF Row
        <3>3. runs'[r] = [runs[r] EXCEPT !.today = FALSE]
            BY <1>5 DEF NewDay
        <3> QED BY <3>2, <3>3
    <2>2. runs' \in [RunIds -> Row]
        BY <1>5, <2>1 DEF NewDay
    <2> QED BY <1>5, <2>2, WorkersUnchanged, SlotsUnchanged
            DEF NewDay, WellFormed, TypeOK, TablesTyped
<1>6. CASE Restart
    <2>1. (workers \in [RunIds -> Worker] /\ WorkerInv)'
        <3>1. \A r \in RunIds : workers'[r] \in Worker /\ WorkerOK(workers'[r])
            <4> TAKE r \in RunIds
            <4>1. workers[r] \in Worker /\ WorkerOK(workers[r])
                BY DEF WellFormed, TypeOK, WorkerInv
            <4>2. [workers[r] EXCEPT !.pc = "end"] \in Worker
                  /\ WorkerOK([workers[r] EXCEPT !.pc = "end"])
                BY <4>1 DEF Worker, WorkerOK, InTry, InExcept
            <4> QED BY <1>6, <4>1, <4>2 DEF Restart
        <3> QED BY <1>6, <3>1 DEF Restart, WorkerInv
    <2>2. (slots \in [Slots -> Slot] /\ SlotInv)'
        BY <1>6 DEF Restart, SlotInv, IdleSlot, Slot, SlotPcs
    <2>3. faults' \in 0..MaxFaults
        BY <1>6, ConstantsOK DEF Restart, WellFormed, TypeOK
    <2> QED BY <1>6, <2>1, <2>2, <2>3 DEF Restart, tables, WellFormed, TypeOK, TablesTyped
<1>7. CASE UNCHANGED vars
    BY <1>7, WorkersUnchanged, SlotsUnchanged DEF vars, tables, WellFormed, TypeOK, TablesTyped
<1> QED BY <1>1, <1>2, <1>3, <1>4, <1>5, <1>6, <1>7 DEF Next

\* Tables, threads and requests stay well typed through every interleaving of
\* handlers, runners, account deletions and restarts.
THEOREM TypeCorrect == Spec => []TypeOK
<1>1. Spec => []WellFormed
    BY InitWellFormed, NextWellFormed, PTL DEF Spec
<1>2. WellFormed => TypeOK
    BY DEF WellFormed
<1> QED BY <1>1, <1>2, PTL

-----------------------------------------------------------------------------
(* How many scans of one user can run at once.                              *)

LEMMA WellFormedAlways == Spec => []WellFormed
BY InitWellFormed, NextWellFormed, PTL DEF Spec

LEMMA SumShrinks ==
    ASSUME NEW A, IsFiniteSet(A), NEW A2 \in SUBSET A, NEW B, IsFiniteSet(B),
           NEW B2 \in SUBSET B, NEW n \in Int, Cardinality(A) + Cardinality(B) <= n
    PROVE  Cardinality(A2) + Cardinality(B2) <= n
<1>1. Cardinality(A) \in Nat /\ Cardinality(B) \in Nat
    BY FS_CardinalityType
<1>2. Cardinality(A2) <= Cardinality(A) /\ Cardinality(B2) <= Cardinality(B)
    BY FS_Subset
<1>3. Cardinality(A2) \in Nat /\ Cardinality(B2) \in Nat
    BY FS_Subset, FS_CardinalityType
<1> QED BY <1>1, <1>2, <1>3

LEMMA SumMoves ==
    ASSUME NEW A, IsFiniteSet(A), NEW B, IsFiniteSet(B), NEW x \in B, NEW y,
           NEW n \in Int, Cardinality(A) + Cardinality(B) <= n
    PROVE  Cardinality(A \cup {y}) + Cardinality(B \ {x}) <= n
<1>1. Cardinality(A) \in Nat /\ Cardinality(B) \in Nat
    BY FS_CardinalityType
<1>2. Cardinality(A \cup {y}) = IF y \in A THEN Cardinality(A) ELSE Cardinality(A) + 1
    BY FS_AddElement
<1>3. Cardinality(B \ {x}) = Cardinality(B) - 1
    BY FS_RemoveElement
<1> QED BY <1>1, <1>2, <1>3

LEMMA UserSetsFinite ==
    ASSUME NEW u \in Users
    PROVE  IsFiniteSet(Running(u)) /\ IsFiniteSet(Admitted(u))
<1>1. IsFiniteSet(RunIds)
    BY ConstantsOK, FS_Interval DEF RunIds
<1>2. Running(u) \in SUBSET RunIds /\ Admitted(u) \in SUBSET Slots
    BY DEF Running, Admitted
<1> QED BY <1>1, <1>2, FS_Subset, ConstantsOK

\* What one step does to the counts of user u.
Shrinks(u) == Running(u)' \subseteq Running(u) /\ Admitted(u)' \subseteq Admitted(u)
PassesCap(u) == Running(u) = {} /\ Running(u)' = {} /\ Admitted(u)' \subseteq Slots
Inserts(u) ==
    \E q \in Admitted(u), r \in RunIds :
        Running(u)' = Running(u) \cup {r} /\ Admitted(u)' = Admitted(u) \ {q}

\* A step that leaves the runs alone, or only ends or deletes them.
RunsOnlyEnd ==
    \A r \in RunIds :
        runs'[r].status = "running" =>
            runs[r].status = "running" /\ runs'[r].user = runs[r].user
\* A step after which no request has newly been admitted.
SlotsOnlyLeave ==
    \A q \in Slots :
        slots'[q].pc \in {"quota", "insert"} =>
            slots[q].pc \in {"quota", "insert"} /\ slots'[q].user = slots[q].user

LEMMA OnlyLeaveShrinks ==
    ASSUME RunsOnlyEnd, SlotsOnlyLeave, NEW u \in Users
    PROVE  Shrinks(u)
BY DEF RunsOnlyEnd, SlotsOnlyLeave, Shrinks, Running, Admitted

LEMMA UnchangedRuns ==
    ASSUME UNCHANGED runs
    PROVE  RunsOnlyEnd
BY DEF RunsOnlyEnd

LEMMA UnchangedSlots ==
    ASSUME UNCHANGED slots
    PROVE  SlotsOnlyLeave
BY DEF SlotsOnlyLeave

LEMMA DeleteOnlyEnds ==
    ASSUME TablesTyped, NEW u, DeleteRowsOf(u)
    PROVE  RunsOnlyEnd
BY DEF DeleteRowsOf, RunsOnlyEnd, NoRow

LEMMA MovesOnlyLeave ==
    ASSUME slots \in [Slots -> Slot], NEW q \in Slots
    PROVE  /\ Reply(q) => SlotsOnlyLeave
           /\ \A pc \in SlotPcs \ {"quota", "insert"} : Goto(q, pc) => SlotsOnlyLeave
<1>1. ASSUME Reply(q) PROVE SlotsOnlyLeave
    BY <1>1, SlotMoves DEF SlotsOnlyLeave, IdleSlot
<1>2. ASSUME NEW pc \in SlotPcs \ {"quota", "insert"}, Goto(q, pc) PROVE SlotsOnlyLeave
    <2>1. slots'[q] = [slots[q] EXCEPT !.pc = pc] /\ \A p \in Slots \ {q} : slots'[p] = slots[p]
        BY <1>2, SlotMoves
    <2>2. slots'[q].pc = pc
        BY <2>1 DEF Slot
    <2> QED BY <2>1, <2>2 DEF SlotsOnlyLeave
<1> QED BY <1>1, <1>2

\* One step moves a user's counts in one of three ways.
LEMMA StepEffect ==
    ASSUME WellFormed, [Next]_vars, NEW u \in Users
    PROVE  Shrinks(u) \/ PassesCap(u) \/ Inserts(u)
<1> USE DEF WellFormed, TypeOK
<1>1. CASE \E q \in Slots, v \in Users : RequestScan(q, v) \/ RequestUndo(q, v) \/ RequestDelete(q, v)
    <2>1. SlotsOnlyLeave
        BY <1>1 DEF RequestScan, RequestUndo, RequestDelete, SlotsOnlyLeave
    <2>2. RunsOnlyEnd
        BY <1>1, UnchangedRuns DEF RequestScan, RequestUndo, RequestDelete, tables
    <2> QED BY <2>1, <2>2, OnlyLeaveShrinks
<1>2. ASSUME NEW q \in Slots, SlotStep(q) \/ SpawnFails(q)
      PROVE  Shrinks(u) \/ PassesCap(u) \/ Inserts(u)
    <2>1. CASE CheckCap(q)
        <3>0. RunsOnlyEnd /\ runs' = runs
            BY <2>1, UnchangedRuns DEF CheckCap, tables
        <3>1. CASE has_active_run(slots[q].user)
            BY <2>1, <3>0, <3>1, MovesOnlyLeave, OnlyLeaveShrinks DEF CheckCap
        <3>2. CASE ~has_active_run(slots[q].user)
            <4>1. /\ slots'[q] = [slots[q] EXCEPT !.pc = "quota"]
                  /\ \A p \in Slots \ {q} : slots'[p] = slots[p]
                BY <2>1, <3>2, SlotMoves DEF CheckCap, SlotPcs
            <4>2. slots'[q].pc = "quota" /\ slots'[q].user = slots[q].user
                BY <4>1 DEF Slot
            <4>3. CASE u = slots[q].user
                BY <3>0, <3>2, <4>1, <4>2, <4>3
                   DEF PassesCap, has_active_run, Running, Admitted
            <4>4. CASE u # slots[q].user
                BY <3>0, <4>1, <4>2, <4>4
                   DEF Shrinks, Running, Admitted
            <4> QED BY <4>3, <4>4
        <3> QED BY <3>1, <3>2
    <2>2. CASE CheckQuota(q)
        <3>1. RunsOnlyEnd /\ slots[q].pc = "quota"
            BY <2>2, UnchangedRuns DEF CheckQuota, tables
        <3>2. SlotsOnlyLeave
            <4>1. CASE Reply(q)
                BY <4>1, MovesOnlyLeave
            <4>2. CASE Goto(q, "insert")
                <5>1. /\ slots'[q] = [slots[q] EXCEPT !.pc = "insert"]
                      /\ \A p \in Slots \ {q} : slots'[p] = slots[p]
                    BY <4>2, SlotMoves DEF SlotPcs
                <5>2. slots'[q].user = slots[q].user
                    BY <5>1 DEF Slot
                <5> QED BY <3>1, <5>1, <5>2 DEF SlotsOnlyLeave
            <4> QED BY <2>2, <4>1, <4>2 DEF CheckQuota
        <3> QED BY <3>1, <3>2, OnlyLeaveShrinks
    <2>3. CASE StartRun(q)
        <3> DEFINE row == [user |-> slots[q].user, status |-> "running",
                           today |-> TRUE, summary |-> NoSummary]
        <3>1. /\ nextRun \in RunIds /\ runs'[nextRun] = row
              /\ \A r \in RunIds \ {nextRun} : runs'[r] = runs[r]
              /\ slots[q].pc = "insert"
            BY <2>3 DEF StartRun, TablesTyped
        <3>2. slots'[q].pc = "startAudit" /\ \A p \in Slots \ {q} : slots'[p] = slots[p]
            BY <2>3 DEF StartRun, Slot
        <3>3. nextRun \in RunIds /\ runs'[nextRun].user = slots[q].user
              /\ runs'[nextRun].status = "running"
            BY <3>1
        <3>4. CASE u = slots[q].user
            BY <3>1, <3>2, <3>3, <3>4
               DEF Inserts, Running, Admitted
        <3>5. CASE u # slots[q].user
            BY <3>1, <3>2, <3>3, <3>5
               DEF Shrinks, Running, Admitted
        <3> QED BY <3>4, <3>5
    <2>4. CASE AuditStart(q) \/ Spawn(q) \/ Revert(q) \/ AuditUndo(q) \/ RequestRaises(q)
               \/ PurgeAudit(q) \/ SpawnFails(q)
        <3>1. RunsOnlyEnd
            BY <2>4, UnchangedRuns DEF AuditStart, Spawn, Revert, AuditUndo, RequestRaises,
               PurgeAudit, SpawnFails, tables
        <3>2. SlotsOnlyLeave
            BY <2>4, MovesOnlyLeave DEF AuditStart, Spawn, Revert, AuditUndo, RequestRaises,
               PurgeAudit, SpawnFails, SlotPcs
        <3> QED BY <3>1, <3>2, OnlyLeaveShrinks
    <2>5. CASE PurgeRows(q) \/ PurgeUser(q)
        <3>1. RunsOnlyEnd
            BY <2>5, DeleteOnlyEnds, UnchangedRuns DEF PurgeRows, PurgeUser
        <3>2. SlotsOnlyLeave
            BY <2>5, MovesOnlyLeave DEF PurgeRows, PurgeUser, SlotPcs
        <3> QED BY <3>1, <3>2, OnlyLeaveShrinks
    <2> QED BY <1>2, <2>1, <2>2, <2>3, <2>4, <2>5 DEF SlotStep
<1>3. CASE \E r \in RunIds : WorkerStep(r)
    <2>1. PICK r \in RunIds : WorkerStep(r)
        BY <1>3
    <2>2. SlotsOnlyLeave
        BY <2>1, UnchangedSlots DEF WorkerStep, UpsertAsset, RecordError, RecordAnalysis,
           RecordAction, AuditLock, AuditFinish, FinishRun, RunnerRaises, AuditFailure,
           FailRun, RunnerDies
    <2>3. RunsOnlyEnd
        <3>1. CASE FinishRun(r)
            BY <3>1 DEF FinishRun, RunsOnlyEnd, TablesTyped, Row
        <3>2. CASE FailRun(r)
            BY <3>2 DEF FailRun, RunsOnlyEnd, TablesTyped, Row
        <3>3. CASE ~FinishRun(r) /\ ~FailRun(r)
            BY <2>1, <3>3, UnchangedRuns DEF WorkerStep, UpsertAsset, RecordError, RecordAnalysis,
               RecordAction, AuditLock, AuditFinish, RunnerRaises, AuditFailure, RunnerDies, tables
        <3> QED BY <3>1, <3>2, <3>3
    <2> QED BY <2>2, <2>3, OnlyLeaveShrinks
<1>4. CASE \E v \in Users : Login(v)
    BY <1>4, UnchangedRuns, UnchangedSlots, OnlyLeaveShrinks DEF Login
<1>5. CASE NewDay
    <2>1. \A r \in RunIds : runs'[r] = [runs[r] EXCEPT !.today = FALSE] /\ runs[r] \in Row
        BY <1>5 DEF NewDay, TablesTyped
    <2>2. \A r \in RunIds : runs'[r].status = runs[r].status /\ runs'[r].user = runs[r].user
        BY <2>1 DEF Row
    <2> QED BY <1>5, <2>2, UnchangedSlots, OnlyLeaveShrinks DEF NewDay, RunsOnlyEnd
<1>6. CASE Restart
    BY <1>6, UnchangedRuns, OnlyLeaveShrinks DEF Restart, tables, SlotsOnlyLeave, IdleSlot
<1>7. CASE UNCHANGED vars
    BY <1>7, UnchangedRuns, UnchangedSlots, OnlyLeaveShrinks DEF vars, tables
<1> QED BY <1>1, <1>2, <1>3, <1>4, <1>5, <1>6, <1>7 DEF Next

LEMMA InitCounts ==
    ASSUME Init, NEW u \in Users
    PROVE  Running(u) = {} /\ Admitted(u) = {}
BY ConstantsOK DEF Init, Running, Admitted, NoRow, IdleSlot

\* The size of a subset of the slots.
LEMMA SlotsBound ==
    ASSUME NEW S \in SUBSET Slots
    PROVE  Cardinality(S) \in Nat /\ Cardinality(Slots) \in Nat \ {0}
           /\ Cardinality(S) <= Cardinality(Slots)
<1>1. Cardinality(S) <= Cardinality(Slots) /\ IsFiniteSet(S)
    BY FS_Subset, ConstantsOK
<1>2. Cardinality(Slots) # 0
    BY FS_EmptySet, ConstantsOK
<1> QED BY <1>1, <1>2, FS_CardinalityType, ConstantsOK

\* However requests interleave, a user's concurrent scans never outnumber the
\* threads that can submit a scan: has_active_run admits requests only while
\* nothing runs, and each admitted request starts one run.
THEOREM CapTheorem == Spec => []CapBound
<1>1. Init => CapBound
    <2> SUFFICES ASSUME Init, NEW u \in Users
                 PROVE  Cardinality(Running(u)) + Cardinality(Admitted(u)) <= Cardinality(Slots)
        BY DEF CapBound
    <2> QED BY InitCounts, FS_EmptySet, SlotsBound
<1>2. WellFormed /\ CapBound /\ [Next]_vars => CapBound'
    <2> SUFFICES ASSUME WellFormed, CapBound, [Next]_vars, NEW u \in Users
                 PROVE  Cardinality(Running(u)') + Cardinality(Admitted(u)') <= Cardinality(Slots)
        BY DEF CapBound
    <2> DEFINE n == Cardinality(Slots)
    <2>1. n \in Int /\ Cardinality(Running(u)) + Cardinality(Admitted(u)) <= n
        BY SlotsBound DEF CapBound
    <2>2. IsFiniteSet(Running(u)) /\ IsFiniteSet(Admitted(u))
        BY UserSetsFinite
    <2> HIDE DEF n
    <2>3. CASE Running(u)' \subseteq Running(u) /\ Admitted(u)' \subseteq Admitted(u)
        BY <2>1, <2>2, <2>3, SumShrinks DEF n
    <2>4. CASE PassesCap(u)
        BY <2>4, FS_EmptySet, SlotsBound DEF PassesCap
    <2>5. CASE Inserts(u)
        BY <2>1, <2>2, <2>5, SumMoves DEF Inserts, n
    <2> QED BY <2>3, <2>4, <2>5, StepEffect DEF Shrinks
<1> QED BY <1>1, <1>2, WellFormedAlways, PTL DEF Spec

\* With a single submitting thread the documented cap holds: one active scan
\* per user.
THEOREM SerialCap ==
    ASSUME Cardinality(Slots) = 1
    PROVE  Spec => []OneActiveScan
<1>1. CapBound => OneActiveScan
    <2> SUFFICES ASSUME CapBound, NEW u \in Users
                 PROVE  Cardinality(Running(u)) <= 1
        BY DEF OneActiveScan
    <2>1. Cardinality(Running(u)) \in Nat /\ Cardinality(Admitted(u)) \in Nat
        BY UserSetsFinite, FS_CardinalityType
    <2>2. Cardinality(Running(u)) + Cardinality(Admitted(u)) <= 1
        BY DEF CapBound
    <2> QED BY <2>1, <2>2
<1> QED BY <1>1, CapTheorem, PTL

\* A positive daily quota rejects no scan: CURRENT_TIMESTAMP puts a blank where
\* the start of the day has a "T", so that as text every run of the day lies
\* before its start and runs_started_today counts none.
THEOREM QuotaTheorem ==
    ASSUME DailyQuota > 0
    PROVE  Spec => [][\A q \in Slots : CheckQuota(q) => slots'[q].pc = "insert"]_vars
<1>1. ASSUME NEW r \in RunIds PROVE ~AtOrAfter(started_at(r), TodayStart)
    BY DEF AtOrAfter, started_at, TodayStart, Blank, LetterT
<1>2. \A u : runs_started_today(u) = 0
    BY <1>1, FS_EmptySet DEF runs_started_today
<1>3. ASSUME WellFormed, NEW q \in Slots, CheckQuota(q)
      PROVE  slots'[q].pc = "insert"
    <2>1. Goto(q, "insert")
        BY <1>2, <1>3, ConstantsOK DEF CheckQuota
    <2>2. "insert" \in SlotPcs /\ slots \in [Slots -> Slot] /\ slots[q] \in Slot
        BY <1>3 DEF SlotPcs, WellFormed, TypeOK
    <2>3. slots'[q] = [slots[q] EXCEPT !.pc = "insert"]
        BY <1>3, <2>1, <2>2, SlotMoves
    <2> QED BY <2>2, <2>3 DEF Slot
<1>4. WellFormed /\ [Next]_vars =>
        [\A q \in Slots : CheckQuota(q) => slots'[q].pc = "insert"]_vars
    BY <1>3
<1> QED BY <1>4, WellFormedAlways, PTL DEF Spec

-----------------------------------------------------------------------------
(* A running run has exactly one executor and an ended one has none.       *)

\* Request q inserted run r and has not started its thread yet.
Holds(q, r) == slots[q].run = r /\ slots[q].pc \in {"startAudit", "spawn"}

\* Nothing refers to an id that was not handed out.
FreshIds ==
    \A r \in RunIds : r >= nextRun =>
        ~Present(r) /\ workers[r].pc = "none" /\ \A q \in Slots : ~Holds(q, r)

\* One executor: two requests never hold the same run, nor a request and a thread.
OneExecutor ==
    \A r \in RunIds, q \in Slots : Holds(q, r) =>
        workers[r].pc = "none" /\ \A p \in Slots : Holds(p, r) => p = q

\* A run's row belongs to an account that exists, the foreign key, and to the
\* user its executor works for.
RowOwner ==
    \A r \in RunIds : Present(r) =>
        /\ runs[r].user \in users
        /\ Live(r) => workers[r].user = runs[r].user
        /\ \A q \in Slots : Holds(q, r) => slots[q].user = runs[r].user

OwnInv == FreshIds /\ OneExecutor /\ RowOwner /\ WorkerOwnsRun

LEMMA InitOwn == Init => OwnInv
BY ConstantsOK DEF Init, OwnInv, FreshIds, OneExecutor, RowOwner, WorkerOwnsRun, Holds, Present,
   Executing, Live, InTry, InExcept, NoRow, NoWorker, IdleSlot, RunIds

\* Steps that touch neither runs, workers, users nor who holds which run.
LEMMA OwnFrame ==
    ASSUME OwnInv, UNCHANGED <<users, runs, nextRun, workers, faults>>,
           \A q \in Slots, r \in RunIds :
               /\ Holds(q, r)' <=> Holds(q, r)
               /\ Holds(q, r) => slots'[q].user = slots[q].user
    PROVE  OwnInv'
<1>1. \A r \in RunIds : (Present(r)' <=> Present(r)) /\ (Live(r)' <=> Live(r))
    BY DEF Present, Live
<1>2. \A r \in RunIds : Executing(r)' <=> Executing(r)
    BY <1>1 DEF Executing, Holds
<1>3. FreshIds' /\ OneExecutor'
    BY <1>1 DEF OwnInv, FreshIds, OneExecutor
<1>4. RowOwner' /\ WorkerOwnsRun'
    BY <1>1, <1>2 DEF OwnInv, RowOwner, WorkerOwnsRun
<1> QED BY <1>3, <1>4 DEF OwnInv

\* Deleting a user's runs, with or without the account.
LEMMA OwnDelete ==
    ASSUME WellFormed, OwnInv, NEW u \in Users, DeleteRowsOf(u),
           users' = users \/ users' = users \ {u},
           UNCHANGED <<nextRun, workers, faults>>,
           \A q \in Slots, r \in RunIds :
               /\ Holds(q, r)' <=> Holds(q, r)
               /\ Holds(q, r) => slots'[q].user = slots[q].user
    PROVE  OwnInv'
<1>1. \A r \in RunIds :
          IF runs[r].user = u THEN ~Present(r)' ELSE runs'[r] = runs[r] /\ (Present(r)' <=> Present(r))
    BY DEF DeleteRowsOf, Present, NoRow
<1>2. \A r \in RunIds : (Live(r)' <=> Live(r)) /\ (Executing(r)' <=> Executing(r))
    BY DEF Live, Executing, Holds
<1>3. \A r \in RunIds : Present(r)' =>
          Present(r) /\ runs'[r] = runs[r] /\ runs[r].user \in users'
    BY <1>1 DEF OwnInv, RowOwner
<1>4. FreshIds' /\ OneExecutor'
    BY <1>3 DEF OwnInv, FreshIds, OneExecutor
<1>5. RowOwner'
    BY <1>2, <1>3 DEF OwnInv, RowOwner
<1>6. WorkerOwnsRun'
    <2>1. \A r \in RunIds : runs'[r].status = "running" => Present(r)'
        BY DEF Present
    <2> QED BY <1>2, <1>3, <2>1 DEF OwnInv, WorkerOwnsRun
<1> QED BY <1>4, <1>5, <1>6 DEF OwnInv

LEMMA SlotStepOwn ==
    ASSUME WellFormed, OwnInv, NEW q \in Slots, SlotStep(q) \/ SpawnFails(q)
    PROVE  OwnInv'
<1> USE DEF WellFormed, TypeOK
\* A move between steps outside startAudit and spawn changes no holder.
<1>0. ASSUME NEW pc \in SlotPcs, Reply(q) \/ Goto(q, pc),
             slots[q].pc \notin {"startAudit", "spawn"}, pc \notin {"startAudit", "spawn"}
      PROVE  \A p \in Slots, r \in RunIds :
               /\ Holds(p, r)' <=> Holds(p, r)
               /\ Holds(p, r) => slots'[p].user = slots[p].user
    <2>1. slots'[q] = IdleSlot \/ slots'[q] = [slots[q] EXCEPT !.pc = pc]
        BY <1>0, SlotMoves
    <2>2. slots'[q].pc \notin {"startAudit", "spawn"}
        BY <1>0, <2>1 DEF IdleSlot, Slot
    <2>3. \A p \in Slots \ {q} : slots'[p] = slots[p]
        BY <1>0, SlotMoves
    <2> QED BY <1>0, <2>2, <2>3 DEF Holds
<1>1. CASE CheckCap(q) \/ CheckQuota(q) \/ Revert(q) \/ AuditUndo(q) \/ PurgeAudit(q)
    <2>1. PICK pc \in SlotPcs : (Reply(q) \/ Goto(q, pc)) /\ pc \notin {"startAudit", "spawn"}
        BY <1>1 DEF CheckCap, CheckQuota, Revert, AuditUndo, PurgeAudit, SlotPcs
    <2>2. slots[q].pc \notin {"startAudit", "spawn"}
        BY <1>1 DEF CheckCap, CheckQuota, Revert, AuditUndo, PurgeAudit
    <2>3. UNCHANGED <<users, runs, nextRun, workers, faults>>
        BY <1>1 DEF CheckCap, CheckQuota, Revert, AuditUndo, PurgeAudit, tables
    <2> QED BY <1>0, <2>1, <2>2, <2>3, OwnFrame
<1>2. CASE PurgeRows(q)
    BY <1>0, <1>2, OwnDelete DEF PurgeRows, SlotPcs, SlotInv
<1>3. CASE PurgeUser(q)
    <2>1. \A p \in Slots, r \in RunIds :
             /\ Holds(p, r)' <=> Holds(p, r)
             /\ Holds(p, r) => slots'[p].user = slots[p].user
        BY <1>0, <1>3 DEF PurgeUser, SlotPcs
    <2>2. slots[q].user \in Users
        BY <1>3 DEF PurgeUser, SlotInv
    <2> QED BY <1>3, <2>1, <2>2, OwnDelete, OwnFrame DEF PurgeUser
<1>4. CASE StartRun(q)
    <2>0. PICK n \in RunIds : n = nextRun
        BY <1>4 DEF StartRun
    <2>1. /\ n = nextRun /\ nextRun' = n + 1 /\ n \in Nat
          /\ slots[q].pc = "insert" /\ slots[q].user \in users
          /\ UNCHANGED <<users, workers, faults>>
        BY <1>4, <2>0, ConstantsOK DEF StartRun, RunIds
    <2>2. /\ runs'[n] = [user |-> slots[q].user, status |-> "running",
                         today |-> TRUE, summary |-> NoSummary]
          /\ \A r \in RunIds \ {n} : runs'[r] = runs[r]
        BY <1>4, <2>1 DEF StartRun, TablesTyped
    <2>3. runs'[n].user = slots[q].user /\ runs'[n].status = "running"
        BY <2>2
    <2>4. slots'[q].pc = "startAudit" /\ slots'[q].run = n /\ slots'[q].user = slots[q].user
          /\ \A p \in Slots \ {q} : slots'[p] = slots[p]
        BY <1>4, <2>1 DEF StartRun, Slot
    <2>5. ~Present(n) /\ workers[n].pc = "none" /\ (\A p \in Slots : ~Holds(p, n))
        BY <2>1 DEF OwnInv, FreshIds
    <2>6. \A r \in RunIds \ {n} :
             /\ Present(r)' <=> Present(r)
             /\ Live(r)' <=> Live(r)
             /\ \A p \in Slots : Holds(p, r)' <=> Holds(p, r)
        <3>1. \A r \in RunIds \ {n} : (Present(r)' <=> Present(r)) /\ (Live(r)' <=> Live(r))
            BY <2>1, <2>2 DEF Present, Live
        <3>2. \A r \in RunIds, p \in Slots \ {q} : Holds(p, r)' <=> Holds(p, r)
            BY <2>4 DEF Holds
        <3>3. \A r \in RunIds \ {n} : ~Holds(q, r) /\ ~Holds(q, r)'
            BY <2>1, <2>4 DEF Holds
        <3> QED BY <3>1, <3>2, <3>3
    <2>7. /\ Present(n)'
          /\ ~Live(n)'
          /\ \A p \in Slots : Holds(p, n)' <=> (p = q)
        <3>1. (runs'[n].status # "absent") /\ workers'[n].pc = "none"
            BY <2>1, <2>3, <2>5
        <3>2. \A p \in Slots : Holds(p, n)' <=> (p = q)
            BY <2>4, <2>5 DEF Holds
        <3> QED BY <3>1, <3>2 DEF Present, Live, InTry, InExcept
    <2>8. \A r \in RunIds \ {n} : Executing(r)' <=> Executing(r)
        BY <2>6 DEF Executing, Holds
    <2>9. Executing(n)'
        BY <2>7 DEF Executing, Holds
    <2>10. FreshIds'
        <3>1. \A r \in RunIds : r >= n + 1 => r >= n /\ r # n
            BY <2>1, ConstantsOK DEF RunIds
        <3> QED BY <2>1, <2>6, <3>1 DEF OwnInv, FreshIds
    <2>11. OneExecutor'
        BY <2>1, <2>5, <2>6, <2>7 DEF OwnInv, OneExecutor
    <2>12. RowOwner'
        <3>1. \A p \in Slots : slots'[p].user = slots[p].user
            BY <2>4
        <3>2. \A r \in RunIds \ {n} : Present(r)' =>
                 /\ runs'[r].user \in users'
                 /\ Live(r)' => workers'[r].user = runs'[r].user
                 /\ \A p \in Slots : Holds(p, r)' => slots'[p].user = runs'[r].user
            <4> SUFFICES ASSUME NEW r \in RunIds \ {n}, Present(r)'
                         PROVE  /\ runs'[r].user \in users'
                                /\ Live(r)' => workers'[r].user = runs'[r].user
                                /\ \A p \in Slots : Holds(p, r)' => slots'[p].user = runs'[r].user
                OBVIOUS
            <4>1. /\ Present(r) /\ runs'[r] = runs[r]
                  /\ users' = users /\ workers' = workers
                  /\ Live(r)' <=> Live(r)
                  /\ \A p \in Slots : Holds(p, r)' <=> Holds(p, r)
                BY <2>1, <2>2, <2>6
            <4>2. /\ runs[r].user \in users
                  /\ Live(r) => workers[r].user = runs[r].user
                  /\ \A p \in Slots : Holds(p, r) => slots[p].user = runs[r].user
                BY <4>1 DEF OwnInv, RowOwner
            <4> QED BY <3>1, <4>1, <4>2
        <3>3. /\ runs'[n].user \in users'
              /\ \A p \in Slots : Holds(p, n)' => slots'[p].user = runs'[n].user
            BY <2>1, <2>3, <2>7, <3>1
        <3> QED BY <2>7, <3>2, <3>3 DEF RowOwner
    <2>13. WorkerOwnsRun'
        BY <2>1, <2>2, <2>3, <2>6, <2>8, <2>9 DEF OwnInv, WorkerOwnsRun
    <2> QED BY <2>10, <2>11, <2>12, <2>13 DEF OwnInv
<1>5. CASE AuditStart(q)
    <2>1. slots'[q] = [slots[q] EXCEPT !.pc = "spawn"] /\ \A p \in Slots \ {q} : slots'[p] = slots[p]
        BY <1>5, SlotMoves DEF AuditStart, SlotPcs
    <2>2. slots'[q].pc = "spawn" /\ slots'[q].run = slots[q].run /\ slots'[q].user = slots[q].user
        BY <2>1 DEF Slot
    <2>3. \A p \in Slots, r \in RunIds :
             /\ Holds(p, r)' <=> Holds(p, r)
             /\ Holds(p, r) => slots'[p].user = slots[p].user
        BY <1>5, <2>1, <2>2 DEF AuditStart, Holds
    <2> QED BY <1>5, <2>3, OwnFrame DEF AuditStart
\* The remaining steps end q's hold on its run n.
<1>6. CASE Spawn(q)
    <2>0. PICK n \in RunIds : n = slots[q].run
        BY <1>6 DEF Spawn, SlotInv
    <2>1. n = slots[q].run /\ Holds(q, n) /\ slots[q].user \in Users
        BY <1>6, <2>0 DEF Spawn, Holds, SlotInv
    <2>2. slots'[q] = IdleSlot /\ (\A p \in Slots \ {q} : slots'[p] = slots[p])
          /\ UNCHANGED <<users, runs, nextRun, faults>>
        BY <1>6, SlotMoves DEF Spawn, tables
    <2>3. workers'[n] = [NoWorker EXCEPT !.pc = "next", !.user = slots[q].user,
                                          !.kind = slots[q].kind]
          /\ \A r \in RunIds \ {n} : workers'[r] = workers[r]
        BY <1>6, <2>1 DEF Spawn
    <2>4. workers'[n].pc = "next" /\ workers'[n].user = slots[q].user
        BY <2>3 DEF NoWorker
    <2>5. \A p \in Slots, r \in RunIds : Holds(p, r)' <=> (Holds(p, r) /\ p # q)
        BY <2>2 DEF Holds, IdleSlot
    <2>6. \A r \in RunIds : Present(r)' <=> Present(r)
        BY <2>2 DEF Present
    <2>7. /\ Live(n)'
          /\ \A r \in RunIds \ {n} : Live(r)' <=> Live(r)
        BY <2>3, <2>4 DEF Live, InTry
    <2>8. \A r \in RunIds : Executing(r)' <=> Executing(r)
        <3>1. \A r \in RunIds : Executing(r) <=> (Live(r) \/ \E p \in Slots : Holds(p, r))
            BY DEF Executing, Holds
        <3>2. \A r \in RunIds : Executing(r)' <=> (Live(r)' \/ \E p \in Slots : Holds(p, r)')
            BY DEF Executing, Holds
        <3>3. \A r \in RunIds \ {n} : ~Holds(q, r)
            BY <2>1 DEF Holds
        <3> QED BY <2>1, <2>5, <2>7, <3>1, <3>2, <3>3
    <2>9. FreshIds'
        BY <2>1, <2>2, <2>3, <2>5, <2>6 DEF OwnInv, FreshIds
    <2>10. OneExecutor'
        <3>1. \A p \in Slots : ~Holds(p, n)'
            BY <2>1, <2>5 DEF OwnInv, OneExecutor
        <3> QED BY <2>3, <2>5, <3>1 DEF OwnInv, OneExecutor
    <2>11. RowOwner'
        <3>1. \A r \in RunIds, p \in Slots : Holds(p, r)' => Holds(p, r) /\ slots'[p] = slots[p]
            BY <2>2, <2>5
        <3>2. \A r \in RunIds \ {n} : Present(r) /\ Live(r)' => workers'[r].user = runs[r].user
            BY <2>3, <2>7 DEF OwnInv, RowOwner
        <3>3. Present(n) => workers'[n].user = runs[n].user
            BY <2>1, <2>4 DEF OwnInv, RowOwner
        <3>4. runs' = runs /\ users' = users
            BY <2>2
        <3> QED BY <2>6, <3>1, <3>2, <3>3, <3>4 DEF OwnInv, RowOwner
    <2>12. WorkerOwnsRun'
        BY <2>2, <2>6, <2>8 DEF OwnInv, WorkerOwnsRun
    <2> QED BY <2>9, <2>10, <2>11, <2>12 DEF OwnInv
<1>7. ASSUME Reply(q), UNCHANGED <<users, runs, nextRun, workers>>,
             Holds(q, slots[q].run) => ~Present(slots[q].run) \/ faults' # 0,
             faults' = 0 => faults = 0
      PROVE  OwnInv'
    <2>1. slots'[q] = IdleSlot /\ \A p \in Slots \ {q} : slots'[p] = slots[p]
        BY <1>7, SlotMoves
    <2>2. \A p \in Slots, r \in RunIds : Holds(p, r)' <=> (Holds(p, r) /\ p # q)
        BY <2>1 DEF Holds, IdleSlot
    <2>3. \A r \in RunIds : (Present(r)' <=> Present(r)) /\ (Live(r)' <=> Live(r))
        BY <1>7 DEF Present, Live
    <2>4. \A r \in RunIds : (Executing(r)' => Executing(r))
                            /\ (Executing(r) => Executing(r)' \/ Holds(q, r))
        BY <2>2, <2>3 DEF Executing, Holds
    <2>5. FreshIds' /\ OneExecutor'
        BY <1>7, <2>2, <2>3 DEF OwnInv, FreshIds, OneExecutor
    <2>6. RowOwner'
        BY <1>7, <2>1, <2>2, <2>3 DEF OwnInv, RowOwner
    <2>7. \A r \in RunIds : Holds(q, r) => r = slots[q].run
        BY DEF Holds
    <2>8. WorkerOwnsRun'
        BY <1>7, <2>3, <2>4, <2>7 DEF OwnInv, WorkerOwnsRun
    <2> QED BY <2>5, <2>6, <2>8 DEF OwnInv
<1>8. CASE SpawnFails(q)
    BY <1>7, <1>8, ConstantsOK DEF SpawnFails, tables
<1>9. CASE RequestRaises(q)
    <2>1. Holds(q, slots[q].run) => ~Present(slots[q].run)
        BY <1>9 DEF RequestRaises, Holds, OwnInv, RowOwner, SlotInv
    <2> QED BY <1>7, <1>9, <2>1 DEF RequestRaises, tables
<1> QED BY <1>1, <1>2, <1>3, <1>4, <1>5, <1>6, <1>8, <1>9 DEF SlotStep

LEMMA WorkerStepOwn ==
    ASSUME WellFormed, OwnInv, NEW r \in RunIds, WorkerStep(r)
    PROVE  OwnInv'
<1> USE DEF WellFormed, TypeOK
<1>1. /\ Live(r) /\ workers[r] \in Worker
      /\ UNCHANGED <<users, nextRun, slots, faults>>
    BY DEF WorkerStep, UpsertAsset, RecordError, RecordAnalysis, RecordAction, AuditLock,
       AuditFinish, FinishRun, RunnerRaises, AuditFailure, FailRun, RunnerDies, tables,
       Live, InTry, InExcept
<1>2. \A s \in RunIds, q \in Slots : Holds(q, s)' <=> Holds(q, s)
    BY <1>1 DEF Holds
<1>3. \A q \in Slots : ~Holds(q, r)
    BY <1>1 DEF OwnInv, OneExecutor, Live, InTry, InExcept
<1>4. r < nextRun
    BY <1>1, ConstantsOK DEF OwnInv, FreshIds, Live, InTry, InExcept, RunIds, TablesTyped
\* Only r's own worker and row change: it keeps working for its run, or it ends
\* with the row ended or gone.
<1>5. ASSUME \A s \in RunIds \ {r} : workers'[s] = workers[s] /\ runs'[s] = runs[s],
             runs'[r].user = runs[r].user, Present(r)' <=> Present(r),
             \/ Live(r)' /\ workers'[r].user = workers[r].user /\ runs' = runs
             \/ ~Live(r)' /\ workers'[r].pc # "none" /\ runs'[r].status # "running"
      PROVE  OwnInv'
    <2>1. \A s \in RunIds \ {r} : (Present(s)' <=> Present(s)) /\ (Live(s)' <=> Live(s))
                                  /\ (Executing(s)' <=> Executing(s))
        BY <1>1, <1>5 DEF Present, Live, Executing
    <2>2. Executing(r)' <=> Live(r)'
        BY <1>1, <1>3 DEF Executing, Holds
    <2>3. FreshIds'
        BY <1>1, <1>2, <1>4, <1>5, <2>1, ConstantsOK DEF OwnInv, FreshIds, RunIds, TablesTyped
    <2>4. OneExecutor'
        BY <1>2, <1>3, <1>5 DEF OwnInv, OneExecutor
    <2>5. RowOwner'
        BY <1>1, <1>2, <1>3, <1>5, <2>1 DEF OwnInv, RowOwner
    <2>6. WorkerOwnsRun'
        BY <1>1, <1>5, <2>1, <2>2 DEF OwnInv, WorkerOwnsRun, Executing
    <2> QED BY <2>3, <2>4, <2>5, <2>6 DEF OwnInv
<1>6. CASE FinishRun(r) \/ FailRun(r)
    <2>0. runs \in [RunIds -> Row]
        BY DEF TablesTyped
    <2>1. runs'[r].status \in {"completed", "failed"}
        BY <1>6, <2>0 DEF FinishRun, FailRun, Row
    <2>2. runs'[r].user = runs[r].user /\ \A s \in RunIds \ {r} : runs'[s] = runs[s]
        BY <1>6 DEF FinishRun, FailRun, TablesTyped, Row
    <2>3. workers'[r].pc = "end" /\ \A s \in RunIds \ {r} : workers'[s] = workers[s]
        BY <1>6 DEF FinishRun, FailRun, Worker
    <2>4. Present(r) /\ Present(r)'
        BY <1>6, <2>1 DEF FinishRun, FailRun, WriteAllowed, Present
    <2> QED BY <1>5, <2>1, <2>2, <2>3, <2>4 DEF Live, InTry, InExcept
<1>7. CASE RunnerDies(r)
    <2>1. runs' = runs /\ workers'[r].pc = "end" /\ \A s \in RunIds \ {r} : workers'[s] = workers[s]
        BY <1>7 DEF RunnerDies, Worker, tables
    <2>2. ~Present(r)
        BY <1>1, <1>7 DEF RunnerDies, WriteAllowed, InExcept, OwnInv, RowOwner
    <2> QED BY <1>5, <2>1, <2>2 DEF Live, InTry, InExcept, Present
<1>8. CASE ~FinishRun(r) /\ ~FailRun(r) /\ ~RunnerDies(r)
    <2>1. runs' = runs /\ \A s \in RunIds \ {r} : workers'[s] = workers[s]
        BY <1>8 DEF WorkerStep, UpsertAsset, RecordError, RecordAnalysis, RecordAction, AuditLock,
           AuditFinish, RunnerRaises, AuditFailure, tables
    <2>2. workers'[r].user = workers[r].user /\ Live(r)'
        <3>1. CASE UpsertAsset(r)
            BY <1>1, <3>1 DEF UpsertAsset, Worker, Live, InTry, AfterErrors
        <3>2. CASE RecordError(r)
            BY <1>1, <3>2 DEF RecordError, Worker, Live, InTry, AfterErrors
        <3>3. CASE RecordAnalysis(r)
            BY <1>1, <3>3 DEF RecordAnalysis, Worker, Live, InTry
        <3>4. CASE RecordAction(r)
            BY <1>1, <3>4 DEF RecordAction, ActionDone, AfterAct, Worker, Live, InTry
        <3>5. CASE AuditLock(r)
            BY <1>1, <3>5 DEF AuditLock, ActionDone, AfterAct, Worker, Live, InTry
        <3>6. CASE AuditFinish(r) \/ RunnerRaises(r) \/ AuditFailure(r)
            BY <1>1, <3>6 DEF AuditFinish, RunnerRaises, AuditFailure, Worker, Live, InTry, InExcept
        <3> QED BY <1>8, <3>1, <3>2, <3>3, <3>4, <3>5, <3>6 DEF WorkerStep
    <2> QED BY <1>5, <2>1, <2>2 DEF Present
<1> QED BY <1>6, <1>7, <1>8

LEMMA NextOwn == WellFormed /\ OwnInv /\ [Next]_vars => OwnInv'
<1> SUFFICES ASSUME WellFormed, OwnInv, [Next]_vars
             PROVE  OwnInv'
    OBVIOUS
<1> USE DEF WellFormed, TypeOK
<1>1. CASE \E q \in Slots, u \in Users : RequestScan(q, u) \/ RequestUndo(q, u) \/ RequestDelete(q, u)
    <2>1. \A q \in Slots, r \in RunIds :
             /\ Holds(q, r)' <=> Holds(q, r)
             /\ Holds(q, r) => slots'[q].user = slots[q].user
        BY <1>1 DEF RequestScan, RequestUndo, RequestDelete, Holds
    <2> QED BY <1>1, <2>1, OwnFrame DEF RequestScan, RequestUndo, RequestDelete, tables
<1>2. CASE \E q \in Slots : SlotStep(q) \/ SpawnFails(q)
    BY <1>2, SlotStepOwn
<1>3. CASE \E r \in RunIds : WorkerStep(r)
    BY <1>3, WorkerStepOwn
<1>4. CASE \E u \in Users : Login(u)
    BY <1>4 DEF Login, OwnInv, FreshIds, OneExecutor, RowOwner, WorkerOwnsRun, Holds, Present,
       Executing, Live
<1>5. CASE NewDay
    <2>1. \A r \in RunIds : runs'[r] = [runs[r] EXCEPT !.today = FALSE] /\ runs[r] \in Row
        BY <1>5 DEF NewDay, TablesTyped
    <2>2. \A r \in RunIds : runs'[r].status = runs[r].status /\ runs'[r].user = runs[r].user
        BY <2>1 DEF Row
    <2>3. UNCHANGED <<users, nextRun, workers, slots, faults>>
        BY <1>5 DEF NewDay
    <2>4. \A r \in RunIds : (Present(r)' <=> Present(r)) /\ (Live(r)' <=> Live(r))
                            /\ (Executing(r)' <=> Executing(r))
        BY <2>2, <2>3 DEF Present, Live, Executing
    <2>5. FreshIds' /\ OneExecutor'
        BY <2>3, <2>4 DEF OwnInv, FreshIds, OneExecutor, Holds
    <2>6. RowOwner'
        BY <2>2, <2>3, <2>4 DEF OwnInv, RowOwner, Holds
    <2>7. WorkerOwnsRun'
        BY <2>2, <2>3, <2>4 DEF OwnInv, WorkerOwnsRun
    <2> QED BY <2>5, <2>6, <2>7 DEF OwnInv
<1>6. CASE Restart
    <2>1. \A r \in RunIds : ~Live(r)' /\ (workers[r].pc = "none" => workers'[r].pc = "none")
        BY <1>6 DEF Restart, Live, InTry, InExcept, Worker
    <2>2. \A q \in Slots, r \in RunIds : ~Holds(q, r)'
        BY <1>6 DEF Restart, Holds, IdleSlot
    <2>3. faults' # 0 /\ UNCHANGED <<users, runs, nextRun>>
        BY <1>6, ConstantsOK DEF Restart, tables
    <2>4. \A r \in RunIds : ~Executing(r)' /\ (Present(r)' <=> Present(r))
        BY <2>1, <2>2, <2>3 DEF Executing, Holds, Present
    <2> QED BY <2>1, <2>2, <2>3, <2>4 DEF OwnInv, FreshIds, OneExecutor, RowOwner, WorkerOwnsRun
<1>7. CASE UNCHANGED vars
    BY <1>7 DEF vars, tables, OwnInv, FreshIds, OneExecutor, RowOwner, WorkerOwnsRun, Holds, Present,
       Executing, Live
<1> QED BY <1>1, <1>2, <1>3, <1>4, <1>5, <1>6, <1>7 DEF Next

\* A run that is listed as running has a thread, or a request about to start
\* it, unless the process was restarted; a run that has ended has neither.
THEOREM OwnershipTheorem == Spec => []WorkerOwnsRun
<1>1. Spec => []OwnInv
    BY InitOwn, NextOwn, WellFormedAlways, PTL DEF Spec
<1>2. OwnInv => WorkerOwnsRun
    BY DEF OwnInv
<1> QED BY <1>1, <1>2, PTL

-----------------------------------------------------------------------------
(* What the tables hold.                                                    *)

\* The foreign keys: a row belongs to an account, an audit row perhaps to one
\* that was deleted, and the rows of a run to a run.
RowsOwned ==
    /\ \A r \in RunIds : ~Present(r) => runs[r].user = NoUser
    /\ \A x \in assetRows \cup analysed : x[1] \in users
    /\ \A x \in audit : x.user \in users \cup {"user_deleted"}
    /\ \A x \in actionRows \cup errorRows : Present(x.run)

Consistent == WellFormed /\ OwnInv /\ RowsOwned

LEMMA InitRows == Init => RowsOwned
BY DEF Init, RowsOwned, Present, NoRow

\* The rows stay where they are; accounts and runs may be added or ended.
LEMMA RowsFrame ==
    ASSUME RowsOwned, UNCHANGED <<assetRows, analysed, actionRows, errorRows>>,
           users \subseteq users',
           \A x \in audit' : x.user \in users' \cup {"user_deleted"},
           \A r \in RunIds : (Present(r) => Present(r)') /\ (~Present(r)' => runs'[r].user = NoUser),
           TablesTyped
    PROVE  RowsOwned'
<1>1. \A x \in actionRows \cup errorRows : x.run \in RunIds /\ Present(x.run)
    BY DEF RowsOwned, TablesTyped
<1>2. \A x \in actionRows' \cup errorRows' : Present(x.run)'
    BY <1>1
<1>3. \A x \in assetRows' \cup analysed' : x[1] \in users'
    BY DEF RowsOwned
<1> QED BY <1>2, <1>3 DEF RowsOwned

\* Deleting the rows of an account, and perhaps the account.
LEMMA RowsDelete ==
    ASSUME WellFormed, OwnInv, RowsOwned, NEW u \in Users, DeleteRowsOf(u), UNCHANGED audit,
           users' = users \/ (users' = users \ {u} /\ \A x \in audit : x.user # u)
    PROVE  RowsOwned'
<1> USE DEF WellFormed, TypeOK
<1>1. \A r \in RunIds : runs'[r] = IF runs[r].user = u THEN NoRow ELSE runs[r]
    BY DEF DeleteRowsOf
<1>2. \A r \in RunIds : ~Present(r)' => runs'[r].user = NoUser
    BY <1>1 DEF RowsOwned, Present, NoRow
<1>3. \A x \in assetRows' \cup analysed' : x[1] \in users'
    BY DEF DeleteRowsOf, RowsOwned
<1>4. \A x \in audit' : x.user \in users' \cup {"user_deleted"}
    BY DEF RowsOwned
<1>5. \A x \in actionRows' \cup errorRows' : Present(x.run)'
    <2>1. \A x \in actionRows' \cup errorRows' :
             x \in actionRows \cup errorRows /\ runs[x.run].user # u
        BY DEF DeleteRowsOf
    <2>2. \A x \in actionRows' \cup errorRows' :
             x.run \in RunIds /\ Present(x.run) /\ runs[x.run].user # u
        BY <2>1 DEF RowsOwned, TablesTyped
    <2> QED BY <1>1, <2>2 DEF Present
<1> QED BY <1>2, <1>3, <1>4, <1>5 DEF RowsOwned

LEMMA SlotStepRows ==
    ASSUME Consistent, NEW q \in Slots, SlotStep(q) \/ SpawnFails(q)
    PROVE  RowsOwned'
<1> USE DEF Consistent, WellFormed, TypeOK
<1>1. CASE CheckCap(q) \/ CheckQuota(q) \/ Spawn(q) \/ RequestRaises(q) \/ SpawnFails(q)
    <2>1. UNCHANGED tables
        BY <1>1 DEF CheckCap, CheckQuota, Spawn, RequestRaises, SpawnFails
    <2> QED BY <2>1 DEF tables, RowsOwned, Present
<1>2. CASE StartRun(q)
    <2>1. PICK n \in RunIds : n = nextRun /\ slots[q].user \in users
        BY <1>2 DEF StartRun
    <2>2. \A r \in RunIds :
             runs'[r] = IF r = n THEN [user |-> slots[q].user, status |-> "running",
                                       today |-> TRUE, summary |-> NoSummary]
                        ELSE runs[r]
        BY <1>2, <2>1 DEF StartRun, TablesTyped
    <2>3. \A r \in RunIds : (Present(r) => Present(r)') /\ (~Present(r)' => runs'[r].user = NoUser)
        BY <2>2 DEF Present, RowsOwned
    <2>4. UNCHANGED <<users, assetRows, analysed, actionRows, errorRows, audit>>
        BY <1>2 DEF StartRun
    <2> QED BY <2>3, <2>4, RowsFrame DEF RowsOwned
<1>3. CASE AuditStart(q) \/ AuditUndo(q)
    <2>1. /\ UNCHANGED <<users, runs, assetRows, analysed, actionRows, errorRows>>
          /\ \A x \in audit' : x \in audit \/ x.user \in users
        BY <1>3 DEF AuditStart, AuditUndo, AuditRow
    <2> QED BY <2>1, RowsFrame DEF RowsOwned, Present
<1>4. CASE Revert(q)
    <2>1. /\ UNCHANGED <<users, runs, assetRows, analysed, errorRows, audit>>
          /\ \A x \in actionRows' : \E y \in actionRows : x.run = y.run
        <3>1. \A y \in actionRows : [y EXCEPT !.success = FALSE].run = y.run
            BY DEF TablesTyped
        <3> QED BY <1>4, <3>1 DEF Revert
    <2> QED BY <2>1 DEF RowsOwned, Present
<1>5. CASE PurgeRows(q)
    BY <1>5, RowsDelete DEF PurgeRows, SlotInv
<1>6. CASE PurgeAudit(q)
    <2>1. UNCHANGED <<users, runs, assetRows, analysed, actionRows, errorRows>>
        BY <1>6 DEF PurgeAudit
    <2>2. \A x \in audit : [x EXCEPT !.user = "user_deleted"].user = "user_deleted"
        BY DEF TablesTyped
    <2>3. \A x \in audit' : x \in audit \/ x.user = "user_deleted"
        BY <1>6, <2>2 DEF PurgeAudit
    <2> QED BY <2>1, <2>3, RowsFrame DEF RowsOwned, Present
<1>7. CASE PurgeUser(q)
    <2>1. CASE \E x \in audit : x.user = slots[q].user
        BY <1>7, <2>1, RowsFrame DEF PurgeUser, RowsOwned, Present
    <2>2. CASE ~\E x \in audit : x.user = slots[q].user
        BY <1>7, <2>2, RowsDelete DEF PurgeUser, SlotInv
    <2> QED BY <2>1, <2>2
<1> QED BY <1>1, <1>2, <1>3, <1>4, <1>5, <1>6, <1>7 DEF SlotStep

LEMMA WorkerStepRows ==
    ASSUME Consistent, NEW r \in RunIds, WorkerStep(r)
    PROVE  RowsOwned'
<1> USE DEF Consistent, WellFormed, TypeOK
<1>0. users' = users
    BY DEF WorkerStep, UpsertAsset, RecordError, RecordAnalysis, RecordAction, AuditLock,
       AuditFinish, FinishRun, RunnerRaises, AuditFailure, FailRun, RunnerDies, tables
<1>1. CASE UpsertAsset(r)
    <2>1. /\ UNCHANGED <<runs, analysed, actionRows, errorRows, audit>>
          /\ \A x \in assetRows' : x \in assetRows \/ x[1] = workers[r].user
          /\ workers[r].user \in users
        BY <1>1 DEF UpsertAsset, WriteAllowed
    <2> QED BY <1>0, <2>1 DEF RowsOwned, Present
<1>2. CASE RecordAnalysis(r)
    <2>1. /\ UNCHANGED <<runs, assetRows, actionRows, errorRows, audit>>
          /\ \A x \in analysed' : x \in analysed \cup assetRows
        BY <1>2 DEF RecordAnalysis, WriteAllowed
    <2> QED BY <1>0, <2>1 DEF RowsOwned, Present
<1>3. CASE RecordError(r) \/ RecordAction(r)
    <2>1. /\ UNCHANGED <<runs, assetRows, analysed, audit>> /\ Present(r)
          /\ \A x \in actionRows' \cup errorRows' : x \in actionRows \cup errorRows \/ x.run = r
        BY <1>3 DEF RecordError, RecordAction, WriteAllowed, ErrorRow, ActionRow
    <2> QED BY <1>0, <2>1 DEF RowsOwned, Present
<1>4. CASE AuditLock(r) \/ AuditFinish(r) \/ AuditFailure(r)
    <2>1. /\ UNCHANGED <<runs, assetRows, analysed, actionRows, errorRows>>
          /\ \A x \in audit' : x \in audit \/ x.user = workers[r].user
          /\ workers[r].user \in users
        BY <1>4 DEF AuditLock, AuditFinish, AuditFailure, WriteAllowed, AuditRow
    <2> QED BY <1>0, <2>1, RowsFrame DEF RowsOwned, Present
<1>5. CASE FinishRun(r) \/ FailRun(r)
    <2>1. Present(r) /\ \A s \in RunIds \ {r} : runs'[s] = runs[s]
        BY <1>5 DEF FinishRun, FailRun, WriteAllowed, TablesTyped
    <2>2. runs'[r].status \in {"completed", "failed"}
        BY <1>5 DEF FinishRun, FailRun, TablesTyped, Row
    <2>3. \A s \in RunIds : (Present(s)' <=> Present(s)) /\ (~Present(s) => runs'[s] = runs[s])
        BY <2>1, <2>2 DEF Present
    <2>4. UNCHANGED <<assetRows, analysed, actionRows, errorRows, audit>>
        BY <1>5 DEF FinishRun, FailRun
    <2> QED BY <1>0, <2>3, <2>4, RowsFrame DEF RowsOwned
<1>6. CASE RunnerRaises(r) \/ RunnerDies(r)
    BY <1>6 DEF RunnerRaises, RunnerDies, tables, RowsOwned, Present
<1> QED BY <1>1, <1>2, <1>3, <1>4, <1>5, <1>6 DEF WorkerStep

LEMMA NextRows == Consistent /\ [Next]_vars => RowsOwned'
<1> SUFFICES ASSUME Consistent, [Next]_vars
             PROVE  RowsOwned'
    OBVIOUS
<1>1. CASE \E q \in Slots, u \in Users : RequestScan(q, u) \/ RequestUndo(q, u) \/ RequestDelete(q, u)
    BY <1>1 DEF RequestScan, RequestUndo, RequestDelete, tables, Consistent, RowsOwned, Present
<1>2. CASE \E q \in Slots : SlotStep(q) \/ SpawnFails(q)
    BY <1>2, SlotStepRows
<1>3. CASE \E r \in RunIds : WorkerStep(r)
    BY <1>3, WorkerStepRows
<1>4. CASE \E u \in Users : Login(u)
    BY <1>4, RowsFrame DEF Login, Consistent, RowsOwned, Present, WellFormed, TypeOK
<1>5. CASE NewDay
    <2>1. \A r \in RunIds : runs'[r] = [runs[r] EXCEPT !.today = FALSE] /\ runs[r] \in Row
        BY <1>5 DEF NewDay, TablesTyped, Consistent, WellFormed, TypeOK
    <2>2. \A r \in RunIds : runs'[r].status = runs[r].status /\ runs'[r].user = runs[r].user
        BY <2>1 DEF Row
    <2>3. \A r \in RunIds : (Present(r) => Present(r)') /\ (~Present(r)' => runs'[r].user = NoUser)
        BY <2>2 DEF Present, Consistent, RowsOwned
    <2>4. UNCHANGED <<users, assetRows, analysed, actionRows, errorRows, audit>>
        BY <1>5 DEF NewDay
    <2> QED BY <2>3, <2>4, RowsFrame DEF Consistent, RowsOwned, WellFormed, TypeOK
<1>6. CASE Restart \/ UNCHANGED vars
    BY <1>6 DEF Restart, vars, tables, Consistent, RowsOwned, Present
<1> QED BY <1>1, <1>2, <1>3, <1>4, <1>5, <1>6 DEF Next

LEMMA ConsistentAlways == Spec => []Consistent
<1>1. Init => Consistent
    BY InitWellFormed, InitOwn, InitRows DEF Consistent
<1>2. Consistent /\ [Next]_vars => Consistent'
    BY NextWellFormed, NextOwn, NextRows DEF Consistent
<1> QED BY <1>1, <1>2, PTL DEF Spec

\* When an account is gone no table holds anything of it, whichever requests and
\* runs were at work for it while its rows were deleted.
THEOREM PurgeTheorem == Spec => []PurgeErases
<1>1. Consistent => PurgeErases
    <2> SUFFICES ASSUME Consistent, NEW u \in Users \ users
                 PROVE  /\ \A r \in RunIds : runs[r].user # u
                        /\ \A x \in assetRows \cup analysed : x[1] # u
                        /\ \A x \in audit : x.user # u
                        /\ \A x \in actionRows \cup errorRows : Present(x.run)
        BY DEF PurgeErases
    <2>1. \A r \in RunIds : runs[r].user # u
        BY ConstantsOK DEF Consistent, OwnInv, RowOwner, RowsOwned
    <2>2. u # "user_deleted"
        BY ConstantsOK
    <2> QED BY <2>1, <2>2 DEF Consistent, RowsOwned
<1> QED BY <1>1, ConsistentAlways, PTL
-----------------------------------------------------------------------------
(* What a step does to a run other than through its own thread.            *)

RowsOf(r) == {x \in actionRows : x.run = r}
ErrorsOf(r) == {x \in errorRows : x.run = r}
Reverted(rows) == {[x EXCEPT !.success = FALSE] : x \in rows}
LockAudited(r, a) == \E x \in audit : x.run = r /\ x.asset = a

\* The audit log gains nothing about the outcome of r and loses nothing.
SameStory(r) ==
    /\ \A action \in {"scan.finish", "scan.failed"} : Audited(r, action)' <=> Audited(r, action)
    /\ Audited(r, "scan.start") => Audited(r, "scan.start")'
    /\ \A a \in Assets : LockAudited(r, a) => LockAudited(r, a)'

\* The row of r and the rows that refer to it, if they are still there.
SameRecords(r) ==
    /\ runs'[r].status = runs[r].status /\ runs'[r].summary = runs[r].summary
    /\ RowsOf(r)' = RowsOf(r) \/ RowsOf(r)' = Reverted(RowsOf(r))
    /\ ErrorsOf(r)' = ErrorsOf(r)

Beside(r) ==
    /\ workers'[r] = workers[r] /\ lateRows'[r] = lateRows[r]
    /\ SameStory(r)
    /\ Present(r)' => Present(r) /\ SameRecords(r)

\* The steps that do more.
Starts(r) == r = nextRun /\ \E q \in Slots : StartRun(q)
Spawns(r) == \E q \in Slots : slots[q].run = r /\ Spawn(q)

LEMMA RunTableBeside ==
    ASSUME NEW r \in RunIds,
           UNCHANGED <<workers, lateRows, audit, actionRows, errorRows>>, runs'[r] = runs[r]
    PROVE  Beside(r)
BY DEF Beside, SameStory, SameRecords, RowsOf, ErrorsOf, Present, Audited, LockAudited

LEMMA DeleteBeside ==
    ASSUME Consistent, NEW r \in RunIds, NEW u \in Users, DeleteRowsOf(u),
           UNCHANGED <<workers, lateRows, audit>>
    PROVE  Beside(r)
<1> USE DEF Consistent, WellFormed, TypeOK
<1>1. SameStory(r)
    BY DEF SameStory, Audited, LockAudited
<1>2. CASE runs[r].user = u
    BY <1>1, <1>2 DEF DeleteRowsOf, Beside, Present, NoRow
<1>3. CASE runs[r].user # u
    <2>1. runs'[r] = runs[r]
        BY <1>3 DEF DeleteRowsOf
    <2>2. RowsOf(r)' = RowsOf(r) /\ ErrorsOf(r)' = ErrorsOf(r)
        BY <1>3 DEF DeleteRowsOf, RowsOf, ErrorsOf
    <2> QED BY <1>1, <2>1, <2>2 DEF Beside, SameRecords, Present
<1> QED BY <1>2, <1>3

\* Rewriting a column of the audit log other than run, action and asset.
LEMMA AuditRewritten ==
    ASSUME NEW r \in RunIds,
           \A x \in audit : \E y \in audit' : y.run = x.run /\ y.action = x.action /\ y.asset = x.asset,
           \A y \in audit' : \/ \E x \in audit : x.run = y.run /\ x.action = y.action
                             \/ y.run # r \/ y.action \notin {"scan.finish", "scan.failed"}
    PROVE  SameStory(r)
BY DEF SameStory, Audited, LockAudited

\* A row is added that tells of another run, or of no outcome.
LEMMA AuditAdded ==
    ASSUME NEW r \in RunIds, NEW u, NEW action, NEW s, NEW a,
           audit' = audit \cup {AuditRow(u, action, s, a)},
           s # r \/ action \notin {"scan.finish", "scan.failed"}
    PROVE  SameStory(r)
<1> DEFINE row == AuditRow(u, action, s, a)
<1>1. row.run = s /\ row.action = action
    BY DEF AuditRow
<1>2. \A y \in audit' : y \in audit \/ y = row
    OBVIOUS
<1>3. \A x \in audit : x \in audit'
    OBVIOUS
<1> HIDE DEF row
<1>4. \A y \in audit' :
          \/ \E x \in audit : x.run = y.run /\ x.action = y.action
          \/ y.run # r
          \/ y.action \notin {"scan.finish", "scan.failed"}
    BY <1>1, <1>2
<1>5. \A x \in audit : \E y \in audit' : y.run = x.run /\ y.action = x.action /\ y.asset = x.asset
    BY <1>3
<1> QED BY <1>4, <1>5, AuditRewritten

LEMMA SlotStepBeside ==
    ASSUME Consistent, NEW q \in Slots, SlotStep(q) \/ SpawnFails(q), NEW r \in RunIds
    PROVE  Beside(r) \/ Starts(r) \/ Spawns(r)
<1> USE DEF Consistent, WellFormed, TypeOK
<1>1. CASE CheckCap(q) \/ CheckQuota(q) \/ RequestRaises(q) \/ SpawnFails(q)
    BY <1>1, RunTableBeside DEF CheckCap, CheckQuota, RequestRaises, SpawnFails, tables
<1>2. CASE StartRun(q)
    <2>1. CASE r # nextRun
        BY <1>2, <2>1, RunTableBeside DEF StartRun, TablesTyped
    <2> QED BY <1>2, <2>1 DEF Starts
<1>3. CASE Spawn(q)
    <2>1. CASE r # slots[q].run
        BY <1>3, <2>1 DEF Spawn, tables, Beside, SameStory, SameRecords, RowsOf, ErrorsOf,
           Present, Audited, LockAudited
    <2> QED BY <1>3, <2>1 DEF Spawns
<1>4. CASE AuditStart(q) \/ AuditUndo(q)
    <2>2. SameStory(r)
        BY <1>4, AuditAdded DEF AuditStart, AuditUndo
    <2>3. UNCHANGED <<runs, actionRows, errorRows, workers, lateRows>>
        BY <1>4 DEF AuditStart, AuditUndo
    <2> QED BY <2>2, <2>3 DEF Beside, SameRecords, RowsOf, ErrorsOf, Present
<1>5. CASE Revert(q)
    <2>0. \A y \in actionRows : [y EXCEPT !.success = FALSE].run = y.run
        BY DEF TablesTyped
    <2>1. RowsOf(r)' = IF r = slots[q].run THEN Reverted(RowsOf(r)) ELSE RowsOf(r)
        <3>1. actionRows' = {IF x.run = slots[q].run THEN [x EXCEPT !.success = FALSE] ELSE x :
                               x \in actionRows}
            BY <1>5 DEF Revert
        <3>2. CASE r = slots[q].run
            <4>1. \A y \in RowsOf(r) : [y EXCEPT !.success = FALSE] \in RowsOf(r)'
                BY <2>0, <3>1, <3>2 DEF RowsOf
            <4>2. \A x \in RowsOf(r)' : \E y \in RowsOf(r) : x = [y EXCEPT !.success = FALSE]
                BY <2>0, <3>1, <3>2 DEF RowsOf
            <4> QED BY <3>2, <4>1, <4>2 DEF Reverted
        <3>3. CASE r # slots[q].run
            <4>1. \A y \in RowsOf(r) : y \in RowsOf(r)'
                BY <3>1, <3>3 DEF RowsOf
            <4>2. ASSUME NEW x \in RowsOf(r)' PROVE x \in RowsOf(r)
                <5>1. x \in actionRows' /\ x.run = r
                    BY <4>2 DEF RowsOf
                <5>2. PICK y \in actionRows : x = IF y.run = slots[q].run
                                                 THEN [y EXCEPT !.success = FALSE] ELSE y
                    BY <3>1, <5>1
                <5>3. [y EXCEPT !.success = FALSE].run = y.run
                    BY <2>0, <5>2
                <5>4. x = y
                    BY <3>3, <5>1, <5>2, <5>3
                <5> QED BY <5>1, <5>2, <5>4 DEF RowsOf
            <4> QED BY <3>3, <4>1, <4>2
        <3> QED BY <3>2, <3>3
    <2>2. UNCHANGED <<runs, errorRows, audit, workers, lateRows>>
        BY <1>5 DEF Revert
    <2> QED BY <2>1, <2>2 DEF Beside, SameStory, SameRecords, ErrorsOf, Present, Audited, LockAudited
<1>6. CASE PurgeRows(q)
    BY <1>6, DeleteBeside DEF PurgeRows, SlotInv
<1>7. CASE PurgeUser(q)
    BY <1>7, DeleteBeside, RunTableBeside DEF PurgeUser, SlotInv
<1>8. CASE PurgeAudit(q)
    <2>0. audit' = {IF x.user = slots[q].user THEN [x EXCEPT !.user = "user_deleted"] ELSE x :
                      x \in audit}
        BY <1>8 DEF PurgeAudit
    <2>1. \A x \in audit : LET y == [x EXCEPT !.user = "user_deleted"] IN
             y.run = x.run /\ y.action = x.action /\ y.asset = x.asset
        BY DEF TablesTyped
    <2> DEFINE new(x) == IF x.user = slots[q].user THEN [x EXCEPT !.user = "user_deleted"] ELSE x
    <2>a. \A x \in audit :
             new(x).run = x.run /\ new(x).action = x.action /\ new(x).asset = x.asset
        BY <2>1
    <2>b. \A x \in audit : new(x) \in audit'
        BY <2>0
    <2>c. \A y \in audit' : \E x \in audit : y = new(x)
        BY <2>0
    <2> HIDE DEF new
    <2>2. \A x \in audit : \E y \in audit' : y.run = x.run /\ y.action = x.action /\ y.asset = x.asset
        BY <2>a, <2>b
    <2>3. \A y \in audit' : \E x \in audit : x.run = y.run /\ x.action = y.action
        BY <2>a, <2>c
    <2>4. SameStory(r)
        BY <2>2, <2>3, AuditRewritten
    <2>5. UNCHANGED <<runs, actionRows, errorRows, workers, lateRows>>
        BY <1>8 DEF PurgeAudit
    <2> QED BY <2>4, <2>5 DEF Beside, SameRecords, RowsOf, ErrorsOf, Present
<1> QED BY <1>1, <1>2, <1>3, <1>4, <1>5, <1>6, <1>7, <1>8 DEF SlotStep

LEMMA OtherWorkerBeside ==
    ASSUME Consistent, NEW r \in RunIds, NEW s \in RunIds \ {r}, WorkerStep(s)
    PROVE  Beside(r)
<1> USE DEF Consistent, WellFormed, TypeOK
<1>1. workers'[r] = workers[r] /\ lateRows'[r] = lateRows[r] /\ runs'[r] = runs[r]
    BY DEF WorkerStep, UpsertAsset, RecordError, RecordAnalysis, RecordAction, AuditLock,
       AuditFinish, FinishRun, RunnerRaises, AuditFailure, FailRun, RunnerDies, tables, TablesTyped
<1>2. SameStory(r)
    <2>1. CASE AuditLock(s) \/ AuditFinish(s) \/ AuditFailure(s)
        BY <2>1, AuditAdded DEF AuditLock, AuditFinish, AuditFailure
    <2>2. CASE audit' = audit
        BY <2>2 DEF SameStory, Audited, LockAudited
    <2> QED BY <2>1, <2>2 DEF WorkerStep, UpsertAsset, RecordError, RecordAnalysis, RecordAction,
            FinishRun, RunnerRaises, FailRun, RunnerDies, tables
<1>3. RowsOf(r)' = RowsOf(r) /\ ErrorsOf(r)' = ErrorsOf(r)
    <2>1. CASE RecordError(s)
        BY <2>1 DEF RecordError, ErrorRow, RowsOf, ErrorsOf
    <2>2. CASE RecordAction(s)
        BY <2>2 DEF RecordAction, ActionRow, RowsOf, ErrorsOf
    <2>3. CASE UNCHANGED <<actionRows, errorRows>>
        BY <2>3 DEF RowsOf, ErrorsOf
    <2> QED BY <2>1, <2>2, <2>3 DEF WorkerStep, UpsertAsset, RecordAnalysis, AuditLock,
            AuditFinish, FinishRun, RunnerRaises, AuditFailure, FailRun, RunnerDies, tables
<1> QED BY <1>1, <1>2, <1>3 DEF Beside, SameRecords, Present

LEMMA StepsOfRun ==
    ASSUME Consistent, [Next]_vars, NEW r \in RunIds
    PROVE  Beside(r) \/ Starts(r) \/ Spawns(r) \/ WorkerStep(r) \/ Restart
<1>1. CASE \E q \in Slots, u \in Users : RequestScan(q, u) \/ RequestUndo(q, u) \/ RequestDelete(q, u)
    BY <1>1, RunTableBeside DEF RequestScan, RequestUndo, RequestDelete, tables
<1>2. CASE \E q \in Slots : SlotStep(q) \/ SpawnFails(q)
    BY <1>2, SlotStepBeside
<1>3. CASE \E s \in RunIds : WorkerStep(s)
    BY <1>3, OtherWorkerBeside
<1>4. CASE (\E u \in Users : Login(u)) \/ UNCHANGED vars
    BY <1>4, RunTableBeside DEF Login, vars, tables
<1>5. CASE NewDay
    <2>1. runs'[r] = [runs[r] EXCEPT !.today = FALSE] /\ runs[r] \in Row
        BY <1>5 DEF NewDay, TablesTyped, Consistent, WellFormed, TypeOK
    <2>2. runs'[r].status = runs[r].status /\ runs'[r].summary = runs[r].summary
        BY <2>1 DEF Row
    <2> QED BY <1>5, <2>2 DEF NewDay, Beside, SameStory, SameRecords, RowsOf, ErrorsOf, Present,
            Audited, LockAudited
<1> QED BY <1>1, <1>2, <1>3, <1>4, <1>5 DEF Next

\* Nobody works for an id that was not handed out, or that a request holds.
LEMMA NotStarted ==
    ASSUME Consistent, NEW r \in RunIds, Starts(r) \/ Spawns(r)
    PROVE  workers[r].pc = "none" /\ (Starts(r) => ~Present(r))
<1>1. CASE Starts(r)
    BY <1>1, ConstantsOK DEF Starts, Consistent, OwnInv, FreshIds, RunIds
<1>2. CASE Spawns(r)
    <2>1. PICK q \in Slots : Holds(q, r)
        BY <1>2 DEF Spawns, Spawn, Holds
    <2>3. ~Starts(r)
        BY <2>1, ConstantsOK DEF Starts, Consistent, OwnInv, FreshIds, RunIds
    <2> QED BY <2>1, <2>3 DEF Consistent, OwnInv, OneExecutor
<1> QED BY <1>1, <1>2

LEMMA StartEffect ==
    ASSUME Consistent, NEW r \in RunIds, Starts(r)
    PROVE  /\ workers'[r] = workers[r] /\ lateRows'[r] = lateRows[r]
           /\ UNCHANGED <<actionRows, errorRows, audit>>
           /\ Present(r)' /\ runs'[r].status = "running"
<1>1. PICK q \in Slots : StartRun(q)
    BY DEF Starts
<1>2. runs'[r] = [user |-> slots[q].user, status |-> "running", today |-> TRUE, summary |-> NoSummary]
    BY <1>1 DEF Starts, StartRun, Consistent, WellFormed, TypeOK, TablesTyped
<1>3. runs'[r].status = "running"
    BY <1>2
<1> QED BY <1>1, <1>3 DEF StartRun, Present

LEMMA SpawnEffect ==
    ASSUME Consistent, NEW r \in RunIds, Spawns(r)
    PROVE  /\ UNCHANGED <<tables, lateRows>>
           /\ workers'[r].pc = "next" /\ workers'[r].kind \in {"real", "synthetic"}
           /\ workers'[r].seen = {} /\ workers'[r].plan = <<>>
           /\ workers'[r].processed = 0 /\ workers'[r].errorCount = 0 /\ workers'[r].actionCount = 0
<1>1. PICK q \in Slots : slots[q].run = r /\ Spawn(q)
    BY DEF Spawns
<1> DEFINE user == slots[q].user
           kind == slots[q].kind
           v == [NoWorker EXCEPT !.pc = "next", !.user = user, !.kind = kind]
<1>2. workers'[r] = v
    BY <1>1 DEF Spawn, Consistent, WellFormed, TypeOK
<1>3. kind \in {"real", "synthetic"}
    BY <1>1 DEF Spawn, Consistent, WellFormed, SlotInv
<1>4. /\ v.pc = "next" /\ v.kind = kind /\ v.seen = {} /\ v.plan = <<>>
      /\ v.processed = 0 /\ v.errorCount = 0 /\ v.actionCount = 0
    BY DEF NoWorker
<1> QED BY <1>1, <1>2, <1>3, <1>4 DEF Spawn

-----------------------------------------------------------------------------
(* What stays of a run that ended.                                         *)

\* Rows whose success was taken back, by an undo perhaps made twice.
LEMMA RevertedRowsStay ==
    ASSUME Consistent, NEW r \in RunIds, RowsOf(r)' = Reverted(RowsOf(r))
    PROVE  Reverted(RowsOf(r))' = Reverted(RowsOf(r)) /\ Succeeded(r)' = {}
<1> DEFINE undone(x) == [x EXCEPT !.success = FALSE]
<1>1. \A x \in RowsOf(r) : undone(undone(x)) = undone(x) /\ ~undone(x).success
    BY DEF RowsOf, Consistent, WellFormed, TypeOK, TablesTyped
<1>2. RowsOf(r)' = {undone(x) : x \in RowsOf(r)}
    BY DEF Reverted
<1>3. Reverted(RowsOf(r))' = {undone(y) : y \in RowsOf(r)'}
    BY DEF Reverted
<1>4. Reverted(RowsOf(r)) = {undone(x) : x \in RowsOf(r)}
    BY DEF Reverted
<1>5. Succeeded(r)' = {y \in RowsOf(r)' : y.success}
    BY DEF Succeeded, RowsOf
<1> HIDE DEF undone
<1>6. {undone(y) : y \in RowsOf(r)'} = {undone(x) : x \in RowsOf(r)}
    BY <1>1, <1>2
<1>7. \A y \in RowsOf(r)' : ~y.success
    BY <1>1, <1>2
<1> QED BY <1>3, <1>4, <1>5, <1>6, <1>7

LEMMA SameRecordsStay ==
    ASSUME Consistent, NEW r \in RunIds, SameRecords(r)
    PROVE  Left(r)' = Left(r) /\ Succeeded(r)' \subseteq Succeeded(r)
<1>1. /\ runs'[r].status = runs[r].status /\ runs'[r].summary = runs[r].summary
      /\ ErrorsOf(r)' = ErrorsOf(r)
    BY DEF SameRecords
<1>2. Reverted(RowsOf(r))' = Reverted(RowsOf(r)) /\ Succeeded(r)' \subseteq Succeeded(r)
    <2>1. CASE RowsOf(r)' = RowsOf(r)
        BY <2>1 DEF Reverted, Succeeded, RowsOf
    <2>2. CASE RowsOf(r)' = Reverted(RowsOf(r))
        BY <2>2, RevertedRowsStay
    <2> QED BY <2>1, <2>2 DEF SameRecords
<1>3. Left(r) = [status |-> runs[r].status, summary |-> runs[r].summary,
                 errors |-> ErrorsOf(r), actions |-> Reverted(RowsOf(r))]
    BY DEF Left, ErrorsOf, Reverted, RowsOf
<1>4. Left(r)' = [status |-> runs'[r].status, summary |-> runs'[r].summary,
                  errors |-> ErrorsOf(r)', actions |-> Reverted(RowsOf(r))']
    BY DEF Left, ErrorsOf, Reverted, RowsOf
<1> QED BY <1>1, <1>2, <1>3, <1>4

LEMMA EndedRunStays ==
    ASSUME Consistent, [Next]_vars, NEW r \in RunIds,
           runs[r].status \in {"completed", "failed"}, Present(r)'
    PROVE  Left(r)' = Left(r) /\ Succeeded(r)' \subseteq Succeeded(r)
<1>1. Present(r) /\ runs[r].status # "running"
    BY DEF Present
<1>2. ~Live(r)
    BY <1>1 DEF Consistent, OwnInv, WorkerOwnsRun, Executing
<1>3. ~WorkerStep(r)
    <2>1. workers[r].pc \notin {"next", "errors", "analysis", "act", "lockAudit", "finishRun", "failAudit", "failRun"}
        BY <1>2 DEF Live, InTry, InExcept
    <2>2. ~UpsertAsset(r)
        BY <2>1, Zenon DEF UpsertAsset
    <2>7. ~RecordError(r)
        BY <2>1 DEF RecordError
    <2>3. ~RecordAnalysis(r)
        BY <2>1 DEF RecordAnalysis
    <2>6. ~RecordAction(r)
        BY <2>1 DEF RecordAction
    <2>4. ~AuditLock(r) /\ ~AuditFinish(r) /\ ~FinishRun(r)
        BY <2>1 DEF AuditLock, AuditFinish, FinishRun
    <2>5. ~RunnerRaises(r) /\ ~AuditFailure(r) /\ ~FailRun(r) /\ ~RunnerDies(r)
        BY <2>1 DEF RunnerRaises, AuditFailure, FailRun, RunnerDies, InTry, InExcept
    <2> QED BY <2>2, <2>3, <2>4, <2>5, <2>6, <2>7 DEF WorkerStep
<1>4. ~Starts(r)
    BY <1>1, NotStarted
<1>5. CASE Beside(r)
    BY <1>5, SameRecordsStay DEF Beside
<1>6. CASE Spawns(r) \/ Restart
    <2>1. UNCHANGED <<runs, actionRows, errorRows>>
        BY <1>6, SpawnEffect DEF Restart, tables
    <2>2. SameRecords(r)
        BY <2>1 DEF SameRecords, RowsOf, ErrorsOf
    <2> QED BY <2>2, SameRecordsStay
<1> QED BY <1>3, <1>4, <1>5, <1>6, StepsOfRun

\* Nobody writes to a run that has ended: what it left is there until its account
\* is deleted, and an undo only takes successes back, whichever requests, other
\* runs, restarts and midnights follow.
THEOREM EndedRunsTheorem == Spec => EndedRunsStay
<1>1. Consistent /\ [Next]_vars =>
        [\A r \in RunIds : runs[r].status \in {"completed", "failed"} /\ Present(r)' =>
            Left(r)' = Left(r) /\ Succeeded(r)' \subseteq Succeeded(r)]_vars
    BY EndedRunStays
<1> QED BY <1>1, ConsistentAlways, PTL DEF Spec, EndedRunsStay

-----------------------------------------------------------------------------
(* What each step makes of its thread.                                     *)

\* Only the program counter moves.
Jumps(r, pc) == workers'[r] = [workers[r] EXCEPT !.pc = pc]

LEMMA UpsertFields ==
    ASSUME Consistent, NEW r \in RunIds, UpsertAsset(r)
    PROVE  \E a \in Candidates(workers[r]), o \in OutcomesOf(workers[r].kind) :
             LET w == workers[r]
                 v == workers'[r]
             IN  /\ v.seen = w.seen \cup {a} /\ v.asset = a
                 /\ v.classified = o.classified /\ v.errors = o.errors /\ v.plan = o.plan
                 /\ v.kind = w.kind /\ v.processed = w.processed
                 /\ v.errorCount = w.errorCount /\ v.actionCount = w.actionCount
                 /\ v.pc \in {"errors", "analysis", "act"}
                 /\ o.errors = <<>> /\ ~o.classified => v.pc = "act"
<1> USE DEF Consistent, WellFormed, TypeOK
<1> DEFINE w == workers[r]
<1>0. w \in Worker /\ w.kind \in {"real", "synthetic"}
    BY DEF WorkerInv, WorkerOK, UpsertAsset, InTry
<1>1. PICK a \in Candidates(w), o \in OutcomesOf(w.kind) :
         LET v == [w EXCEPT !.seen = @ \cup {a}, !.asset = a, !.classified = o.classified,
                            !.errors = o.errors, !.plan = o.plan]
         IN  workers' = [workers EXCEPT ![r] =
                [v EXCEPT !.pc = IF o.errors # <<>> THEN "errors" ELSE AfterErrors(v)]]
    BY DEF UpsertAsset
<1> DEFINE s == w.seen \cup {a}
           v == [w EXCEPT !.seen = s, !.asset = a, !.classified = o.classified,
                          !.errors = o.errors, !.plan = o.plan]
           pc == IF o.errors # <<>> THEN "errors" ELSE AfterErrors(v)
           x == [v EXCEPT !.pc = pc]
<1>2. workers'[r] = x
    BY <1>1
<1>3. o.classified => o.plan # <<>>
    BY <1>0, OutcomesTyped
<1>4. o.errors # <<>> \/ o.plan # <<>>
    <2>1. CASE w.kind = "real"
        BY <2>1, <1>3, ConstantsOK DEF OutcomesOf
    <2>2. CASE w.kind = "synthetic"
        <3>1. o.plan = <<"tag">>
            BY <2>2 DEF OutcomesOf, SyntheticOutcome
        <3> QED BY <3>1
    <2> QED BY <1>0, <2>1, <2>2
<1> HIDE DEF s
<1>5. v.classified = o.classified /\ v.plan = o.plan /\ v.errors = o.errors /\ v.asset = a
      /\ v.kind = w.kind /\ v.seen = s /\ v.processed = w.processed
      /\ v.errorCount = w.errorCount /\ v.actionCount = w.actionCount
    BY <1>0 DEF Worker
<1>6. v \in Worker
    <2>1. a \in Assets
        BY ConstantsOK DEF Candidates
    <2>2. s \in SUBSET Assets
        BY <1>0, <2>1 DEF s, Worker
    <2>3. /\ o.classified \in BOOLEAN /\ o.errors \in Seq(ErrorStages)
          /\ o.plan \in Seq(ActionNames)
        BY <1>0, OutcomesTyped
    <2> QED BY <1>0, <2>1, <2>2, <2>3 DEF Worker
<1> HIDE DEF v
<1>7. pc \in {"errors", "analysis", "act"} /\ (o.errors = <<>> /\ ~o.classified => pc = "act")
    BY <1>3, <1>4, <1>5 DEF AfterErrors
<1> HIDE DEF pc
<1>8. x.pc = pc /\ x.classified = o.classified /\ x.plan = o.plan /\ x.errors = o.errors /\ x.asset = a
      /\ x.kind = w.kind /\ x.seen = s /\ x.processed = w.processed
      /\ x.errorCount = w.errorCount /\ x.actionCount = w.actionCount
    BY <1>5, <1>6 DEF Worker
<1> QED BY <1>2, <1>7, <1>8 DEF s

LEMMA ErrorFields ==
    ASSUME Consistent, NEW r \in RunIds, RecordError(r)
    PROVE  LET w == workers[r]
               v == workers'[r]
           IN  /\ v.errors = Tail(w.errors) /\ v.errorCount = w.errorCount + 1
               /\ v.plan = w.plan /\ v.seen = w.seen /\ v.asset = w.asset /\ v.kind = w.kind
               /\ v.processed = w.processed /\ v.actionCount = w.actionCount
               /\ v.pc \in {"next", "errors", "analysis", "act"}
               /\ v.pc = "next" => w.plan = <<>>
               /\ v.pc = "errors" <=> Tail(w.errors) # <<>>
<1> DEFINE w == workers[r]
           rest == Tail(w.errors)
           pc == IF rest # <<>> THEN "errors" ELSE AfterErrors(w)
           n == w.errorCount + 1
           v == [w EXCEPT !.errors = rest, !.errorCount = n, !.pc = pc]
<1>0. w \in Worker
    BY DEF Consistent, WellFormed, TypeOK
<1>1. workers'[r] = v
    BY DEF RecordError, Consistent, WellFormed, TypeOK
<1>2. pc \in {"next", "errors", "analysis", "act"} /\ (pc = "errors" <=> rest # <<>>)
      /\ (pc = "next" => w.plan = <<>>)
    BY <1>0 DEF AfterErrors, Consistent, WellFormed, WorkerInv, WorkerOK, RecordError
<1> HIDE DEF rest, pc, n
<1>3. v.errors = rest /\ v.errorCount = n /\ v.pc = pc
      /\ v.plan = w.plan /\ v.seen = w.seen /\ v.asset = w.asset /\ v.kind = w.kind
      /\ v.processed = w.processed /\ v.actionCount = w.actionCount
    BY <1>0 DEF Worker
<1> QED BY <1>1, <1>2, <1>3 DEF rest, n

\* A plan is one action shorter; the asset is processed when none is left.
Advances(w, v) ==
    /\ v.plan = Tail(w.plan) /\ v.pc = AfterAct(Tail(w.plan))
    /\ v.processed = IF Tail(w.plan) = <<>> THEN w.processed + 1 ELSE w.processed

LEMMA ActionFields ==
    ASSUME Consistent, NEW r \in RunIds, RecordAction(r)
    PROVE  LET w == workers[r]
               v == workers'[r]
           IN  /\ v.actionCount = w.actionCount + 1
               /\ v.seen = w.seen /\ v.asset = w.asset /\ v.kind = w.kind /\ v.errors = w.errors
               /\ v.errorCount = w.errorCount
               /\ IF Head(w.plan) = "lock"
                  THEN v.plan = w.plan /\ v.pc = "lockAudit" /\ v.processed = w.processed
                  ELSE Advances(w, v)
<1> DEFINE w == workers[r]
           n == w.actionCount + 1
           u == [w EXCEPT !.actionCount = n]
           plan == Tail(w.plan)
           pc == AfterAct(plan)
           m == IF plan = <<>> THEN w.processed + 1 ELSE w.processed
<1>0. w \in Worker
    BY DEF Consistent, WellFormed, TypeOK
<1>1. CASE Head(w.plan) = "lock"
    <2> DEFINE v == [u EXCEPT !.pc = "lockAudit"]
    <2>1. workers'[r] = v
        BY <1>1 DEF RecordAction, Consistent, WellFormed, TypeOK
    <2> HIDE DEF n
    <2>2. v.actionCount = n /\ v.seen = w.seen /\ v.asset = w.asset /\ v.kind = w.kind
          /\ v.errors = w.errors /\ v.errorCount = w.errorCount
          /\ v.plan = w.plan /\ v.pc = "lockAudit" /\ v.processed = w.processed
        BY <1>0 DEF Worker
    <2> QED BY <1>1, <2>1, <2>2 DEF n
<1>2. CASE Head(w.plan) # "lock"
    <2>1. workers'[r] = ActionDone(u, plan)
        BY <1>2 DEF RecordAction, Consistent, WellFormed, TypeOK
    <2>2. u.processed = w.processed
        BY <1>0 DEF Worker
    <2> DEFINE v == [u EXCEPT !.plan = plan, !.pc = pc, !.processed = m]
    <2>3. workers'[r] = v
        BY <2>1, <2>2 DEF ActionDone
    <2> HIDE DEF n, plan, pc, m
    <2>4. v.actionCount = n /\ v.seen = w.seen /\ v.asset = w.asset /\ v.kind = w.kind
          /\ v.errors = w.errors /\ v.errorCount = w.errorCount
          /\ v.plan = plan /\ v.pc = pc /\ v.processed = m
        BY <1>0 DEF Worker
    <2> QED BY <1>2, <2>3, <2>4 DEF n, plan, pc, m, Advances
<1> QED BY <1>1, <1>2

LEMMA LockFields ==
    ASSUME Consistent, NEW r \in RunIds, AuditLock(r)
    PROVE  LET w == workers[r]
               v == workers'[r]
           IN  /\ Advances(w, v)
               /\ v.seen = w.seen /\ v.asset = w.asset /\ v.kind = w.kind /\ v.errors = w.errors
               /\ v.errorCount = w.errorCount /\ v.actionCount = w.actionCount
<1> DEFINE w == workers[r]
           plan == Tail(w.plan)
           pc == AfterAct(plan)
           m == IF plan = <<>> THEN w.processed + 1 ELSE w.processed
           v == [w EXCEPT !.plan = plan, !.pc = pc, !.processed = m]
<1>0. w \in Worker
    BY DEF Consistent, WellFormed, TypeOK
<1>1. workers'[r] = v
    BY DEF AuditLock, ActionDone, Consistent, WellFormed, TypeOK
<1> HIDE DEF plan, pc, m
<1>2. v.seen = w.seen /\ v.asset = w.asset /\ v.kind = w.kind
      /\ v.errors = w.errors /\ v.errorCount = w.errorCount /\ v.actionCount = w.actionCount
      /\ v.plan = plan /\ v.pc = pc /\ v.processed = m
    BY <1>0 DEF Worker
<1> QED BY <1>1, <1>2 DEF plan, pc, m, Advances

\* The other steps, and a restart, move the program counter.
LEMMA OtherFields ==
    ASSUME Consistent, NEW r \in RunIds
    PROVE  /\ RecordAnalysis(r) => Jumps(r, "act")
           /\ AuditFinish(r) => Jumps(r, "finishRun")
           /\ RunnerRaises(r) => Jumps(r, IF workers[r].kind = "real" THEN "failAudit" ELSE "failRun")
           /\ AuditFailure(r) => Jumps(r, "failRun")
           /\ FinishRun(r) \/ FailRun(r) \/ RunnerDies(r) => Jumps(r, "end")
           /\ Restart => workers'[r] = workers[r] \/ (Live(r) /\ Jumps(r, "end"))
BY DEF RecordAnalysis, AuditFinish, RunnerRaises, AuditFailure, FinishRun, FailRun, RunnerDies,
   Restart, Jumps, Consistent, WellFormed, TypeOK

LEMMA JumpFields ==
    ASSUME Consistent, NEW r \in RunIds, NEW pc, Jumps(r, pc)
    PROVE  LET w == workers[r]
               v == workers'[r]
           IN  /\ v.pc = pc
               /\ v.plan = w.plan /\ v.seen = w.seen /\ v.asset = w.asset /\ v.kind = w.kind
               /\ v.errors = w.errors /\ v.processed = w.processed
               /\ v.errorCount = w.errorCount /\ v.actionCount = w.actionCount
BY DEF Jumps, Consistent, WellFormed, TypeOK, Worker

-----------------------------------------------------------------------------
(* Writes for a purged run.                                                *)

\* Once a thread inserted an asset for a purged run, every way on ends at a
\* write that needs the run, before it can take another asset.
LateInv(r) == lateRows[r] # 0 =>
    /\ lateRows[r] = 1 /\ ~Present(r)
    /\ workers[r].pc \in {"errors", "analysis", "act", "failAudit", "failRun", "end"}

LEMMA NextLate ==
    ASSUME Consistent, [Next]_vars, NEW r \in RunIds, LateInv(r)
    PROVE  LateInv(r)'
<1>1. CASE Beside(r)
    BY <1>1 DEF Beside, LateInv
<1>2. CASE Starts(r) \/ Spawns(r)
    <2>1. lateRows[r] = 0
        BY <1>2, NotStarted DEF LateInv
    <2> QED BY <1>2, <2>1, StartEffect, SpawnEffect DEF LateInv
<1>3. CASE WorkerStep(r)
    <2>1. CASE UpsertAsset(r)
        <3>1. lateRows[r] = 0
            BY <2>1 DEF UpsertAsset, LateInv
        <3>2. lateRows'[r] = IF Present(r) THEN 0 ELSE 1
            BY <2>1, <3>1 DEF UpsertAsset, Consistent, WellFormed, TypeOK
        <3>3. workers'[r].pc \in {"errors", "analysis", "act"}
            BY <2>1, UpsertFields
        <3>4. Present(r)' <=> Present(r)
            BY <2>1 DEF UpsertAsset, Present
        <3> QED BY <3>2, <3>3, <3>4 DEF LateInv
    <2>2. CASE RecordError(r) \/ RecordAction(r) \/ FinishRun(r) \/ FailRun(r)
        <3>1. Present(r)
            BY <2>2 DEF RecordError, RecordAction, FinishRun, FailRun, WriteAllowed
        <3>2. lateRows'[r] = 0
            BY <2>2, <3>1 DEF RecordError, RecordAction, FinishRun, FailRun, LateInv
        <3> QED BY <3>2 DEF LateInv
    <2>3. CASE AuditLock(r) \/ AuditFinish(r)
        <3>1. lateRows'[r] = 0
            BY <2>3 DEF AuditLock, AuditFinish, LateInv
        <3> QED BY <3>1 DEF LateInv
    <2>4. CASE RecordAnalysis(r) \/ RunnerRaises(r) \/ AuditFailure(r) \/ RunnerDies(r)
        <3>1. workers'[r].pc \in {"act", "failAudit", "failRun", "end"}
            BY <2>4, OtherFields, JumpFields
        <3>2. lateRows'[r] = lateRows[r] /\ (Present(r)' <=> Present(r))
            BY <2>4 DEF RecordAnalysis, RunnerRaises, AuditFailure, RunnerDies, tables, Present
        <3> QED BY <3>1, <3>2 DEF LateInv
    <2> QED BY <1>3, <2>1, <2>2, <2>3, <2>4 DEF WorkerStep
<1>4. CASE Restart
    <2>1. workers'[r] = workers[r] \/ workers'[r].pc = "end"
        BY <1>4, OtherFields, JumpFields
    <2> QED BY <1>4, <2>1 DEF Restart, tables, Present, LateInv
<1> QED BY <1>1, <1>2, <1>3, <1>4, StepsOfRun

\* A thread whose run was purged under it inserts at most one more asset.
THEOREM LateWritesTheorem == Spec => []LateWritesBounded
<1> DEFINE Inv == \A r \in RunIds : LateInv(r)
<1>1. Init => Inv
    BY DEF Init, LateInv
<1>2. Consistent /\ Inv /\ [Next]_vars => Inv'
    BY NextLate
<1>3. Inv => LateWritesBounded
    BY DEF LateInv, LateWritesBounded
<1> HIDE DEF Inv
<1> QED BY <1>1, <1>2, <1>3, ConsistentAlways, PTL DEF Spec

-----------------------------------------------------------------------------
(* The audit log tells the story of each run.                              *)

StartStory(r) ==
    /\ workers[r].pc # "none" => Audited(r, "scan.start")
    /\ \A q \in Slots : slots[q].run = r /\ slots[q].pc = "spawn" => Audited(r, "scan.start")

\* An outcome is audited before it is written, and never beside the other one:
\* a runner about to finish fails only when its run is gone.
EndStory(r) ==
    /\ Present(r) /\ runs[r].status # "running" => workers[r].pc = "end"
    /\ Audited(r, "scan.failed") =>
           workers[r].pc \in {"failRun", "end"} /\ runs[r].status # "completed"
    /\ Audited(r, "scan.finish") =>
           /\ workers[r].pc \in {"finishRun", "failAudit", "failRun", "end"}
           /\ Present(r) => workers[r].pc \in {"finishRun", "end"} /\ runs[r].status # "failed"
    /\ workers[r].pc = "finishRun" \/ runs[r].status = "completed" => Audited(r, "scan.finish")
    /\ (workers[r].pc = "failRun" \/ runs[r].status = "failed") /\ workers[r].kind = "real" =>
           Audited(r, "scan.failed")

\* A Locked Folder row is audited, unless its thread is about to or was killed.
LockStory(r) ==
    \A x \in RowsOf(r) : x.name = "lock" =>
        \/ LockAudited(r, x.asset)
        \/ workers[r].pc = "lockAudit" /\ workers[r].asset = x.asset
        \/ workers[r].pc = "end" /\ runs[r].status = "running"

\* Requests that are about to start a thread come from AuditStart.
LEMMA SpawnPending ==
    ASSUME Consistent, [Next]_vars, NEW r \in RunIds, NEW q \in Slots,
           slots'[q].run = r, slots'[q].pc = "spawn"
    PROVE  \/ slots[q].run = r /\ slots[q].pc = "spawn"
           \/ Audited(r, "scan.start")'
<1> USE DEF Consistent, WellFormed, TypeOK
<1>1. CASE AuditStart(q)
    <2> DEFINE row == AuditRow(slots[q].user, "scan.start", slots[q].run, NoAsset)
    <2>1. row \in audit'
        BY <1>1 DEF AuditStart
    <2>2. row.run = slots[q].run /\ row.action = "scan.start"
        BY DEF AuditRow
    <2>3. slots'[q].run = slots[q].run
        BY <1>1 DEF AuditStart, Goto, Slot
    <2> QED BY <2>1, <2>2, <2>3 DEF Audited
<1>2. CASE \E u \in Users : RequestScan(q, u) \/ RequestUndo(q, u) \/ RequestDelete(q, u)
    <2>1. PICK u \in Users : RequestScan(q, u) \/ RequestUndo(q, u) \/ RequestDelete(q, u)
        BY <1>2
    <2>2. CASE RequestScan(q, u)
        <3>1. PICK k \in Kinds : slots'[q] = [pc |-> "cap", user |-> u, kind |-> k, run |-> 0]
            BY <2>2 DEF RequestScan
        <3> QED BY <3>1
    <2>3. CASE RequestUndo(q, u)
        <3>1. PICK s \in RunIds :
                 slots'[q] = [pc |-> "revert", user |-> u, kind |-> "none", run |-> s]
            BY <2>3 DEF RequestUndo
        <3> QED BY <3>1
    <2>4. CASE RequestDelete(q, u)
        <3>1. slots'[q] = [pc |-> "purgeRows", user |-> u, kind |-> "none", run |-> 0]
            BY <2>4 DEF RequestDelete
        <3> QED BY <3>1
    <2> QED BY <2>1, <2>2, <2>3, <2>4
<1>3. CASE SlotStep(q) \/ SpawnFails(q)
    <2>1. CASE StartRun(q)
        BY <2>1 DEF StartRun, Slot
    <2>2. CASE \E pc \in SlotPcs \ {"spawn"} : Goto(q, pc) \/ Reply(q)
        <3>1. PICK pc \in SlotPcs \ {"spawn"} : Goto(q, pc) \/ Reply(q)
            BY <2>2
        <3>2. slots'[q] = [slots[q] EXCEPT !.pc = pc] \/ slots'[q] = IdleSlot
            BY <3>1, SlotMoves
        <3>3. slots'[q].pc # "spawn"
            BY <3>1, <3>2 DEF IdleSlot, Slot
        <3> QED BY <3>3
    <2> QED BY <1>1, <1>3, <2>1, <2>2 DEF SlotStep, CheckCap, CheckQuota, Spawn, SpawnFails,
            Revert, AuditUndo, RequestRaises, PurgeRows, PurgeAudit, PurgeUser, SlotPcs
<1>4. CASE Restart
    BY <1>4 DEF Restart, IdleSlot
<1>5. CASE slots'[q] = slots[q]
    BY <1>5
<1>6. ASSUME NEW p \in Slots \ {q},
             SlotStep(p) \/ SpawnFails(p)
             \/ \E u \in Users : RequestScan(p, u) \/ RequestUndo(p, u) \/ RequestDelete(p, u)
      PROVE  slots'[q] = slots[q]
    BY <1>6 DEF SlotStep, CheckCap, CheckQuota, StartRun, AuditStart, Spawn, SpawnFails, Revert,
       AuditUndo, RequestRaises, PurgeRows, PurgeAudit, PurgeUser, Goto, Reply,
       RequestScan, RequestUndo, RequestDelete
<1>7. CASE (\E s \in RunIds : WorkerStep(s)) \/ (\E u \in Users : Login(u)) \/ NewDay \/ UNCHANGED vars
    BY <1>5, <1>7 DEF WorkerStep, UpsertAsset, RecordError, RecordAnalysis, RecordAction, AuditLock,
       AuditFinish, FinishRun, RunnerRaises, AuditFailure, FailRun, RunnerDies, Login, NewDay, vars
<1> QED BY <1>2, <1>3, <1>4, <1>5, <1>6, <1>7 DEF Next

LEMMA StoryStep ==
    ASSUME Consistent, [Next]_vars, NEW r \in RunIds, ~WorkerStep(r), ~Starts(r), ~Spawns(r)
    PROVE  /\ SameStory(r)
           /\ workers'[r] = workers[r] \/ (Live(r) /\ Jumps(r, "end") /\ UNCHANGED tables)
           /\ Present(r)' => Present(r) /\ SameRecords(r)
<1>1. CASE Beside(r)
    BY <1>1 DEF Beside
<1>2. CASE Restart
    BY <1>2, OtherFields DEF Restart, tables, SameStory, Audited, LockAudited, Present,
       SameRecords, RowsOf, ErrorsOf
<1> QED BY <1>1, <1>2, StepsOfRun

LEMMA NextStartStory ==
    ASSUME Consistent, [Next]_vars, NEW r \in RunIds, StartStory(r)
    PROVE  StartStory(r)'
<1>1. Audited(r, "scan.start") => Audited(r, "scan.start")'
    <2>1. CASE WorkerStep(r)
        BY <2>1 DEF WorkerStep, UpsertAsset, RecordError, RecordAnalysis, RecordAction, AuditLock,
           AuditFinish, FinishRun, RunnerRaises, AuditFailure, FailRun, RunnerDies, tables, Audited
    <2>2. CASE Starts(r) \/ Spawns(r)
        BY <2>2, StartEffect, SpawnEffect DEF tables, Audited
    <2> QED BY <2>1, <2>2, StoryStep DEF SameStory
<1>2. workers'[r].pc # "none" => Audited(r, "scan.start")
    <2>1. CASE WorkerStep(r)
        <3>1. workers[r].pc # "none"
            BY <2>1 DEF WorkerStep, UpsertAsset, RecordError, RecordAnalysis, RecordAction, AuditLock,
               AuditFinish, FinishRun, RunnerRaises, AuditFailure, FailRun, RunnerDies,
               InTry, InExcept
        <3> QED BY <3>1 DEF StartStory
    <2>2. CASE Spawns(r)
        BY <2>2 DEF Spawns, Spawn, StartStory
    <2>3. CASE Starts(r)
        BY <2>3, StartEffect DEF StartStory
    <2>4. CASE Live(r)
        BY <2>4 DEF Live, InTry, InExcept, StartStory
    <2> QED BY <2>1, <2>2, <2>3, <2>4, StoryStep DEF StartStory
<1>3. \A q \in Slots : slots'[q].run = r /\ slots'[q].pc = "spawn" => Audited(r, "scan.start")'
    BY <1>1, SpawnPending DEF StartStory
<1> QED BY <1>1, <1>2, <1>3 DEF StartStory

\* The owner of a row that is there accepts audit rows: the runner does not
\* raise where it would have written one.
LEMMA AuditAllowed ==
    ASSUME Consistent, NEW r \in RunIds, Present(r), Live(r)
    PROVE  workers[r].user \in users
BY DEF Consistent, OwnInv, RowOwner

LEMMA NextEndStory ==
    ASSUME Consistent, [Next]_vars, NEW r \in RunIds, EndStory(r)
    PROVE  EndStory(r)'
<1> USE DEF Consistent, WellFormed, TypeOK
<1> DEFINE w == workers[r]
           v == workers'[r]
<1>0. Live(r) /\ Present(r) => runs[r].status = "running"
    BY DEF OwnInv, WorkerOwnsRun, Executing
<1>1. CASE WorkerStep(r)
    <2>0. Live(r) /\ v.kind = w.kind
        <3>1. w.pc \in InTry \cup InExcept
            BY <1>1 DEF WorkerStep, UpsertAsset, RecordError, RecordAnalysis, RecordAction, AuditLock,
               AuditFinish, FinishRun, RunnerRaises, AuditFailure, FailRun, RunnerDies,
               InTry, InExcept
        <3> QED BY <1>1, <3>1, UpsertFields, ErrorFields, ActionFields, LockFields, OtherFields,
                JumpFields DEF WorkerStep, Live
    <2>1. CASE UpsertAsset(r) \/ RecordError(r) \/ RecordAnalysis(r) \/ RecordAction(r) \/ AuditLock(r)
        <3>1. w.pc \in {"next", "errors", "analysis", "act", "lockAudit"}
            BY <2>1 DEF UpsertAsset, RecordError, RecordAnalysis, RecordAction, AuditLock
        <3>2. v.pc \in {"next", "errors", "analysis", "act", "lockAudit"}
            BY <2>1, UpsertFields, ErrorFields, ActionFields, LockFields, OtherFields, JumpFields
               DEF Advances, AfterAct
        <3>3. ~Audited(r, "scan.failed")' /\ ~Audited(r, "scan.finish")'
            <4>1. ~Audited(r, "scan.failed") /\ ~Audited(r, "scan.finish")
                BY <3>1 DEF EndStory
            <4>2. CASE AuditLock(r)
                <5> DEFINE row == AuditRow(w.user, "asset.locked.attempt", r, w.asset)
                <5>1. row.action = "asset.locked.attempt"
                    BY DEF AuditRow
                <5>2. \A x \in audit' : x \in audit \/ x = row
                    BY <4>2 DEF AuditLock
                <5> QED BY <4>1, <5>1, <5>2 DEF Audited
            <4>3. CASE audit' = audit
                BY <4>1, <4>3 DEF Audited
            <4> QED BY <2>1, <4>2, <4>3 DEF UpsertAsset, RecordError, RecordAnalysis, RecordAction
        <3>4. runs' = runs
            BY <2>1 DEF UpsertAsset, RecordError, RecordAnalysis, RecordAction, AuditLock
        <3> QED BY <1>0, <2>0, <3>1, <3>2, <3>3, <3>4 DEF EndStory, Present
    <2>2. CASE AuditFinish(r)
        <3> DEFINE row == AuditRow(w.user, "scan.finish", r, NoAsset)
        <3>1. row.run = r /\ row.action = "scan.finish"
            BY DEF AuditRow
        <3>2. audit' = audit \cup {row} /\ w.pc = "next" /\ runs' = runs
            BY <2>2 DEF AuditFinish
        <3> HIDE DEF row
        <3>3. Audited(r, "scan.finish")'
            BY <3>1, <3>2 DEF Audited
        <3>4. ~Audited(r, "scan.failed")'
            BY <3>1, <3>2 DEF Audited, EndStory
        <3>5. v.pc = "finishRun"
            BY <2>2, OtherFields, JumpFields
        <3> QED BY <1>0, <2>0, <3>2, <3>3, <3>4, <3>5 DEF EndStory, Present
    <2>3. CASE FinishRun(r)
        <3>0. runs'[r].status = "completed"
            BY <2>3 DEF FinishRun, TablesTyped, Row
        <3>1. /\ v.pc = "end" /\ w.pc = "finishRun" /\ audit' = audit
              /\ runs'[r].status = "completed"
            BY <2>3, <3>0, OtherFields, JumpFields DEF FinishRun
        <3>2. Audited(r, "scan.finish") /\ ~Audited(r, "scan.failed")
            BY <3>1 DEF EndStory
        <3> QED BY <3>1, <3>2 DEF EndStory, Audited
    <2>4. CASE RunnerRaises(r)
        <3>1. runs' = runs /\ audit' = audit
            BY <2>4 DEF RunnerRaises, tables
        <3>2. v.pc = IF w.kind = "real" THEN "failAudit" ELSE "failRun"
            BY <2>4, OtherFields, JumpFields
        <3>3. Audited(r, "scan.finish") => ~Present(r)
            <4>1. w.pc = "finishRun" => ~Present(r)
                BY <2>4 DEF RunnerRaises, WriteAllowed
            <4>2. w.pc \in InTry
                BY <2>4 DEF RunnerRaises
            <4> QED BY <4>1, <4>2 DEF EndStory, InTry
        <3>4. ~Audited(r, "scan.failed")
            BY <2>4 DEF RunnerRaises, EndStory, InTry
        <3>5. runs[r].status = "completed" => Audited(r, "scan.finish")
            BY DEF EndStory
        <3> QED BY <1>0, <2>0, <3>1, <3>2, <3>3, <3>4, <3>5 DEF EndStory, Audited, Present
    <2>5. CASE AuditFailure(r)
        <3> DEFINE row == AuditRow(w.user, "scan.failed", r, NoAsset)
        <3>1. row.run = r /\ row.action = "scan.failed"
            BY DEF AuditRow
        <3>2. audit' = audit \cup {row} /\ w.pc = "failAudit" /\ runs' = runs
            BY <2>5 DEF AuditFailure
        <3> HIDE DEF row
        <3>3. Audited(r, "scan.failed")'
            BY <3>1, <3>2 DEF Audited
        <3>4. Audited(r, "scan.finish")' <=> Audited(r, "scan.finish")
            BY <3>1, <3>2 DEF Audited
        <3>5. v.pc = "failRun"
            BY <2>5, OtherFields, JumpFields
        <3>6. runs[r].status # "completed"
            BY <1>0, <2>0, <3>2 DEF Present
        <3> QED BY <1>0, <2>0, <3>2, <3>3, <3>4, <3>5, <3>6 DEF EndStory, Present
    <2>6. CASE FailRun(r)
        <3>0. runs'[r].status = "failed"
            BY <2>6 DEF FailRun, TablesTyped, Row
        <3>1. /\ v.pc = "end" /\ w.pc = "failRun" /\ audit' = audit /\ Present(r)
              /\ runs'[r].status = "failed"
            BY <2>6, <3>0, OtherFields, JumpFields DEF FailRun, WriteAllowed
        <3>2. ~Audited(r, "scan.finish") /\ (w.kind = "real" => Audited(r, "scan.failed"))
            BY <3>1 DEF EndStory
        <3> QED BY <2>0, <3>1, <3>2 DEF EndStory, Audited
    <2>7. CASE RunnerDies(r)
        <3>1. v.pc = "end" /\ w.pc \in InExcept /\ audit' = audit /\ runs' = runs
            BY <2>7, OtherFields, JumpFields DEF RunnerDies, tables
        <3>2. Present(r) => runs[r].status = "running" /\ ~Audited(r, "scan.finish")
            BY <1>0, <2>0, <3>1 DEF EndStory, InExcept
        <3> QED BY <2>0, <3>1, <3>2 DEF EndStory, Audited, Present, InExcept
    <2> QED BY <1>1, <2>1, <2>2, <2>3, <2>4, <2>5, <2>6, <2>7 DEF WorkerStep
<1>2. CASE Starts(r) \/ Spawns(r)
    <2>1. w.pc = "none" /\ audit' = audit
        BY <1>2, NotStarted, StartEffect, SpawnEffect DEF tables
    <2>2. ~Audited(r, "scan.failed") /\ ~Audited(r, "scan.finish")
        BY <2>1 DEF EndStory
    <2>3. CASE Starts(r)
        BY <2>1, <2>2, <2>3, StartEffect DEF EndStory, Audited
    <2>4. CASE Spawns(r)
        <3>1. v.pc = "next" /\ runs' = runs
            BY <2>4, SpawnEffect DEF tables
        <3>2. Present(r) => runs[r].status = "running"
            BY <2>1 DEF EndStory
        <3> QED BY <2>1, <2>2, <3>1, <3>2 DEF EndStory, Audited, Present
    <2> QED BY <1>2, <2>3, <2>4
<1>3. CASE ~WorkerStep(r) /\ ~Starts(r) /\ ~Spawns(r)
    <2>1. CASE w' = w
        <3>1. Present(r)' => Present(r) /\ runs'[r].status = runs[r].status
            BY <1>3, StoryStep DEF SameRecords
        <3>2. ~Present(r)' => runs'[r].status = "absent"
            BY DEF Present
        <3> QED BY <1>3, <2>1, <3>1, <3>2, StoryStep DEF EndStory, SameStory
    <2>2. CASE Live(r) /\ Jumps(r, "end") /\ UNCHANGED tables
        <3>1. v.pc = "end" /\ v.kind = w.kind
            BY <2>2, JumpFields
        <3> QED BY <1>0, <2>2, <3>1 DEF EndStory, Audited, Present, tables
    <2> QED BY <1>3, <2>1, <2>2, StoryStep
<1> QED BY <1>1, <1>2, <1>3

\* Undo clears a flag of a row and no more.
LEMMA RevertedFields ==
    ASSUME TablesTyped, NEW r \in RunIds
    PROVE  /\ \A x \in RowsOf(r) : LET y == [x EXCEPT !.success = FALSE] IN
                 /\ y \in Reverted(RowsOf(r))
                 /\ y.asset = x.asset /\ y.step = x.step /\ y.name = x.name
           /\ \A y \in Reverted(RowsOf(r)) : \E x \in RowsOf(r) :
                 /\ y = [x EXCEPT !.success = FALSE]
                 /\ y.asset = x.asset /\ y.step = x.step /\ y.name = x.name
BY DEF Reverted, RowsOf, TablesTyped

\* What a thread's write leaves of the rows of its run: one action row more, or
\* the same rows.
LEMMA RowsStep ==
    ASSUME Consistent, NEW r \in RunIds, WorkerStep(r)
    PROVE  LET w == workers[r] IN
           /\ RecordAction(r) =>
                 RowsOf(r)' = RowsOf(r) \cup {ActionRow(r, w.asset, Len(w.plan), Head(w.plan))}
           /\ ~RecordAction(r) => RowsOf(r)' = RowsOf(r)
           /\ RecordError(r) =>
                 ErrorsOf(r)' = ErrorsOf(r) \cup {ErrorRow(r, w.asset, Len(w.errors), Head(w.errors))}
           /\ ~RecordError(r) => ErrorsOf(r)' = ErrorsOf(r)
<1>1. ASSUME RecordAction(r)
      PROVE  /\ errorRows' = errorRows
             /\ RowsOf(r)' = RowsOf(r) \cup {ActionRow(r, workers[r].asset, Len(workers[r].plan),
                                                       Head(workers[r].plan))}
    <2> DEFINE row == ActionRow(r, workers[r].asset, Len(workers[r].plan), Head(workers[r].plan))
    <2>1. actionRows' = actionRows \cup {row} /\ errorRows' = errorRows
        BY <1>1 DEF RecordAction
    <2>2. row.run = r
        BY DEF ActionRow
    <2> HIDE DEF row
    <2>3. RowsOf(r)' = RowsOf(r) \cup {row}
        BY <2>1, <2>2 DEF RowsOf
    <2> QED BY <2>1, <2>3 DEF row
<1>2. ASSUME RecordError(r)
      PROVE  /\ actionRows' = actionRows
             /\ ErrorsOf(r)' = ErrorsOf(r) \cup {ErrorRow(r, workers[r].asset, Len(workers[r].errors),
                                                          Head(workers[r].errors))}
    <2> DEFINE row == ErrorRow(r, workers[r].asset, Len(workers[r].errors), Head(workers[r].errors))
    <2>1. errorRows' = errorRows \cup {row} /\ actionRows' = actionRows
        BY <1>2 DEF RecordError
    <2>2. row.run = r
        BY DEF ErrorRow
    <2> HIDE DEF row
    <2>3. ErrorsOf(r)' = ErrorsOf(r) \cup {row}
        BY <2>1, <2>2 DEF ErrorsOf
    <2> QED BY <2>1, <2>3 DEF row
<1>3. ~RecordAction(r) => actionRows' = actionRows
    BY DEF WorkerStep, UpsertAsset, RecordError, RecordAnalysis, AuditLock, AuditFinish, FinishRun,
       RunnerRaises, AuditFailure, FailRun, RunnerDies, tables
<1>4. ~RecordError(r) => errorRows' = errorRows
    BY DEF WorkerStep, UpsertAsset, RecordAction, RecordAnalysis, AuditLock, AuditFinish, FinishRun,
       RunnerRaises, AuditFailure, FailRun, RunnerDies, tables
<1>5. actionRows' = actionRows => RowsOf(r)' = RowsOf(r)
    BY DEF RowsOf
<1>6. errorRows' = errorRows => ErrorsOf(r)' = ErrorsOf(r)
    BY DEF ErrorsOf
<1> QED BY <1>1, <1>2, <1>3, <1>4, <1>5, <1>6

LEMMA LockAuditedStays ==
    ASSUME Consistent, [Next]_vars, NEW r \in RunIds, NEW a \in Assets, LockAudited(r, a)
    PROVE  LockAudited(r, a)'
<1>1. CASE WorkerStep(r)
    BY <1>1 DEF WorkerStep, UpsertAsset, RecordError, RecordAnalysis, RecordAction, AuditLock,
       AuditFinish, FinishRun, RunnerRaises, AuditFailure, FailRun, RunnerDies, tables, LockAudited
<1>2. CASE Starts(r) \/ Spawns(r)
    BY <1>2, StartEffect, SpawnEffect DEF tables, LockAudited
<1> QED BY <1>1, <1>2, StoryStep DEF SameStory

LEMMA NextLockStory ==
    ASSUME Consistent, [Next]_vars, NEW r \in RunIds, LockStory(r), EndStory(r)
    PROVE  LockStory(r)'
<1> USE DEF Consistent, WellFormed, TypeOK
<1> DEFINE w == workers[r]
           v == workers'[r]
<1>0. \A x \in RowsOf(r) : x.asset \in Assets /\ Present(r)
    BY DEF RowsOf, TablesTyped, RowsOwned
<1>a. Live(r) /\ Present(r) => runs[r].status = "running" /\ w.user \in users
    BY DEF OwnInv, WorkerOwnsRun, Executing, RowOwner
<1>1. CASE WorkerStep(r)
    <2>0. w.pc \in InTry \cup InExcept
        BY <1>1 DEF WorkerStep, UpsertAsset, RecordError, RecordAnalysis, RecordAction, AuditLock,
           AuditFinish, FinishRun, RunnerRaises, AuditFailure, FailRun, RunnerDies, InTry, InExcept
    <2>1. \A x \in RowsOf(r) : x.name = "lock" =>
             LockAudited(r, x.asset) \/ (w.pc = "lockAudit" /\ w.asset = x.asset)
        BY <2>0 DEF LockStory, InTry, InExcept
    <2>2. CASE RecordAction(r)
        <3> DEFINE row == ActionRow(r, w.asset, Len(w.plan), Head(w.plan))
        <3>1. row.asset = w.asset /\ row.name = Head(w.plan)
            BY DEF ActionRow
        <3>2. Head(w.plan) = "lock" => v.pc = "lockAudit" /\ v.asset = w.asset
            BY <2>2, ActionFields
        <3>3. \A x \in RowsOf(r)' : x \in RowsOf(r) \/ x = row
            BY <1>1, <2>2, RowsStep
        <3>4. w.pc # "lockAudit"
            BY <2>2 DEF RecordAction
        <3> HIDE DEF row
        <3>5. \A x \in RowsOf(r) : x.name = "lock" => LockAudited(r, x.asset)'
            BY <1>0, <2>1, <3>4, LockAuditedStays
        <3> QED BY <3>1, <3>2, <3>3, <3>5 DEF LockStory
    <2>3. CASE AuditLock(r)
        <3> DEFINE row == AuditRow(w.user, "asset.locked.attempt", r, w.asset)
        <3>1. row.run = r /\ row.asset = w.asset /\ row \in audit'
            BY <2>3 DEF AuditRow, AuditLock
        <3> HIDE DEF row
        <3>2. \A a \in Assets : a = w.asset => LockAudited(r, a)'
            BY <3>1 DEF LockAudited
        <3>3. RowsOf(r)' = RowsOf(r)
            BY <2>3 DEF AuditLock, RowsOf
        <3>4. \A x \in RowsOf(r) : x.name = "lock" => LockAudited(r, x.asset)'
            BY <1>0, <2>1, <3>2, LockAuditedStays
        <3> QED BY <3>3, <3>4 DEF LockStory
    <2>4. CASE ~RecordAction(r) /\ ~AuditLock(r)
        <3>1. w.pc = "lockAudit" => ~Present(r)
            BY <1>1, <1>a, <2>0, <2>4 DEF WorkerStep, UpsertAsset, RecordError, RecordAnalysis,
               AuditFinish, FinishRun, RunnerRaises, AuditFailure, FailRun, RunnerDies, WriteAllowed,
               Live, InExcept
        <3>2. RowsOf(r)' = RowsOf(r)
            BY <1>1, <2>4, RowsStep
        <3>3. \A x \in RowsOf(r) : x.name = "lock" => LockAudited(r, x.asset)'
            BY <1>0, <2>1, <3>1, LockAuditedStays
        <3> QED BY <3>2, <3>3 DEF LockStory
    <2> QED BY <2>2, <2>3, <2>4
<1>2. CASE Starts(r) \/ Spawns(r)
    <2>1. w.pc = "none" /\ actionRows' = actionRows
        BY <1>2, NotStarted, StartEffect, SpawnEffect DEF tables
    <2>2. \A x \in RowsOf(r) : x.name = "lock" => LockAudited(r, x.asset)'
        BY <1>0, <2>1, LockAuditedStays DEF LockStory
    <2> QED BY <2>1, <2>2 DEF LockStory, RowsOf
<1>3. CASE ~WorkerStep(r) /\ ~Starts(r) /\ ~Spawns(r)
    <2>1. CASE ~Present(r)'
        <3>1. RowsOf(r)' = {}
            BY <2>1, NextRows, NextWellFormed DEF RowsOf, RowsOwned
        <3> QED BY <3>1 DEF LockStory
    <2>2. CASE Present(r)'
        <3>1. SameRecords(r)
            BY <1>3, <2>2, StoryStep
        <3>2. \A y \in RowsOf(r)' : \E x \in RowsOf(r) : y.asset = x.asset /\ y.name = x.name
            BY <3>1, RevertedFields DEF SameRecords
        <3>3. \A x \in RowsOf(r) : x.name = "lock" =>
                 \/ LockAudited(r, x.asset)'
                 \/ w.pc = "lockAudit" /\ w.asset = x.asset
                 \/ w.pc = "end" /\ runs[r].status = "running"
            BY <1>0, LockAuditedStays DEF LockStory
        <3>4. CASE v = w
            BY <3>1, <3>2, <3>3, <3>4 DEF LockStory, SameRecords
        <3>5. CASE Live(r) /\ Jumps(r, "end") /\ UNCHANGED tables
            <4>1. v.pc = "end" /\ v.asset = w.asset
                BY <3>5, JumpFields
            <4>2. RowsOf(r) # {} => runs'[r].status = "running"
                BY <1>0, <1>a, <3>5 DEF tables
            <4>3. RowsOf(r)' = RowsOf(r)
                BY <3>5 DEF tables, RowsOf
            <4> QED BY <4>1, <4>2, <4>3 DEF LockStory
        <3> QED BY <1>3, <3>4, <3>5, StoryStep
    <2> QED BY <2>1, <2>2
<1> QED BY <1>1, <1>2, <1>3

\* The audit log: every run that ended has its start, its own outcome and not
\* the other one, and every Locked Folder action.
THEOREM AuditTheorem == Spec => []AuditTrail
<1> DEFINE Story == \A r \in RunIds : StartStory(r) /\ EndStory(r) /\ LockStory(r)
<1>1. Init => Story
    BY DEF Init, StartStory, EndStory, LockStory, Audited, RowsOf, NoWorker, NoRow, IdleSlot, Present
<1>2. Consistent /\ Story /\ [Next]_vars => Story'
    BY NextStartStory, NextEndStory, NextLockStory
<1>3. Story => AuditTrail
    <2> SUFFICES ASSUME Story, NEW r \in RunIds, runs[r].status \in {"completed", "failed"}
                 PROVE  /\ Audited(r, "scan.start")
                        /\ runs[r].status = "completed" =>
                               Audited(r, "scan.finish") /\ ~Audited(r, "scan.failed")
                        /\ runs[r].status = "failed" /\ workers[r].kind = "real" =>
                               Audited(r, "scan.failed") /\ ~Audited(r, "scan.finish")
                        /\ \A x \in actionRows : x.run = r /\ x.name = "lock" =>
                               \E y \in audit : y.run = r /\ y.asset = x.asset
        BY DEF AuditTrail
    <2>1. Present(r) /\ workers[r].pc = "end"
        BY DEF Present, EndStory
    <2>2. \A x \in RowsOf(r) : x.name = "lock" => LockAudited(r, x.asset)
        BY <2>1 DEF LockStory
    <2> QED BY <2>1, <2>2 DEF StartStory, EndStory, RowsOf, LockAudited
<1> HIDE DEF Story
<1> QED BY <1>1, <1>2, <1>3, ConsistentAlways, PTL DEF Spec

-----------------------------------------------------------------------------
(* The summary of a run counts its rows.                                   *)

InAsset == {"errors", "analysis", "act", "lockAudit"}
AssetsOf(rows) == {x.asset : x \in rows}
OneRowPerStep(rows) == \A x, y \in rows : x.asset = y.asset /\ x.step = y.step => x = y

\* The assets a run is done with.
Handled(r) == AssetsOf(RowsOf(r)) \ (IF workers[r].pc \in InAsset THEN {workers[r].asset} ELSE {})

\* The rows of a run lie behind its thread: they are of assets it took, and of
\* its current asset only those of steps it has passed.
Behind(r) ==
    LET w == workers[r] IN
    /\ AssetsOf(RowsOf(r)) \cup AssetsOf(ErrorsOf(r)) \subseteq w.seen
    /\ w.pc \in InAsset => w.asset \in w.seen
    /\ \A x \in RowsOf(r) : x.asset = w.asset =>
          /\ w.pc \notin {"errors", "analysis"}
          /\ w.pc = "act" => x.step > Len(w.plan)
          /\ w.pc = "lockAudit" => x.step >= Len(w.plan)
    /\ w.pc = "lockAudit" => w.asset \in AssetsOf(RowsOf(r))
    /\ \A x \in ErrorsOf(r) : w.pc = "errors" /\ x.asset = w.asset => x.step > Len(w.errors)

Counted(r) ==
    LET w == workers[r] IN
    /\ w.actionCount = Cardinality(RowsOf(r))
    /\ w.errorCount = Cardinality(ErrorsOf(r))
    /\ w.processed = Cardinality(Handled(r))

\* The synthetic runner writes one action for each of its assets.
SyntheticTally(r) ==
    LET w == workers[r] IN w.kind = "synthetic" =>
        /\ w.pc \in {"next", "act", "finishRun"}
        /\ w.pc = "act" => w.plan = <<"tag">>
        /\ w.seen = Handled(r) \cup (IF w.pc = "act" THEN {w.asset} ELSE {})
        /\ w.seen \subseteq SyntheticAssets
        /\ w.actionCount = w.processed
        /\ w.pc = "finishRun" => w.seen = SyntheticAssets

Matches(r) ==
    LET s == runs[r].summary
    IN  IF s.kind = "real"
        THEN /\ s.actions = Cardinality(RowsOf(r))
             /\ s.errors = Cardinality(ErrorsOf(r))
             /\ s.processed = Cardinality(AssetsOf(RowsOf(r)))
        ELSE s.processed = Cardinality(RowsOf(r))

RowsCounted(r) ==
    /\ IsFiniteSet(RowsOf(r)) /\ IsFiniteSet(ErrorsOf(r)) /\ IsFiniteSet(AssetsOf(RowsOf(r)))
    /\ OneRowPerStep(RowsOf(r))

SumInv(r) ==
    /\ RowsCounted(r)
    /\ Present(r) /\ workers[r].pc \in InTry => Behind(r) /\ Counted(r) /\ SyntheticTally(r)
    /\ workers[r].pc = "none" => RowsOf(r) = {} /\ ErrorsOf(r) = {}
    /\ runs[r].status = "completed" => Matches(r)

\* The rows of a run whose account is not touched, as the counts see them.
SameRows(r) ==
    /\ ErrorsOf(r)' = ErrorsOf(r)
    /\ Cardinality(RowsOf(r))' = Cardinality(RowsOf(r))
    /\ AssetsOf(RowsOf(r))' = AssetsOf(RowsOf(r))
    /\ \A y \in RowsOf(r)' : \E x \in RowsOf(r) : y.asset = x.asset /\ y.step = x.step
    /\ RowsCounted(r)'

LEMMA RevertedRows ==
    ASSUME TablesTyped, NEW r \in RunIds, RowsCounted(r), RowsOf(r)' = Reverted(RowsOf(r)),
           ErrorsOf(r)' = ErrorsOf(r)
    PROVE  SameRows(r)
<1> DEFINE S == RowsOf(r)
           T == Reverted(RowsOf(r))
           f == [x \in S |-> [x EXCEPT !.success = FALSE]]
<1>1. \A x \in S : f[x] \in T /\ f[x].asset = x.asset /\ f[x].step = x.step
    BY RevertedFields
<1>2. \A y \in T : \E x \in S : y = f[x]
    BY RevertedFields
<1>3. f \in [S -> T]
    BY <1>1
<1> HIDE DEF S, T, f
<1>4. \A x, y \in S : f[x] = f[y] => x = y
    BY <1>1 DEF RowsCounted, OneRowPerStep, S
<1>5. ExistsBijection(S, T)
    BY <1>2, <1>3, <1>4 DEF ExistsBijection, Bijection, Injection, Surjection, IsInjective
<1>6. IsFiniteSet(T) /\ Cardinality(T) = Cardinality(S)
    BY <1>5, FS_Bijection DEF RowsCounted, S
<1>7. \A y \in T : \E x \in S : y = f[x] /\ y.asset = x.asset /\ y.step = x.step
    BY <1>1, <1>2
<1>8. AssetsOf(T) = AssetsOf(S)
    BY <1>1, <1>7 DEF AssetsOf
<1>9. OneRowPerStep(T)
    <2> SUFFICES ASSUME NEW y \in T, NEW z \in T, y.asset = z.asset, y.step = z.step
                 PROVE  y = z
        BY DEF OneRowPerStep
    <2>1. PICK a \in S : y = f[a] /\ y.asset = a.asset /\ y.step = a.step
        BY <1>7
    <2>2. PICK b \in S : z = f[b] /\ z.asset = b.asset /\ z.step = b.step
        BY <1>7
    <2> QED BY <2>1, <2>2 DEF RowsCounted, OneRowPerStep, S
<1>10. RowsCounted(r)'
    BY <1>6, <1>8, <1>9 DEF RowsCounted, S, T
<1> QED BY <1>6, <1>7, <1>8, <1>10 DEF SameRows, S, T

LEMMA RecordsKept ==
    ASSUME TablesTyped, NEW r \in RunIds, RowsCounted(r), SameRecords(r)
    PROVE  SameRows(r)
<1>1. CASE RowsOf(r)' = RowsOf(r)
    BY <1>1 DEF SameRecords, SameRows, RowsCounted, AssetsOf, OneRowPerStep
<1>2. CASE RowsOf(r)' = Reverted(RowsOf(r))
    BY <1>2, RevertedRows DEF SameRecords
<1> QED BY <1>1, <1>2 DEF SameRecords

\* One action row more.
LEMMA RowAdded ==
    ASSUME NEW r \in RunIds, NEW row, RowsCounted(r), ErrorsOf(r)' = ErrorsOf(r),
           RowsOf(r)' = RowsOf(r) \cup {row},
           \A x \in RowsOf(r) : ~(x.asset = row.asset /\ x.step = row.step)
    PROVE  /\ RowsCounted(r)'
           /\ Cardinality(RowsOf(r)') = Cardinality(RowsOf(r)) + 1
           /\ AssetsOf(RowsOf(r)') = AssetsOf(RowsOf(r)) \cup {row.asset}
<1>1. row \notin RowsOf(r)
    OBVIOUS
<1>2. AssetsOf(RowsOf(r)') = AssetsOf(RowsOf(r)) \cup {row.asset}
    BY DEF AssetsOf
<1>3. IsFiniteSet(RowsOf(r)') /\ Cardinality(RowsOf(r)') = Cardinality(RowsOf(r)) + 1
    BY <1>1, FS_AddElement DEF RowsCounted
<1>4. IsFiniteSet(AssetsOf(RowsOf(r)'))
    <2>1. IsFiniteSet(AssetsOf(RowsOf(r)) \cup {row.asset})
        BY FS_AddElement DEF RowsCounted
    <2> QED BY <1>2, <2>1
<1>5. OneRowPerStep(RowsOf(r)')
    <2> SUFFICES ASSUME NEW x \in RowsOf(r)', NEW y \in RowsOf(r)',
                        x.asset = y.asset, x.step = y.step
                 PROVE  x = y
        BY DEF OneRowPerStep
    <2>1. CASE x \in RowsOf(r) /\ y \in RowsOf(r)
        BY <2>1 DEF RowsCounted, OneRowPerStep
    <2>2. CASE x = row \/ y = row
        BY <2>2
    <2> QED BY <2>1, <2>2
<1> QED BY <1>2, <1>3, <1>4, <1>5 DEF RowsCounted

Tally(r) == Behind(r) /\ Counted(r) /\ SyntheticTally(r)

\* A step that writes no row and stays outside the actions of an asset.
LEMMA TallyKept ==
    ASSUME NEW r \in RunIds, Tally(r), RowsOf(r)' = RowsOf(r), ErrorsOf(r)' = ErrorsOf(r),
           NEW pc, Jumps(r, pc), Consistent,
           \/ workers[r].pc = "analysis" /\ pc = "act"
           \/ /\ workers[r].pc = "next" /\ pc = "finishRun"
              /\ workers[r].kind = "synthetic" => SyntheticAssets \subseteq workers[r].seen
    PROVE  Tally(r)'
<1> DEFINE w == workers[r]
           v == workers'[r]
<1>1. /\ v.pc = pc
      /\ v.plan = w.plan /\ v.seen = w.seen /\ v.asset = w.asset /\ v.kind = w.kind
      /\ v.errors = w.errors /\ v.processed = w.processed
      /\ v.errorCount = w.errorCount /\ v.actionCount = w.actionCount
    BY JumpFields
<1>2. Handled(r)' = Handled(r)
    BY <1>1 DEF Handled, InAsset
<1>3. Behind(r)'
    BY <1>1 DEF Tally, Behind, InAsset
<1>4. Counted(r)'
    BY <1>1, <1>2 DEF Tally, Counted
<1>5. SyntheticTally(r)'
    BY <1>1, <1>2 DEF Tally, SyntheticTally
<1> QED BY <1>3, <1>4, <1>5 DEF Tally

LEMMA UpsertTally ==
    ASSUME Consistent, NEW r \in RunIds, UpsertAsset(r), Tally(r)
    PROVE  Tally(r)'
<1> DEFINE w == workers[r]
           v == workers'[r]
<1>0. w.pc = "next" /\ RowsOf(r)' = RowsOf(r) /\ ErrorsOf(r)' = ErrorsOf(r)
    BY DEF UpsertAsset, RowsOf, ErrorsOf
<1>1. PICK a \in Candidates(w), o \in OutcomesOf(w.kind) :
         /\ v.seen = w.seen \cup {a} /\ v.asset = a
         /\ v.classified = o.classified /\ v.errors = o.errors /\ v.plan = o.plan
         /\ v.kind = w.kind /\ v.processed = w.processed
         /\ v.errorCount = w.errorCount /\ v.actionCount = w.actionCount
         /\ v.pc \in {"errors", "analysis", "act"}
         /\ o.errors = <<>> /\ ~o.classified => v.pc = "act"
    BY UpsertFields
<1>2. a \notin w.seen
    BY DEF Candidates
<1>3. (\A x \in RowsOf(r) : x.asset # a) /\ (\A x \in ErrorsOf(r) : x.asset # a)
    BY <1>2 DEF Tally, Behind, AssetsOf
<1>4. Handled(r) = AssetsOf(RowsOf(r)) /\ Handled(r)' = AssetsOf(RowsOf(r))
    <2>1. a \notin AssetsOf(RowsOf(r))
        BY <1>3 DEF AssetsOf
    <2> QED BY <1>0, <1>1, <2>1 DEF Handled, InAsset
<1>5. Behind(r)'
    BY <1>0, <1>1, <1>3 DEF Tally, Behind, InAsset
<1>6. Counted(r)'
    BY <1>0, <1>1, <1>4 DEF Tally, Counted
<1>7. SyntheticTally(r)'
    <2> SUFFICES ASSUME w.kind = "synthetic"
                 PROVE  /\ v.pc = "act" /\ v.plan = <<"tag">>
                        /\ v.seen = Handled(r)' \cup {v.asset}
                        /\ v.seen \subseteq SyntheticAssets
                        /\ v.actionCount = v.processed
        BY <1>1 DEF SyntheticTally
    <2>1. o.errors = <<>> /\ o.classified = FALSE /\ o.plan = <<"tag">>
        BY DEF OutcomesOf, SyntheticOutcome
    <2>2. a \in SyntheticAssets
        BY DEF Candidates
    <2> QED BY <1>0, <1>1, <1>4, <2>1, <2>2 DEF Tally, SyntheticTally
<1> QED BY <1>5, <1>6, <1>7 DEF Tally

LEMMA ErrorTally ==
    ASSUME Consistent, NEW r \in RunIds, RecordError(r), WorkerStep(r), Tally(r), RowsCounted(r)
    PROVE  Tally(r)' /\ RowsCounted(r)'
<1> DEFINE w == workers[r]
           v == workers'[r]
           row == ErrorRow(r, w.asset, Len(w.errors), Head(w.errors))
<1>0. /\ w.pc = "errors" /\ w.errors # <<>> /\ w.errors \in Seq(ErrorStages)
      /\ w.errorCount \in Nat /\ ~RecordAction(r)
    BY DEF RecordError, RecordAction, Consistent, WellFormed, TypeOK, WorkerInv, WorkerOK, Worker
<1>1. RowsOf(r)' = RowsOf(r) /\ ErrorsOf(r)' = ErrorsOf(r) \cup {row}
    BY <1>0, RowsStep
<1>2. row.asset = w.asset /\ row.step = Len(w.errors)
    BY DEF ErrorRow
<1> HIDE DEF row
<1>3. /\ v.errors = Tail(w.errors) /\ v.errorCount = w.errorCount + 1
      /\ v.plan = w.plan /\ v.seen = w.seen /\ v.asset = w.asset /\ v.kind = w.kind
      /\ v.processed = w.processed /\ v.actionCount = w.actionCount
      /\ v.pc \in {"next", "errors", "analysis", "act"}
    BY ErrorFields
<1>4. \A x \in ErrorsOf(r) : x.step \in Nat /\ (x.asset = w.asset => x.step > Len(w.errors))
    BY <1>0 DEF Tally, Behind, ErrorsOf, Consistent, WellFormed, TypeOK, TablesTyped
<1>5. /\ IsFiniteSet(ErrorsOf(r)')
      /\ Cardinality(ErrorsOf(r)') = Cardinality(ErrorsOf(r)) + 1
    <2>1. row \notin ErrorsOf(r)
        BY <1>0, <1>2, <1>4, LenProperties
    <2> QED BY <1>1, <2>1, FS_AddElement DEF RowsCounted
<1>6. \A x \in RowsOf(r) : x.asset # w.asset
    BY <1>0 DEF Tally, Behind
<1>7. Handled(r) = AssetsOf(RowsOf(r)) /\ Handled(r)' = AssetsOf(RowsOf(r))
    <2>1. w.asset \notin AssetsOf(RowsOf(r))
        BY <1>6 DEF AssetsOf
    <2> QED BY <1>1, <1>3, <2>1 DEF Handled
<1>8. Behind(r)'
    <2>1. Len(v.errors) = Len(w.errors) - 1 /\ Len(w.errors) \in Nat
        BY <1>0, <1>3, HeadTailProperties, LenProperties
    <2>2. \A x \in ErrorsOf(r)' : x.asset = w.asset => x.step > Len(v.errors)
        BY <1>1, <1>2, <1>4, <2>1
    <2>3. AssetsOf(ErrorsOf(r)') \subseteq w.seen /\ w.asset \in w.seen
        BY <1>0, <1>1, <1>2 DEF AssetsOf, Tally, Behind, InAsset
    <2> QED BY <1>1, <1>3, <1>6, <2>2, <2>3 DEF Tally, Behind
<1>9. Counted(r)'
    BY <1>1, <1>3, <1>5, <1>7 DEF Tally, Counted
<1>10. SyntheticTally(r)'
    BY <1>0, <1>3 DEF Tally, SyntheticTally
<1>11. RowsCounted(r)'
    BY <1>1, <1>5 DEF RowsCounted
<1> QED BY <1>8, <1>9, <1>10, <1>11 DEF Tally

\* An action of the plan is done with; the last one makes the asset handled.
LEMMA AdvanceTally ==
    ASSUME Consistent, NEW r \in RunIds, Advances(workers[r], workers'[r]),
           workers'[r].asset = workers[r].asset, workers[r].plan # <<>>,
           workers[r].pc \in {"act", "lockAudit"}, RowsCounted(r), Counted(r),
           AssetsOf(RowsOf(r)') = Handled(r) \cup {workers[r].asset},
           \A x \in RowsOf(r)' : x.step \in Nat /\
               (x.asset = workers[r].asset => x.step >= Len(workers[r].plan))
    PROVE  /\ workers'[r].pc = (IF workers'[r].plan = <<>> THEN "next" ELSE "act")
           /\ workers'[r].processed = Cardinality(Handled(r)')
           /\ Handled(r)' = IF workers'[r].plan = <<>> THEN Handled(r) \cup {workers[r].asset}
                            ELSE Handled(r)
           /\ \A x \in RowsOf(r)' : x.asset = workers[r].asset => x.step > Len(workers'[r].plan)
<1> DEFINE w == workers[r]
           v == workers'[r]
           H == Handled(r)
<1>0. w.plan \in Seq(ActionNames) /\ w.processed \in Nat
    BY DEF Consistent, WellFormed, TypeOK, Worker
<1>1. v.pc = (IF v.plan = <<>> THEN "next" ELSE "act")
    BY DEF Advances, AfterAct
<1>2. w.asset \notin H
    BY DEF Handled, InAsset
<1>3. Handled(r)' = IF v.plan = <<>> THEN H \cup {w.asset} ELSE H
    BY <1>1, <1>2 DEF Handled, InAsset
<1>4. IsFiniteSet(H)
    BY FS_Subset DEF RowsCounted, Handled
<1>5. v.processed = Cardinality(Handled(r)')
    <2>1. Cardinality(H \cup {w.asset}) = w.processed + 1
        BY <1>2, <1>4, FS_AddElement DEF Counted
    <2> QED BY <1>3, <2>1 DEF Counted, Advances
<1>6. Len(v.plan) = Len(w.plan) - 1 /\ Len(w.plan) \in Nat
    BY <1>0, HeadTailProperties, LenProperties DEF Advances
<1>7. \A x \in RowsOf(r)' : x.asset = w.asset => x.step > Len(v.plan)
    BY <1>6
<1> QED BY <1>1, <1>3, <1>5, <1>7

LEMMA ActionTally ==
    ASSUME Consistent, NEW r \in RunIds, RecordAction(r), WorkerStep(r), Tally(r), RowsCounted(r)
    PROVE  Tally(r)' /\ RowsCounted(r)'
<1> DEFINE w == workers[r]
           v == workers'[r]
           row == ActionRow(r, w.asset, Len(w.plan), Head(w.plan))
           H == Handled(r)
<1>0. /\ w.pc = "act" /\ w.plan # <<>> /\ w.plan \in Seq(ActionNames)
      /\ w.actionCount \in Nat /\ ~RecordError(r) /\ Len(w.plan) \in Nat
    BY DEF RecordError, RecordAction, Consistent, WellFormed, TypeOK, WorkerInv, WorkerOK, Worker
<1>1. RowsOf(r)' = RowsOf(r) \cup {row} /\ ErrorsOf(r)' = ErrorsOf(r)
    BY <1>0, RowsStep
<1>2. row.asset = w.asset /\ row.step = Len(w.plan)
    BY DEF ActionRow
<1> HIDE DEF row
<1>3. \A x \in RowsOf(r) : x.step \in Nat /\ (x.asset = w.asset => x.step > Len(w.plan))
    BY <1>0 DEF Tally, Behind, RowsOf, Consistent, WellFormed, TypeOK, TablesTyped
<1>4. \A x \in RowsOf(r) : ~(x.asset = row.asset /\ x.step = row.step)
    BY <1>0, <1>2, <1>3
<1>5. /\ RowsCounted(r)'
      /\ Cardinality(RowsOf(r)') = Cardinality(RowsOf(r)) + 1
      /\ AssetsOf(RowsOf(r)') = AssetsOf(RowsOf(r)) \cup {w.asset}
    BY <1>1, <1>2, <1>4, RowAdded
<1>6. AssetsOf(RowsOf(r)') = H \cup {w.asset} /\ w.asset \notin H
    BY <1>0, <1>5 DEF Handled, InAsset
<1>7. \A x \in RowsOf(r)' : x.step \in Nat /\ (x.asset = w.asset => x.step >= Len(w.plan))
    BY <1>0, <1>1, <1>2, <1>3
<1>8. /\ v.actionCount = w.actionCount + 1
      /\ v.seen = w.seen /\ v.asset = w.asset /\ v.kind = w.kind /\ v.errors = w.errors
      /\ v.errorCount = w.errorCount
    BY ActionFields
<1>9. w.asset \in w.seen /\ AssetsOf(RowsOf(r)') \cup AssetsOf(ErrorsOf(r)') \subseteq v.seen
    BY <1>0, <1>1, <1>5, <1>8 DEF Tally, Behind, InAsset
<1>10. CASE Head(w.plan) = "lock"
    <2>1. v.plan = w.plan /\ v.pc = "lockAudit" /\ v.processed = w.processed
        BY <1>10, ActionFields
    <2>2. Handled(r)' = H
        BY <1>6, <1>8, <2>1 DEF Handled, InAsset
    <2>3. Behind(r)'
        BY <1>6, <1>7, <1>8, <1>9, <2>1 DEF Behind
    <2>4. Counted(r)'
        BY <1>1, <1>5, <1>8, <2>1, <2>2 DEF Tally, Counted
    <2>5. w.kind # "synthetic"
        <3>1. Head(<<"tag">>) = "tag"
            OBVIOUS
        <3> QED BY <1>0, <1>10, <3>1 DEF Tally, SyntheticTally
    <2> QED BY <1>5, <1>8, <2>3, <2>4, <2>5 DEF Tally, SyntheticTally
<1>11. CASE Head(w.plan) # "lock"
    <2>1. Advances(w, v)
        BY <1>11, ActionFields
    <2>2. /\ v.pc = (IF v.plan = <<>> THEN "next" ELSE "act")
          /\ v.processed = Cardinality(Handled(r)')
          /\ Handled(r)' = IF v.plan = <<>> THEN H \cup {w.asset} ELSE H
          /\ \A x \in RowsOf(r)' : x.asset = w.asset => x.step > Len(v.plan)
        BY <1>0, <1>6, <1>7, <1>8, <2>1, AdvanceTally DEF Tally
    <2>3. Behind(r)'
        BY <1>7, <1>8, <1>9, <2>2 DEF Behind, InAsset
    <2>4. Counted(r)'
        BY <1>1, <1>5, <1>8, <2>2 DEF Tally, Counted
    <2>5. SyntheticTally(r)'
        <3> SUFFICES ASSUME w.kind = "synthetic"
                     PROVE  /\ v.pc = "next" /\ v.seen = Handled(r)'
                            /\ v.seen \subseteq SyntheticAssets
                            /\ v.actionCount = v.processed
            BY <1>8 DEF SyntheticTally
        <3>1. w.plan = <<"tag">> /\ Tail(<<"tag">>) = <<>>
            BY <1>0 DEF Tally, SyntheticTally
        <3>2. v.plan = <<>> /\ v.processed = w.processed + 1
            BY <2>1, <3>1 DEF Advances
        <3> QED BY <1>0, <1>8, <2>2, <3>2 DEF Tally, SyntheticTally
    <2> QED BY <1>5, <2>3, <2>4, <2>5 DEF Tally
<1> QED BY <1>10, <1>11

LEMMA LockTally ==
    ASSUME Consistent, NEW r \in RunIds, AuditLock(r), Tally(r), RowsCounted(r)
    PROVE  Tally(r)'
<1> DEFINE w == workers[r]
           v == workers'[r]
           H == Handled(r)
<1>0. /\ w.pc = "lockAudit" /\ w.plan # <<>> /\ w.plan \in Seq(ActionNames)
      /\ RowsOf(r)' = RowsOf(r) /\ ErrorsOf(r)' = ErrorsOf(r)
    BY DEF AuditLock, RowsOf, ErrorsOf, Consistent, WellFormed, TypeOK, WorkerInv, WorkerOK, Worker
<1>1. AssetsOf(RowsOf(r)') = H \cup {w.asset}
    BY <1>0 DEF Handled, InAsset, Tally, Behind
<1>2. \A x \in RowsOf(r)' : x.step \in Nat /\ (x.asset = w.asset => x.step >= Len(w.plan))
    BY <1>0 DEF Tally, Behind, RowsOf, Consistent, WellFormed, TypeOK, TablesTyped
<1>3. /\ Advances(w, v)
      /\ v.seen = w.seen /\ v.asset = w.asset /\ v.kind = w.kind /\ v.errors = w.errors
      /\ v.errorCount = w.errorCount /\ v.actionCount = w.actionCount
    BY LockFields
<1>4. /\ v.pc = (IF v.plan = <<>> THEN "next" ELSE "act")
      /\ v.processed = Cardinality(Handled(r)')
      /\ \A x \in RowsOf(r)' : x.asset = w.asset => x.step > Len(v.plan)
    BY <1>0, <1>1, <1>2, <1>3, AdvanceTally DEF Tally
<1>5. Behind(r)'
    BY <1>0, <1>3, <1>4 DEF Tally, Behind, InAsset
<1>6. Counted(r)'
    BY <1>0, <1>3, <1>4 DEF Tally, Counted
<1>7. SyntheticTally(r)'
    BY <1>0, <1>3 DEF Tally, SyntheticTally
<1> QED BY <1>5, <1>6, <1>7 DEF Tally

LEMMA FinishMatches ==
    ASSUME Consistent, NEW r \in RunIds, FinishRun(r), Tally(r)
    PROVE  Matches(r)'
<1> DEFINE w == workers[r]
           s == Summary(w)
<1>0. /\ w.pc = "finishRun" /\ w.kind \in {"real", "synthetic"}
      /\ RowsOf(r)' = RowsOf(r) /\ ErrorsOf(r)' = ErrorsOf(r)
    BY DEF FinishRun, RowsOf, ErrorsOf, Consistent, WellFormed, WorkerInv, WorkerOK, InTry
<1>1. runs' = [runs EXCEPT ![r].status = "completed", ![r].summary = s]
    BY DEF FinishRun
<1>2. Handled(r) = AssetsOf(RowsOf(r))
    BY <1>0 DEF Handled, InAsset
<1>3. CASE w.kind = "real"
    <2>1. s.kind = "real" /\ s.processed = w.processed /\ s.errors = w.errorCount
          /\ s.actions = w.actionCount
        BY <1>3 DEF Summary
    <2> HIDE DEF s
    <2>2. runs'[r].summary = s
        BY <1>1 DEF Consistent, WellFormed, TypeOK, TablesTyped, Row
    <2> QED BY <1>0, <1>2, <2>1, <2>2 DEF Tally, Counted, Matches
<1>4. CASE w.kind = "synthetic"
    <2>1. s.kind = "synthetic" /\ s.processed = Cardinality(SyntheticAssets)
        BY <1>4 DEF Summary
    <2> HIDE DEF s
    <2>2. runs'[r].summary = s
        BY <1>1 DEF Consistent, WellFormed, TypeOK, TablesTyped, Row
    <2>3. Handled(r) = SyntheticAssets /\ w.actionCount = w.processed
        BY <1>0, <1>4 DEF Tally, SyntheticTally
    <2> QED BY <1>0, <2>1, <2>2, <2>3 DEF Tally, Counted, Matches
<1> QED BY <1>0, <1>3, <1>4

LEMMA WorkerSum ==
    ASSUME Consistent, NEW r \in RunIds, WorkerStep(r), SumInv(r), Present(r)
    PROVE  SumInv(r)'
<1> DEFINE w == workers[r]
           v == workers'[r]
<1>0. w.pc \in InTry \cup InExcept /\ runs[r].status = "running"
    <2>1. w.pc \in InTry \cup InExcept
        BY DEF WorkerStep, UpsertAsset, RecordError, RecordAnalysis, RecordAction, AuditLock,
           AuditFinish, FinishRun, RunnerRaises, AuditFailure, FailRun, RunnerDies, InTry, InExcept
    <2> QED BY <2>1 DEF Consistent, OwnInv, WorkerOwnsRun, Executing, Live
<1>1. w.pc \in InTry => Tally(r)
    BY DEF SumInv, Tally
<1>2. CASE UpsertAsset(r) \/ RecordError(r) \/ RecordAnalysis(r) \/ RecordAction(r)
           \/ AuditLock(r) \/ AuditFinish(r)
    <2>1. /\ w.pc \in InTry /\ runs' = runs
        BY <1>2 DEF UpsertAsset, RecordError, RecordAnalysis, RecordAction, AuditLock, AuditFinish,
           InTry
    <2>2. v.pc # "none"
        BY <1>2, UpsertFields, ErrorFields, ActionFields, LockFields, OtherFields, JumpFields
           DEF Advances, AfterAct
    <2>3. Tally(r)' /\ RowsCounted(r)'
        <3>1. CASE RecordError(r) \/ RecordAction(r)
            BY <1>1, <2>1, <3>1, ErrorTally, ActionTally DEF SumInv
        <3>2. CASE ~RecordError(r) /\ ~RecordAction(r)
            <4>1. RowsOf(r)' = RowsOf(r) /\ ErrorsOf(r)' = ErrorsOf(r)
                BY <3>2, RowsStep
            <4>2. RowsCounted(r)'
                BY <4>1 DEF SumInv, RowsCounted, OneRowPerStep, AssetsOf
            <4>3. CASE RecordAnalysis(r) \/ AuditFinish(r)
                <5>1. AuditFinish(r) /\ w.kind = "synthetic" => SyntheticAssets \subseteq w.seen
                    BY DEF AuditFinish, Candidates
                <5>2. PICK pc : /\ Jumps(r, pc)
                                /\ \/ RecordAnalysis(r) /\ pc = "act"
                                   \/ AuditFinish(r) /\ pc = "finishRun"
                    BY <4>3, OtherFields
                <5>3. Tally(r)'
                    BY <1>1, <2>1, <4>1, <5>1, <5>2, TallyKept DEF RecordAnalysis, AuditFinish
                <5> QED BY <4>2, <5>3
            <4> QED BY <1>1, <1>2, <2>1, <3>2, <4>2, <4>3, UpsertTally, LockTally DEF SumInv
        <3> QED BY <3>1, <3>2
    <2> QED BY <1>0, <2>1, <2>2, <2>3 DEF SumInv, Tally
<1>3. CASE FinishRun(r) \/ RunnerRaises(r) \/ AuditFailure(r) \/ FailRun(r) \/ RunnerDies(r)
    <2>1. v.pc \in {"failAudit", "failRun", "end"}
        BY <1>3, OtherFields, JumpFields
    <2>2. ~RecordError(r) /\ ~RecordAction(r)
        BY <1>3 DEF FinishRun, RunnerRaises, AuditFailure, FailRun, RunnerDies,
           RecordError, RecordAction, WriteAllowed, InExcept
    <2>3. RowsCounted(r)'
        BY <2>2, RowsStep DEF SumInv, RowsCounted, OneRowPerStep, AssetsOf
    <2>4. runs'[r].status = "completed" => Matches(r)'
        <3>1. CASE FinishRun(r)
            BY <1>1, <3>1, FinishMatches DEF FinishRun, InTry
        <3>2. CASE FailRun(r)
            <4>1. runs'[r].status = "failed"
                BY <3>2 DEF FailRun, Consistent, WellFormed, TypeOK, TablesTyped, Row
            <4> QED BY <4>1
        <3>3. CASE runs' = runs
            BY <1>0, <3>3
        <3> QED BY <1>3, <3>1, <3>2, <3>3 DEF RunnerRaises, AuditFailure, RunnerDies, tables
    <2> QED BY <2>1, <2>3, <2>4 DEF SumInv, InTry
<1> QED BY <1>2, <1>3 DEF WorkerStep

LEMMA NextSum ==
    ASSUME Consistent, [Next]_vars, NEW r \in RunIds, SumInv(r)
    PROVE  SumInv(r)'
<1> DEFINE w == workers[r]
           v == workers'[r]
<1>0. ~Present(r) => RowsOf(r) = {} /\ ErrorsOf(r) = {}
    BY DEF Consistent, RowsOwned, RowsOf, ErrorsOf
<1>1. RowsOf(r)' = {} /\ ErrorsOf(r)' = {} => RowsCounted(r)'
    <2>1. \A S : S = {} => IsFiniteSet(S) /\ AssetsOf(S) = {} /\ OneRowPerStep(S)
        BY FS_EmptySet DEF AssetsOf, OneRowPerStep
    <2> QED BY <2>1, FS_EmptySet DEF RowsCounted
<1>2. CASE ~Present(r)'
    <2>1. RowsOf(r)' = {} /\ ErrorsOf(r)' = {}
        BY <1>2, NextRows DEF RowsOwned, RowsOf, ErrorsOf
    <2> QED BY <1>1, <1>2, <2>1 DEF SumInv, Present
<1>3. CASE Present(r)' /\ WorkerStep(r)
    <2>1. Present(r)
        BY <1>3 DEF WorkerStep, UpsertAsset, RecordError, RecordAnalysis, RecordAction, AuditLock,
           AuditFinish, FinishRun, RunnerRaises, AuditFailure, FailRun, RunnerDies, tables,
           WriteAllowed, Present
    <2> QED BY <1>3, <2>1, WorkerSum
<1>4. CASE Starts(r)
    <2>1. RowsOf(r)' = {} /\ ErrorsOf(r)' = {}
        BY <1>0, <1>4, NotStarted, StartEffect DEF RowsOf, ErrorsOf
    <2> QED BY <1>1, <1>4, <2>1, NotStarted, StartEffect DEF SumInv, InTry
<1>5. CASE Spawns(r) /\ Present(r)'
    <2>1. w.pc = "none" /\ RowsOf(r)' = {} /\ ErrorsOf(r)' = {} /\ runs' = runs
        BY <1>5, NotStarted, SpawnEffect DEF SumInv, RowsOf, ErrorsOf, tables
    <2>2. /\ v.pc = "next" /\ v.seen = {}
          /\ v.processed = 0 /\ v.errorCount = 0 /\ v.actionCount = 0
        BY <1>5, SpawnEffect
    <2>3. Handled(r)' = {} /\ AssetsOf(RowsOf(r)') = {} /\ AssetsOf(ErrorsOf(r)') = {}
        BY <2>1, <2>2 DEF Handled, AssetsOf
    <2>4. Behind(r)'
        BY <2>1, <2>2, <2>3 DEF Behind, InAsset
    <2>5. Counted(r)'
        BY <2>1, <2>2, <2>3, FS_EmptySet DEF Counted
    <2>6. SyntheticTally(r)'
        BY <2>2, <2>3 DEF SyntheticTally
    <2>7. Matches(r)' <=> Matches(r)
        BY <2>1, <1>5, NotStarted DEF Matches, AssetsOf, SumInv
    <2> QED BY <1>1, <2>1, <2>2, <2>4, <2>5, <2>6, <2>7 DEF SumInv
<1>6. CASE Present(r)' /\ ~WorkerStep(r) /\ ~Starts(r) /\ ~Spawns(r)
    <2>1. Present(r) /\ SameRecords(r)
        BY <1>6, StoryStep
    <2>2. SameRows(r)
        BY <2>1, RecordsKept DEF SumInv, Consistent, WellFormed, TypeOK
    <2>3. Matches(r) => Matches(r)'
        BY <2>1, <2>2 DEF Matches, SameRecords, SameRows
    <2>4. CASE v = w
        <3>1. Handled(r)' = Handled(r)
            BY <2>2, <2>4 DEF Handled, SameRows
        <3>2. Behind(r) => Behind(r)'
            BY <2>2, <2>4 DEF Behind, SameRows
        <3>3. Counted(r) => Counted(r)'
            BY <2>2, <2>4, <3>1 DEF Counted, SameRows
        <3>4. SyntheticTally(r) => SyntheticTally(r)'
            BY <2>4, <3>1 DEF SyntheticTally
        <3>5. v.pc = "none" => RowsOf(r)' = {} /\ ErrorsOf(r)' = {}
            BY <2>2, <2>4 DEF SameRows, SumInv
        <3> QED BY <2>1, <2>2, <2>3, <2>4, <3>2, <3>3, <3>4, <3>5
                DEF SumInv, SameRows, SameRecords
    <2>5. CASE Jumps(r, "end")
        <3>1. v.pc = "end"
            BY <2>5, JumpFields
        <3> QED BY <2>1, <2>2, <2>3, <3>1 DEF SumInv, SameRows, SameRecords, InTry
    <2> QED BY <1>6, <2>4, <2>5, StoryStep
<1> QED BY <1>2, <1>3, <1>4, <1>5, <1>6

LEMMA SumAlways == Spec => [](\A r \in RunIds : SumInv(r))
<1> DEFINE Inv == \A r \in RunIds : SumInv(r)
<1>1. Init => Inv
    <2> SUFFICES ASSUME Init, NEW r \in RunIds
                 PROVE  SumInv(r)
        OBVIOUS
    <2>1. RowsOf(r) = {} /\ ErrorsOf(r) = {} /\ AssetsOf(RowsOf(r)) = {} /\ runs[r].status = "absent"
        BY DEF Init, RowsOf, ErrorsOf, AssetsOf, NoRow
    <2> QED BY <2>1, FS_EmptySet DEF SumInv, RowsCounted, OneRowPerStep, Present
<1>2. Consistent /\ Inv /\ [Next]_vars => Inv'
    BY NextSum
<1> HIDE DEF Inv
<1>3. Spec => []Inv
    BY <1>1, <1>2, ConsistentAlways, PTL DEF Spec
<1> QED BY <1>3 DEF Inv

\* The summary of a completed run counts the rows the run left: every write is
\* counted once, none is written twice, and undo removes none.
THEOREM SummaryTheorem == Spec => []SummaryMatchesRows
<1>1. (\A r \in RunIds : SumInv(r)) => SummaryMatchesRows
    BY DEF SumInv, Matches, SummaryMatchesRows, RowsOf, ErrorsOf, AssetsOf
<1> QED BY <1>1, SumAlways, PTL

-----------------------------------------------------------------------------
(* The runs keep their contract.                                           *)

\* What is left of a plan is a part of one a policy may make.
PlanBounded(r) ==
    \E o \in Outcomes \cup {SyntheticOutcome} : Len(workers[r].plan) <= Len(o.plan)

AppliedOf(r) == {x \in actionRows : x.run = r /\ x.success}

LEMMA InitPlanBounded == Init => \A r \in RunIds : PlanBounded(r)
<1> SUFFICES ASSUME Init, NEW r \in RunIds
             PROVE  PlanBounded(r)
    OBVIOUS
<1>1. workers[r].plan = <<>> /\ SyntheticOutcome.plan = <<"tag">>
    BY DEF Init, NoWorker, SyntheticOutcome
<1>2. Len(<<>>) = 0 /\ Len(<<"tag">>) = 1
    OBVIOUS
<1> QED BY <1>1, <1>2 DEF PlanBounded

LEMMA NextPlanBounded ==
    ASSUME Consistent, [Next]_vars, NEW r \in RunIds, PlanBounded(r)
    PROVE  PlanBounded(r)'
<1> DEFINE w == workers[r]
           v == workers'[r]
<1>0. w.plan \in Seq(ActionNames) /\ v.plan \in Seq(ActionNames)
    BY NextWellFormed DEF Consistent, WellFormed, TypeOK, Worker
<1>1. CASE UpsertAsset(r)
    <2>1. PICK o \in OutcomesOf(w.kind) : v.plan = o.plan
        BY <1>1, UpsertFields
    <2>2. o \in Outcomes \cup {SyntheticOutcome} /\ Len(v.plan) \in Nat
        BY <1>0, LenProperties DEF OutcomesOf
    <2> QED BY <2>1, <2>2 DEF PlanBounded
<1>2. CASE v.plan = w.plan
    BY <1>2 DEF PlanBounded
<1>3. CASE Advances(w, v) /\ w.plan # <<>>
    <2>1. Len(v.plan) = Len(w.plan) - 1 /\ Len(w.plan) \in Nat
        BY <1>0, <1>3, HeadTailProperties, LenProperties DEF Advances
    <2>2. \A o \in Outcomes \cup {SyntheticOutcome} : Len(o.plan) \in Nat
        <3>1. <<"tag">> \in Seq(ActionNames) /\ SyntheticOutcome.plan = <<"tag">>
            BY DEF ActionNames, SyntheticOutcome
        <3> QED BY <3>1, ConstantsOK, LenProperties
    <2> QED BY <2>1, <2>2 DEF PlanBounded
<1>4. CASE WorkerStep(r)
    <2>1. RecordAction(r) \/ AuditLock(r) => w.plan # <<>>
        BY DEF RecordAction, AuditLock, Consistent, WellFormed, WorkerInv, WorkerOK
    <2> QED BY <1>1, <1>2, <1>3, <1>4, <2>1, ErrorFields, ActionFields, LockFields, OtherFields,
            JumpFields DEF WorkerStep
<1>5. CASE Starts(r)
    BY <1>2, <1>5, StartEffect
<1>6. CASE Spawns(r)
    <2>1. v.plan = <<>>
        BY <1>6, SpawnEffect
    <2>2. Len(<<>>) = 0 /\ Len(<<"tag">>) = 1
        OBVIOUS
    <2>3. SyntheticOutcome.plan = <<"tag">>
        BY DEF SyntheticOutcome
    <2> QED BY <2>1, <2>2, <2>3 DEF PlanBounded
<1> QED BY <1>2, <1>4, <1>5, <1>6, StoryStep, JumpFields

\* A step that leaves the runs as they are, but for the day they started.
LEMMA ContractStutter ==
    ASSUME \A r \in RunIds : runs'[r].status = runs[r].status /\ runs'[r].user = runs[r].user,
           UNCHANGED <<nextRun, actionRows>>
    PROVE  UNCHANGED Contract!cvars
<1>1. \A r \in RunIds : StatusOf(r)' = StatusOf(r)
    BY DEF StatusOf, Present
<1> QED BY <1>1 DEF Contract!cvars

LEMMA ContractBegin ==
    ASSUME Consistent, NEW q \in Slots, StartRun(q)
    PROVE  \E n \in RunIds, u \in Users : Contract!Begin(n, u)
<1>a. PICK n \in RunIds, u \in Users : n = nextRun /\ u = slots[q].user
    BY DEF StartRun, Consistent, WellFormed, SlotInv
<1>0. n \in Nat /\ n = nextRun /\ u = slots[q].user
    BY <1>a, ConstantsOK DEF RunIds
<1>1. ~Present(n)
    BY <1>0 DEF Consistent, OwnInv, FreshIds
<1>2. /\ runs'[n] = [user |-> u, status |-> "running", today |-> TRUE, summary |-> NoSummary]
      /\ \A r \in RunIds \ {n} : runs'[r] = runs[r]
    <2>1. runs \in [RunIds -> Row]
        BY DEF Consistent, WellFormed, TypeOK, TablesTyped
    <2>2. runs' = [runs EXCEPT ![n] = [user |-> u, status |-> "running", today |-> TRUE,
                                       summary |-> NoSummary]]
        BY <1>0 DEF StartRun
    <2> QED BY <2>1, <2>2
<1>3. nextRun' = n + 1 /\ actionRows' = actionRows
    BY <1>0 DEF StartRun
<1>4. \A r \in RunIds : runs'[r].user = IF r = n THEN u ELSE runs[r].user
    BY <1>2
<1>5. \A r \in RunIds : StatusOf(r)' = IF r = n THEN "running" ELSE StatusOf(r)
    <2>1. runs'[n].status = "running"
        BY <1>0, <1>2
    <2>2. \A r \in RunIds \ {n} : runs'[r].status = runs[r].status /\ (r < n + 1 <=> r < n)
        BY <1>0, <1>2, ConstantsOK DEF RunIds
    <2>3. StatusOf(n)' = "running"
        BY <2>1 DEF StatusOf, Present
    <2>4. \A r \in RunIds \ {n} : StatusOf(r)' = StatusOf(r)
        BY <1>0, <1>3, <2>2 DEF StatusOf, Present
    <2> QED BY <2>3, <2>4
<1>6. StatusOf(n) = "unused"
    BY <1>0, <1>1 DEF StatusOf
<1>7. Contract!Begin(n, u)
    BY <1>0, <1>3, <1>4, <1>5, <1>6 DEF Contract!Begin
<1> QED BY <1>7

LEMMA ContractRecord ==
    ASSUME Consistent, NEW r \in RunIds, SumInv(r), PlanBounded(r), RecordAction(r)
    PROVE  \E k \in RowKeys : Contract!Record(r, k)
<1> DEFINE w == workers[r]
           row == ActionRow(r, w.asset, Len(w.plan), Head(w.plan))
           k == <<w.asset, Len(w.plan)>>
<1>0. /\ w.pc = "act" /\ Present(r) /\ w.asset \in Assets
      /\ w.plan \in Seq(ActionNames) /\ w.plan # <<>> /\ Len(w.plan) \in Nat
      /\ actionRows' = actionRows \cup {row} /\ UNCHANGED <<runs, nextRun>>
    BY DEF RecordAction, WriteAllowed, Consistent, WellFormed, TypeOK, WorkerInv, WorkerOK, Worker
<1>1. row.run = r /\ row.asset = w.asset /\ row.step = Len(w.plan) /\ row.success \in BOOLEAN
    BY DEF ActionRow
<1> HIDE DEF row
<1>2. k \in RowKeys
    <2>1. Len(w.plan) >= 1
        BY <1>0, EmptySeq, LenProperties
    <2>2. PICK o \in Outcomes \cup {SyntheticOutcome} : Len(w.plan) <= Len(o.plan)
        BY DEF PlanBounded
    <2>3. Len(w.plan) \in 1..Len(o.plan)
        <3>1. <<"tag">> \in Seq(ActionNames) /\ SyntheticOutcome.plan = <<"tag">>
            BY DEF ActionNames, SyntheticOutcome
        <3>2. Len(o.plan) \in Nat
            BY <3>1, ConstantsOK, LenProperties
        <3> QED BY <1>0, <2>1, <2>2, <3>2
    <2> QED BY <1>0, <2>3 DEF RowKeys
<1>3. StatusOf(r) = "running" /\ \A s \in RunIds : StatusOf(s)' = StatusOf(s)
    <2>1. runs[r].status = "running"
        BY <1>0 DEF Consistent, OwnInv, WorkerOwnsRun, Executing, Live, InTry
    <2> QED BY <1>0, <2>1 DEF StatusOf, Present
<1>4. k \notin KeysOf(RowsOf(r))
    <2>1. \A x \in RowsOf(r) : x.step \in Nat /\ (x.asset = w.asset => x.step > Len(w.plan))
        BY <1>0 DEF SumInv, InTry, Behind, RowsOf, Consistent, WellFormed, TypeOK, TablesTyped
    <2> QED BY <1>0, <2>1 DEF KeysOf
<1>5. \A s \in RunIds : KeysOf(RowsOf(s)') = IF s = r THEN KeysOf(RowsOf(s)) \cup {k}
                                             ELSE KeysOf(RowsOf(s))
    BY <1>0, <1>1 DEF KeysOf, RowsOf
<1>6. \A s \in RunIds : KeysOf(AppliedOf(s)') = IF s = r /\ row.success THEN KeysOf(AppliedOf(s)) \cup {k}
                                                ELSE KeysOf(AppliedOf(s))
    BY <1>0, <1>1 DEF KeysOf, AppliedOf
<1>7. Contract!Record(r, k)
    <2> DEFINE status == [s \in RunIds |-> StatusOf(s)]
               rows == [s \in RunIds |-> KeysOf({x \in actionRows : x.run = s})]
               applied == [s \in RunIds |-> KeysOf({x \in actionRows : x.run = s /\ x.success})]
    <2>1. status[r] = "running" /\ k \notin rows[r] /\ status' = status
        BY <1>3, <1>4 DEF RowsOf
    <2>2. rows' = [rows EXCEPT ![r] = @ \cup {k}]
        BY <1>5 DEF RowsOf
    <2>3. CASE row.success = TRUE
        <3>1. applied' = [applied EXCEPT ![r] = @ \cup {k}]
            BY <1>6, <2>3 DEF AppliedOf
        <3> QED BY <1>0, <2>1, <2>2, <3>1 DEF Contract!Record
    <2>4. CASE row.success = FALSE
        <3>1. applied' = applied
            BY <1>6, <2>4 DEF AppliedOf
        <3> QED BY <1>0, <2>1, <2>2, <3>1 DEF Contract!Record
    <2> QED BY <1>1, <2>3, <2>4
<1> QED BY <1>2, <1>7

LEMMA ContractFinish ==
    ASSUME Consistent, NEW r \in RunIds, FinishRun(r) \/ FailRun(r)
    PROVE  Contract!Finish(r)
<1>0. /\ Present(r) /\ workers[r].pc \in InTry \cup InExcept
      /\ UNCHANGED <<nextRun, actionRows>>
    BY DEF FinishRun, FailRun, WriteAllowed, InTry, InExcept
<1>1. runs[r].status = "running"
    BY <1>0 DEF Consistent, OwnInv, WorkerOwnsRun, Executing, Live
<1>2. /\ runs'[r].user = runs[r].user
      /\ runs'[r].status \in {"completed", "failed"}
      /\ \A s \in RunIds \ {r} : runs'[s] = runs[s]
    BY DEF FinishRun, FailRun, Consistent, WellFormed, TypeOK, TablesTyped, Row
<1>3. PICK result \in {"completed", "failed"} : runs'[r].status = result
    BY <1>2
<1>4. \A s \in RunIds : StatusOf(s)' = IF s = r THEN result ELSE StatusOf(s)
    BY <1>0, <1>2, <1>3 DEF StatusOf, Present
<1>5. \A s \in RunIds : runs'[s].user = runs[s].user
    BY <1>2
<1>6. StatusOf(r) = "running"
    BY <1>0, <1>1 DEF StatusOf
<1> QED BY <1>0, <1>4, <1>5, <1>6 DEF Contract!Finish

LEMMA ContractUndo ==
    ASSUME Consistent, NEW q \in Slots, Revert(q)
    PROVE  \E r \in RunIds : Contract!Undo(r)
<1>0. PICK r \in RunIds : r = slots[q].run
    BY DEF Revert, Consistent, WellFormed, SlotInv
<1>1. /\ Present(r) /\ UNCHANGED <<runs, nextRun>>
      /\ actionRows' = {IF x.run = r THEN [x EXCEPT !.success = FALSE] ELSE x : x \in actionRows}
    BY <1>0 DEF Revert
<1>2. \A x \in actionRows : LET y == [x EXCEPT !.success = FALSE] IN
          y.run = x.run /\ y.asset = x.asset /\ y.step = x.step /\ y.success = FALSE
    BY DEF Consistent, WellFormed, TypeOK, TablesTyped
<1>3. \A s \in RunIds : StatusOf(s)' = StatusOf(s)
    BY <1>1 DEF StatusOf, Present
<1>4. StatusOf(r) \in {"running", "completed", "failed"}
    BY <1>1 DEF StatusOf, Present, Consistent, WellFormed, TypeOK, TablesTyped, Row
<1>5. ASSUME NEW s \in RunIds
      PROVE  KeysOf(RowsOf(s)') = KeysOf(RowsOf(s))
    <2>1. \A x \in RowsOf(s) : \E y \in RowsOf(s)' : y.asset = x.asset /\ y.step = x.step
        <3> SUFFICES ASSUME NEW x \in RowsOf(s)
                     PROVE  \E y \in RowsOf(s)' : y.asset = x.asset /\ y.step = x.step
            OBVIOUS
        <3>1. CASE x.run = r
            <4> DEFINE y == [x EXCEPT !.success = FALSE]
            <4>1. y \in actionRows' /\ y.run = x.run /\ y.asset = x.asset /\ y.step = x.step
                BY <1>1, <1>2, <3>1 DEF RowsOf
            <4> QED BY <4>1 DEF RowsOf
        <3>2. CASE x.run # r
            BY <1>1, <3>2 DEF RowsOf
        <3> QED BY <3>1, <3>2
    <2>2. \A y \in RowsOf(s)' : \E x \in RowsOf(s) : y.asset = x.asset /\ y.step = x.step
        <3> SUFFICES ASSUME NEW y \in RowsOf(s)'
                     PROVE  \E x \in RowsOf(s) : y.asset = x.asset /\ y.step = x.step
            OBVIOUS
        <3>1. PICK x \in actionRows : y = IF x.run = r THEN [x EXCEPT !.success = FALSE] ELSE x
            BY <1>1 DEF RowsOf
        <3>2. y.run = x.run /\ y.asset = x.asset /\ y.step = x.step
            BY <1>2, <3>1
        <3> QED BY <3>2 DEF RowsOf
    <2> QED BY <2>1, <2>2 DEF KeysOf
<1>6. ASSUME NEW s \in RunIds
      PROVE  AppliedOf(s)' = IF s = r THEN {} ELSE AppliedOf(s)
    <2>1. CASE s = r
        BY <1>1, <1>2, <2>1 DEF AppliedOf
    <2>2. CASE s # r
        <3>1. \A x \in AppliedOf(s) : x \in AppliedOf(s)'
            BY <1>1, <2>2 DEF AppliedOf
        <3>2. \A x \in AppliedOf(s)' : x \in AppliedOf(s)
            BY <1>1, <1>2, <2>2 DEF AppliedOf
        <3> QED BY <2>2, <3>1, <3>2
    <2> QED BY <2>1, <2>2
<1>7. \A s \in RunIds : KeysOf(AppliedOf(s)') = IF s = r THEN {} ELSE KeysOf(AppliedOf(s))
    BY <1>6 DEF KeysOf
<1> QED BY <1>1, <1>3, <1>4, <1>5, <1>7 DEF Contract!Undo, RowsOf, AppliedOf

LEMMA ContractDelete ==
    ASSUME Consistent, NEW u \in Users, DeleteRowsOf(u), UNCHANGED nextRun
    PROVE  Contract!Delete(u)
<1>0. u # NoUser
    BY ConstantsOK
<1>1. \A r \in RunIds : runs'[r] = IF runs[r].user = u THEN NoRow ELSE runs[r]
    BY DEF DeleteRowsOf
<1>2. \A r \in RunIds : runs'[r].user = IF runs[r].user = u THEN NoUser ELSE runs[r].user
    BY <1>1 DEF NoRow
<1>3. \A r \in RunIds : StatusOf(r)' = IF runs[r].user = u THEN "deleted" ELSE StatusOf(r)
    <2>1. \A r \in RunIds : runs[r].user = u => r < nextRun
        <3>1. \A r \in RunIds : runs[r].user = u => Present(r)
            BY <1>0 DEF Consistent, RowsOwned
        <3> QED BY <3>1, ConstantsOK DEF Consistent, OwnInv, FreshIds, RunIds, WellFormed, TypeOK,
                TablesTyped
    <2>2. \A r \in RunIds : runs[r].user = u => ~Present(r)'
        BY <1>1 DEF Present, NoRow
    <2>3. \A r \in RunIds : runs[r].user # u => runs'[r] = runs[r]
        BY <1>1
    <2> QED BY <2>1, <2>2, <2>3 DEF StatusOf, Present
<1>4. \A r \in RunIds : RowsOf(r)' = IF runs[r].user = u THEN {} ELSE RowsOf(r)
    BY DEF DeleteRowsOf, RowsOf
<1>5. \A r \in RunIds : AppliedOf(r)' = IF runs[r].user = u THEN {} ELSE AppliedOf(r)
    BY DEF DeleteRowsOf, AppliedOf
<1>6. \A r \in RunIds :
          /\ KeysOf(RowsOf(r)') = IF runs[r].user = u THEN {} ELSE KeysOf(RowsOf(r))
          /\ KeysOf(AppliedOf(r)') = IF runs[r].user = u THEN {} ELSE KeysOf(AppliedOf(r))
    BY <1>4, <1>5 DEF KeysOf
<1> QED BY <1>2, <1>3, <1>6 DEF Contract!Delete, RowsOf, AppliedOf

LEMMA ContractInit == Init => Contract!Init
BY ConstantsOK DEF Init, Contract!Init, StatusOf, Present, NoRow, KeysOf, RunIds

LEMMA ContractStep ==
    ASSUME Consistent, \A r \in RunIds : SumInv(r) /\ PlanBounded(r), [Next]_vars
    PROVE  [Contract!Next]_(Contract!cvars)
<1> USE DEF Consistent, WellFormed, TypeOK
<1>1. CASE \E q \in Slots, u \in Users : RequestScan(q, u) \/ RequestUndo(q, u) \/ RequestDelete(q, u)
    BY <1>1, ContractStutter DEF RequestScan, RequestUndo, RequestDelete, tables
<1>2. ASSUME NEW q \in Slots, SlotStep(q) \/ SpawnFails(q)
      PROVE  [Contract!Next]_(Contract!cvars)
    <2>1. CASE StartRun(q)
        BY <2>1, ContractBegin DEF Contract!Next
    <2>2. CASE Revert(q)
        BY <2>2, ContractUndo DEF Contract!Next
    <2>3. CASE \E u \in Users : DeleteRowsOf(u) /\ UNCHANGED nextRun
        BY <2>3, ContractDelete DEF Contract!Next
    <2>4. CASE PurgeRows(q) \/ PurgeUser(q)
        BY <2>3, <2>4, ContractStutter DEF PurgeRows, PurgeUser, SlotInv
    <2> QED BY <1>2, <2>1, <2>2, <2>4, ContractStutter DEF SlotStep, CheckCap, CheckQuota,
            AuditStart, Spawn, SpawnFails, AuditUndo, RequestRaises, PurgeAudit, tables
<1>3. ASSUME NEW r \in RunIds, WorkerStep(r)
      PROVE  [Contract!Next]_(Contract!cvars)
    <2>1. CASE RecordAction(r)
        BY <2>1, ContractRecord DEF Contract!Next
    <2>2. CASE FinishRun(r) \/ FailRun(r)
        BY <2>2, ContractFinish DEF Contract!Next
    <2> QED BY <1>3, <2>1, <2>2, ContractStutter DEF WorkerStep, UpsertAsset, RecordError,
            RecordAnalysis, AuditLock, AuditFinish, RunnerRaises, AuditFailure, RunnerDies, tables
<1>4. CASE NewDay
    <2>1. \A r \in RunIds : runs'[r] = [runs[r] EXCEPT !.today = FALSE] /\ runs[r] \in Row
        BY <1>4 DEF NewDay, TablesTyped
    <2>2. \A r \in RunIds : runs'[r].status = runs[r].status /\ runs'[r].user = runs[r].user
        BY <2>1 DEF Row
    <2> QED BY <1>4, <2>2, ContractStutter DEF NewDay
<1>5. CASE (\E u \in Users : Login(u)) \/ Restart \/ UNCHANGED vars
    BY <1>5, ContractStutter DEF Login, Restart, vars, tables
<1> QED BY <1>1, <1>2, <1>3, <1>4, <1>5 DEF Next

\* Whatever requests, threads and faults do, a run follows its contract: it is
\* handed out once, collects rows only while it is running, ends once, and after
\* that changes only by an undo or by the deletion of its account.
THEOREM ContractTheorem == Spec => ImplementsContract
<1> DEFINE Bounded == \A r \in RunIds : PlanBounded(r)
           Counting == \A r \in RunIds : SumInv(r)
<1>1. Consistent /\ Bounded /\ [Next]_vars => Bounded'
    BY NextPlanBounded
<1>2. Init => Bounded
    BY InitPlanBounded
<1>3. Consistent /\ Counting /\ Bounded /\ [Next]_vars => [Contract!Next]_(Contract!cvars)
    BY ContractStep
<1>4. Spec => []Counting
    BY SumAlways
<1> HIDE DEF Bounded, Counting
<1> QED BY <1>1, <1>2, <1>3, <1>4, ConsistentAlways, ContractInit, PTL
        DEF Spec, ImplementsContract, Contract!Spec
=============================================================================
