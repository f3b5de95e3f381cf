-------------------------- MODULE ModelRegistryProofs --------------------------
(***************************************************************************)
(* What holds of the model store for every catalog, every set of           *)
(* registrations and every number of requests, rows and restarts.          *)
(***************************************************************************)
EXTENDS ModelRegistry, FiniteSetTheorems, TLAPS

\* A request with its local variables; one that has received a file holds its
\* content.
Ops == {"install", "register", "uninstall", "scan"}
TaskSteps == {"download", "copy", "insert", "deactivate", "activate", "audit",
              "remove", "delete", "load"}
Task == [pc : TaskSteps, op : Ops, row : 0..MaxRows, model : Models]
Stored == [pc : {"unlink", "replace"}, op : Ops, row : 0..MaxRows, model : Models,
           content : Contents]
Request == {Idle} \cup Task \cup Stored
ThreadsOK == threads \in [Threads -> Request]

\* What the statements a request has executed established for its next one.
Fits(t) ==
    LET p == threads[t]
    IN /\ p.pc \in {"unlink", "replace"} => p.content = p.model.sha
       /\ p.pc \in {"deactivate", "activate", "remove", "delete"} => p.row # 0
       /\ p.pc # "idle" /\ p.row # 0 =>
            /\ p.row < nextId
            /\ rows[p.row].present => rows[p.row].model.name = p.model.name
                                      /\ rows[p.row].model.sha = p.model.sha
       /\ p.pc \in {"insert", "load"} => p.model.sha \in registered[p.model.id]
       /\ p.pc \in {"download", "copy", "unlink", "replace"} => p.op \in {"install", "register"}
ThreadsFit == \A t \in Threads : Fits(t)

\* A row was inserted after its content was stored under its id.
RegistryRow == [present : {TRUE}, active : BOOLEAN, model : Models]
TableOK(table) ==
    /\ table \in [RowIds -> {Absent} \cup RegistryRow]
    /\ \A r \in RowIds : table[r].present =>
         r < nextId /\ table[r].model.sha \in registered[table[r].model.id]

StoreOK ==
    /\ nextId \in 1..(MaxRows + 1)
    /\ files \in [Ids -> Contents]
    /\ \A id \in Ids : files[id] # NoFile => files[id] \in registered[id]
    /\ cache \in [Shas -> Contents]
    /\ registered \in [Ids -> SUBSET Shas]
HistoryOK ==
    /\ filled \subseteq Slots /\ torn \subseteq Slots /\ crossed \subseteq Slots
    /\ raced \subseteq Slots /\ gone \subseteq Ids

\* A request is between the two statements of a switch of the slot.
Open(slot) == \E t \in Threads : threads[t].pc = "activate" /\ threads[t].model.slot = slot

\* Activations are committed as they are made: a filled slot that statements see
\* empty, and that nothing has torn, is being switched.
CommitOK ==
    /\ SwitchIsAtomic
    /\ \A s \in filled \ torn : ActiveIn(rows, s) = {} => Open(s)

WellTyped ==
    ThreadsOK /\ ThreadsFit /\ TableOK(rows) /\ TableOK(durable) /\ StoreOK /\ HistoryOK /\ CommitOK

-----------------------------------------------------------------------------
(* Types.                                                                  *)

LEMMA ModelParts ==
    ASSUME NEW m \in Models
    PROVE  m.id \in Ids /\ m.sha \in Shas /\ m.slot \in Slots
BY DEF Ids, Shas, Slots

LEMMA RowShape ==
    ASSUME NEW r \in {Absent} \cup RegistryRow
    PROVE  /\ r.present => r \in RegistryRow /\ r.model \in Models /\ r.active \in BOOLEAN
           /\ ~r.present => r = Absent
<1>1. CASE r = Absent
    BY <1>1 DEF Absent
<1>2. CASE r \in RegistryRow
    <2>1. r.present = TRUE /\ r.model \in Models /\ r.active \in BOOLEAN
        BY <1>2 DEF RegistryRow
    <2> QED BY <1>2, <2>1
<1> QED BY <1>1, <1>2

LEMMA TypeParts == WellTyped => TypeOK
<1> SUFFICES ASSUME WellTyped PROVE TypeOK
    OBVIOUS
<1> USE DEF WellTyped
<1>1. \A r \in RowIds :
        /\ rows[r].present => rows[r].model \in Models /\ r < nextId
        /\ ~rows[r].present => rows[r] = Absent
    BY RowShape DEF TableOK
<1>2. \A r \in RowIds :
        /\ durable[r].present => durable[r].model \in Models /\ r < nextId
        /\ ~durable[r].present => durable[r] = Absent
    BY RowShape DEF TableOK
<1>3. \A t \in Threads : threads[t].pc # "idle" => threads[t].model \in Models
    BY DEF ThreadsOK, Request, Task, Stored, Idle
<1> QED BY <1>1, <1>2, <1>3 DEF TypeOK, StoreOK, HistoryOK

LEMMA InitTyped == Init => WellTyped
<1> SUFFICES ASSUME Init PROVE WellTyped
    OBVIOUS
<1>1. ThreadsOK /\ ThreadsFit
    BY DEF Init, ThreadsOK, ThreadsFit, Fits, Request, Idle
<1>2. TableOK(rows) /\ TableOK(durable)
    BY DEF Init, TableOK, Absent
<1>3. StoreOK /\ HistoryOK
    BY ConstantsOK DEF Init, StoreOK, HistoryOK, Contents
<1>4. CommitOK
    BY DEF Init, CommitOK, SwitchIsAtomic
<1> QED BY <1>1, <1>2, <1>3, <1>4 DEF WellTyped

\* A step of one request keeps what the others rely on when rows only
\* disappear, ids are not reused and stored hashes are not forgotten.
LEMMA OthersFit ==
    ASSUME WellTyped, NEW t \in Threads,
           threads' \in [Threads -> Request],
           \A u \in Threads \ {t} : threads'[u] = threads[u],
           Fits(t)',
           nextId' \in Nat, nextId <= nextId',
           \A r \in RowIds : r < nextId /\ rows'[r].present =>
                               rows[r].present /\ rows'[r].model = rows[r].model,
           \A id \in Ids : registered[id] \subseteq registered'[id]
    PROVE  ThreadsOK' /\ ThreadsFit'
<1>1. ASSUME NEW u \in Threads \ {t} PROVE Fits(u)'
    <2>1. Fits(u) /\ threads'[u] = threads[u] /\ threads[u] \in Request /\ nextId \in Nat
        BY DEF WellTyped, ThreadsFit, ThreadsOK, StoreOK
    <2>2. threads[u].pc # "idle" => threads[u].model \in Models /\ threads[u].row \in 0..MaxRows
        BY <2>1 DEF Request, Task, Stored, Idle
    <2>3. threads[u].pc # "idle" /\ threads[u].row # 0 => threads[u].row \in RowIds
        BY <2>2, ConstantsOK DEF RowIds
    <2>4. threads[u].pc # "idle" => threads[u].model.id \in Ids
        BY <2>2, ModelParts
    <2>5. threads[u].pc # "idle" /\ threads[u].row # 0 => threads[u].row < nextId'
        BY <2>1, <2>3, ConstantsOK DEF Fits, RowIds
    <2> QED BY <2>1, <2>3, <2>4, <2>5 DEF Fits
<1> QED BY <1>1 DEF ThreadsFit, ThreadsOK

\* A row found by name and hash.
LEMMA Found ==
    ASSUME WellTyped, NEW m \in Models, NEW r \in Registered(m)
    PROVE  /\ r \in RowIds /\ r # 0 /\ r \in 0..MaxRows /\ r < nextId
           /\ rows[r].model.name = m.name /\ rows[r].model.sha = m.sha
<1>1. r \in RowIds /\ rows[r].present /\ rows[r].model.name = m.name /\ rows[r].model.sha = m.sha
    BY DEF Registered, Present
<1>2. r < nextId
    BY <1>1 DEF WellTyped, TableOK
<1> QED BY <1>1, <1>2, ConstantsOK DEF RowIds

LEMMA AtWork ==
    ASSUME WellTyped, NEW t \in Threads, threads[t].pc # "idle"
    PROVE  /\ threads[t] \in Task \cup Stored
           /\ threads[t].pc \notin {"unlink", "replace"} => threads[t] \in Task
           /\ threads[t].pc \in {"unlink", "replace"} => threads[t] \in Stored
           /\ threads[t].op \in Ops /\ threads[t].model \in Models
           /\ threads[t].model.id \in Ids /\ threads[t].model.sha \in Shas
           /\ threads[t].model.slot \in Slots
           /\ threads[t].row \in 0..MaxRows
           /\ threads[t].row # 0 => threads[t].row \in RowIds
<1>1. threads[t] \in Task \cup Stored
    BY DEF WellTyped, ThreadsOK, Request, Idle
<1>2. /\ threads[t].pc \notin {"unlink", "replace"} => threads[t] \in Task
      /\ threads[t].pc \in {"unlink", "replace"} => threads[t] \in Stored
    BY <1>1 DEF Task, TaskSteps, Stored
<1>3. threads[t].op \in Ops /\ threads[t].model \in Models /\ threads[t].row \in 0..MaxRows
    BY <1>1 DEF Task, Stored
<1> QED BY <1>1, <1>2, <1>3, ModelParts, ConstantsOK DEF RowIds

\* A commit of a request that is not at its own second statement, and that took
\* no active row from a slot that counts as filled.
LEMMA Committed ==
    ASSUME WellTyped, NEW S \in SUBSET Threads,
           \A u \in Threads \ S : threads[u].pc # "activate",
           Commit(S, rows'), TableOK(rows)',
           filled' \subseteq filled,
           \A s \in filled' : ActiveIn(rows, s) \subseteq ActiveIn(rows', s)
    PROVE  TableOK(durable)' /\ CommitOK' /\ torn' \subseteq Slots
<1>1. durable' = rows' /\ torn' = torn \cup Interrupted(S)
    BY DEF Commit
<1>2. torn \subseteq Slots /\ filled \subseteq Slots
    BY DEF WellTyped, HistoryOK
<1>3. torn' \subseteq Slots
    <2>1. \A u \in S : threads[u].pc = "activate" => threads[u].model.slot \in Slots
        BY AtWork
    <2> QED BY <1>1, <1>2, <2>1 DEF Interrupted
<1>4. ASSUME NEW s \in filled' \ torn' PROVE ActiveIn(rows', s) # {}
    <2>1. s \in filled \ torn /\ s \notin Interrupted(S)
        BY <1>1, <1>4
    <2>2. ~Open(s)
        BY <2>1 DEF Open, Interrupted
    <2> QED BY <1>4, <2>1, <2>2 DEF WellTyped, CommitOK
<1>5. CommitOK'
    BY <1>1, <1>4 DEF CommitOK, SwitchIsAtomic
<1> QED BY <1>1, <1>3, <1>5 DEF TableOK

\* The thread goes on to a step, or is done.
LEMMA GoesOn ==
    ASSUME WellTyped, NEW t \in Threads, NEW pc \in TaskSteps, threads[t] \in Task, Goto(t, pc)
    PROVE  /\ threads' \in [Threads -> Request]
           /\ \A u \in Threads \ {t} : threads'[u] = threads[u]
           /\ threads'[t].pc = pc /\ threads'[t].op = threads[t].op
           /\ threads'[t].row = threads[t].row /\ threads'[t].model = threads[t].model
<1>1. threads' = [threads EXCEPT ![t] = [threads[t] EXCEPT !.pc = pc]]
    BY DEF Goto
<1>2. [threads[t] EXCEPT !.pc = pc] \in Task
    BY DEF Task
<1>3. threads \in [Threads -> Request]
    BY DEF WellTyped, ThreadsOK
<1>4. threads'[t] = [threads[t] EXCEPT !.pc = pc]
    BY <1>1, <1>3
<1>5. threads' \in [Threads -> Request] /\ \A u \in Threads \ {t} : threads'[u] = threads[u]
    BY <1>1, <1>2, <1>3 DEF Request
<1> QED BY <1>4, <1>5 DEF Task

LEMMA Finishes ==
    ASSUME WellTyped, NEW t \in Threads, Finish(t)
    PROVE  /\ threads' \in [Threads -> Request]
           /\ \A u \in Threads \ {t} : threads'[u] = threads[u]
           /\ threads'[t].pc = "idle"
           /\ Fits(t)'
BY DEF WellTyped, ThreadsOK, Finish, Request, Idle, Fits

LEMMA Becomes ==
    ASSUME WellTyped, NEW t \in Threads, NEW p \in Request, threads' = [threads EXCEPT ![t] = p]
    PROVE  /\ threads' \in [Threads -> Request]
           /\ \A u \in Threads \ {t} : threads'[u] = threads[u]
           /\ threads'[t] = p
BY DEF WellTyped, ThreadsOK

\* A step that moves neither rows nor an open switch.
LEMMA TablesStay ==
    ASSUME WellTyped, UNCHANGED <<rows, durable, nextId, registered, filled, torn>>,
           NEW t \in Threads, threads[t].pc # "activate",
           \A u \in Threads \ {t} : threads'[u] = threads[u]
    PROVE  TableOK(rows)' /\ TableOK(durable)' /\ CommitOK'
<1>1. \A s : Open(s) => Open(s)'
    BY DEF Open
<1>2. CommitOK'
    BY <1>1 DEF WellTyped, CommitOK, SwitchIsAtomic, ActiveIn
<1> QED BY <1>2 DEF WellTyped, TableOK

LEMMA BeginTyped ==
    ASSUME WellTyped, NEW t \in Threads,
           \/ \E m \in Catalog : BeginInstall(t, m)
           \/ \E m \in Profiles : BeginRegister(t, m)
           \/ \E r \in RowIds : BeginUninstall(t, r)
           \/ \E s \in Slots : ReadActive(t, s)
    PROVE  WellTyped'
<1>1. UNCHANGED <<rows, durable, nextId, files, cache, registered, filled, torn, crossed, raced>>
    BY DEF BeginInstall, BeginRegister, BeginUninstall, ReadActive, store, history
<1>2. gone' \subseteq gone
    BY DEF BeginInstall, BeginRegister, BeginUninstall, ReadActive, history
<1>3. \E p \in Request :
        /\ threads' = [threads EXCEPT ![t] = p]
        /\ Fits(t)'
    <2>1. ASSUME NEW m \in Models, NEW op \in {"install", "register"}, NEW pc \in {"download", "copy", "insert", "deactivate"},
                 NEW r, r = 0 \/ r \in Registered(m),
                 pc = "deactivate" => r # 0,
                 pc = "insert" => files[m.id] = m.sha,
                 threads' = [threads EXCEPT ![t] = [pc |-> pc, op |-> op, row |-> r, model |-> m]]
          PROVE  <1>3
        <3> DEFINE p == [pc |-> pc, op |-> op, row |-> r, model |-> m]
        <3>1. r \in 0..MaxRows /\ (r # 0 => /\ r < nextId /\ rows[r].model.name = m.name
                                            /\ rows[r].model.sha = m.sha)
            BY <2>1, Found, ConstantsOK
        <3>2. p \in Request
            BY <3>1 DEF Request, Task, TaskSteps, Ops
        <3>3. pc = "insert" => m.sha \in registered[m.id]
            BY <2>1, ModelParts, ConstantsOK DEF WellTyped, StoreOK
        <3>4. threads'[t] = p
            BY <2>1, <3>2, Becomes
        <3>5. Fits(t)'
            BY <1>1, <2>1, <3>1, <3>3, <3>4 DEF Fits
        <3> QED BY <2>1, <3>2, <3>5
    <2>2. ASSUME NEW m \in Catalog, BeginInstall(t, m) PROVE <1>3
        <3>1. m \in Models
            BY DEF Models
        <3> QED BY <2>1, <2>2, <3>1, Found DEF BeginInstall
    <2>3. ASSUME NEW m \in Profiles, BeginRegister(t, m) PROVE <1>3
        <3>1. m \in Models
            BY DEF Models
        <3> QED BY <2>1, <2>3, <3>1, Found DEF BeginRegister
    <2>4. ASSUME NEW r \in RowIds, BeginUninstall(t, r) PROVE <1>3
        <3> DEFINE p == [pc |-> "remove", op |-> "uninstall", row |-> r, model |-> rows[r].model]
        <3>1. rows[r].present /\ rows[r] \in {Absent} \cup RegistryRow /\ r < nextId
            BY <2>4 DEF BeginUninstall, Present, WellTyped, TableOK
        <3>2. rows[r].model \in Models
            BY <3>1, RowShape
        <3>3. p \in Request
            BY <3>2, ConstantsOK DEF Request, Task, TaskSteps, Ops, RowIds
        <3>4. threads' = [threads EXCEPT ![t] = p]
            BY <2>4 DEF BeginUninstall
        <3>5. threads'[t] = p
            BY <3>3, <3>4, Becomes
        <3>6. Fits(t)'
            BY <1>1, <3>1, <3>5, ConstantsOK DEF Fits, RowIds
        <3> QED BY <3>3, <3>4, <3>6
    <2>5. ASSUME NEW s \in Slots, ReadActive(t, s) PROVE <1>3
        <3>1. PICK r \in ActiveIn(rows, s) :
                threads' = [threads EXCEPT ![t] = [pc |-> "load", op |-> "scan", row |-> 0,
                                                   model |-> rows[r].model]]
            BY <2>5 DEF ReadActive
        <3> DEFINE p == [pc |-> "load", op |-> "scan", row |-> 0, model |-> rows[r].model]
        <3>2. r \in RowIds /\ rows[r].present /\ rows[r] \in {Absent} \cup RegistryRow
            BY DEF ActiveIn, WellTyped, TableOK
        <3>3. rows[r].model \in Models /\ rows[r].model.sha \in registered[rows[r].model.id]
            BY <3>2, RowShape DEF WellTyped, TableOK
        <3>4. p \in Request
            BY <3>3, ConstantsOK DEF Request, Task, TaskSteps, Ops
        <3>5. threads'[t] = p
            BY <3>1, <3>4, Becomes
        <3>6. Fits(t)'
            BY <1>1, <3>3, <3>5 DEF Fits
        <3> QED BY <3>1, <3>4, <3>6
    <2> QED BY <2>2, <2>3, <2>4, <2>5
<1>4. nextId \in Nat
    BY ConstantsOK DEF WellTyped, StoreOK
<1>5. ThreadsOK' /\ ThreadsFit'
    <2>1. threads' \in [Threads -> Request] /\ \A u \in Threads \ {t} : threads'[u] = threads[u]
        BY <1>3, Becomes
    <2> QED BY <1>1, <1>3, <1>4, <2>1, OthersFit
<1>6. StoreOK' /\ HistoryOK'
    BY <1>1, <1>2 DEF WellTyped, StoreOK, HistoryOK
<1>7. TableOK(rows)' /\ TableOK(durable)' /\ CommitOK'
    <2>1. threads[t].pc # "activate"
        BY DEF BeginInstall, BeginRegister, BeginUninstall, ReadActive
    <2>2. \A u \in Threads \ {t} : threads'[u] = threads[u]
        BY <1>3, Becomes
    <2> QED BY <1>1, <2>1, <2>2, TablesStay
<1> QED BY <1>5, <1>6, <1>7 DEF WellTyped

\* The steps that touch files and the cache.
LEMMA FilesTyped ==
    ASSUME WellTyped, NEW t \in Threads,
           \/ \E intact \in BOOLEAN : Receive(t, intact)
           \/ UnlinkTarget(t) \/ ReplaceTarget(t) \/ RemoveFile(t) \/ LoadModel(t)
    PROVE  WellTyped'
<1>0. nextId \in Nat /\ files \in [Ids -> Contents] /\ registered \in [Ids -> SUBSET Shas]
      /\ cache \in [Shas -> Contents] /\ NoFile \in Contents
    BY ConstantsOK DEF WellTyped, StoreOK, Contents
<1>1. CASE \E intact \in BOOLEAN : Receive(t, intact)
    <2>1. PICK intact \in BOOLEAN : Receive(t, intact)
        BY <1>1
    <2>2. UNCHANGED <<rows, durable, nextId, files, cache, registered, filled, torn, crossed, raced, gone>>
        BY <2>1 DEF Receive, store, history
    <2>a. threads[t].pc # "activate"
        BY <2>1 DEF Receive
    <2>3. CASE Finish(t)
        <3>1. TableOK(rows)' /\ TableOK(durable)' /\ CommitOK'
            BY <2>2, <2>a, <2>3, Finishes, TablesStay
        <3> QED BY <1>0, <2>2, <2>3, <3>1, Finishes, OthersFit DEF WellTyped, StoreOK, HistoryOK
    <2>4. CASE ~Finish(t)
        <3> DEFINE content == IF intact THEN threads[t].model.sha ELSE Corrupt
                   pc == IF threads[t].pc = "download" THEN "unlink" ELSE "replace"
                   p == [pc |-> pc, op |-> threads[t].op, row |-> threads[t].row,
                         model |-> threads[t].model, content |-> content]
        <3>1. content = threads[t].model.sha /\ threads[t].pc \in {"download", "copy"}
              /\ threads' = [threads EXCEPT ![t] = p]
            BY <2>1, <2>4 DEF Receive, Verified
        <3>2. threads[t] \in Task /\ content \in Contents
            BY <3>1, AtWork DEF Contents
        <3>3. p \in Request
            <4>1. pc \in {"unlink", "replace"}
                OBVIOUS
            <4> HIDE DEF pc, content
            <4> QED BY <3>2, <4>1 DEF Request, Stored, Task
        <3>4. threads'[t] = p
            BY <3>1, <3>3, Becomes
        <3>5. Fits(t)
            BY DEF WellTyped, ThreadsFit
        <3>6. Fits(t)'
            <4>1. /\ p.pc \in {"unlink", "replace"} /\ p.content = p.model.sha
                  /\ p.op = threads[t].op /\ p.row = threads[t].row /\ p.model = threads[t].model
                BY <3>1
            <4> HIDE DEF p
            <4>2. /\ threads[t].pc # "idle"
                  /\ threads[t].pc \in {"download", "copy", "unlink", "replace"}
                BY <3>1
            <4> QED BY <2>2, <3>4, <3>5, <4>1, <4>2 DEF Fits
        <3>7. ThreadsOK' /\ ThreadsFit'
            <4>1. threads' \in [Threads -> Request] /\ \A u \in Threads \ {t} : threads'[u] = threads[u]
                BY <3>1, <3>3, Becomes
            <4> HIDE DEF p
            <4> QED BY <1>0, <2>2, <3>6, <4>1, OthersFit
        <3>8. TableOK(rows)' /\ TableOK(durable)' /\ CommitOK'
            BY <2>2, <2>a, <3>1, <3>3, Becomes, TablesStay
        <3> QED BY <2>2, <3>7, <3>8 DEF WellTyped, StoreOK, HistoryOK
    <2> QED BY <2>3, <2>4
<1>2. CASE UnlinkTarget(t)
    <2>1. threads[t] \in Stored /\ threads[t].model.id \in Ids /\ threads[t].pc = "unlink"
        BY <1>2, AtWork DEF UnlinkTarget
    <2>2. UNCHANGED <<rows, durable, nextId, cache, registered, filled, torn, crossed, raced, gone>>
          /\ files' = [files EXCEPT ![threads[t].model.id] = NoFile]
        BY <1>2 DEF UnlinkTarget, history
    <2> DEFINE p == [threads[t] EXCEPT !.pc = "replace"]
    <2>3. p \in Request /\ threads' = [threads EXCEPT ![t] = p]
        BY <1>2, <2>1 DEF Request, Stored, UnlinkTarget, Goto
    <2>4. threads'[t] = p
        BY <2>3, Becomes
    <2>5. p.pc = "replace" /\ p.op = threads[t].op /\ p.row = threads[t].row
          /\ p.model = threads[t].model /\ p.content = threads[t].content
        BY <2>1 DEF Stored
    <2>6. Fits(t)
        BY DEF WellTyped, ThreadsFit
    <2>7. Fits(t)'
        <3> HIDE DEF p
        <3> QED BY <2>1, <2>2, <2>4, <2>5, <2>6 DEF Fits
    <2>8. ThreadsOK' /\ ThreadsFit'
        <3>1. threads' \in [Threads -> Request] /\ \A u \in Threads \ {t} : threads'[u] = threads[u]
            BY <2>3, Becomes
        <3> HIDE DEF p
        <3> QED BY <1>0, <2>2, <2>7, <3>1, OthersFit
    <2>9. TableOK(rows)' /\ TableOK(durable)' /\ CommitOK'
        BY <2>1, <2>2, <2>3, Becomes, TablesStay
    <2> QED BY <1>0, <2>2, <2>8, <2>9 DEF WellTyped, StoreOK, HistoryOK
<1>3. CASE ReplaceTarget(t)
    <2>1. threads[t] \in Stored /\ threads[t].model.id \in Ids /\ threads[t].model.sha \in Shas
          /\ threads[t].pc = "replace" /\ threads[t].content = threads[t].model.sha
        BY <1>3, AtWork DEF ReplaceTarget, WellTyped, ThreadsFit, Fits
    <2>2. /\ UNCHANGED <<rows, durable, nextId, cache, filled, torn, crossed, raced, gone>>
          /\ files' = [files EXCEPT ![threads[t].model.id] = threads[t].content]
          /\ registered' = [registered EXCEPT ![threads[t].model.id] = @ \cup {threads[t].model.sha}]
        BY <1>3 DEF ReplaceTarget
    <2> DEFINE pc == IF threads[t].row = 0 THEN "insert" ELSE "deactivate"
               p == [pc |-> pc, op |-> threads[t].op, row |-> threads[t].row, model |-> threads[t].model]
    <2>3. threads' = [threads EXCEPT ![t] = p]
        BY <1>3 DEF ReplaceTarget
    <2>4. p \in Request
        <3>1. pc \in TaskSteps
            BY DEF TaskSteps
        <3> HIDE DEF pc
        <3> QED BY <2>1, <3>1 DEF Request, Stored, Task
    <2>5. threads'[t] = p
        BY <2>3, <2>4, Becomes
    <2>6. \A id \in Ids : registered[id] \subseteq registered'[id]
        BY <1>0, <2>1, <2>2
    <2>7. threads[t].model.sha \in registered'[threads[t].model.id]
        BY <1>0, <2>1, <2>2
    <2>8. Fits(t)
        BY DEF WellTyped, ThreadsFit
    <2>9. Fits(t)'
        <3>1. /\ \/ p.pc = "insert" /\ p.row = 0
                 \/ p.pc = "deactivate" /\ p.row # 0
              /\ p.row = threads[t].row /\ p.model = threads[t].model
            OBVIOUS
        <3> HIDE DEF p
        <3> QED BY <2>1, <2>2, <2>5, <2>7, <2>8, <3>1 DEF Fits
    <2>10. ThreadsOK' /\ ThreadsFit'
        <3>1. threads' \in [Threads -> Request] /\ \A u \in Threads \ {t} : threads'[u] = threads[u]
            BY <2>3, <2>4, Becomes
        <3> HIDE DEF p
        <3> QED BY <1>0, <2>2, <2>6, <2>9, <3>1, OthersFit
    <2>11. TableOK(rows)' /\ TableOK(durable)'
        <3>1. \A r \in RowIds : rows[r].present => rows[r].model \in Models
            BY RowShape DEF WellTyped, TableOK
        <3>2. \A r \in RowIds : durable[r].present => durable[r].model \in Models
            BY RowShape DEF WellTyped, TableOK
        <3> QED BY <2>2, <2>6, <3>1, <3>2, ModelParts DEF WellTyped, TableOK
    <2>a. CommitOK'
        <3>1. \A u \in Threads \ {t} : threads'[u] = threads[u]
            BY <2>3, <2>4, Becomes
        <3>2. \A s : Open(s) => Open(s)'
            BY <2>1, <3>1 DEF Open
        <3> QED BY <2>2, <3>2 DEF WellTyped, CommitOK, SwitchIsAtomic, ActiveIn
    <2>12. StoreOK'
        BY <1>0, <2>1, <2>2, <2>6, <2>7 DEF WellTyped, StoreOK, Contents
    <2> QED BY <2>2, <2>a, <2>10, <2>11, <2>12 DEF WellTyped, HistoryOK
<1>4. CASE RemoveFile(t)
    <2>1. threads[t] \in Task /\ threads[t].model.id \in Ids /\ threads[t].pc = "remove"
        BY <1>4, AtWork DEF RemoveFile
    <2>2. UNCHANGED <<rows, durable, nextId, cache, registered, filled, torn, crossed, raced, gone>>
          /\ files' = [files EXCEPT ![threads[t].model.id] = NoFile]
          /\ Goto(t, "delete")
        BY <1>4 DEF RemoveFile, history
    <2>3. "delete" \in TaskSteps
        BY DEF TaskSteps
    <2>4. Fits(t)
        BY DEF WellTyped, ThreadsFit
    <2>5. Fits(t)'
        BY <2>1, <2>2, <2>3, <2>4, GoesOn DEF Fits
    <2>6. ThreadsOK' /\ ThreadsFit'
        BY <1>0, <2>1, <2>2, <2>3, <2>5, GoesOn, OthersFit
    <2>7. TableOK(rows)' /\ TableOK(durable)' /\ CommitOK'
        BY <2>1, <2>2, <2>3, GoesOn, TablesStay
    <2> QED BY <1>0, <2>2, <2>6, <2>7 DEF WellTyped, StoreOK, HistoryOK
<1>5. CASE LoadModel(t)
    <2>1. threads[t].model.id \in Ids
        BY <1>5, AtWork DEF LoadModel
    <2>2. UNCHANGED <<rows, durable, nextId, files, registered, filled, torn, crossed, raced, gone>>
          /\ Finish(t)
        BY <1>5 DEF LoadModel, history
    <2>3. cache' \in [Shas -> Contents]
        BY <1>0, <1>5, <2>1 DEF LoadModel
    <2>4. ThreadsOK' /\ ThreadsFit'
        BY <1>0, <2>2, Finishes, OthersFit
    <2>5. threads[t].pc # "activate"
        BY <1>5 DEF LoadModel
    <2>6. TableOK(rows)' /\ TableOK(durable)' /\ CommitOK'
        BY <2>2, <2>5, Finishes, TablesStay
    <2> QED BY <2>2, <2>3, <2>4, <2>6 DEF WellTyped, StoreOK, HistoryOK
<1> QED BY <1>1, <1>2, <1>3, <1>4, <1>5

\* The steps that touch the rows.
LEMMA InsertTyped ==
    ASSUME WellTyped, NEW t \in Threads, InsertRow(t)
    PROVE  WellTyped'
<1>0. nextId \in Nat /\ threads[t] \in Task /\ threads[t].model \in Models /\ threads[t].pc = "insert"
    BY ConstantsOK, AtWork DEF WellTyped, StoreOK, InsertRow
<1>1. UNCHANGED <<files, cache, registered, filled, crossed, raced, gone>>
    BY DEF InsertRow
<1>2. CASE Clashes(threads[t].model)
    <2>1. Finish(t) /\ UNCHANGED <<rows, durable, nextId, torn>>
        BY <1>2 DEF InsertRow
    <2>2. ThreadsOK' /\ ThreadsFit'
        BY <1>0, <1>1, <2>1, Finishes, OthersFit
    <2>3. threads[t].pc # "activate"
        BY DEF InsertRow
    <2>4. TableOK(rows)' /\ TableOK(durable)' /\ CommitOK'
        BY <1>1, <2>1, <2>3, Finishes, TablesStay
    <2> QED BY <1>1, <2>1, <2>2, <2>4 DEF WellTyped, StoreOK, HistoryOK
<1>3. CASE ~Clashes(threads[t].model)
    <2> DEFINE m == threads[t].model
               p == [pc |-> "deactivate", op |-> threads[t].op, row |-> nextId, model |-> m]
    <2>1. /\ nextId \in RowIds /\ nextId' = nextId + 1
          /\ rows' = [rows EXCEPT ![nextId] = Row(m, FALSE)]
          /\ Commit(Threads \ {t}, rows')
          /\ threads' = [threads EXCEPT ![t].pc = "deactivate", ![t].row = nextId]
        BY <1>3 DEF InsertRow
    <2>2. p \in Request
        BY <1>0, <2>1, ConstantsOK DEF Request, Task, TaskSteps, RowIds
    <2>3. threads'[t] = p /\ threads' \in [Threads -> Request]
          /\ \A u \in Threads \ {t} : threads'[u] = threads[u]
        <3>1. threads \in [Threads -> Request]
            BY DEF WellTyped, ThreadsOK
        <3>2. threads'[t] = [[threads[t] EXCEPT !.pc = "deactivate"] EXCEPT !.row = nextId]
            BY <2>1, <3>1
        <3>3. threads'[t] = p
            BY <1>0, <3>2 DEF Task
        <3>4. /\ \A u \in Threads \ {t} : threads'[u] = threads[u]
              /\ DOMAIN threads' = Threads /\ threads' = [u \in Threads |-> threads'[u]]
            BY <2>1, <3>1
        <3> HIDE DEF p
        <3> QED BY <2>2, <3>1, <3>3, <3>4
    <2>4. Row(m, FALSE) \in RegistryRow /\ Row(m, FALSE).model = m
        BY <1>0 DEF Row, RegistryRow
    <2>5. rows \in [RowIds -> {Absent} \cup RegistryRow]
        BY DEF WellTyped, TableOK
    <2>6. rows'[nextId] = Row(m, FALSE) /\ \A r \in RowIds \ {nextId} : rows'[r] = rows[r]
        BY <2>1, <2>5
    <2>7. m.sha \in registered[m.id]
        BY <1>0 DEF WellTyped, ThreadsFit, Fits
    <2>8. TableOK(rows)'
        <3>1. rows' \in [RowIds -> {Absent} \cup RegistryRow]
            BY <2>1, <2>4, <2>5
        <3>2. \A r \in RowIds \ {nextId} : rows'[r].present =>
                r < nextId' /\ rows'[r].model.sha \in registered'[rows'[r].model.id]
            BY <1>0, <1>1, <2>1, <2>6 DEF WellTyped, TableOK, RowIds
        <3>3. nextId < nextId' /\ rows'[nextId].model.sha \in registered'[rows'[nextId].model.id]
            <4>1. rows'[nextId].model = m
                BY <2>4, <2>6
            <4>2. nextId < nextId' /\ registered' = registered
                BY <1>0, <1>1, <2>1
            <4> QED BY <2>7, <4>1, <4>2
        <3> QED BY <3>1, <3>2, <3>3 DEF TableOK
    <2>9. TableOK(durable)' /\ CommitOK' /\ torn' \subseteq Slots
        <3>1. \A u \in Threads \ (Threads \ {t}) : threads[u].pc # "activate"
            BY DEF InsertRow
        <3>2. ~rows[nextId].present
            BY <1>0, <2>1 DEF WellTyped, TableOK, RowIds
        <3>3. \A s \in filled' : ActiveIn(rows, s) \subseteq ActiveIn(rows', s)
            BY <2>6, <3>2 DEF ActiveIn
        <3> QED BY <1>1, <2>1, <2>8, <3>1, <3>3, Committed
    <2>10. Fits(t)'
        <3>1. rows'[nextId].model = m
            BY <2>4, <2>6
        <3>2. nextId \in 1..MaxRows /\ nextId < nextId'
            BY <1>0, <2>1 DEF RowIds
        <3>3. threads'[t].pc = "deactivate" /\ threads'[t].row = nextId /\ threads'[t].model = m
            BY <2>3
        <3> QED BY <3>1, <3>2, <3>3 DEF Fits
    <2>11. ThreadsOK' /\ ThreadsFit'
        <3>1. \A r \in RowIds : r < nextId => r # nextId
            BY <1>0 DEF RowIds
        <3>2. nextId' \in Nat /\ nextId <= nextId'
            BY <1>0, <2>1
        <3>3. \A r \in RowIds : r < nextId /\ rows'[r].present =>
                rows[r].present /\ rows'[r].model = rows[r].model
            BY <2>6, <3>1
        <3>4. \A id \in Ids : registered[id] \subseteq registered'[id]
            BY <1>1
        <3> HIDE DEF p, m
        <3> QED BY <2>3, <2>10, <3>2, <3>3, <3>4, OthersFit
    <2>12. StoreOK'
        BY <1>0, <1>1, <2>1, ConstantsOK DEF WellTyped, StoreOK, RowIds
    <2> QED BY <1>1, <2>8, <2>9, <2>11, <2>12 DEF WellTyped, HistoryOK
<1> QED BY <1>2, <1>3

\* What Deactivate and Activate write for a row that is there.
LEMMA Switched ==
    ASSUME NEW row \in RegistryRow, NEW active \in BOOLEAN
    PROVE  /\ [row EXCEPT !.active = active] \in RegistryRow
           /\ [row EXCEPT !.active = active].model = row.model
           /\ [row EXCEPT !.active = active].present
           /\ [row EXCEPT !.active = active].active = active
BY DEF RegistryRow

\* Rows that keep their presence and their model keep a table well typed.
LEMMA SameRows ==
    ASSUME NEW table, NEW new, TableOK(table),
           new \in [RowIds -> {Absent} \cup RegistryRow],
           \A r \in RowIds : new[r].present => table[r].present /\ new[r].model = table[r].model
    PROVE  TableOK(new)
BY DEF TableOK

LEMMA SwitchTyped ==
    ASSUME WellTyped, NEW t \in Threads, Deactivate(t) \/ Activate(t)
    PROVE  WellTyped'
<1>a. threads[t].pc \in {"deactivate", "activate"}
    BY DEF Deactivate, Activate
<1>b. nextId \in Nat /\ ThreadsFit
    BY ConstantsOK DEF WellTyped, StoreOK
<1>0. nextId \in Nat /\ threads[t] \in Task /\ threads[t].model \in Models
      /\ threads[t].model.slot \in Slots /\ threads[t].row \in RowIds
      /\ threads[t].pc \in {"deactivate", "activate"}
    BY <1>a, <1>b, AtWork DEF ThreadsFit, Fits
<1>1. UNCHANGED <<nextId, files, cache, registered, gone>>
    BY DEF Deactivate, Activate
<1>2. rows \in [RowIds -> {Absent} \cup RegistryRow]
    BY DEF WellTyped, TableOK
<1>3. /\ rows' \in [RowIds -> {Absent} \cup RegistryRow]
      /\ \A r \in RowIds : rows'[r].present => rows[r].present /\ rows'[r].model = rows[r].model
    <2>1. CASE Deactivate(t)
        <3>1. \A r \in Present : rows[r] \in RegistryRow
            BY <1>2, RowShape DEF Present
        <3> QED BY <1>2, <2>1, <3>1, Switched DEF Deactivate, Present
    <2>2. CASE Activate(t)
        <3>1. CASE rows[threads[t].row].present
            <4>1. rows[threads[t].row] \in RegistryRow
                BY <1>0, <1>2, <3>1, RowShape
            <4>2. rows' = [rows EXCEPT ![threads[t].row] = [rows[threads[t].row] EXCEPT !.active = TRUE]]
                BY <2>2, <3>1 DEF Activate, SwitchedOn
            <4> QED BY <1>0, <1>2, <3>1, <4>1, <4>2, Switched
        <3>2. CASE ~rows[threads[t].row].present
            BY <1>2, <2>2, <3>2 DEF Activate, SwitchedOn
        <3> QED BY <3>1, <3>2
    <2> QED BY <2>1, <2>2
<1>4. TableOK(rows)'
    BY <1>1, <1>3, SameRows DEF WellTyped, TableOK
<1>5. ThreadsOK' /\ ThreadsFit'
    <2>1. PICK pc \in {"activate", "audit"} : Goto(t, pc)
        BY DEF Deactivate, Activate
    <2>2. pc \in TaskSteps
        BY DEF TaskSteps
    <2>3. Fits(t)
        BY DEF WellTyped, ThreadsFit
    <2>4. /\ threads' \in [Threads -> Request]
          /\ \A u \in Threads \ {t} : threads'[u] = threads[u]
          /\ threads'[t].pc = pc /\ threads'[t].op = threads[t].op
          /\ threads'[t].row = threads[t].row /\ threads'[t].model = threads[t].model
        BY <1>0, <2>1, <2>2, GoesOn
    <2>5. Fits(t)'
        BY <1>0, <1>1, <1>3, <2>3, <2>4 DEF Fits
    <2> QED BY <1>0, <1>1, <1>3, <2>4, <2>5, OthersFit
<1>6. TableOK(durable)' /\ HistoryOK' /\ CommitOK'
    <2>1. CASE Deactivate(t)
        <3>1. UNCHANGED <<durable, filled, torn>> /\ raced' \subseteq Slots
            BY <1>0, <2>1 DEF Deactivate, WellTyped, HistoryOK
        <3>2. \A r \in RowIds : rows'[r].present /\ rows'[r].active => rows[r].active
            <4>1. \A r \in Present : rows[r] \in RegistryRow
                BY <1>2, RowShape DEF Present
            <4> QED BY <1>2, <2>1, <4>1, Switched DEF Deactivate
        <3>3. \A s \in Slots : ActiveIn(rows', s) \subseteq ActiveIn(rows, s)
            BY <1>3, <3>2 DEF ActiveIn
        <3>4. /\ \A u \in Threads \ {t} : threads'[u] = threads[u]
              /\ threads'[t].pc = "activate" /\ threads'[t].model = threads[t].model
            BY <1>0, <2>1, GoesOn DEF Deactivate, TaskSteps
        <3>6. \A s : Open(s) => Open(s)'
            BY <2>1, <3>4 DEF Open, Deactivate
        <3>7. \A s \in Slots \ {threads[t].model.slot} : ActiveIn(rows, s) \subseteq ActiveIn(rows', s)
            BY <2>1 DEF Deactivate, SwitchedOff, ActiveIn, Present
        <3>8. \A s \in filled' \ torn' : ActiveIn(rows', s) = {} => Open(s)'
            <4> SUFFICES ASSUME NEW s \in filled' \ torn', ActiveIn(rows', s) = {} PROVE Open(s)'
                OBVIOUS
            <4>1. CASE s = threads[t].model.slot
                BY <3>4, <4>1 DEF Open
            <4>2. CASE s # threads[t].model.slot
                <5>1. s \in filled \ torn /\ s \in Slots
                    BY <3>1 DEF WellTyped, HistoryOK
                <5>2. ActiveIn(rows, s) = {}
                    BY <3>7, <4>2, <5>1
                <5> QED BY <3>6, <5>1, <5>2 DEF WellTyped, CommitOK
            <4> QED BY <4>1, <4>2
        <3>9. CommitOK'
            BY <3>1, <3>8 DEF WellTyped, CommitOK, SwitchIsAtomic
        <3> QED BY <1>1, <2>1, <3>1, <3>9 DEF WellTyped, TableOK, HistoryOK, Deactivate
    <2>2. CASE Activate(t)
        <3> DEFINE r == threads[t].row
                   slot == threads[t].model.slot
                   hit == IF rows[r].present THEN {rows[r].model.slot} ELSE {}
                   cut == Interrupted(Threads \ {t})
        <3>1. /\ durable' = rows' /\ raced' = raced /\ filled' = filled \cup hit
              /\ torn' = (torn \cup cut \cup {slot}) \ hit /\ crossed' = crossed \cup (hit \ {slot})
            BY <2>2 DEF Activate
        <3>2. hit \subseteq Slots
            <4>1. rows[r].present => rows[r].model \in Models
                BY <1>0, <1>2, RowShape
            <4> QED BY <4>1, ModelParts
        <3>3. cut \subseteq Slots
            BY AtWork DEF Interrupted
        <3>4. HistoryOK'
            <4> HIDE DEF hit, cut
            <4> QED BY <1>0, <1>1, <3>1, <3>2, <3>3 DEF WellTyped, HistoryOK
        <3>5. \A s \in hit : ActiveIn(rows', s) # {}
            <4>1. SUFFICES ASSUME rows[r].present
                           PROVE  r \in ActiveIn(rows', rows[r].model.slot)
                OBVIOUS
            <4>2. rows[r] \in RegistryRow
                BY <1>0, <1>2, <4>1, RowShape
            <4>3. rows' = [rows EXCEPT ![r] = [rows[r] EXCEPT !.active = TRUE]]
                BY <2>2, <4>1 DEF Activate, SwitchedOn
            <4>4. rows'[r] = [rows[r] EXCEPT !.active = TRUE]
                BY <1>0, <1>2, <4>3
            <4> QED BY <1>0, <4>2, <4>4, Switched DEF ActiveIn
        <3>6. \A s : ActiveIn(rows, s) \subseteq ActiveIn(rows', s)
            <4>1. CASE rows[r].present
                <5>1. rows[r] \in RegistryRow
                    BY <1>0, <1>2, <4>1, RowShape
                <5>2. rows' = [rows EXCEPT ![r] = [rows[r] EXCEPT !.active = TRUE]]
                    BY <2>2, <4>1 DEF Activate, SwitchedOn
                <5>3. /\ rows'[r] = [rows[r] EXCEPT !.active = TRUE]
                      /\ \A q \in RowIds \ {r} : rows'[q] = rows[q]
                    BY <1>0, <1>2, <5>2
                <5>4. /\ rows'[r].present /\ rows'[r].active /\ rows'[r].model = rows[r].model
                    BY <5>1, <5>3, Switched
                <5>5. \A q \in RowIds : rows[q].present /\ rows[q].active =>
                        rows'[q].present /\ rows'[q].active /\ rows'[q].model = rows[q].model
                    BY <5>3, <5>4
                <5> QED BY <5>5 DEF ActiveIn
            <4>2. CASE ~rows[r].present
                BY <2>2, <4>2 DEF Activate, SwitchedOn
            <4> QED BY <4>1, <4>2
        <3>7. ASSUME NEW s \in filled' \ torn', s \notin hit PROVE ActiveIn(rows, s) # {}
            <4>1. s \in filled \ torn /\ s \notin cut /\ s # slot
                <5> HIDE DEF hit, cut, slot
                <5> QED BY <3>1, <3>7
            <4>2. ~Open(s)
                BY <4>1 DEF Open, Interrupted
            <4> QED BY <4>1, <4>2 DEF WellTyped, CommitOK
        <3>8. \A s \in filled' \ torn' : ActiveIn(rows', s) # {}
            <4> HIDE DEF hit
            <4> QED BY <3>5, <3>6, <3>7
        <3>9. CommitOK'
            BY <3>1, <3>8 DEF CommitOK, SwitchIsAtomic
        <3> QED BY <1>4, <3>1, <3>4, <3>9 DEF TableOK
    <2> QED BY <2>1, <2>2
<1> QED BY <1>1, <1>4, <1>5, <1>6 DEF WellTyped, StoreOK

LEMMA EndTyped ==
    ASSUME WellTyped, NEW t \in Threads, Audit(t) \/ DeleteRow(t)
    PROVE  WellTyped'
<1>0. nextId \in Nat
    BY ConstantsOK DEF WellTyped, StoreOK
<1>1. UNCHANGED <<nextId, files, registered, crossed, raced>>
    BY DEF Audit, DeleteRow
<1>2. CASE Audit(t)
    <2>1. rows' = rows /\ filled' = filled /\ Finish(t)
        BY <1>2 DEF Audit
    <2>2. cache' \in [Shas -> Contents]
        BY <1>2, ConstantsOK DEF Audit, CacheAfter, WellTyped, StoreOK, Contents
    <2>3. gone' \subseteq Ids
        BY <1>2, AtWork DEF Audit, WellTyped, HistoryOK
    <2>4. TableOK(rows)'
        BY <1>1, <2>1 DEF WellTyped, TableOK
    <2>a. threads[t].pc # "activate"
        BY <1>2 DEF Audit
    <2>5. TableOK(durable)' /\ CommitOK' /\ torn' \subseteq Slots
        <3>1. CASE Commit(Threads \ {t}, rows)
            <4>1. Commit(Threads \ {t}, rows') /\ \A s \in filled' : ActiveIn(rows, s) \subseteq ActiveIn(rows', s)
                BY <2>1, <3>1 DEF ActiveIn
            <4>2. \A u \in Threads \ (Threads \ {t}) : threads[u].pc # "activate"
                BY <2>a
            <4> QED BY <2>1, <2>4, <4>1, <4>2, Committed
        <3>2. CASE UNCHANGED <<durable, torn>>
            <4>1. TableOK(durable)' /\ CommitOK'
                BY <1>1, <2>1, <2>a, <3>2, Finishes, TablesStay
            <4> QED BY <3>2, <4>1 DEF WellTyped, HistoryOK
        <3> QED BY <1>2, <3>1, <3>2 DEF Audit
    <2>6. ThreadsOK' /\ ThreadsFit'
        BY <1>0, <1>1, <2>1, Finishes, OthersFit
    <2> QED BY <1>1, <2>1, <2>2, <2>3, <2>4, <2>5, <2>6 DEF WellTyped, StoreOK, HistoryOK
<1>3. CASE DeleteRow(t)
    <2>1. /\ rows' = [rows EXCEPT ![threads[t].row] = Absent] /\ Commit(Threads \ {t}, rows')
          /\ cache' = cache /\ gone' = gone /\ Goto(t, "audit")
        BY <1>3 DEF DeleteRow
    <2>2. threads[t].row \in RowIds /\ threads[t] \in Task /\ threads[t].pc = "delete"
        BY <1>3, AtWork DEF DeleteRow, WellTyped, ThreadsFit, Fits
    <2>3. rows \in [RowIds -> {Absent} \cup RegistryRow]
        BY DEF WellTyped, TableOK
    <2>4. rows' \in [RowIds -> {Absent} \cup RegistryRow] /\ ~Absent.present
        BY <2>1, <2>3 DEF Absent
    <2>5. \A r \in RowIds : rows'[r].present => rows[r].present /\ rows'[r].model = rows[r].model
        BY <2>1, <2>2, <2>3, <2>4
    <2>6. TableOK(rows)'
        BY <1>1, <2>1, <2>4, <2>5, SameRows DEF WellTyped, TableOK
    <2>7. "audit" \in TaskSteps
        BY DEF TaskSteps
    <2>8. Fits(t)
        BY DEF WellTyped, ThreadsFit
    <2>9. Fits(t)'
        BY <1>1, <2>1, <2>2, <2>5, <2>7, <2>8, GoesOn DEF Fits
    <2>10. ThreadsOK' /\ ThreadsFit'
        <3>1. /\ threads' \in [Threads -> Request]
              /\ \A u \in Threads \ {t} : threads'[u] = threads[u]
            BY <2>1, <2>2, <2>7, GoesOn
        <3> QED BY <1>0, <1>1, <2>5, <2>9, <3>1, OthersFit
    <2>11. TableOK(durable)' /\ CommitOK' /\ torn' \subseteq Slots /\ filled' \subseteq filled
        <3> DEFINE r == threads[t].row
                   emptied == IF rows[r].present /\ rows[r].active THEN {rows[r].model.slot} ELSE {}
        <3>1. filled' = filled \ emptied
            BY <1>3 DEF DeleteRow
        <3>2. \A q \in RowIds \ {r} : rows'[q] = rows[q]
            BY <2>1, <2>3
        <3>3. \A s \in filled' : ActiveIn(rows, s) \subseteq ActiveIn(rows', s)
            BY <3>1, <3>2 DEF ActiveIn
        <3>4. filled' \subseteq filled
            BY <3>1
        <3>5. \A u \in Threads \ (Threads \ {t}) : threads[u].pc # "activate"
            BY <2>2
        <3> QED BY <2>1, <2>6, <3>3, <3>4, <3>5, Committed
    <2>12. HistoryOK'
        BY <1>1, <2>1, <2>11 DEF WellTyped, HistoryOK
    <2> QED BY <1>1, <2>1, <2>6, <2>10, <2>11, <2>12 DEF WellTyped, StoreOK
<1> QED BY <1>2, <1>3

LEMMA OutsideTyped ==
    ASSUME WellTyped, OtherCommit \/ Restart \/ UNCHANGED vars
    PROVE  WellTyped'
<1>1. CASE OtherCommit
    <2>1. UNCHANGED <<rows, nextId, files, cache, threads, registered, filled, crossed, raced, gone>>
        BY <1>1 DEF OtherCommit
    <2>2. TableOK(rows)' /\ Commit(Threads, rows')
        BY <1>1, <2>1 DEF OtherCommit, TableOK, WellTyped
    <2>3. \A s \in filled' : ActiveIn(rows, s) \subseteq ActiveIn(rows', s)
        BY <2>1 DEF ActiveIn
    <2>4. TableOK(durable)' /\ CommitOK' /\ torn' \subseteq Slots
        BY <2>1, <2>2, <2>3, Committed
    <2> QED BY <2>1, <2>2, <2>4 DEF WellTyped, ThreadsOK, ThreadsFit, Fits, StoreOK, HistoryOK
<1>2. CASE Restart
    <2>1. UNCHANGED <<durable, nextId, files, registered, filled, torn, crossed, raced, gone>>
        BY <1>2 DEF Restart, history
    <2>2. TableOK(rows)' /\ TableOK(durable)' /\ CommitOK'
        BY <1>2, <2>1 DEF Restart, TableOK, WellTyped, CommitOK, SwitchIsAtomic
    <2>3. ThreadsOK' /\ ThreadsFit'
        BY <1>2 DEF Restart, ThreadsOK, ThreadsFit, Fits, Request, Idle
    <2>4. cache' \in [Shas -> Contents]
        BY <1>2 DEF Restart, Contents
    <2> QED BY <2>1, <2>2, <2>3, <2>4 DEF WellTyped, StoreOK, HistoryOK
<1>3. CASE UNCHANGED vars
    BY <1>3 DEF vars, store, history, WellTyped, ThreadsOK, ThreadsFit, Fits, TableOK, StoreOK, HistoryOK,
                CommitOK, SwitchIsAtomic, ActiveIn, Open
<1> QED BY <1>1, <1>2, <1>3

LEMMA NextTyped == WellTyped /\ [Next]_vars => WellTyped'
BY BeginTyped, FilesTyped, InsertTyped, SwitchTyped, EndTyped, OutsideTyped DEF Next

\* Rows, files, cached sessions and requests keep their shapes, whatever
\* requests and restarts overlap.
THEOREM RegistryTypes == Spec => []TypeOK
BY InitTyped, NextTyped, TypeParts, PTL DEF Spec

\* Whenever the service restarts, a slot whose model was not uninstalled has
\* one, unless another commit came between the two statements of its last
\* switch, or that switch activated no row of the slot.
THEOREM SwitchesAreAtomic == Spec => []SwitchIsAtomic
<1>1. WellTyped => SwitchIsAtomic
    BY DEF WellTyped, CommitOK
<1> QED BY <1>1, InitTyped, NextTyped, PTL DEF Spec

-----------------------------------------------------------------------------
(* One active model of a slot.                                             *)

Lone(table, slot) == \A q, r \in ActiveIn(table, slot) : q = r

\* A slot that no two switches have fought over has one active row at most, in
\* both tables, and none while its switch is between its two statements.
OneActive ==
    \A s \in Slots \ (raced \cup crossed) :
      /\ Lone(rows, s) /\ Lone(durable, s)
      /\ \A t \in Threads : threads[t].pc = "activate" /\ threads[t].model.slot = s =>
           /\ ActiveIn(rows, s) = {}
           /\ \A u \in Threads : threads[u].pc = "activate" /\ threads[u].model.slot = s => u = t

LEMMA OneActiveBound == WellTyped /\ OneActive => OneActivePerSlot
<1> SUFFICES ASSUME OneActive, NEW s \in Slots \ (raced \cup crossed)
             PROVE  Cardinality(ActiveIn(rows, s)) <= 1
    BY DEF OneActivePerSlot
<1>1. CASE ActiveIn(rows, s) = {}
    BY <1>1, FS_EmptySet
<1>2. CASE ActiveIn(rows, s) # {}
    <2>1. PICK r \in ActiveIn(rows, s) : TRUE
        BY <1>2
    <2>2. ActiveIn(rows, s) = {r}
        BY <2>1 DEF OneActive, Lone
    <2>3. Cardinality({r}) = 1
        BY FS_Singleton
    <2> QED BY <2>2, <2>3
<1> QED BY <1>1, <1>2

\* A step that activates nothing and sends no request into the second statement.
LEMMA ActiveShrinks ==
    ASSUME OneActive, raced \subseteq raced', crossed' = crossed,
           \A s \in Slots : ActiveIn(rows', s) \subseteq ActiveIn(rows, s),
           \A s \in Slots : \/ ActiveIn(durable', s) \subseteq ActiveIn(durable, s)
                            \/ ActiveIn(durable', s) \subseteq ActiveIn(rows, s),
           \A u \in Threads : threads'[u].pc = "activate" => threads'[u] = threads[u]
    PROVE  OneActive'
<1> SUFFICES ASSUME NEW s \in Slots \ (raced' \cup crossed')
             PROVE  /\ Lone(rows', s) /\ Lone(durable', s)
                    /\ \A t \in Threads : threads'[t].pc = "activate" /\ threads'[t].model.slot = s =>
                         /\ ActiveIn(rows', s) = {}
                         /\ \A u \in Threads : threads'[u].pc = "activate" /\ threads'[u].model.slot = s => u = t
    BY DEF OneActive, ActiveIn, Lone
<1>1. s \in Slots \ (raced \cup crossed)
    OBVIOUS
<1>2. Lone(rows, s) /\ Lone(durable, s)
    BY <1>1 DEF OneActive
<1>3. Lone(rows', s) /\ Lone(durable', s)
    BY <1>2 DEF Lone
<1> QED BY <1>1, <1>3 DEF OneActive

\* What every step but the two statements of the switch and a restart does.
ActivatesNothing ==
    /\ raced' = raced /\ crossed' = crossed
    /\ \A s \in Slots : ActiveIn(rows', s) \subseteq ActiveIn(rows, s)
    /\ \A s \in Slots : \/ ActiveIn(durable', s) \subseteq ActiveIn(durable, s)
                        \/ ActiveIn(durable', s) \subseteq ActiveIn(rows, s)
    /\ \A u \in Threads : threads'[u].pc = "activate" => threads'[u] = threads[u]

LEMMA OthersActivateNothing ==
    ASSUME WellTyped, NEW t \in Threads,
           \/ \E m \in Catalog : BeginInstall(t, m)
           \/ \E m \in Profiles : BeginRegister(t, m)
           \/ \E intact \in BOOLEAN : Receive(t, intact)
           \/ UnlinkTarget(t) \/ ReplaceTarget(t) \/ InsertRow(t) \/ Audit(t)
           \/ \E r \in RowIds : BeginUninstall(t, r)
           \/ RemoveFile(t) \/ DeleteRow(t)
           \/ \E s \in Slots : ReadActive(t, s)
           \/ LoadModel(t)
    PROVE  ActivatesNothing
<1>0. threads \in [Threads -> Request] /\ rows \in [RowIds -> {Absent} \cup RegistryRow]
    BY DEF WellTyped, ThreadsOK, TableOK
<1>1. raced' = raced /\ crossed' = crossed
    BY DEF BeginInstall, BeginRegister, Receive, UnlinkTarget, ReplaceTarget, InsertRow, Audit,
       BeginUninstall, RemoveFile, DeleteRow, ReadActive, LoadModel, history
<1>2. \A u \in Threads : threads'[u].pc = "activate" => threads'[u] = threads[u]
    <2>1. CASE \/ \E m \in Catalog : BeginInstall(t, m)
               \/ \E m \in Profiles : BeginRegister(t, m)
               \/ \E r \in RowIds : BeginUninstall(t, r)
               \/ \E s \in Slots : ReadActive(t, s)
        BY <1>0, <2>1 DEF BeginInstall, BeginRegister, BeginUninstall, ReadActive
    <2>2. CASE Finish(t)
        BY <1>0, <2>2 DEF Finish, Idle
    <2>3. CASE (\E intact \in BOOLEAN : Receive(t, intact)) /\ ~Finish(t)
        BY <1>0, <2>3 DEF Receive
    <2>4. CASE UnlinkTarget(t)
        <3>1. threads[t] \in Stored
            BY <2>4, AtWork DEF UnlinkTarget
        <3> QED BY <1>0, <2>4, <3>1 DEF UnlinkTarget, Goto, Stored
    <2>5. CASE ReplaceTarget(t)
        BY <1>0, <2>5 DEF ReplaceTarget
    <2>6. CASE InsertRow(t) /\ ~Finish(t)
        <3>1. threads[t] \in Task
            BY <2>6, AtWork DEF InsertRow
        <3>2. threads' = [threads EXCEPT ![t].pc = "deactivate", ![t].row = nextId]
            BY <2>6 DEF InsertRow
        <3> QED BY <1>0, <3>1, <3>2 DEF Task
    <2>7. CASE RemoveFile(t) \/ DeleteRow(t)
        <3>1. threads[t] \in Task
            BY <2>7, AtWork DEF RemoveFile, DeleteRow
        <3>2. \E pc : pc # "activate" /\ threads' = [threads EXCEPT ![t] = [threads[t] EXCEPT !.pc = pc]]
            BY <2>7 DEF RemoveFile, DeleteRow, Goto
        <3>3. \A pc : [threads[t] EXCEPT !.pc = pc].pc = pc
            BY <3>1 DEF Task
        <3> QED BY <1>0, <3>2, <3>3
    <2> QED BY <2>1, <2>2, <2>3, <2>4, <2>5, <2>6, <2>7 DEF Audit, LoadModel
<1>3. \A s \in Slots :
        /\ ActiveIn(rows', s) \subseteq ActiveIn(rows, s)
        /\ \/ ActiveIn(durable', s) \subseteq ActiveIn(durable, s)
           \/ ActiveIn(durable', s) \subseteq ActiveIn(rows, s)
    <2>1. CASE InsertRow(t) /\ ~Clashes(threads[t].model)
        <3>1. rows' = [rows EXCEPT ![nextId] = Row(threads[t].model, FALSE)] /\ durable' = rows'
            BY <2>1 DEF InsertRow, Commit
        <3>2. \A r \in RowIds : rows'[r] = rows[r] \/ ~rows'[r].active
            BY <1>0, <3>1 DEF Row
        <3>3. durable' = rows'
            BY <3>1
        <3> QED BY <3>2, <3>3 DEF ActiveIn
    <2>2. CASE DeleteRow(t)
        <3>1. rows' = [rows EXCEPT ![threads[t].row] = Absent] /\ durable' = rows'
            BY <2>2 DEF DeleteRow, Commit
        <3>2. \A r \in RowIds : rows'[r] = rows[r] \/ ~rows'[r].active
            BY <1>0, <3>1 DEF Absent
        <3> QED BY <3>1, <3>2 DEF ActiveIn
    <2>3. CASE Audit(t)
        BY <2>3 DEF Audit, Commit
    <2>4. CASE UNCHANGED <<rows, durable>>
        BY <2>4
    <2> QED BY <2>1, <2>2, <2>3, <2>4 DEF BeginInstall, BeginRegister, Receive, UnlinkTarget, ReplaceTarget,
               InsertRow, BeginUninstall, RemoveFile, ReadActive, LoadModel, store
<1> QED BY <1>1, <1>2, <1>3 DEF ActivatesNothing

LEMMA OutsideActivatesNothing ==
    ASSUME WellTyped, OtherCommit \/ Restart \/ UNCHANGED vars
    PROVE  \/ ActivatesNothing
           \/ Restart
<1>1. CASE OtherCommit
    BY <1>1 DEF OtherCommit, Commit, ActivatesNothing
<1>2. CASE UNCHANGED vars
    BY <1>2 DEF vars, store, history, ActivatesNothing
<1> QED BY <1>1, <1>2

LEMMA OneActiveKept == WellTyped /\ OneActive /\ [Next]_vars => OneActive'
<1> SUFFICES ASSUME WellTyped, OneActive, [Next]_vars PROVE OneActive'
    OBVIOUS
<1>1. CASE ActivatesNothing
    BY <1>1, ActiveShrinks DEF ActivatesNothing
<1>2. CASE Restart
    BY <1>2 DEF Restart, history, OneActive, Idle, Lone, ActiveIn
<1>3. ASSUME NEW t \in Threads, Deactivate(t) PROVE OneActive'
    <2> DEFINE m == threads[t].model
    <2>0. /\ threads[t] \in Task /\ m.slot \in Slots /\ threads[t].pc = "deactivate"
          /\ Goto(t, "activate") /\ durable' = durable /\ crossed' = crossed
        BY <1>3, AtWork DEF Deactivate
    <2>1. /\ \A u \in Threads \ {t} : threads'[u] = threads[u]
          /\ threads'[t].pc = "activate" /\ threads'[t].model = m
        BY <2>0, GoesOn DEF TaskSteps
    <2>2. /\ raced \subseteq raced'
          /\ m.slot \notin raced' => \A u \in Threads \ {t} : threads[u].pc = "activate" => threads[u].model.slot # m.slot
        BY <1>3 DEF Deactivate
    <2>3. \A r \in RowIds :
            /\ rows'[r].present /\ rows'[r].active => rows[r].present /\ rows[r].active
            /\ rows'[r].present => rows'[r].model = rows[r].model
            /\ rows'[r].present /\ rows'[r].active => rows[r].model.slot # m.slot
        <3>1. rows \in [RowIds -> {Absent} \cup RegistryRow]
            BY DEF WellTyped, TableOK
        <3>2. \A r \in Present : rows[r] \in RegistryRow
            BY <3>1, RowShape DEF Present
        <3> QED BY <1>3, <3>1, <3>2, Switched DEF Deactivate, Present, SwitchedOff
    <2>4. ActiveIn(rows', m.slot) = {} /\ \A s \in Slots : ActiveIn(rows', s) \subseteq ActiveIn(rows, s)
        BY <2>3 DEF ActiveIn
    <2> SUFFICES ASSUME NEW s \in Slots \ (raced' \cup crossed')
                 PROVE  /\ Lone(rows', s) /\ Lone(durable', s)
                        /\ \A v \in Threads : threads'[v].pc = "activate" /\ threads'[v].model.slot = s =>
                             /\ ActiveIn(rows', s) = {}
                             /\ \A u \in Threads : threads'[u].pc = "activate" /\ threads'[u].model.slot = s => u = v
        BY DEF OneActive, ActiveIn, Lone
    <2>a. s \in Slots \ (raced \cup crossed)
        BY <2>0, <2>2
    <2>5. Lone(rows', s) /\ Lone(durable', s)
        BY <2>0, <2>a, <2>4 DEF OneActive, Lone
    <2>6. CASE s = m.slot
        BY <2>1, <2>2, <2>4, <2>5, <2>6
    <2>7. CASE s # m.slot
        BY <2>1, <2>a, <2>4, <2>5, <2>7 DEF OneActive
    <2> QED BY <2>6, <2>7
<1>4. ASSUME NEW t \in Threads, Activate(t) PROVE OneActive'
    <2> DEFINE m == threads[t].model
               row == threads[t].row
    <2>0. /\ threads[t] \in Task /\ m.slot \in Slots /\ threads[t].pc = "activate" /\ row \in RowIds
          /\ Goto(t, "audit") /\ durable' = rows' /\ raced' = raced
          /\ crossed' = crossed \cup ((IF rows[row].present THEN {rows[row].model.slot} ELSE {}) \ {m.slot})
        BY <1>4, AtWork DEF Activate, WellTyped, ThreadsFit, Fits
    <2>1. /\ \A u \in Threads \ {t} : threads'[u] = threads[u]
          /\ threads'[t].pc = "audit"
        BY <2>0, GoesOn DEF TaskSteps
    <2>2. /\ \A r \in RowIds \ {row} : rows'[r] = rows[r]
          /\ rows'[row].present => rows[row].present /\ rows'[row].model = rows[row].model
        <3>1. rows \in [RowIds -> {Absent} \cup RegistryRow]
            BY DEF WellTyped, TableOK
        <3>2. rows[row].present => rows[row] \in RegistryRow
            BY <2>0, <3>1, RowShape
        <3>3. CASE rows[row].present
            <4>1. rows' = [rows EXCEPT ![row] = [rows[row] EXCEPT !.active = TRUE]]
                BY <1>4, <3>3 DEF Activate, SwitchedOn
            <4> QED BY <2>0, <3>1, <3>2, <3>3, <4>1, Switched
        <3>4. CASE ~rows[row].present
            BY <1>4, <3>4 DEF Activate, SwitchedOn
        <3> QED BY <3>3, <3>4
    <2>3. /\ \A s \in Slots \ crossed' : s # m.slot => ActiveIn(rows', s) \subseteq ActiveIn(rows, s)
          /\ ActiveIn(rows', m.slot) \subseteq ActiveIn(rows, m.slot) \cup {row}
        BY <2>0, <2>2 DEF ActiveIn
    <2> SUFFICES ASSUME NEW s \in Slots \ (raced' \cup crossed')
                 PROVE  /\ Lone(rows', s) /\ Lone(durable', s)
                        /\ \A v \in Threads : threads'[v].pc = "activate" /\ threads'[v].model.slot = s =>
                             /\ ActiveIn(rows', s) = {}
                             /\ \A u \in Threads : threads'[u].pc = "activate" /\ threads'[u].model.slot = s => u = v
        BY DEF OneActive, ActiveIn, Lone
    <2>a. s \in Slots \ (raced \cup crossed)
        BY <2>0
    <2>4. CASE s = m.slot
        <3>1. ActiveIn(rows, s) = {} /\ \A u \in Threads \ {t} :
                ~(threads[u].pc = "activate" /\ threads[u].model.slot = s)
            BY <2>0, <2>a, <2>4 DEF OneActive
        <3>2. Lone(rows', s) /\ Lone(durable', s)
            BY <2>0, <2>3, <2>4, <3>1 DEF Lone
        <3> QED BY <2>1, <3>1, <3>2
    <2>5. CASE s # m.slot
        <3>1. Lone(rows', s) /\ Lone(durable', s)
            BY <2>0, <2>a, <2>3, <2>5 DEF OneActive, Lone
        <3>2. ActiveIn(rows, s) = {} => ActiveIn(rows', s) = {}
            BY <2>3, <2>5
        <3> QED BY <2>0, <2>1, <2>a, <3>1, <3>2 DEF OneActive
    <2> QED BY <2>4, <2>5
<1> QED BY <1>1, <1>2, <1>3, <1>4, OthersActivateNothing, OutsideActivatesNothing DEF Next

\* Whatever installs and registrations overlap, at most one model of a slot is
\* active, unless two switches of that slot have overlapped or a switch of
\* another slot found its row in this one.
THEOREM OneActiveModel == Spec => []OneActivePerSlot
<1>1. Init => OneActive
    BY DEF Init, OneActive, Idle, Lone, ActiveIn, Absent
<1> QED BY <1>1, InitTyped, NextTyped, OneActiveKept, OneActiveBound, PTL DEF Spec

\* A restart at any moment finds exactly one model in a slot that was filled and
\* not emptied by an uninstall, unless two switches of the slot overlapped, a
\* switch of another slot activated a row of it, or its last switch was cut by
\* another commit or found its row gone.
THEOREM RestartFindsOneModel ==
    Spec => [](\A s \in filled \ (torn \cup raced \cup crossed) : \E r \in RowIds : ActiveIn(durable, s) = {r})
<1>1. WellTyped /\ OneActive =>
        \A s \in filled \ (torn \cup raced \cup crossed) : \E r \in RowIds : ActiveIn(durable, s) = {r}
    <2> SUFFICES ASSUME WellTyped, OneActive, NEW s \in filled \ (torn \cup raced \cup crossed)
                 PROVE  \E r \in RowIds : ActiveIn(durable, s) = {r}
        OBVIOUS
    <2>1. PICK r \in RowIds : r \in ActiveIn(durable, s)
        BY DEF WellTyped, CommitOK, SwitchIsAtomic, ActiveIn
    <2>2. s \in Slots \ (raced \cup crossed)
        BY DEF WellTyped, HistoryOK
    <2>3. ActiveIn(durable, s) = {r}
        BY <2>1, <2>2 DEF OneActive, Lone
    <2> QED BY <2>3
<1>2. Init => OneActive
    BY DEF Init, OneActive, Idle, Lone, ActiveIn, Absent
<1> QED BY <1>1, <1>2, InitTyped, NextTyped, OneActiveKept, PTL DEF Spec

\* When no two models of different slots share name and hash, every request
\* activates a row of the slot it empties.
LEMMA NothingCrossed ==
    ASSUME \A m, n \in Models : m.name = n.name /\ m.sha = n.sha => m.slot = n.slot,
           WellTyped, [Next]_vars
    PROVE  crossed' = crossed
<1>1. ASSUME NEW t \in Threads, Activate(t) PROVE crossed' = crossed
    <2> DEFINE r == threads[t].row
    <2>1. /\ threads[t].pc = "activate"
          /\ crossed' = crossed \cup ((IF rows[r].present THEN {rows[r].model.slot} ELSE {})
                                       \ {threads[t].model.slot})
        BY <1>1 DEF Activate
    <2>2. threads[t].model \in Models /\ (r # 0 => r \in RowIds)
        BY <2>1, AtWork
    <2>3. /\ r \in RowIds
          /\ rows[r].present => rows[r].model.name = threads[t].model.name
                                /\ rows[r].model.sha = threads[t].model.sha
        BY <2>1, <2>2 DEF WellTyped, ThreadsFit, Fits
    <2>4. rows[r].present => rows[r].model \in Models
        BY <2>3, RowShape DEF WellTyped, TableOK
    <2>5. rows[r].present => rows[r].model.slot = threads[t].model.slot
        BY <2>2, <2>3, <2>4
    <2> QED BY <2>1, <2>5
<1>2. ASSUME NEW t \in Threads, Deactivate(t) PROVE crossed' = crossed
    BY <1>2 DEF Deactivate
<1>3. CASE Restart
    BY <1>3 DEF Restart, history
<1> QED BY <1>1, <1>2, <1>3, OthersActivateNothing, OutsideActivatesNothing DEF Next, ActivatesNothing

\* When models are managed by one request at a time, and no two models of
\* different slots share name and hash, no slot ever has two active models.
THEOREM SerialSwitches ==
    ASSUME \A t, u \in Threads : t = u,
           \A m, n \in Models : m.name = n.name /\ m.sha = n.sha => m.slot = n.slot
    PROVE  Spec => [](\A s \in Slots : Cardinality(ActiveIn(rows, s)) <= 1)
<1>1. Init => raced = {} /\ crossed = {}
    BY DEF Init
<1>2. WellTyped /\ raced = {} /\ crossed = {} /\ [Next]_vars => (raced = {} /\ crossed = {})'
    <2> SUFFICES ASSUME WellTyped, raced = {}, crossed = {}, [Next]_vars
                 PROVE  raced' = raced /\ crossed' = crossed
        OBVIOUS
    <2>1. ASSUME NEW t \in Threads, Deactivate(t) PROVE raced' = raced
        BY <2>1 DEF Deactivate
    <2>2. ASSUME NEW t \in Threads, Activate(t) PROVE raced' = raced
        BY <2>2 DEF Activate
    <2>3. CASE Restart
        BY <2>3 DEF Restart, history
    <2>4. raced' = raced
        BY <2>1, <2>2, <2>3, OthersActivateNothing, OutsideActivatesNothing DEF Next, ActivatesNothing
    <2>5. crossed' = crossed
        BY NothingCrossed
    <2> QED BY <2>4, <2>5
<1>3. raced = {} /\ crossed = {} /\ OneActivePerSlot => \A s \in Slots : Cardinality(ActiveIn(rows, s)) <= 1
    BY DEF OneActivePerSlot
<1> QED BY <1>1, <1>2, <1>3, InitTyped, NextTyped, OneActiveModel, PTL DEF Spec

-----------------------------------------------------------------------------
(* What is loaded, and what an uninstall leaves.                           *)

\* A finished uninstall left no file under the id and no request that will
\* bring one, and its sessions are not cached.
GoneInv ==
    \A id \in gone :
      /\ files[id] = NoFile
      /\ \A t \in Threads : threads[t].pc # "idle" /\ threads[t].op \in {"install", "register"} =>
           threads[t].model.id # id
StoreInv == RunsVerifiedModel /\ GoneInv /\ UninstallIsFinal

\* A step that writes no file and begins no request for a store.
LEMMA NothingStored ==
    ASSUME StoreInv, gone' \subseteq gone, registered' = registered,
           \A id \in gone' : files'[id] \in {files[id], NoFile},
           \A s \in Shas : cache'[s] \in {cache[s], NoFile},
           \A u \in Threads :
             \/ threads'[u].pc = "idle"
             \/ threads'[u].op \notin {"install", "register"}
             \/ /\ threads[u].pc # "idle"
                /\ threads'[u].op = threads[u].op /\ threads'[u].model = threads[u].model
             \/ threads'[u].model.id \notin gone',
           \A id \in Ids : registered[id] \subseteq Shas,
           gone \subseteq Ids
    PROVE  StoreInv'
<1>1. RunsVerifiedModel'
    BY DEF StoreInv, RunsVerifiedModel
<1>2. GoneInv'
    BY DEF StoreInv, GoneInv
<1>3. UninstallIsFinal'
    BY DEF StoreInv, UninstallIsFinal
<1> QED BY <1>1, <1>2, <1>3 DEF StoreInv

LEMMA StoreKept ==
    ASSUME WellTyped, StoreInv, [Next]_vars
    PROVE  StoreInv'
<1>0. /\ threads \in [Threads -> Request]
      /\ files \in [Ids -> Contents] /\ cache \in [Shas -> Contents]
      /\ registered \in [Ids -> SUBSET Shas] /\ gone \subseteq Ids
      /\ \A id \in Ids : registered[id] \subseteq Shas
    BY DEF WellTyped, ThreadsOK, StoreOK, HistoryOK
<1>1. ASSUME NEW t \in Threads, NEW m \in Catalog, BeginInstall(t, m) PROVE StoreInv'
    <2>1. /\ UNCHANGED <<files, cache, registered>> /\ gone' = gone \ {m.id}
          /\ \A u \in Threads \ {t} : threads'[u] = threads[u]
          /\ threads'[t].model = m
        BY <1>0, <1>1 DEF BeginInstall, store
    <2> QED BY <1>0, <2>1, NothingStored
<1>2. ASSUME NEW t \in Threads, NEW m \in Profiles, BeginRegister(t, m) PROVE StoreInv'
    <2>1. /\ UNCHANGED <<files, cache, registered>> /\ gone' = gone \ {m.id}
          /\ \A u \in Threads \ {t} : threads'[u] = threads[u]
          /\ threads'[t].model = m
        BY <1>0, <1>2 DEF BeginRegister, store
    <2> QED BY <1>0, <2>1, NothingStored
<1>3. ASSUME NEW t \in Threads, (\E r \in RowIds : BeginUninstall(t, r)) \/ (\E s \in Slots : ReadActive(t, s))
      PROVE  StoreInv'
    <2>1. /\ UNCHANGED <<files, cache, registered, gone>>
          /\ \A u \in Threads \ {t} : threads'[u] = threads[u]
          /\ threads'[t].op \in {"uninstall", "scan"}
        BY <1>0, <1>3 DEF BeginUninstall, ReadActive, store, history
    <2> QED BY <1>0, <2>1, NothingStored
<1>4. ASSUME NEW t \in Threads, NEW intact \in BOOLEAN, Receive(t, intact) PROVE StoreInv'
    <2>1. UNCHANGED <<files, cache, registered, gone>> /\ threads[t].pc # "idle"
        BY <1>4 DEF Receive, store, history
    <2>2. /\ \A u \in Threads \ {t} : threads'[u] = threads[u]
          /\ \/ threads'[t].pc = "idle"
             \/ threads'[t].op = threads[t].op /\ threads'[t].model = threads[t].model
        BY <1>0, <1>4 DEF Receive, Finish, Idle
    <2> QED BY <1>0, <2>1, <2>2, NothingStored
<1>5. ASSUME NEW t \in Threads, UnlinkTarget(t) \/ RemoveFile(t) PROVE StoreInv'
    <2>1. UNCHANGED <<cache, registered, gone>> /\ threads[t].pc # "idle"
          /\ files' = [files EXCEPT ![threads[t].model.id] = NoFile]
        BY <1>5 DEF UnlinkTarget, RemoveFile, history
    <2>2. /\ \A u \in Threads \ {t} : threads'[u] = threads[u]
          /\ threads'[t].op = threads[t].op /\ threads'[t].model = threads[t].model
        <3>1. threads[t] \in Task \cup Stored
            BY <2>1, AtWork
        <3> QED BY <1>0, <1>5, <3>1 DEF UnlinkTarget, RemoveFile, Goto, Task, Stored
    <2> QED BY <1>0, <2>1, <2>2, NothingStored
<1>6. ASSUME NEW t \in Threads, Deactivate(t) \/ Activate(t) \/ DeleteRow(t) PROVE StoreInv'
    <2>1. UNCHANGED <<files, cache, registered, gone>> /\ threads[t].pc # "idle"
        BY <1>6 DEF Deactivate, Activate, DeleteRow
    <2>2. /\ \A u \in Threads \ {t} : threads'[u] = threads[u]
          /\ threads'[t].op = threads[t].op /\ threads'[t].model = threads[t].model
        <3>1. threads[t] \in Task
            BY <1>6, AtWork DEF Deactivate, Activate, DeleteRow
        <3> QED BY <1>0, <1>6, <3>1 DEF Deactivate, Activate, DeleteRow, Goto, Task
    <2> QED BY <1>0, <2>1, <2>2, NothingStored
<1>7. ASSUME NEW t \in Threads, InsertRow(t) PROVE StoreInv'
    <2>1. UNCHANGED <<files, cache, registered, gone>> /\ threads[t].pc # "idle"
        BY <1>7 DEF InsertRow
    <2>2. /\ \A u \in Threads \ {t} : threads'[u] = threads[u]
          /\ \/ threads'[t].pc = "idle"
             \/ threads'[t].op = threads[t].op /\ threads'[t].model = threads[t].model
        <3>1. threads[t] \in Task
            BY <1>7, AtWork DEF InsertRow
        <3>2. CASE Finish(t)
            BY <1>0, <3>2 DEF Finish, Idle
        <3>3. CASE threads' = [threads EXCEPT ![t].pc = "deactivate", ![t].row = nextId]
            BY <1>0, <3>1, <3>3 DEF Task
        <3> QED BY <1>7, <3>2, <3>3 DEF InsertRow
    <2> QED BY <1>0, <2>1, <2>2, NothingStored
<1>8. ASSUME NEW t \in Threads, ReplaceTarget(t) PROVE StoreInv'
    <2> DEFINE m == threads[t].model
    <2>1. /\ m.id \in Ids /\ m.sha \in Shas /\ threads[t].pc = "replace"
          /\ threads[t].op \in {"install", "register"}
        BY <1>8, AtWork DEF ReplaceTarget, WellTyped, ThreadsFit, Fits
    <2>2. m.id \notin gone
        BY <2>1 DEF StoreInv, GoneInv
    <2>3. /\ UNCHANGED <<cache, gone>>
          /\ files' = [files EXCEPT ![m.id] = threads[t].content]
          /\ registered' = [registered EXCEPT ![m.id] = @ \cup {m.sha}]
        BY <1>8 DEF ReplaceTarget
    <2>4. /\ \A u \in Threads \ {t} : threads'[u] = threads[u]
          /\ threads'[t].op = threads[t].op /\ threads'[t].model = m
        BY <1>0, <1>8 DEF ReplaceTarget
    <2>5. \A id \in Ids : registered[id] \subseteq registered'[id] /\ (id # m.id => registered'[id] = registered[id])
        BY <1>0, <2>1, <2>3
    <2>6. RunsVerifiedModel'
        BY <2>3, <2>5 DEF StoreInv, RunsVerifiedModel
    <2>7. GoneInv'
        BY <1>0, <2>1, <2>2, <2>3, <2>4 DEF StoreInv, GoneInv
    <2>8. UninstallIsFinal'
        BY <1>0, <2>2, <2>3, <2>5 DEF StoreInv, UninstallIsFinal
    <2> QED BY <2>6, <2>7, <2>8 DEF StoreInv
<1>9. ASSUME NEW t \in Threads, Audit(t) PROVE StoreInv'
    <2>1. /\ UNCHANGED <<files, registered>> /\ threads'[t].pc = "idle" /\ threads[t].pc # "idle"
          /\ \A u \in Threads \ {t} : threads'[u] = threads[u]
          /\ \A s \in Shas : cache'[s] \in {cache[s], NoFile}
        BY <1>0, <1>9 DEF Audit, Finish, Idle, CacheAfter
    <2>2. CASE gone' = gone
        BY <1>0, <2>1, <2>2, NothingStored
    <2>3. CASE gone' # gone
        <3>1. /\ gone' = gone \cup {threads[t].model.id} /\ NothingLeft(t)
              /\ cache' = [s \in Shas |-> NoFile]
            BY <1>9, <2>3 DEF Audit, CacheAfter
        <3>2. threads[t].model.id \in Ids
            BY <2>1, AtWork
        <3>3. RunsVerifiedModel' /\ UninstallIsFinal'
            BY <1>0, <2>1, <3>1, <3>2 DEF RunsVerifiedModel, UninstallIsFinal
        <3>4. GoneInv'
            BY <2>1, <3>1 DEF StoreInv, GoneInv, NothingLeft
        <3> QED BY <3>3, <3>4 DEF StoreInv
    <2> QED BY <2>2, <2>3
<1>10. ASSUME NEW t \in Threads, LoadModel(t) PROVE StoreInv'
    <2> DEFINE m == threads[t].model
    <2>1. /\ m.id \in Ids /\ m.sha \in Shas /\ m.sha \in registered[m.id]
        BY <1>10, AtWork DEF LoadModel, WellTyped, ThreadsFit, Fits
    <2>2. /\ UNCHANGED <<files, registered, gone>> /\ threads'[t].pc = "idle"
          /\ \A u \in Threads \ {t} : threads'[u] = threads[u]
          /\ cache' = IF cache[m.sha] # NoFile THEN cache ELSE [cache EXCEPT ![m.sha] = files[m.id]]
        BY <1>0, <1>10 DEF LoadModel, Finish, Idle, history
    <2>3. /\ \A s \in Shas \ {m.sha} : cache'[s] = cache[s]
          /\ cache'[m.sha] = cache[m.sha] \/ cache'[m.sha] = files[m.id]
        BY <1>0, <2>1, <2>2
    <2>4. files[m.id] = NoFile \/ files[m.id] \in registered[m.id]
        BY <2>1 DEF WellTyped, StoreOK
    <2>5. RunsVerifiedModel'
        BY <2>1, <2>2, <2>3, <2>4 DEF StoreInv, RunsVerifiedModel
    <2>6. GoneInv'
        BY <2>2 DEF StoreInv, GoneInv
    <2>7. UninstallIsFinal'
        <3> SUFFICES ASSUME NEW id \in gone, NEW s \in registered[id], cache'[s] # NoFile
                     PROVE  \E other \in Ids \ {id} : s \in registered[other]
            BY <2>2 DEF UninstallIsFinal
        <3>1. CASE cache[s] # NoFile
            BY <3>1 DEF StoreInv, UninstallIsFinal
        <3>2. CASE cache[s] = NoFile
            <4>1. s = m.sha /\ files[m.id] # NoFile
                BY <1>0, <2>3, <3>2
            <4>2. m.id # id
                BY <4>1 DEF StoreInv, GoneInv
            <4> QED BY <2>1, <4>1, <4>2
        <3> QED BY <3>1, <3>2
    <2> QED BY <2>5, <2>6, <2>7 DEF StoreInv
<1>11. CASE OtherCommit
    BY <1>11 DEF OtherCommit, StoreInv, RunsVerifiedModel, GoneInv, UninstallIsFinal
<1>12. CASE Restart
    <2>1. /\ UNCHANGED <<files, registered, gone>> /\ \A u \in Threads : threads'[u].pc = "idle"
          /\ \A s \in Shas : cache'[s] = NoFile
        BY <1>12 DEF Restart, history, Idle
    <2> QED BY <1>0, <2>1, NothingStored
<1>13. CASE UNCHANGED vars
    BY <1>13 DEF vars, store, history, StoreInv, RunsVerifiedModel, GoneInv, UninstallIsFinal
<1> QED BY <1>1, <1>2, <1>3, <1>4, <1>5, <1>6, <1>7, <1>8, <1>9, <1>10, <1>11, <1>12, <1>13 DEF Next

LEMMA StoreInvariant == Spec => []StoreInv
<1>1. Init => StoreInv
    BY DEF Init, StoreInv, RunsVerifiedModel, GoneInv, UninstallIsFinal
<1> QED BY <1>1, InitTyped, NextTyped, StoreKept, PTL DEF Spec

\* A scan never runs a content whose hash was not checked when it was stored;
\* only two registrations under one id can be confused.
THEOREM VerifiedModelsOnly == Spec => []RunsVerifiedModel
BY StoreInvariant, PTL DEF StoreInv

\* After an uninstall has answered, no scan that read the model before can
\* bring a session of it back into the cache.
THEOREM UninstallsAreFinal == Spec => []UninstallIsFinal
BY StoreInvariant, PTL DEF StoreInv

=============================================================================
