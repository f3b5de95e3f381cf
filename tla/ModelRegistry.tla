---------------------------- MODULE ModelRegistry ----------------------------
(***************************************************************************)
(* The model store of the service: installs from the catalog, registered   *)
(* adult-subtype models, uninstalls, and the classifier sessions scans     *)
(* load and cache.  A model is a row of model_registry, a file (or a       *)
(* directory) named after the model id, and a cached session keyed by the  *)
(* content hash of the row; nothing but the order of the statements keeps  *)
(* the three together.                                                     *)
(*                                                                         *)
(* A content and its sha256 are one value; Corrupt is a content that has   *)
(* no row.  All requests share one connection, so a statement that is not  *)
(* committed yet is seen by everybody, made durable by the next commit of  *)
(* anybody, and lost by a crash.  The session a scan uses is the one in    *)
(* the cache.  A file that cannot be removed or renamed is left out.       *)
(* Bounds: MaxRows rows ever inserted, MaxCrashes restarts, MaxRefusals    *)
(* audit rows refused because the admin's account is gone.                 *)
(***************************************************************************)
EXTENDS Naturals, FiniteSets

CONSTANTS
    Catalog,    \* installable entries: [id, name, sha, slot]
    Profiles,   \* adult-subtype registrations: [id, name, sha, slot]
    Threads, MaxRows, MaxCrashes, MaxRefusals,
    Corrupt, NoFile

Models == Catalog \cup Profiles
Ids == {m.id : m \in Models}
Shas == {m.sha : m \in Models}
Slots == {m.slot : m \in Models}

ASSUME ConstantsOK ==
    /\ IsFiniteSet(Models) /\ IsFiniteSet(Threads)
    /\ MaxRows \in Nat /\ MaxCrashes \in Nat /\ MaxRefusals \in Nat
    /\ {Corrupt, NoFile} \cap Shas = {} /\ Corrupt # NoFile

VARIABLES
    rows,       \* model_registry as every statement sees it
    durable,    \* model_registry as a restart finds it
    nextId,
    files,      \* content stored under each model id
    cache,      \* content of the session cached for each hash
    threads,
    crashes, refusals,
    registered, \* history: the hashes of the requests that stored a file under each id
    filled,     \* history: slots whose last committed model was not uninstalled
    torn,       \* history: slots whose last switch another request's commit cut in
                \* two, or whose row was gone or of another slot
    crossed,    \* history: slots in which a switch of another slot activated a row
    raced,      \* history: slots two switches of which overlapped
    gone        \* history: ids whose uninstall finished with nothing of them left to store

store == <<rows, durable, nextId, files, cache>>
counts == <<crashes, refusals>>
history == <<registered, filled, torn, crossed, raced, gone>>
vars == <<store, threads, counts, history>>

RowIds == 1..MaxRows
Contents == Shas \cup {Corrupt, NoFile}
Absent == [present |-> FALSE, active |-> FALSE]
Row(m, active) == [present |-> TRUE, active |-> active, model |-> m]
Present == {r \in RowIds : rows[r].present}
ActiveIn(table, slot) == {r \in RowIds : table[r].present /\ table[r].active
                                         /\ table[r].model.slot = slot}

Idle == [pc |-> "idle", op |-> "none", row |-> 0]
Goto(t, pc) == threads' = [threads EXCEPT ![t].pc = pc]
Finish(t) == threads' = [threads EXCEPT ![t] = Idle]

\* A commit makes every statement so far durable, those of other requests
\* that are between two of theirs included: a switch of theirs that is open is
\* torn.
Interrupted(others) ==
    {threads[u].model.slot : u \in {v \in others : threads[v].pc = "activate"}}
Commit(others, table) ==
    /\ durable' = table
    /\ torn' = torn \cup Interrupted(others)

-----------------------------------------------------------------------------
(* POST /models/install.                                                   *)

\* A row is looked for by name and hash, whatever its slot and id.
Registered(m) == {r \in Present : rows[r].model.name = m.name /\ rows[r].model.sha = m.sha}

\* A model whose row and file are present is only activated.
BeginInstall(t, m) ==
    /\ threads[t].pc = "idle"
    /\ \/ /\ Registered(m) = {} \/ files[m.id] = NoFile
          /\ threads' = [threads EXCEPT ![t] = [pc |-> "download", op |-> "install", row |-> 0,
                                                model |-> m]]
       \/ /\ files[m.id] # NoFile
          /\ \E r \in Registered(m) :
               threads' = [threads EXCEPT ![t] = [pc |-> "deactivate", op |-> "install", row |-> r,
                                                  model |-> m]]
    /\ gone' = gone \ {m.id}
    /\ UNCHANGED <<store, counts, registered, filled, torn, crossed, raced>>

\* Variant: the hash of what was received is not compared.
VerifiedAnything(content, sha) == TRUE

Verified(content, sha) == content = sha

\* A download or copy that fails its check is deleted and the request refused.
Receive(t, intact) ==
    LET content == IF intact THEN threads[t].model.sha ELSE Corrupt
    IN /\ threads[t].pc \in {"download", "copy"}
       /\ IF ~Verified(content, threads[t].model.sha) THEN Finish(t)
          ELSE threads' = [threads EXCEPT
                 ![t] = [pc |-> IF @.pc = "download" THEN "unlink" ELSE "replace",
                         op |-> @.op, row |-> @.row, model |-> @.model, content |-> content]]
       /\ UNCHANGED <<store, counts, history>>

UnlinkTarget(t) ==
    /\ threads[t].pc = "unlink"
    /\ files' = [files EXCEPT ![threads[t].model.id] = NoFile]
    /\ Goto(t, "replace")
    /\ UNCHANGED <<rows, durable, nextId, cache, counts, history>>

\* A registration of a model that has its row already goes on to activate it.
ReplaceTarget(t) ==
    /\ threads[t].pc = "replace"
    /\ files' = [files EXCEPT ![threads[t].model.id] = threads[t].content]
    /\ threads' = [threads EXCEPT
         ![t] = [pc |-> IF @.row = 0 THEN "insert" ELSE "deactivate",
                 op |-> @.op, row |-> @.row, model |-> @.model]]
    /\ registered' = [registered EXCEPT ![threads[t].model.id] = @ \cup {threads[t].model.sha}]
    /\ UNCHANGED <<rows, durable, nextId, cache, counts, filled, torn, crossed, raced, gone>>

\* UNIQUE(name, version, sha256): the row of a model whose file was missing is
\* still there, and the request fails with the file back in place.
Clashes(m) == \E r \in Registered(m) : rows[r].model.id = m.id

InsertRow(t) ==
    LET m == threads[t].model
        table == [rows EXCEPT ![nextId] = Row(m, FALSE)]
    IN /\ threads[t].pc = "insert"
       /\ IF Clashes(m)
          THEN Finish(t) /\ UNCHANGED <<rows, durable, nextId, torn>>
          ELSE /\ nextId \in RowIds
               /\ rows' = table /\ Commit(Threads \ {t}, table) /\ nextId' = nextId + 1
               /\ threads' = [threads EXCEPT ![t].pc = "deactivate", ![t].row = nextId]
       /\ UNCHANGED <<files, cache, counts, registered, filled, crossed, raced, gone>>

\* Variant: the first statement of _set_active is committed on its own.
DeactivateCommitted(t) ==
    LET table == [r \in RowIds |-> IF r \in ActiveIn(rows, threads[t].model.slot)
                                   THEN [rows[r] EXCEPT !.active = FALSE] ELSE rows[r]]
    IN /\ threads[t].pc = "deactivate"
       /\ rows' = table /\ durable' = table
       /\ Goto(t, "activate")
       /\ UNCHANGED <<nextId, files, cache, counts, history>>

\* Variant: only a row of the model's own id is deactivated.
SwitchedOffOwn(r, m) == rows[r].model.id = m.id /\ rows[r].model.sha = m.sha

SwitchedOff(r, m) == rows[r].model.slot = m.slot

\* The first statement of _set_active, not committed.
Deactivate(t) ==
    LET m == threads[t].model
    IN /\ threads[t].pc = "deactivate"
       /\ rows' = [r \in RowIds |-> IF r \in Present /\ SwitchedOff(r, m)
                                    THEN [rows[r] EXCEPT !.active = FALSE] ELSE rows[r]]
       /\ raced' = IF \E u \in Threads \ {t} : /\ threads[u].pc = "activate"
                                               /\ threads[u].model.slot = m.slot
                   THEN raced \cup {m.slot} ELSE raced
       /\ Goto(t, "activate")
       /\ UNCHANGED <<durable, nextId, files, cache, counts, registered, filled, torn, crossed, gone>>

\* Variant: the row is not looked for again.
SwitchedOnAnyway(r) == [rows EXCEPT ![r].active = TRUE]

SwitchedOn(r) == IF rows[r].present THEN [rows EXCEPT ![r].active = TRUE] ELSE rows

\* The second one, and the commit of both.  It names the row and not the slot:
\* the row may be gone, or one of another slot, and the emptied slot stays empty.
Activate(t) ==
    LET r == threads[t].row
        slot == threads[t].model.slot
        hit == IF rows[r].present THEN {rows[r].model.slot} ELSE {}
        table == SwitchedOn(r)
    IN /\ threads[t].pc = "activate"
       /\ rows' = table /\ durable' = table
       /\ filled' = filled \cup hit
       /\ torn' = (torn \cup Interrupted(Threads \ {t}) \cup {slot}) \ hit
       /\ crossed' = crossed \cup (hit \ {slot})
       /\ Goto(t, "audit")
       /\ UNCHANGED <<nextId, files, cache, counts, registered, raced, gone>>

\* Variant: the sessions are not dropped.
CacheKept(op) == cache

\* Registrations and uninstalls drop every cached session, installs none.
CacheAfter(op) == IF op = "install" THEN cache ELSE [s \in Shas |-> NoFile]

\* No file, row or other request has the id of the thread's model.
NothingLeft(t) ==
    LET id == threads[t].model.id
    IN /\ files[id] = NoFile
       /\ \A r \in Present : rows[r].model.id # id
       /\ \A u \in Threads \ {t} : threads[u].op \in {"install", "register"} => threads[u].model.id # id

\* The audit row commits; when it is refused the handler ends there.
Audit(t) ==
    /\ threads[t].pc = "audit"
    /\ \/ /\ cache' = CacheAfter(threads[t].op)
          /\ Commit(Threads \ {t}, rows)
          /\ gone' = IF threads[t].op = "uninstall" /\ NothingLeft(t)
                     THEN gone \cup {threads[t].model.id} ELSE gone
          /\ UNCHANGED refusals
       \/ /\ refusals < MaxRefusals /\ refusals' = refusals + 1
          /\ UNCHANGED <<cache, durable, torn, gone>>
    /\ Finish(t)
    /\ UNCHANGED <<rows, nextId, files, crashes, registered, filled, crossed, raced>>

-----------------------------------------------------------------------------
(* POST /models/adult-subtype-profile and DELETE /models/{id}.             *)

\* The file the admin names is hashed first.  A row with this name and hash is
\* activated again, one of the catalog's too, and the file copied only if the id has none; the source
\* may be the managed file itself, which is not copied.
BeginRegister(t, m) ==
    LET begun(pc, r) == threads' = [threads EXCEPT ![t] = [pc |-> pc, op |-> "register",
                                                            row |-> r, model |-> m]]
    IN /\ threads[t].pc = "idle"
       /\ \/ Registered(m) = {} /\ begun("copy", 0)
          \/ Registered(m) = {} /\ files[m.id] = m.sha /\ begun("insert", 0)
          \/ \E r \in Registered(m) : begun(IF files[m.id] = NoFile THEN "copy" ELSE "deactivate", r)
       /\ gone' = gone \ {m.id}
       /\ UNCHANGED <<store, counts, registered, filled, torn, crossed, raced>>

BeginUninstall(t, r) ==
    /\ threads[t].pc = "idle" /\ r \in Present
    /\ threads' = [threads EXCEPT ![t] = [pc |-> "remove", op |-> "uninstall", row |-> r,
                                          model |-> rows[r].model]]
    /\ UNCHANGED <<store, counts, history>>

\* The file of the id goes, whichever row put it there.
RemoveFile(t) ==
    /\ threads[t].pc = "remove"
    /\ files' = [files EXCEPT ![threads[t].model.id] = NoFile]
    /\ Goto(t, "delete")
    /\ UNCHANGED <<rows, durable, nextId, cache, counts, history>>

DeleteRow(t) ==
    LET r == threads[t].row
        table == [rows EXCEPT ![r] = Absent]
        emptied == IF rows[r].present /\ rows[r].active THEN {rows[r].model.slot} ELSE {}
    IN /\ threads[t].pc = "delete"
       /\ rows' = table /\ Commit(Threads \ {t}, table)
       /\ filled' = filled \ emptied
       /\ Goto(t, "audit")
       /\ UNCHANGED <<nextId, files, cache, counts, registered, crossed, raced, gone>>

-----------------------------------------------------------------------------
(* Scans.                                                                  *)

\* A scan reads the row of a slot's active model (any one, if several are).
ReadActive(t, slot) ==
    /\ threads[t].pc = "idle"
    /\ \E r \in ActiveIn(rows, slot) :
         threads' = [threads EXCEPT ![t] = [pc |-> "load", op |-> "scan", row |-> 0,
                                            model |-> rows[r].model]]
    /\ UNCHANGED <<store, counts, history>>

\* Under the cache's lock: the cached session, or one of the file; without a
\* file the run fails.
LoadModel(t) ==
    LET m == threads[t].model
    IN /\ threads[t].pc = "load"
       /\ cache' = IF cache[m.sha] # NoFile THEN cache ELSE [cache EXCEPT ![m.sha] = files[m.id]]
       /\ Finish(t)
       /\ UNCHANGED <<rows, durable, nextId, files, counts, history>>

\* Another request's commit.
OtherCommit ==
    /\ rows # durable
    /\ Commit(Threads, rows)
    /\ UNCHANGED <<rows, nextId, files, cache, threads, counts, registered, filled, crossed, raced, gone>>

Restart ==
    /\ crashes < MaxCrashes /\ crashes' = crashes + 1
    /\ rows' = durable
    /\ cache' = [s \in Shas |-> NoFile]
    /\ threads' = [t \in Threads |-> Idle]
    /\ UNCHANGED <<durable, nextId, files, refusals, history>>

Init ==
    /\ rows = [r \in RowIds |-> Absent] /\ durable = rows /\ nextId = 1
    /\ files = [id \in Ids |-> NoFile]
    /\ cache = [s \in Shas |-> NoFile]
    /\ threads = [t \in Threads |-> Idle]
    /\ crashes = 0 /\ refusals = 0
    /\ registered = [id \in Ids |-> {}]
    /\ filled = {} /\ torn = {} /\ crossed = {} /\ raced = {} /\ gone = {}

Next ==
    \/ \E t \in Threads :
         \/ \E m \in Catalog : BeginInstall(t, m)
         \/ \E m \in Profiles : BeginRegister(t, m)
         \/ \E intact \in BOOLEAN : Receive(t, intact)
         \/ UnlinkTarget(t) \/ ReplaceTarget(t) \/ InsertRow(t)
         \/ Deactivate(t) \/ Activate(t) \/ Audit(t)
         \/ \E r \in RowIds : BeginUninstall(t, r)
         \/ RemoveFile(t) \/ DeleteRow(t)
         \/ \E s \in Slots : ReadActive(t, s)
         \/ LoadModel(t)
    \/ OtherCommit \/ Restart

Spec == Init /\ [][Next]_vars

-----------------------------------------------------------------------------
(* Properties.                                                             *)

\* Type invariant: rows, files, cached sessions and requests have the shapes
\* the schema and the handlers give them, and ids are never used twice.
TypeOK ==
    /\ \A table \in {rows, durable} : \A r \in RowIds :
         /\ table[r].present => table[r].model \in Models /\ r < nextId
         /\ ~table[r].present => table[r] = Absent
    /\ nextId \in 1..(MaxRows + 1)
    /\ files \in [Ids -> Contents]
    /\ cache \in [Shas -> Contents]
    /\ \A t \in Threads : threads[t].pc # "idle" => threads[t].model \in Models
    /\ registered \in [Ids -> SUBSET Shas]
    /\ filled \subseteq Slots /\ torn \subseteq Slots /\ crossed \subseteq Slots
    /\ raced \subseteq Slots /\ gone \subseteq Ids

\* _set_active deactivates a slot in one statement and activates one row in
\* the next, with other requests in between, and activates the row that has the
\* name and hash of the request, whatever its slot: at most one model of a slot
\* is active, unless two switches of it have overlapped or a request for another
\* slot found its row in this one, which one request at a time can do.
OneActivePerSlot == \A s \in Slots \ (raced \cup crossed) : Cardinality(ActiveIn(rows, s)) <= 1

\* What a scan runs under a hash has that hash, or at least was stored,
\* with its hash checked, under the same model id as it: nothing unverified is
\* ever loaded, and only an id used for two models confuses them.
RunsVerifiedModel ==
    \A s \in Shas :
      cache[s] \in {NoFile, s} \/ \E id \in Ids : {s, cache[s]} \subseteq registered[id]

\* An uninstall is final: once it has answered, and until the model is brought
\* back, no session of it is cached, though scans that read its row before may
\* still be on their way to the cache.
UninstallIsFinal ==
    \A id \in gone : \A s \in registered[id] :
      cache[s] # NoFile => \E other \in Ids \ {id} : s \in registered[other]

\* A restart at any moment finds, in a slot whose model was not uninstalled,
\* the old model or the new one.  It finds none only if the last switch of the
\* slot was torn: another request committed while it was between its two
\* statements, or the row it activated was gone by then or of another slot.
SwitchIsAtomic == \A s \in filled \ torn : ActiveIn(durable, s) # {}
=============================================================================
