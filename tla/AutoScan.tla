------------------------------ MODULE AutoScan ------------------------------
(***************************************************************************)
(* The auto-scan coordinator of the service: one scheduler thread that, at *)
(* every tick, walks the users who opted in and are due, lists what Immich *)
(* holds after each user's cursor, submits a scan when anything was        *)
(* listed and records the new cursor.  It runs beside sign-ins, logouts,   *)
(* account deletions, settings updates, uploads, running scans and         *)
(* restarts.                                                               *)
(*                                                                         *)
(* Each statement group that commits, and each call to Immich, is one      *)
(* action.  A taken-at timestamp is a number (0: no cursor yet), an asset  *)
(* is known by its timestamp, and the interval of a user is the flag due.  *)
(* A scan that starts lists the whole library, so it covers whatever was   *)
(* uploaded before it; scanned and forgone are history variables that say  *)
(* why an asset is not listed again.                                       *)
(* Bounds: MaxSessions sign-ins, MaxPages pages per tick, MaxRestarts.     *)
(***************************************************************************)
EXTENDS Naturals, Sequences, FiniteSets

CONSTANTS
    Users,        \* accounts that may sign in
    Assets,       \* taken-at timestamps an upload may have
    PageSize,     \* assets per page of the metadata search
    MaxPages,     \* MAX_PAGES_PER_TICK
    MaxSessions,  \* sessions ever created
    MaxRestarts,  \* process restarts
    NoUser

ASSUME ConstantsOK ==
    /\ Assets \subseteq Nat \ {0} /\ IsFiniteSet(Assets)
    /\ PageSize \in Nat \ {0} /\ MaxPages \in Nat \ {0}
    /\ MaxSessions \in Nat /\ MaxRestarts \in Nat
    /\ NoUser \notin Users

VARIABLES
    users,      \* rows of the users table
    sessions,   \* session ids of each user, in order of creation
    live,       \* sessions whose Immich token Immich still accepts
    readable,   \* sessions whose token the current master key decrypts
    nextId,     \* next session id
    auto,       \* rows of user_auto_scan
    due,        \* users whose interval has elapsed since last_run_at
    library,    \* assets in the Immich library of each user
    model,      \* whether a classifier model is active
    keys,       \* users with a stored API key
    running,    \* users with a running scan
    tick,       \* the coordinator thread
    restarts,
    scanned,    \* history: assets a scan was started after
    forgone     \* history: assets uploaded behind the cursor (or behind the one being
                \* recorded), or in the library when a tick's scan was not started,
                \* or of an account deleted while a pass held its cursor

accounts == <<users, sessions, live, readable, nextId>>
history == <<scanned, forgone>>
vars == <<accounts, auto, due, library, model, keys, running, tick, restarts, history>>

Statuses == {"none", "ok", "error"}
ErrorCodes == {"none", "no_active_session", "upstream_unreachable", "upstream_session_expired",
               "upstream_bad_request", "upstream_invalid_json", "session_decrypt_failed"}
NoSettings == [enabled |-> FALSE, cursor |-> 0, status |-> "none"]
Tick(pc, todo, user, from, token, error) ==
    [pc |-> pc, todo |-> todo, user |-> user, from |-> from, token |-> token, pages |-> 0,
     seen |-> {}, cursor |-> from, error |-> error]
IdleTick == Tick("idle", {}, NoUser, 0, 0, "none")
Latest(S, floor) == CHOOSE m \in S \cup {floor} : \A n \in S \cup {floor} : n <= m

Between(todo) == Tick("next", todo, NoUser, 0, 0, "none")
NextUser == Between(tick.todo)

-----------------------------------------------------------------------------
(* The coordinator.                                                        *)

\* One job instance at a time (max_instances = 1): the list of enabled users
\* and their cursors are read once per pass.
StartPass ==
    /\ tick.pc = "idle"
    /\ tick' = Between({[user |-> u, from |-> auto[u].cursor] :
                           u \in {v \in due : auto[v].enabled}})
    /\ UNCHANGED <<accounts, auto, due, library, model, keys, running, restarts, history>>

EndPass ==
    /\ tick.pc = "next" /\ tick.todo = {}
    /\ tick' = IdleTick
    /\ UNCHANGED <<accounts, auto, due, library, model, keys, running, restarts, history>>

Last(s) == s[Len(s)]

\* The newest session row is used, whether or not it was revoked.
BeginUser(row) ==
    LET own == sessions[row.user]
        begun(pc, token, error) ==
            Tick(pc, tick.todo \ {row}, row.user, row.from, token, error)
    IN /\ tick.pc = "next" /\ row \in tick.todo
       /\ tick' = IF own = <<>> THEN begun("record", 0, "no_active_session")
                  ELSE IF Last(own) \notin readable THEN begun("record", 0, "session_decrypt_failed")
                  ELSE begun("page", Last(own), "none")
       /\ UNCHANGED <<accounts, auto, due, library, model, keys, running, restarts, history>>

\* External: Immich lists the assets after the cursor, and possibly those at it,
\* in pages of its own order; the last page has no successor.
Matches == {a \in library[tick.user] : a > tick.from}
Possible == {a \in library[tick.user] : a >= tick.from}

\* Variant: the items of the last page only are counted.
PageListedLastCounts(items, more) ==
    [tick EXCEPT !.pages = @ + 1, !.seen = items,
                 !.cursor = Latest(items, tick.cursor),
                 !.pc = IF more /\ tick.pages + 1 < MaxPages THEN "page" ELSE "dispatch"]

\* A page counts its items, moves the tick's cursor and asks for the next one.
PageListed(items, more) ==
    [tick EXCEPT !.pages = @ + 1, !.seen = @ \cup items,
                 !.cursor = Latest(items, tick.cursor),
                 !.pc = IF more /\ tick.pages + 1 < MaxPages THEN "page" ELSE "dispatch"]

\* Variant: the cursor reached before the failure is kept.
PageFailedKeepsCursor(code) ==
    [tick EXCEPT !.pc = "record", !.error = code, !.seen = {},
                 !.token = 0, !.pages = 0]

\* A failed page ends the tick without a scan and gives up its cursor.
PageFailed(code) ==
    [tick EXCEPT !.pc = "record", !.error = code, !.cursor = tick.from, !.seen = {},
                 !.token = 0, !.pages = 0]

FetchPage ==
    /\ tick.pc = "page"
    /\ \/ /\ tick.token \in live
          /\ \/ \E items \in SUBSET Possible, more \in BOOLEAN :
                  /\ Cardinality(items) <= PageSize
                  /\ ~more => Matches \subseteq tick.seen \cup items
                  /\ tick' = PageListed(items, more)
             \/ \E code \in {"upstream_bad_request", "upstream_invalid_json"} :
                  tick' = PageFailed(code)
       \/ tick.token \notin live /\ tick' = PageFailed("upstream_session_expired")
       \/ tick' = PageFailed("upstream_unreachable")
    /\ UNCHANGED <<accounts, auto, due, library, model, keys, running, restarts, history>>

\* The scan of a tick: the real runner needs a model and an API key, without a
\* model the synthetic runner is used; a running scan makes submit_scan refuse.
\* A user who was deleted meanwhile makes start_run raise, and the pass goes on.
DispatchScan ==
    LET u == tick.user
        submits == /\ tick.seen # {}
                   /\ model => u \in keys
                   /\ u \notin running
    IN /\ tick.pc = "dispatch"
       /\ IF submits /\ u \notin users
          THEN tick' = NextUser /\ UNCHANGED <<running, history>>
          ELSE /\ tick' = [tick EXCEPT !.pc = "record", !.seen = {}, !.token = 0, !.pages = 0]
               /\ running' = IF submits THEN running \cup {u} ELSE running
               /\ scanned' = IF submits /\ model
                             THEN [scanned EXCEPT ![u] = @ \cup library[u]] ELSE scanned
               /\ forgone' = IF tick.seen # {} /\ ~(submits /\ model)
                             THEN [forgone EXCEPT ![u] = @ \cup library[u]] ELSE forgone
       /\ UNCHANGED <<accounts, auto, due, library, model, keys, restarts>>

Disables(error) == error \in {"no_active_session", "upstream_session_expired"}
Recorded(row, error, cursor) ==
    [enabled |-> row.enabled /\ ~Disables(error),
     cursor  |-> IF cursor = 0 THEN row.cursor ELSE cursor,
     status  |-> IF error = "none" THEN "ok" ELSE "error"]

\* Variant: a tick that failed ends the pass.
RecordTickEndsPass ==
    LET u == tick.user IN
    /\ tick.pc = "record"
    /\ IF u \in users
       THEN /\ auto' = [auto EXCEPT ![u] = Recorded(@, tick.error, tick.cursor)]
            /\ due' = due \ {u}
       ELSE UNCHANGED <<auto, due>>
    /\ tick' = IF tick.error = "none" THEN NextUser ELSE IdleTick
    /\ UNCHANGED <<accounts, library, model, keys, running, restarts, history>>

\* Variant: the foreign key does not stop the row of a deleted user.
RecordTickForDeleted ==
    LET u == tick.user IN
    /\ tick.pc = "record"
    /\ auto' = [auto EXCEPT ![u] = Recorded(@, tick.error, tick.cursor)]
    /\ due' = due \ {u}
    /\ tick' = NextUser
    /\ UNCHANGED <<accounts, library, model, keys, running, restarts, history>>

\* The row is written with the cursor read when the pass began; the foreign key
\* refuses it once the user is gone, which ends this user's tick.  The audit row
\* of the tick, a commit of its own that nothing reads, is left out.
RecordTick ==
    LET u == tick.user IN
    /\ tick.pc = "record"
    /\ IF u \in users
       THEN /\ auto' = [auto EXCEPT ![u] = Recorded(@, tick.error, tick.cursor)]
            /\ due' = due \ {u}
       ELSE UNCHANGED <<auto, due>>
    /\ tick' = NextUser
    /\ UNCHANGED <<accounts, library, model, keys, running, restarts, history>>

Coordinator ==
    \/ StartPass \/ EndPass \/ FetchPage \/ DispatchScan \/ RecordTick
    \/ \E row \in tick.todo : BeginUser(row)

-----------------------------------------------------------------------------
(* What the coordinator runs beside.                                       *)

\* A login adds the user if needed and a session with a fresh token.
Login(u) ==
    /\ nextId <= MaxSessions
    /\ users' = users \cup {u}
    /\ sessions' = [sessions EXCEPT ![u] = Append(@, nextId)]
    /\ live' = live \cup {nextId} /\ readable' = readable \cup {nextId}
    /\ nextId' = nextId + 1
    /\ UNCHANGED <<auto, due, library, model, keys, running, tick, restarts, history>>

\* Immich stops accepting a token: because a logout asked it to (the row stays
\* among the user's sessions, only marked revoked) or of its own accord.
TokenEnds(s) ==
    /\ s \in live
    /\ live' = live \ {s}
    /\ UNCHANGED <<users, sessions, readable, nextId, auto, due, library, model, keys, running,
                   tick, restarts, history>>

\* PUT /me/auto-scan keeps the cursor and the last outcome.
PutSettings(u, enabled) ==
    /\ u \in users
    /\ auto' = [auto EXCEPT ![u].enabled = enabled]
    /\ UNCHANGED <<accounts, due, library, model, keys, running, tick, restarts, history>>

PutApiKey(u) ==
    /\ u \in users /\ u \notin keys
    /\ keys' = keys \cup {u}
    /\ UNCHANGED <<accounts, auto, due, library, model, running, tick, restarts, history>>

\* An administrator installs or removes the classifier model.
SwitchModel ==
    /\ model' = ~model
    /\ UNCHANGED <<accounts, auto, due, library, keys, running, tick, restarts, history>>

\* DELETE /me removes every row of the user.  A pass in flight still holds the
\* old cursor and may write it into the account a new login creates.
DeleteMe(u) ==
    /\ u \in users
    /\ users' = users \ {u}
    /\ sessions' = [sessions EXCEPT ![u] = <<>>]
    /\ auto' = [auto EXCEPT ![u] = NoSettings]
    /\ keys' = keys \ {u} /\ running' = running \ {u} /\ due' = due \cup {u}
    /\ scanned' = [scanned EXCEPT ![u] = {}]
    /\ forgone' = [forgone EXCEPT ![u] = IF tick.pc = "idle" THEN {} ELSE Assets]
    /\ readable' = readable \ {sessions[u][i] : i \in DOMAIN sessions[u]}
    /\ UNCHANGED <<live, nextId, library, model, tick, restarts>>

\* External: an upload, with any taken-at timestamp, also an old one.
Upload(u, a) ==
    /\ a \notin library[u]
    /\ library' = [library EXCEPT ![u] = @ \cup {a}]
    /\ forgone' = IF a <= auto[u].cursor \/ (tick.user = u /\ tick.pc = "record")
                  THEN [forgone EXCEPT ![u] = @ \cup {a}] ELSE forgone
    /\ UNCHANGED <<accounts, auto, due, model, keys, running, tick, restarts, scanned>>

\* The interval of a user elapses (last_run_at plus interval_minutes).
IntervalElapses(u) ==
    /\ u \notin due
    /\ due' = due \cup {u}
    /\ UNCHANGED <<accounts, auto, library, model, keys, running, tick, restarts, history>>

\* POST /scans takes the same path as a tick's dispatch.
RequestScan(u) ==
    /\ u \in users /\ u \notin running /\ (model => u \in keys)
    /\ running' = running \cup {u}
    /\ scanned' = IF model THEN [scanned EXCEPT ![u] = @ \cup library[u]] ELSE scanned
    /\ UNCHANGED <<accounts, auto, due, library, model, keys, tick, restarts, forgone>>

EndScan(u) ==
    /\ u \in running
    /\ running' = running \ {u}
    /\ UNCHANGED <<accounts, auto, due, library, model, keys, tick, restarts, history>>

\* The process restarts; the master key file may have been replaced meanwhile.
Restart ==
    /\ restarts < MaxRestarts
    /\ restarts' = restarts + 1
    /\ tick' = IdleTick
    /\ \E sameKey \in BOOLEAN : readable' = IF sameKey THEN readable ELSE {}
    /\ UNCHANGED <<users, sessions, live, nextId, auto, due, library, model, keys, running,
                   history>>

Environment ==
    \/ \E u \in Users :
         \/ Login(u) \/ PutApiKey(u) \/ DeleteMe(u) \/ IntervalElapses(u)
         \/ RequestScan(u) \/ EndScan(u)
         \/ \E on \in BOOLEAN : PutSettings(u, on)
         \/ \E a \in Assets : Upload(u, a)
    \/ \E s \in live : TokenEnds(s)
    \/ SwitchModel \/ Restart

Init ==
    /\ users = {} /\ sessions = [u \in Users |-> <<>>]
    /\ live = {} /\ readable = {} /\ nextId = 1
    /\ auto = [u \in Users |-> NoSettings] /\ due = Users
    /\ library = [u \in Users |-> {}]
    /\ model = FALSE /\ keys = {} /\ running = {}
    /\ tick = IdleTick /\ restarts = 0
    /\ scanned = [u \in Users |-> {}] /\ forgone = [u \in Users |-> {}]

Next == Coordinator \/ Environment
Spec == Init /\ [][Next]_vars
\* The scheduler thread keeps running; nothing is assumed of users or of Immich.
Fairness == WF_vars(Coordinator)

-----------------------------------------------------------------------------
(* Properties.                                                             *)

\* Type invariant of the settings rows and of the coordinator thread.
TypeOK ==
    /\ users \subseteq Users /\ nextId \in 1..(MaxSessions + 1)
    /\ sessions \in [Users -> Seq(1..MaxSessions)]
    /\ live \cup readable \subseteq 1..MaxSessions
    /\ auto \in [Users -> [enabled : BOOLEAN, cursor : Assets \cup {0},
                           status : Statuses]]
    /\ due \cup keys \cup running \subseteq Users
    /\ \A f \in {library, scanned, forgone} : f \in [Users -> SUBSET Assets]
    /\ tick \in [pc : {"idle", "next", "page", "dispatch", "record"},
                 todo : SUBSET [user : Users, from : Assets \cup {0}],
                 user : Users \cup {NoUser}, from : Assets \cup {0}, token : 0..MaxSessions,
                 pages : 0..MaxPages, seen : SUBSET Assets, cursor : Assets \cup {0},
                 error : ErrorCodes]
    /\ \A u \in Users \ users : auto[u] = NoSettings

\* The cursor never passes an asset silently: whatever lies at or before it has
\* been scanned, was uploaded behind it, belongs to a tick whose scan was not
\* started or to an account recreated during one - it is never lost to a failed
\* page, a page limit or a restart.
NothingSkippedSilently ==
    \A u \in Users : \A a \in library[u] :
        a <= auto[u].cursor => a \in scanned[u] \cup forgone[u]

\* A cursor only moves forward, unless the account is deleted, and a tick that
\* ends in an error leaves it where it was, whatever its earlier pages listed.
CursorDiscipline ==
    [][\A u \in users \cap users' :
         /\ auto[u].cursor <= auto'[u].cursor
         /\ auto'[u].cursor # auto[u].cursor =>
              auto'[u].status = "ok" \/ auto'[u].cursor = tick.from]_vars

\* A user who is enabled and due is visited, or stops being enabled, whatever
\* Immich answers for the users before, whatever becomes of their accounts and
\* however many pages it offers.
DueUsersVisited ==
    \A u \in Users : (auto[u].enabled /\ u \in due) ~> (u \notin due \/ ~auto[u].enabled)
=============================================================================
