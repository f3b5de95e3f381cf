------------------------------- MODULE Sessions -------------------------------
(***************************************************************************)
(* Sign-in, request authentication, sign-out and account deletion of the   *)
(* service.  Every request runs on a thread of its own and all threads     *)
(* share one SQLite connection, so a statement, a commit or a call to      *)
(* Immich is one action and requests interleave between them.              *)
(*                                                                         *)
(* A login obtains one Immich access token and stores it, encrypted, in at *)
(* most one session row, so a token and the session that holds it share an *)
(* id.  Cookies, signatures and clock readings are abstracted: a client    *)
(* may present the id of any session ever created, a session is or is not  *)
(* expired, due for revalidation, readable under the master key.           *)
(* Bounds: MaxLogins tokens ever issued, MaxEvents events from outside: a  *)
(* session that ages, a token Immich ends, a restart with another key, a   *)
(* call Immich leaves unanswered or answers with an unexpected status.     *)
(***************************************************************************)
EXTENDS Naturals, FiniteSets

CONSTANTS
    Users,      \* Immich accounts
    Threads,    \* request threads of the server
    MaxLogins,
    MaxEvents,
    NoUser

ASSUME ConstantsOK ==
    /\ IsFiniteSet(Users) /\ IsFiniteSet(Threads) /\ Threads # {}
    /\ MaxLogins \in Nat /\ MaxEvents \in Nat
    /\ NoUser \notin Users

VARIABLES
    users,      \* rows of the users table
    sessions,   \* rows of the sessions table, by session id
    audited,    \* users that audit_log rows name
    tokens,     \* access tokens Immich accepts
    nextId,     \* next access token
    threads,    \* the request each thread serves
    events,
    bootstrapped, \* history: admins that Immich's isAdmin does not explain
    forgotten,    \* history: tokens nobody will log out
    past          \* history: sessions that were revoked or deleted

tables == <<users, sessions, audited>>
history == <<bootstrapped, forgotten, past>>
vars == <<tables, tokens, nextId, threads, events, history>>

Ids == 1..MaxLogins
Ages == {"fresh", "due", "expired"}
UserRow == {"none", "user", "admin"}
NoSession == [row |-> "none", user |-> NoUser, age |-> "fresh", readable |-> TRUE]
At(pc, call, user, id, isAdmin) ==
    [pc |-> pc, call |-> call, user |-> user, id |-> id, isAdmin |-> isAdmin, promote |-> FALSE]
Idle == At("idle", "none", NoUser, 0, FALSE)
Calls == {"none", "login", "me", "logout", "delete_me"}
Steps == {"idle", "count_admins", "upsert", "promote", "persist", "audit",
          "revalidate", "mark", "logout", "revoke", "purge_sessions", "purge_audit", "purge_user"}

Goto(t, pc) == threads' = [threads EXCEPT ![t].pc = pc]
Answer(t) == threads' = [threads EXCEPT ![t] = Idle]

\* Something outside the service: time, Immich, the operator.
External == events < MaxEvents /\ events' = events + 1

-----------------------------------------------------------------------------
(* POST /auth/login.                                                       *)

\* A rejected login and one the rate limiter refuses change nothing; an
\* accepted one leaves an access token in Immich, and its answer carries the
\* token.  When the answer is lost, late, malformed or not a 201, the login
\* ends with an error and nobody holds the token.
ProxyLogin(t, u, admin) ==
    /\ threads[t].pc = "idle" /\ nextId <= MaxLogins
    /\ tokens' = tokens \cup {nextId}
    /\ nextId' = nextId + 1
    /\ \/ /\ threads' = [threads EXCEPT ![t] = At("count_admins", "login", u, nextId, admin)]
          /\ UNCHANGED <<events, forgotten>>
       \/ /\ External
          /\ forgotten' = forgotten \cup {nextId}
          /\ UNCHANGED threads
    /\ UNCHANGED <<tables, bootstrapped, past>>

\* Variant: one admin still counts as none.
NoAdminYetOffByOne == Cardinality({u \in Users : users[u] = "admin"}) <= 1

NoAdminYet == \A u \in Users : users[u] # "admin"

CountAdmins(t) ==
    /\ threads[t].pc = "count_admins"
    /\ threads' = [threads EXCEPT ![t].pc = "upsert", ![t].promote = NoAdminYet]
    /\ UNCHANGED <<tables, tokens, nextId, events, history>>

\* Variant: the admin count is not combined with Immich's flag.
UpsertUserPromotes(t) ==
    LET u == threads[t].user
    IN /\ threads[t].pc = "upsert"
       /\ users' = [users EXCEPT ![u] = IF threads[t].isAdmin THEN "admin" ELSE "user"]
       /\ Goto(t, IF threads[t].promote THEN "promote" ELSE "persist")
       /\ UNCHANGED <<sessions, audited, tokens, nextId, events, history>>

\* The row takes the flag of this login, whatever it held.
UpsertUser(t) ==
    LET u == threads[t].user
        granted == threads[t].promote /\ ~threads[t].isAdmin
    IN /\ threads[t].pc = "upsert"
       /\ users' = [users EXCEPT ![u] = IF threads[t].isAdmin \/ granted THEN "admin" ELSE "user"]
       /\ bootstrapped' = IF granted THEN bootstrapped \cup {u} ELSE bootstrapped \ {u}
       /\ Goto(t, IF granted THEN "promote" ELSE "persist")
       /\ UNCHANGED <<sessions, audited, tokens, nextId, events, forgotten, past>>

\* An update of a row that may have been rewritten or deleted since.
PromoteToAdmin(t) ==
    LET u == threads[t].user
    IN /\ threads[t].pc = "promote"
       /\ Goto(t, "persist")
       /\ IF users[u] = "none" THEN UNCHANGED <<users, bootstrapped>>
          ELSE /\ users' = [users EXCEPT ![u] = "admin"]
               /\ bootstrapped' = IF users[u] = "user" THEN bootstrapped \cup {u} ELSE bootstrapped
       /\ UNCHANGED <<sessions, audited, tokens, nextId, events, forgotten, past>>

\* Variant: the foreign key is not enforced.
PersistSessionUnchecked(t) ==
    /\ threads[t].pc = "persist"
    /\ sessions' = [sessions EXCEPT ![threads[t].id] =
                      [NoSession EXCEPT !.row = "live", !.user = threads[t].user]]
    /\ Goto(t, "audit")
    /\ UNCHANGED <<users, audited, tokens, nextId, events, history>>

\* The foreign key refuses the row of a user who is gone: the request fails
\* and its access token is kept nowhere.
PersistSession(t) ==
    LET u == threads[t].user
        id == threads[t].id
    IN /\ threads[t].pc = "persist"
       /\ IF users[u] = "none"
          THEN /\ Answer(t)
               /\ forgotten' = forgotten \cup {id}
               /\ UNCHANGED sessions
          ELSE /\ sessions' = [sessions EXCEPT ![id] = [NoSession EXCEPT !.row = "live", !.user = u]]
               /\ Goto(t, "audit")
               /\ UNCHANGED forgotten
       /\ UNCHANGED <<users, audited, tokens, nextId, events, bootstrapped, past>>

\* Ends a login and a logout; fails, with nothing to undo, when the user is gone.
WriteAudit(t) ==
    /\ threads[t].pc = "audit"
    /\ audited' = IF users[threads[t].user] = "none" THEN audited
                  ELSE audited \cup {threads[t].user}
    /\ Answer(t)
    /\ UNCHANGED <<users, sessions, tokens, nextId, events, history>>

-----------------------------------------------------------------------------
(* Authentication of GET /me, POST /auth/logout and DELETE /me.            *)

Begun(call) == CASE call = "me" -> "idle"
                 [] call = "logout" -> "logout"
                 [] call = "delete_me" -> "logout"

\* The request's thread after the session was accepted.
Accepted(t, call) ==
    threads' = [threads EXCEPT ![t] = IF Begun(call) = "idle" THEN Idle
                                      ELSE [@ EXCEPT !.pc = Begun(call)]]

\* Variant: the look-up does not ask whether the session was revoked.
AdmittedRevoked(id) == sessions[id].row # "none" /\ sessions[id].age # "expired"

Admitted(id) == sessions[id].row = "live" /\ sessions[id].age # "expired"

\* get_current_user up to the revalidation: any cookie may be presented, and
\* one that is not admitted is answered with 401.
Lookup(t, id, call) ==
    /\ threads[t].pc = "idle"
    /\ Admitted(id)
    /\ sessions[id].age = "due" => sessions[id].readable  \* an unreadable token is an error 500
    /\ LET next == IF sessions[id].age = "due" THEN "revalidate" ELSE Begun(call)
       IN threads' = [threads EXCEPT ![t] = IF next = "idle" THEN Idle
                                            ELSE At(next, call, sessions[id].user, id, FALSE)]
    /\ UNCHANGED <<tables, tokens, nextId, events, history>>

\* The call made with the token read by Lookup: only a 401 revokes.
Revalidate(t) ==
    LET id == threads[t].id
    IN /\ threads[t].pc = "revalidate"
       /\ \/ id \in tokens /\ Goto(t, "mark") /\ UNCHANGED <<sessions, events, past>>
          \/ External /\ Answer(t) /\ UNCHANGED <<sessions, past>>
          \/ /\ id \notin tokens
             /\ sessions' = [sessions EXCEPT ![id].row = IF @ = "none" THEN "none" ELSE "revoked"]
             /\ past' = past \cup {id}
             /\ Answer(t)
             /\ UNCHANGED events
       /\ UNCHANGED <<users, audited, tokens, nextId, bootstrapped, forgotten>>

Marked(s) == IF s.age = "due" THEN [s EXCEPT !.age = "fresh"] ELSE s

\* The update does not look at revoked_at: the request is served even if the
\* session was revoked since Lookup.
MarkRevalidated(t) ==
    /\ threads[t].pc = "mark"
    /\ sessions' = [sessions EXCEPT ![threads[t].id] = Marked(@)]
    /\ Accepted(t, threads[t].call)
    /\ UNCHANGED <<users, audited, tokens, nextId, events, history>>

-----------------------------------------------------------------------------
(* POST /auth/logout and DELETE /me.                                       *)

\* Variant: only the session row is revoked.
LoggedOutHere(id) == tokens

LoggedOut(id) == tokens \ {id}

\* The row is read again; without it, without a readable token, or when Immich
\* cannot be reached, the token is not logged out and the request goes on.
ProxyLogout(t) ==
    LET id == threads[t].id
    IN /\ threads[t].pc = "logout"
       /\ \/ /\ sessions[id].row # "none" /\ sessions[id].readable
             /\ tokens' = LoggedOut(id)
             /\ UNCHANGED <<events, forgotten>>
          \/ /\ sessions[id].row # "none" /\ sessions[id].readable
             /\ External
             /\ forgotten' = forgotten \cup {id}
             /\ UNCHANGED tokens
          \/ /\ sessions[id].row = "none" \/ ~sessions[id].readable
             /\ forgotten' = forgotten \cup {id}
             /\ UNCHANGED <<tokens, events>>
       /\ Goto(t, "revoke")
       /\ UNCHANGED <<tables, nextId, bootstrapped, past>>

RevokeSession(t) ==
    LET id == threads[t].id
    IN /\ threads[t].pc = "revoke"
       /\ sessions' = [sessions EXCEPT ![id].row = IF @ = "none" THEN "none" ELSE "revoked"]
       /\ past' = past \cup {id}
       /\ Goto(t, IF threads[t].call = "logout" THEN "audit" ELSE "purge_sessions")
       /\ UNCHANGED <<users, audited, tokens, nextId, events, bootstrapped, forgotten>>

Own(u) == {id \in Ids : sessions[id].user = u /\ sessions[id].row # "none"}
Without(ids) == [id \in Ids |-> IF id \in ids THEN NoSession ELSE sessions[id]]

\* The user's other sessions go without a call to Immich: their tokens stay
\* accepted there.
PurgeSessions(t) ==
    LET gone == Own(threads[t].user)
    IN /\ threads[t].pc = "purge_sessions"
       /\ sessions' = Without(gone)
       /\ forgotten' = forgotten \cup {id \in gone : sessions[id].row = "live"}
       /\ past' = past \cup gone
       /\ Goto(t, "purge_audit")
       /\ UNCHANGED <<users, audited, tokens, nextId, events, bootstrapped>>

PurgeAudit(t) ==
    /\ threads[t].pc = "purge_audit"
    /\ audited' = audited \ {threads[t].user}
    /\ Goto(t, "purge_user")
    /\ UNCHANGED <<users, sessions, tokens, nextId, events, history>>

\* An audit row written since the anonymisation refuses the deletion; a session
\* written since the sessions were deleted goes with the user.
PurgeUser(t) ==
    LET u == threads[t].user
        gone == Own(u)
    IN /\ threads[t].pc = "purge_user"
       /\ Answer(t)
       /\ IF u \in audited THEN UNCHANGED <<users, sessions, history>>
          ELSE /\ users' = [users EXCEPT ![u] = "none"]
               /\ sessions' = Without(gone)
               /\ bootstrapped' = bootstrapped \ {u}
               /\ forgotten' = forgotten \cup {id \in gone : sessions[id].row = "live"}
               /\ past' = past \cup gone
       /\ UNCHANGED <<audited, tokens, nextId, events>>

-----------------------------------------------------------------------------
(* Time, Immich and the operator.                                          *)

Age(id, age) ==
    /\ External
    /\ sessions[id].row = "live" /\ sessions[id].age \notin {"expired", age}
    /\ sessions' = [sessions EXCEPT ![id].age = age]
    /\ UNCHANGED <<users, audited, tokens, nextId, threads, history>>

\* External: Immich, or another client of it, ends an access token.
EndToken(id) ==
    /\ External
    /\ id \in tokens
    /\ tokens' = tokens \ {id}
    /\ UNCHANGED <<tables, nextId, threads, history>>

\* The process is stopped between requests and started with another master
\* key: the tokens stored until then cannot be read.
RestartWithNewKey ==
    /\ \A t \in Threads : threads[t].pc = "idle"
    /\ External
    /\ sessions' = [id \in Ids |-> IF sessions[id].row = "none" THEN NoSession
                                   ELSE [sessions[id] EXCEPT !.readable = FALSE]]
    /\ UNCHANGED <<users, audited, tokens, nextId, threads, history>>

Init ==
    /\ users = [u \in Users |-> "none"]
    /\ sessions = [id \in Ids |-> NoSession]
    /\ audited = {} /\ tokens = {} /\ nextId = 1
    /\ threads = [t \in Threads |-> Idle]
    /\ events = 0
    /\ bootstrapped = {} /\ forgotten = {} /\ past = {}

Next ==
    \/ \E t \in Threads :
         \/ \E u \in Users, admin \in BOOLEAN : ProxyLogin(t, u, admin)
         \/ CountAdmins(t) \/ UpsertUser(t) \/ PromoteToAdmin(t)
         \/ PersistSession(t) \/ WriteAudit(t)
         \/ \E id \in Ids, call \in {"me", "logout", "delete_me"} : Lookup(t, id, call)
         \/ Revalidate(t) \/ MarkRevalidated(t)
         \/ ProxyLogout(t) \/ RevokeSession(t)
         \/ PurgeSessions(t) \/ PurgeAudit(t) \/ PurgeUser(t)
    \/ \E id \in Ids : Age(id, "due") \/ Age(id, "expired") \/ EndToken(id)
    \/ RestartWithNewKey

Spec == Init /\ [][Next]_vars
-----------------------------------------------------------------------------
(* Properties.                                                             *)

\* Type invariant: the tables, the tokens and the requests have the shapes the
\* schema and the handlers give them; only a login that Immich does not call
\* an admin is promoted.
TypeOK ==
    /\ users \in [Users -> UserRow]
    /\ sessions \in [Ids -> [row : {"none", "live", "revoked"}, user : Users \cup {NoUser},
                             age : Ages, readable : BOOLEAN]]
    /\ audited \subseteq Users
    /\ tokens \subseteq Ids
    /\ nextId \in 1..(MaxLogins + 1)
    /\ threads \in [Threads -> [pc : Steps, call : Calls, user : Users \cup {NoUser},
                                id : 0..MaxLogins, isAdmin : BOOLEAN, promote : BOOLEAN]]
    /\ \A t \in Threads :
         /\ threads[t].pc # "idle" => threads[t].user \in Users /\ threads[t].id \in Ids
         /\ threads[t].pc = "promote" => threads[t].promote /\ ~threads[t].isAdmin
    /\ events \in 0..MaxEvents
    /\ bootstrapped \subseteq {u \in Users : users[u] = "admin"}
    /\ forgotten \subseteq Ids /\ past \subseteq Ids

\* The first-admin bootstrap reads the number of admins and grants the flag in
\* later statements: overlapping first logins may all be promoted, but never
\* more accounts than there are threads to serve a login.
BootstrapBound == Cardinality(bootstrapped) <= Cardinality(Threads)

\* The request that thread t serves runs under session id.
Under(t, id) == threads[t].pc # "idle" /\ threads[t].id = id

StaysOut ==
    \A id \in past' : /\ sessions'[id].row # "live"
                      /\ \A t \in Threads : Under(t, id)' => Under(t, id)

\* Once a session was revoked or deleted no request begins under it: its row
\* never admits one again, though a revalidation that overlaps a logout still
\* writes to it.  A request that was looked up before is not stopped:
\* get_current_user serves it after its revalidation without a second look.
RevokedStaysOut == [][StaysOut]_vars

\* Every token Immich accepts is held by a live session, is on its way into one
\* or out of one, or was given up in one of the known ways: Immich could not be
\* reached for the logout, its row was unreadable or gone, the answer to its
\* login did not arrive whole, its login failed later, or it belonged to another
\* session of an account that was deleted.
TokensAccounted ==
    \A id \in tokens :
      \/ sessions[id].row = "live"
      \/ \E t \in Threads : threads[t].call = "login" /\ threads[t].id = id
      \/ id \in forgotten

\* No session outlives its account: a login that overlaps the deletion of the
\* account leaves no row behind it.
SessionsHaveUsers ==
    \A id \in Ids : sessions[id].row # "none" => users[sessions[id].user] # "none"
=============================================================================
