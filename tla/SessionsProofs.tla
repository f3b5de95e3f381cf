---------------------------- MODULE SessionsProofs ----------------------------
(***************************************************************************)
(* What holds of sign-ins, sessions and tokens for every number of users,  *)
(* request threads, logins and events.                                     *)
(***************************************************************************)
EXTENDS Sessions, FiniteSetTheorems, TLAPS

\* A login that has its token and not yet its session row.
Pending(t) == threads[t].pc \in {"count_admins", "upsert", "promote", "persist"}

\* What a thread is at, with the local variables its step needs.
Request == [pc : Steps, call : Calls, user : Users \cup {NoUser}, id : 0..MaxLogins,
            isAdmin : BOOLEAN, promote : BOOLEAN]
ValidRequest(r) ==
    /\ r \in Request
    /\ r.pc # "idle" => r.user \in Users /\ r.id \in Ids
    /\ r.pc = "promote" => r.promote /\ ~r.isAdmin
    /\ r.pc \in {"count_admins", "upsert", "promote", "persist"} => r.call = "login"
    /\ r.pc \in {"revalidate", "mark"} => r.call \in {"me", "logout", "delete_me"}
ThreadsOK == threads \in [Threads -> Request] /\ \A t \in Threads : ValidRequest(threads[t])

SessionRow == [row : {"none", "live", "revoked"}, user : Users \cup {NoUser},
               age : Ages, readable : BOOLEAN]
RowsOK == users \in [Users -> UserRow] /\ sessions \in [Ids -> SessionRow]

\* The rest of TypeOK.
SetsOK ==
    /\ audited \subseteq Users
    /\ tokens \subseteq Ids
    /\ nextId \in 1..(MaxLogins + 1)
    /\ events \in 0..MaxEvents
    /\ bootstrapped \subseteq {u \in Users : users[u] = "admin"}
    /\ forgotten \subseteq Ids /\ past \subseteq Ids

\* A session row belongs to an account that exists, the foreign key.
RowOwner ==
    \A id \in Ids : sessions[id].row # "none" =>
        sessions[id].user \in Users /\ users[sessions[id].user] # "none"

\* Nothing refers to an id that was not handed out.
HandedOut ==
    /\ \A id \in tokens \cup past : id < nextId
    /\ \A id \in Ids : sessions[id].row # "none" => id < nextId
    /\ \A t \in Threads : threads[t].pc # "idle" => threads[t].id < nextId

\* The token of a pending login is its own.
PendingOwn ==
    \A t \in Threads : Pending(t) =>
        /\ sessions[threads[t].id].row = "none"
        /\ threads[t].id \notin past
        /\ \A u \in Threads \ {t} : threads[u].pc # "idle" => threads[u].id # threads[t].id

\* The row of a session that was revoked or deleted is not live.
RevokedRows == \A id \in past : sessions[id].row # "live"

\* A thread that is about to revoke a session has logged its token out, or
\* given it up.
LoggedOutFirst ==
    \A t \in Threads : threads[t].pc = "revoke" =>
        threads[t].id \notin tokens \/ threads[t].id \in forgotten

\* TokensAccounted, with a login counted only while it is pending.
TokensHeld ==
    \A id \in tokens :
        \/ sessions[id].row = "live"
        \/ \E t \in Threads : Pending(t) /\ threads[t].id = id
        \/ id \in forgotten

WellTyped == ThreadsOK /\ RowsOK /\ SetsOK /\ RowOwner
SessionInv == HandedOut /\ PendingOwn /\ RevokedRows /\ LoggedOutFirst /\ TokensHeld

-----------------------------------------------------------------------------
(* Types and owners.                                                       *)

LEMMA TypeParts == WellTyped => TypeOK
BY DEF WellTyped, TypeOK, ThreadsOK, RowsOK, SetsOK, ValidRequest, Request, SessionRow

LEMMA InitTyped == Init => WellTyped
<1> SUFFICES ASSUME Init PROVE WellTyped
    OBVIOUS
<1>1. ThreadsOK
    BY ConstantsOK DEF Init, ThreadsOK, ValidRequest, Request, Idle, At, Steps, Calls
<1>2. RowsOK /\ RowOwner
    BY DEF Init, RowsOK, RowOwner, SessionRow, NoSession, UserRow, Ages
<1>3. SetsOK
    BY ConstantsOK DEF Init, SetsOK
<1> QED BY <1>1, <1>2, <1>3 DEF WellTyped

LEMMA OneThread ==
    ASSUME ThreadsOK, NEW t \in Threads, NEW r, ValidRequest(r), threads' = [threads EXCEPT ![t] = r]
    PROVE  ThreadsOK'
BY DEF ThreadsOK, ValidRequest

\* A step within a handler: the thread goes on, or answers.
LEMMA ThreadMoves ==
    ASSUME ThreadsOK, NEW t \in Threads, threads[t].pc # "idle",
           NEW pc \in Steps,
           pc \in {"promote", "count_admins", "upsert", "persist"} =>
               threads[t].call = "login",
           pc = "promote" => threads[t].promote /\ ~threads[t].isAdmin,
           pc \in {"revalidate", "mark"} => threads[t].call \in {"me", "logout", "delete_me"},
           Goto(t, pc) \/ Answer(t)
    PROVE  ThreadsOK'
<1>1. ValidRequest(threads[t])
    BY DEF ThreadsOK
<1>2. CASE Goto(t, pc)
    <2>1. ValidRequest([threads[t] EXCEPT !.pc = pc])
        BY <1>1 DEF ValidRequest, Request
    <2>2. threads' = [threads EXCEPT ![t] = [threads[t] EXCEPT !.pc = pc]]
        BY <1>2 DEF Goto
    <2> QED BY <2>1, <2>2, OneThread
<1>3. CASE Answer(t)
    <2>1. ValidRequest(Idle)
        BY ConstantsOK DEF ValidRequest, Request, Idle, At, Steps, Calls
    <2> QED BY <1>3, <2>1, OneThread DEF Answer
<1> QED BY <1>2, <1>3

LEMMA ProxyLoginTyped ==
    ASSUME WellTyped, NEW t \in Threads, NEW u \in Users, NEW admin \in BOOLEAN,
           ProxyLogin(t, u, admin)
    PROVE  WellTyped'
<1> USE DEF WellTyped, tables, history
<1>1. nextId \in Ids
    BY ConstantsOK DEF ProxyLogin, SetsOK, Ids
<1>2. ThreadsOK'
    <2>1. ValidRequest(At("count_admins", "login", u, nextId, admin))
        BY <1>1, ConstantsOK DEF ValidRequest, Request, Steps, Calls, Ids, At
    <2>2. CASE threads' = [threads EXCEPT ![t] = At("count_admins", "login", u, nextId, admin)]
        BY <2>1, <2>2, OneThread
    <2>3. CASE UNCHANGED threads
        BY <2>3 DEF ThreadsOK, ValidRequest
    <2> QED BY <2>2, <2>3 DEF ProxyLogin
<1>3. SetsOK'
    <2>1. nextId' \in 1..(MaxLogins + 1)
        BY <1>1, ConstantsOK DEF ProxyLogin, SetsOK, Ids
    <2>2. events' \in 0..MaxEvents
        BY ConstantsOK DEF ProxyLogin, SetsOK, External
    <2>3. forgotten' \subseteq Ids /\ tokens' \subseteq Ids
        BY <1>1 DEF ProxyLogin, SetsOK
    <2> QED BY <2>1, <2>2, <2>3 DEF ProxyLogin, SetsOK
<1> QED BY <1>2, <1>3 DEF ProxyLogin, RowsOK, RowOwner

LEMMA LoginTyped ==
    ASSUME WellTyped, NEW t \in Threads,
           \/ \E u \in Users, admin \in BOOLEAN : ProxyLogin(t, u, admin)
           \/ CountAdmins(t) \/ UpsertUser(t) \/ PromoteToAdmin(t)
           \/ PersistSession(t) \/ WriteAudit(t)
    PROVE  WellTyped'
<1> USE DEF WellTyped, tables, history
<1>0. ValidRequest(threads[t]) /\ threads[t] \in Request
    BY DEF ThreadsOK, ValidRequest
<1>1. ASSUME NEW u \in Users, NEW admin \in BOOLEAN, ProxyLogin(t, u, admin) PROVE WellTyped'
    BY <1>1, ProxyLoginTyped
<1>2. CASE CountAdmins(t)
    <2>1. NoAdminYet \in BOOLEAN
        BY DEF NoAdminYet
    <2>2. ThreadsOK'
        <3> DEFINE r == [threads[t] EXCEPT !.pc = "upsert", !.promote = NoAdminYet]
        <3>1. ValidRequest(r)
            BY <1>0, <1>2, <2>1 DEF CountAdmins, ValidRequest, Request, Steps
        <3>2. threads' = [threads EXCEPT ![t] = r]
            BY <1>2 DEF CountAdmins
        <3> QED BY <3>1, <3>2, OneThread
    <2> QED BY <1>2, <2>2 DEF CountAdmins, RowsOK, RowOwner, SetsOK
<1>3. CASE UpsertUser(t)
    <2>1. threads[t].user \in Users /\ threads[t].promote \in BOOLEAN /\ threads[t].isAdmin \in BOOLEAN
        BY <1>0, <1>3 DEF UpsertUser, ValidRequest, Request
    <2>2. ThreadsOK'
        BY <1>0, <1>3, <2>1, ThreadMoves DEF UpsertUser, ValidRequest, Steps
    <2>3. RowsOK' /\ RowOwner'
        BY <1>3, <2>1 DEF UpsertUser, RowsOK, RowOwner, UserRow
    <2>4. SetsOK'
        BY <1>3, <2>1 DEF UpsertUser, RowsOK, SetsOK
    <2> QED BY <2>2, <2>3, <2>4
<1>4. CASE PromoteToAdmin(t)
    <2>1. threads[t].user \in Users
        BY <1>0, <1>4 DEF PromoteToAdmin, ValidRequest
    <2>2. ThreadsOK'
        BY <1>0, <1>4, ThreadMoves DEF PromoteToAdmin, ValidRequest, Steps
    <2>3. RowsOK' /\ RowOwner'
        BY <1>4, <2>1 DEF PromoteToAdmin, RowsOK, RowOwner, UserRow
    <2>4. SetsOK'
        BY <1>4, <2>1 DEF PromoteToAdmin, RowsOK, SetsOK
    <2> QED BY <2>2, <2>3, <2>4
<1>5. CASE PersistSession(t)
    <2>1. threads[t].user \in Users /\ threads[t].id \in Ids
        BY <1>0, <1>5 DEF PersistSession, ValidRequest
    <2>2. ThreadsOK'
        BY <1>0, <1>5, ThreadMoves DEF PersistSession, ValidRequest, Steps
    <2>3. RowsOK' /\ RowOwner'
        <3> DEFINE new == [NoSession EXCEPT !.row = "live", !.user = threads[t].user]
        <3>1. new \in SessionRow /\ new.user = threads[t].user
            BY <2>1 DEF NoSession, SessionRow, Ages
        <3>2. \/ sessions' = sessions
              \/ users[threads[t].user] # "none" /\ sessions' = [sessions EXCEPT ![threads[t].id] = new]
            BY <1>5 DEF PersistSession
        <3>3. users' = users
            BY <1>5 DEF PersistSession
        <3> HIDE DEF new
        <3> QED BY <2>1, <3>1, <3>2, <3>3 DEF RowsOK, RowOwner
    <2>4. SetsOK'
        BY <1>5, <2>1 DEF PersistSession, SetsOK
    <2> QED BY <2>2, <2>3, <2>4
<1>6. CASE WriteAudit(t)
    <2>1. threads[t].user \in Users
        BY <1>0, <1>6 DEF WriteAudit, ValidRequest
    <2>2. ThreadsOK'
        BY <1>0, <1>6, ThreadMoves DEF WriteAudit, ValidRequest, Steps
    <2> QED BY <1>6, <2>1, <2>2 DEF WriteAudit, RowsOK, RowOwner, SetsOK
<1> QED BY <1>1, <1>2, <1>3, <1>4, <1>5, <1>6

LEMMA RequestTyped ==
    ASSUME WellTyped, NEW t \in Threads,
           \/ \E id \in Ids, call \in {"me", "logout", "delete_me"} : Lookup(t, id, call)
           \/ Revalidate(t) \/ MarkRevalidated(t)
           \/ ProxyLogout(t) \/ RevokeSession(t)
           \/ PurgeSessions(t) \/ PurgeAudit(t) \/ PurgeUser(t)
    PROVE  WellTyped'
<1> USE DEF WellTyped, tables, history
<1>0. ValidRequest(threads[t]) /\ threads[t] \in Request
    BY DEF ThreadsOK, ValidRequest
<1>a. threads[t].pc # "idle" => threads[t].user \in Users /\ threads[t].id \in Ids
    BY <1>0 DEF ValidRequest
<1>1. ASSUME NEW id \in Ids, NEW call \in {"me", "logout", "delete_me"}, Lookup(t, id, call)
      PROVE  WellTyped'
    <2>1. sessions[id].user \in Users
        BY <1>1 DEF Lookup, Admitted, RowOwner
    <2>2. ThreadsOK'
        <3> DEFINE next == IF sessions[id].age = "due" THEN "revalidate" ELSE Begun(call)
        <3>1. next \in {"idle", "logout", "revalidate"}
            <4>1. CASE call = "me"
                BY <4>1 DEF Begun
            <4>2. CASE call = "logout"
                BY <4>2 DEF Begun
            <4>3. CASE call = "delete_me"
                BY <4>3 DEF Begun
            <4> QED BY <4>1, <4>2, <4>3
        <3>2. \/ threads' = [threads EXCEPT ![t] = Idle]
              \/ threads' = [threads EXCEPT ![t] = At(next, call, sessions[id].user, id, FALSE)]
            BY <1>1 DEF Lookup
        <3> HIDE DEF next
        <3>3. ValidRequest(Idle) /\ ValidRequest(At(next, call, sessions[id].user, id, FALSE))
            BY <2>1, <3>1, ConstantsOK DEF ValidRequest, Request, Idle, At, Steps, Calls, Ids
        <3> QED BY <3>2, <3>3, OneThread
    <2> QED BY <1>1, <2>2 DEF Lookup, RowsOK, RowOwner, SetsOK
<1>2. CASE Revalidate(t)
    <2>1. ThreadsOK'
        BY <1>0, <1>2, ThreadMoves DEF Revalidate, ValidRequest, Steps
    <2>2. RowsOK' /\ RowOwner'
        BY <1>2, <1>a DEF Revalidate, RowsOK, RowOwner, SessionRow
    <2>3. SetsOK'
        BY <1>2, <1>a, ConstantsOK DEF Revalidate, SetsOK, External
    <2> QED BY <2>1, <2>2, <2>3
<1>3. CASE MarkRevalidated(t)
    <2>1. ThreadsOK'
        <3>1. Begun(threads[t].call) \in {"idle", "logout"}
            BY <1>0, <1>3 DEF MarkRevalidated, ValidRequest, Begun
        <3>2. \E pc \in {"idle", "logout"} : Goto(t, pc) \/ Answer(t)
            BY <1>3, <3>1 DEF MarkRevalidated, Accepted, Goto, Answer
        <3> QED BY <1>3, <3>2, ThreadMoves DEF MarkRevalidated, Steps
    <2>2. RowsOK' /\ RowOwner'
        BY <1>3, <1>a DEF MarkRevalidated, Marked, RowsOK, RowOwner, SessionRow, Ages
    <2> QED BY <1>3, <2>1, <2>2 DEF MarkRevalidated, SetsOK
<1>4. CASE ProxyLogout(t)
    <2>1. ThreadsOK'
        BY <1>0, <1>4, ThreadMoves DEF ProxyLogout, ValidRequest, Steps
    <2>2. SetsOK'
        BY <1>4, <1>a, ConstantsOK DEF ProxyLogout, LoggedOut, SetsOK, External
    <2> QED BY <1>4, <2>1, <2>2 DEF ProxyLogout, RowsOK, RowOwner
<1>5. CASE RevokeSession(t)
    <2>1. ThreadsOK'
        BY <1>0, <1>5, ThreadMoves DEF RevokeSession, ValidRequest, Steps
    <2>2. RowsOK' /\ RowOwner'
        BY <1>5, <1>a DEF RevokeSession, RowsOK, RowOwner, SessionRow
    <2>3. SetsOK'
        BY <1>5, <1>a DEF RevokeSession, SetsOK
    <2> QED BY <2>1, <2>2, <2>3
<1>6. CASE PurgeSessions(t)
    <2>1. ThreadsOK'
        BY <1>0, <1>6, ThreadMoves DEF PurgeSessions, ValidRequest, Steps
    <2>2. RowsOK' /\ RowOwner'
        BY <1>6 DEF PurgeSessions, Without, NoSession, RowsOK, RowOwner, SessionRow, Ages
    <2>3. SetsOK'
        BY <1>6 DEF PurgeSessions, Own, SetsOK
    <2> QED BY <2>1, <2>2, <2>3
<1>7. CASE PurgeAudit(t)
    <2>1. ThreadsOK'
        BY <1>0, <1>7, ThreadMoves DEF PurgeAudit, ValidRequest, Steps
    <2> QED BY <1>7, <2>1 DEF PurgeAudit, RowsOK, RowOwner, SetsOK
<1>8. CASE PurgeUser(t)
    <2>1. ThreadsOK'
        BY <1>0, <1>8, ThreadMoves DEF PurgeUser, ValidRequest, Steps
    <2>2. CASE threads[t].user \in audited
        BY <1>8, <2>1, <2>2 DEF PurgeUser, RowsOK, RowOwner, SetsOK
    <2>3. CASE threads[t].user \notin audited
        <3>0. /\ users' = [users EXCEPT ![threads[t].user] = "none"]
              /\ sessions' = Without(Own(threads[t].user))
              /\ threads[t].user \in Users
            BY <1>8, <1>a, <2>3 DEF PurgeUser
        <3>1. RowsOK' /\ RowOwner'
            <4>1. NoSession \in SessionRow /\ NoSession.row = "none"
                BY DEF NoSession, SessionRow, Ages
            <4>2. RowsOK'
                BY <3>0, <4>1 DEF RowsOK, Without, UserRow
            <4>3. \A id \in Ids : sessions'[id].row # "none" =>
                      sessions'[id] = sessions[id] /\ sessions[id].row # "none"
                      /\ sessions[id].user # threads[t].user
                BY <3>0, <4>1 DEF Without, Own
            <4> QED BY <3>0, <4>2, <4>3 DEF RowOwner, RowsOK
        <3>2. SetsOK'
            BY <1>8, <1>a, <2>3 DEF PurgeUser, Own, SetsOK, RowsOK
        <3> QED BY <2>1, <3>1, <3>2
    <2> QED BY <2>2, <2>3
<1> QED BY <1>1, <1>2, <1>3, <1>4, <1>5, <1>6, <1>7, <1>8

LEMMA OutsideTyped ==
    ASSUME WellTyped,
           \/ \E id \in Ids : Age(id, "due") \/ Age(id, "expired") \/ EndToken(id)
           \/ RestartWithNewKey
           \/ UNCHANGED vars
    PROVE  WellTyped'
<1> USE DEF WellTyped, tables, history
<1>0. events < MaxEvents => events + 1 \in 0..MaxEvents
    BY ConstantsOK DEF SetsOK
<1>1. ASSUME NEW id \in Ids, NEW age \in {"due", "expired"}, Age(id, age) PROVE WellTyped'
    BY <1>0, <1>1 DEF Age, External, ThreadsOK, ValidRequest, RowsOK, RowOwner, SetsOK, SessionRow, Ages
<1>2. ASSUME NEW id \in Ids, EndToken(id) PROVE WellTyped'
    BY <1>0, <1>2 DEF EndToken, External, ThreadsOK, ValidRequest, RowsOK, RowOwner, SetsOK
<1>3. CASE RestartWithNewKey
    <2>0. ASSUME NEW id \in Ids
          PROVE  /\ sessions'[id] \in SessionRow
                 /\ sessions'[id].row = sessions[id].row
                 /\ sessions[id].row # "none" => sessions'[id].user = sessions[id].user
        <3>1. NoSession \in SessionRow /\ NoSession.row = "none"
            BY DEF NoSession, SessionRow, Ages
        <3>2. sessions[id] \in SessionRow
            BY DEF RowsOK
        <3>3. sessions'[id] = IF sessions[id].row = "none" THEN NoSession
                              ELSE [sessions[id] EXCEPT !.readable = FALSE]
            BY <1>3 DEF RestartWithNewKey
        <3>4. CASE sessions[id].row = "none"
            BY <3>1, <3>3, <3>4
        <3>5. CASE sessions[id].row # "none"
            <4>1. ASSUME NEW x \in SessionRow
                  PROVE  LET y == [x EXCEPT !.readable = FALSE] IN
                         y \in SessionRow /\ y.row = x.row /\ y.user = x.user
                BY DEF SessionRow
            <4> QED BY <3>2, <3>3, <3>5, <4>1
        <3> QED BY <3>4, <3>5
    <2>1. RowsOK' /\ RowOwner'
        BY <1>3, <2>0 DEF RestartWithNewKey, RowsOK, RowOwner
    <2> QED BY <1>0, <1>3, <2>1 DEF RestartWithNewKey, External, ThreadsOK, ValidRequest, SetsOK
<1>4. CASE UNCHANGED vars
    BY <1>4 DEF vars, ThreadsOK, ValidRequest, RowsOK, RowOwner, SetsOK
<1> QED BY <1>1, <1>2, <1>3, <1>4

LEMMA NextTyped == WellTyped /\ [Next]_vars => WellTyped'
BY LoginTyped, RequestTyped, OutsideTyped DEF Next

\* The tables, the tokens and the requests keep their types.
THEOREM SessionTypes == Spec => []TypeOK
<1>1. Init => WellTyped
    BY InitTyped
<1>2. WellTyped /\ [Next]_vars => WellTyped'
    BY NextTyped
<1>3. WellTyped => TypeOK
    BY TypeParts
<1> QED BY <1>1, <1>2, <1>3, PTL DEF Spec

\* No session outlives its account, whatever overlaps with the deletion of
\* the account: the foreign key holds after every statement.
THEOREM NoOrphanSessions == Spec => []SessionsHaveUsers
<1>1. Init => WellTyped
    BY InitTyped
<1>2. WellTyped /\ [Next]_vars => WellTyped'
    BY NextTyped
<1>3. WellTyped => SessionsHaveUsers
    BY DEF WellTyped, RowOwner, SessionsHaveUsers
<1> QED BY <1>1, <1>2, <1>3, PTL DEF Spec

-----------------------------------------------------------------------------
(* Revoked sessions and tokens.                                            *)

LEMMA InitSessions == Init => SessionInv
BY ConstantsOK DEF Init, SessionInv, HandedOut, PendingOwn, RevokedRows, LoggedOutFirst, TokensHeld,
   Pending, NoSession, Idle, At, Ids

\* A step of thread t that creates no session and no token, and lets a login
\* end only with its token given up: what is revoked is not pending, a live
\* session it ends has its token logged out or given up.
LEMMA ThreadKeeps ==
    ASSUME SessionInv, NEW t \in Threads,
           \A u \in Threads \ {t} : threads'[u] = threads[u],
           \/ threads'[t].pc = "idle"
           \/ threads[t].pc # "idle" /\ threads'[t].id = threads[t].id,
           Pending(t)' => Pending(t),
           Pending(t) => Pending(t)' \/ threads[t].id \in forgotten',
           nextId' = nextId, tokens' \subseteq tokens, forgotten \subseteq forgotten',
           \A id \in Ids : /\ sessions'[id].row # "none" => sessions[id].row # "none"
                           /\ sessions'[id].row = "live" => sessions[id].row = "live",
           \A id \in Ids : sessions[id].row = "live" =>
               sessions'[id].row = "live" \/ id \notin tokens' \/ id \in forgotten',
           tokens \subseteq Ids, past' \subseteq Ids,
           \A id \in past' \ past :
               /\ id < nextId /\ sessions'[id].row # "live"
               /\ \A u \in Threads : Pending(u) => threads[u].id # id,
           threads'[t].pc = "revoke" =>
               threads'[t].id \notin tokens' \/ threads'[t].id \in forgotten',
           \A u \in Threads : Pending(u) => threads[u].id \in Ids
    PROVE  SessionInv' /\ StaysOut
<1> USE DEF SessionInv
<1>1. \A u \in Threads : Pending(u)' => Pending(u) /\ threads'[u].id = threads[u].id
    BY DEF Pending
<1>2. \A u \in Threads : threads'[u].pc # "idle" =>
          threads[u].pc # "idle" /\ threads'[u].id = threads[u].id
    OBVIOUS
<1>3. HandedOut'
    BY <1>2 DEF HandedOut
<1>4. PendingOwn'
    BY <1>1, <1>2 DEF PendingOwn
<1>5. RevokedRows'
    BY DEF RevokedRows
<1>6. LoggedOutFirst'
    BY DEF LoggedOutFirst
<1>7. TokensHeld'
    <2> SUFFICES ASSUME NEW id \in tokens', id \notin forgotten', sessions'[id].row # "live"
                 PROVE  \E u \in Threads : Pending(u)' /\ threads'[u].id = id
        BY DEF TokensHeld
    <2>1. PICK u \in Threads : Pending(u) /\ threads[u].id = id
        BY DEF TokensHeld
    <2>2. Pending(u)'
        BY <2>1 DEF Pending
    <2> QED BY <1>1, <2>1, <2>2
<1>8. StaysOut
    BY <1>2, <1>5 DEF StaysOut, RevokedRows, Under
<1> QED BY <1>3, <1>4, <1>5, <1>6, <1>7, <1>8

LEMMA LoginKeeps ==
    ASSUME WellTyped, SessionInv, NEW t \in Threads,
           \/ \E u \in Users, admin \in BOOLEAN : ProxyLogin(t, u, admin)
           \/ CountAdmins(t) \/ UpsertUser(t) \/ PromoteToAdmin(t)
           \/ PersistSession(t) \/ WriteAudit(t)
    PROVE  SessionInv' /\ StaysOut
<1> USE DEF WellTyped, tables, history
<1>0. /\ \A u \in Threads : Pending(u) => threads[u].id \in Ids
      /\ \A u \in Threads : threads[u] \in Request
      /\ tokens \subseteq Ids /\ past \subseteq Ids
    BY DEF ThreadsOK, ValidRequest, Pending, SetsOK
<1>1. ASSUME NEW u \in Users, NEW admin \in BOOLEAN, ProxyLogin(t, u, admin) PROVE SessionInv' /\ StaysOut
    <2>1. /\ threads[t].pc = "idle" /\ nextId \in Ids
          /\ nextId' = nextId + 1 /\ tokens' = tokens \cup {nextId}
          /\ UNCHANGED <<sessions, past>> /\ forgotten \subseteq forgotten'
        BY <1>1, ConstantsOK DEF ProxyLogin, SetsOK, Ids
    <2>2. /\ \/ threads'[t].pc = "count_admins" /\ threads'[t].id = nextId
             \/ threads'[t] = threads[t] /\ nextId \in forgotten'
          /\ \A v \in Threads \ {t} : threads'[v] = threads[v]
        BY <1>1 DEF ProxyLogin, ThreadsOK, At
    <2>3. /\ Pending(t)' \/ (~Pending(t)' /\ nextId \in forgotten')
          /\ Pending(t)' => threads'[t].id = nextId
          /\ ~Pending(t)
          /\ \A v \in Threads \ {t} : Pending(v)' <=> Pending(v)
        BY <2>1, <2>2 DEF Pending
    <2>4. \A v \in Threads : threads[v].id \in Nat
        BY <1>0, ConstantsOK DEF Request
    <2>5. HandedOut'
        <3>1. nextId \in Nat /\ nextId < nextId'
            BY <2>1, ConstantsOK DEF Ids
        <3>2. \A id \in Nat : id < nextId => id < nextId'
            BY <2>1, <3>1
        <3>3. \A v \in Threads : threads'[v].pc # "idle" =>
                  threads'[v].id = nextId \/ (threads[v].pc # "idle" /\ threads'[v].id = threads[v].id)
            BY <2>1, <2>2
        <3> QED BY <2>1, <2>4, <3>1, <3>2, <3>3, <1>0 DEF SessionInv, HandedOut, Ids
    <2>6. PendingOwn'
        <3>1. sessions[nextId].row = "none" /\ nextId \notin past
            BY <2>1, ConstantsOK DEF SessionInv, HandedOut, Ids
        <3>2. \A v \in Threads \ {t} : threads[v].pc # "idle" => threads[v].id # nextId
            BY <2>1, <2>4 DEF SessionInv, HandedOut, Ids
        <3> QED BY <2>1, <2>2, <2>3, <3>1, <3>2 DEF SessionInv, PendingOwn, Pending
    <2>7. RevokedRows' /\ LoggedOutFirst'
        BY <2>1, <2>2, <2>4 DEF SessionInv, HandedOut, RevokedRows, LoggedOutFirst, Ids
    <2>8. TokensHeld'
        BY <2>1, <2>2, <2>3 DEF SessionInv, TokensHeld
    <2>9. StaysOut
        <3>1. nextId \notin past
            BY <2>1, ConstantsOK DEF SessionInv, HandedOut, Ids
        <3> QED BY <2>1, <2>2, <2>7, <3>1 DEF StaysOut, RevokedRows, Under
    <2> QED BY <2>5, <2>6, <2>7, <2>8, <2>9 DEF SessionInv
<1>2. CASE CountAdmins(t)
    BY <1>0, <1>2, ThreadKeeps DEF CountAdmins, Pending, ThreadsOK, Request
<1>3. CASE UpsertUser(t)
    BY <1>0, <1>3, ThreadKeeps DEF UpsertUser, Goto, Pending, ThreadsOK, Request
<1>4. CASE PromoteToAdmin(t)
    BY <1>0, <1>4, ThreadKeeps DEF PromoteToAdmin, Goto, Pending, ThreadsOK, Request
<1>5. CASE PersistSession(t)
    <2>1. Pending(t) /\ threads[t].id \in Ids
        BY <1>0, <1>5 DEF PersistSession, Pending
    <2>2. CASE users[threads[t].user] = "none"
        BY <1>0, <1>5, <2>2, ThreadKeeps DEF PersistSession, Answer, Idle, At, Pending, ThreadsOK
    <2>3. CASE users[threads[t].user] # "none"
        <3> DEFINE mine == threads[t].id
        <3>1. /\ \A id \in Ids \ {mine} : sessions'[id] = sessions[id]
              /\ sessions'[mine].row = "live"
              /\ UNCHANGED <<nextId, tokens, forgotten, past>>
            <4> DEFINE row == [NoSession EXCEPT !.row = "live", !.user = threads[t].user]
            <4>1. row.row = "live"
                BY DEF NoSession
            <4>2. sessions' = [sessions EXCEPT ![mine] = row]
                  /\ UNCHANGED <<nextId, tokens, forgotten, past>>
                BY <1>5, <2>3 DEF PersistSession
            <4> HIDE DEF row
            <4> QED BY <2>1, <4>1, <4>2 DEF RowsOK
        <3>2. /\ threads'[t].pc = "audit" /\ threads'[t].id = mine
              /\ \A v \in Threads \ {t} : threads'[v] = threads[v]
            BY <1>0, <1>5, <2>3 DEF PersistSession, Goto, ThreadsOK, Request
        <3>3. ~Pending(t)' /\ \A v \in Threads \ {t} : Pending(v)' <=> Pending(v)
            BY <3>2 DEF Pending
        <3>4. mine < nextId /\ mine \notin past /\ threads[t].pc # "idle"
              /\ \A v \in Threads \ {t} : threads[v].pc # "idle" => threads[v].id # mine
            BY <2>1 DEF SessionInv, HandedOut, PendingOwn, Pending
        <3>5. HandedOut'
            BY <1>0, <3>1, <3>2, <3>4 DEF SessionInv, HandedOut
        <3>6. PendingOwn'
            BY <1>0, <3>1, <3>2, <3>3, <3>4 DEF SessionInv, PendingOwn, Pending
        <3>7. RevokedRows' /\ LoggedOutFirst'
            BY <1>0, <3>1, <3>2, <3>4 DEF SessionInv, RevokedRows, LoggedOutFirst
        <3>8. TokensHeld'
            BY <1>0, <3>1, <3>2, <3>3 DEF SessionInv, TokensHeld
        <3>9. StaysOut
            BY <2>1, <3>1, <3>2, <3>7 DEF StaysOut, RevokedRows, Under, Pending
        <3> QED BY <3>5, <3>6, <3>7, <3>8, <3>9 DEF SessionInv
    <2> QED BY <2>2, <2>3
<1>6. CASE WriteAudit(t)
    BY <1>0, <1>6, ThreadKeeps DEF WriteAudit, Answer, Idle, At, Pending, ThreadsOK
<1> QED BY <1>1, <1>2, <1>3, <1>4, <1>5, <1>6

LEMMA RequestKeeps ==
    ASSUME WellTyped, SessionInv, NEW t \in Threads,
           \/ \E id \in Ids, call \in {"me", "logout", "delete_me"} : Lookup(t, id, call)
           \/ Revalidate(t) \/ MarkRevalidated(t)
           \/ ProxyLogout(t) \/ RevokeSession(t)
           \/ PurgeSessions(t) \/ PurgeAudit(t) \/ PurgeUser(t)
    PROVE  SessionInv' /\ StaysOut
<1> USE DEF WellTyped, tables, history
<1>0. /\ \A u \in Threads : Pending(u) => threads[u].id \in Ids
      /\ \A u \in Threads : threads[u] \in Request
      /\ threads[t].pc # "idle" => threads[t].id \in Ids /\ threads[t].id < nextId
      /\ tokens \subseteq Ids /\ past \subseteq Ids
    BY DEF ThreadsOK, ValidRequest, Pending, SetsOK, SessionInv, HandedOut
\* A thread that serves an admitted request shares its id with no pending login.
<1>a. threads[t].pc # "idle" /\ ~Pending(t) =>
          \A u \in Threads : Pending(u) => threads[u].id # threads[t].id
    BY DEF SessionInv, PendingOwn
\* Nor does a session that has a row.
<1>b. \A id \in Ids : sessions[id].row # "none" =>
          id < nextId /\ \A u \in Threads : Pending(u) => threads[u].id # id
    BY DEF SessionInv, PendingOwn, HandedOut
<1>1. ASSUME NEW id \in Ids, NEW call \in {"me", "logout", "delete_me"}, Lookup(t, id, call)
      PROVE  SessionInv' /\ StaysOut
    <2>1. /\ threads[t].pc = "idle" /\ sessions[id].row = "live"
          /\ UNCHANGED <<sessions, past, forgotten, tokens, nextId>>
        BY <1>1 DEF Lookup, Admitted
    <2>2. \A v \in Threads \ {t} : threads'[v] = threads[v]
        BY <1>1 DEF Lookup, ThreadsOK
    <2>3. \/ threads'[t].pc = "idle"
          \/ threads'[t].id = id /\ threads'[t].pc \in {"revalidate", "logout"}
        <3> DEFINE next == IF sessions[id].age = "due" THEN "revalidate" ELSE Begun(call)
        <3>1. next \in {"idle", "logout", "revalidate"}
            <4>1. CASE call = "me"
                BY <4>1 DEF Begun
            <4>2. CASE call = "logout"
                BY <4>2 DEF Begun
            <4>3. CASE call = "delete_me"
                BY <4>3 DEF Begun
            <4> QED BY <4>1, <4>2, <4>3
        <3>2. threads' = [threads EXCEPT ![t] = IF next = "idle" THEN Idle
                                                ELSE At(next, call, sessions[id].user, id, FALSE)]
            BY <1>1 DEF Lookup
        <3> HIDE DEF next
        <3> QED BY <3>1, <3>2 DEF ThreadsOK, At, Idle
    <2>4. ~Pending(t)' /\ \A v \in Threads \ {t} : Pending(v)' <=> Pending(v)
        BY <2>2, <2>3 DEF Pending
    <2>5. HandedOut'
        BY <1>b, <2>1, <2>2, <2>3 DEF SessionInv, HandedOut
    <2>6. PendingOwn'
        BY <1>b, <2>1, <2>2, <2>3, <2>4 DEF SessionInv, PendingOwn
    <2>7. RevokedRows' /\ LoggedOutFirst'
        BY <2>1, <2>2, <2>3 DEF SessionInv, RevokedRows, LoggedOutFirst
    <2>8. TokensHeld'
        BY <2>1, <2>2, <2>3, <2>4 DEF SessionInv, TokensHeld, Pending
    <2>9. StaysOut
        BY <2>1, <2>2, <2>3, <2>7 DEF SessionInv, RevokedRows, StaysOut, Under
    <2> QED BY <2>5, <2>6, <2>7, <2>8, <2>9 DEF SessionInv
<1>2. CASE Revalidate(t)
    <2>1. threads[t].pc = "revalidate" /\ ~Pending(t) /\ threads[t].id \in Ids /\ threads[t].id < nextId
        BY <1>0, <1>2 DEF Revalidate, Pending
    <2>2. /\ \A v \in Threads \ {t} : threads'[v] = threads[v]
          /\ ~Pending(t)'
          /\ threads'[t].pc \in {"idle", "mark"}
          /\ threads'[t].pc = "idle" \/ threads'[t].id = threads[t].id
        BY <1>0, <1>2 DEF Revalidate, Goto, Answer, Idle, At, ThreadsOK, Request, Pending
    <2>3. UNCHANGED <<nextId, tokens, forgotten>>
        BY <1>2 DEF Revalidate
    <2>4. CASE UNCHANGED <<sessions, past>>
        BY <1>0, <2>1, <2>2, <2>3, <2>4, ThreadKeeps
    <2>5. CASE /\ threads[t].id \notin tokens
               /\ sessions' = [sessions EXCEPT ![threads[t].id].row = IF @ = "none" THEN "none" ELSE "revoked"]
               /\ past' = past \cup {threads[t].id}
        <3>1. \A id \in Ids : sessions'[id].row = IF id = threads[t].id /\ sessions[id].row # "none"
                                                  THEN "revoked" ELSE sessions[id].row
            BY <2>1, <2>5 DEF RowsOK, SessionRow
        <3> QED BY <1>0, <1>a, <2>1, <2>2, <2>3, <2>5, <3>1, ThreadKeeps
    <2> QED BY <1>2, <2>4, <2>5 DEF Revalidate
<1>3. CASE MarkRevalidated(t)
    <2>1. threads[t].pc = "mark" /\ ~Pending(t) /\ threads[t].id \in Ids
        BY <1>0, <1>3 DEF MarkRevalidated, Pending
    <2>2. Begun(threads[t].call) \in {"idle", "logout"}
        BY <2>1 DEF ThreadsOK, ValidRequest, Begun
    <2>3. /\ \A v \in Threads \ {t} : threads'[v] = threads[v]
          /\ threads'[t].pc = "idle" \/ (threads'[t].pc = "logout" /\ threads'[t].id = threads[t].id)
        <3>1. \/ threads' = [threads EXCEPT ![t] = Idle]
              \/ threads' = [threads EXCEPT ![t].pc = "logout"]
            BY <1>3, <2>2 DEF MarkRevalidated, Accepted
        <3>2. threads \in [Threads -> Request]
            BY DEF ThreadsOK
        <3>3. CASE threads' = [threads EXCEPT ![t] = Idle]
            BY <1>0, <3>2, <3>3 DEF Idle, At
        <3>4. CASE threads' = [threads EXCEPT ![t].pc = "logout"]
            <4>1. threads' = [threads EXCEPT ![t] = [threads[t] EXCEPT !.pc = "logout"]]
                BY <3>4
            <4> QED BY <1>0, <3>2, <4>1 DEF Request
        <3> QED BY <3>1, <3>3, <3>4
    <2>4. \A id \in Ids : sessions'[id].row = sessions[id].row
        BY <1>3, <2>1 DEF MarkRevalidated, Marked, RowsOK, SessionRow
    <2>5. UNCHANGED <<nextId, tokens, forgotten, past>>
        BY <1>3 DEF MarkRevalidated
    <2>6. ~Pending(t)'
        BY <2>3 DEF Pending
    <2> QED BY <1>0, <2>1, <2>3, <2>4, <2>5, <2>6, ThreadKeeps
<1>4. CASE ProxyLogout(t)
    <2>1. threads[t].pc = "logout" /\ ~Pending(t) /\ threads[t].id \in Ids
        BY <1>0, <1>4 DEF ProxyLogout, Pending
    <2>2. /\ \A v \in Threads \ {t} : threads'[v] = threads[v]
          /\ threads'[t].pc = "revoke" /\ threads'[t].id = threads[t].id
        BY <1>0, <1>4 DEF ProxyLogout, Goto, ThreadsOK, Request
    <2>3. /\ UNCHANGED <<nextId, sessions, past>>
          /\ tokens' \subseteq tokens /\ forgotten \subseteq forgotten'
          /\ threads[t].id \notin tokens' \/ threads[t].id \in forgotten'
        BY <1>4 DEF ProxyLogout, LoggedOut
    <2>4. ~Pending(t)'
        BY <2>2 DEF Pending
    <2> QED BY <1>0, <2>1, <2>2, <2>3, <2>4, ThreadKeeps
<1>5. CASE RevokeSession(t)
    <2>1. /\ threads[t].pc = "revoke" /\ ~Pending(t) /\ threads[t].id \in Ids /\ threads[t].id < nextId
          /\ threads[t].id \notin tokens \/ threads[t].id \in forgotten
        BY <1>0, <1>5 DEF RevokeSession, Pending, SessionInv, LoggedOutFirst
    <2>2. /\ \A v \in Threads \ {t} : threads'[v] = threads[v]
          /\ threads'[t].pc \in {"audit", "purge_sessions"} /\ threads'[t].id = threads[t].id
        BY <1>0, <1>5 DEF RevokeSession, Goto, ThreadsOK, Request
    <2>3. /\ UNCHANGED <<nextId, tokens, forgotten>>
          /\ past' = past \cup {threads[t].id}
        BY <1>5 DEF RevokeSession
    <2>4. \A id \in Ids : sessions'[id].row = IF id = threads[t].id /\ sessions[id].row # "none"
                                              THEN "revoked" ELSE sessions[id].row
        BY <1>5, <2>1 DEF RevokeSession, RowsOK, SessionRow
    <2>5. ~Pending(t)'
        BY <2>2 DEF Pending
    <2> QED BY <1>0, <1>a, <2>1, <2>2, <2>3, <2>4, <2>5, ThreadKeeps
<1>6. CASE PurgeSessions(t)
    <2> DEFINE ending == Own(threads[t].user)
    <2>1. threads[t].pc = "purge_sessions" /\ ~Pending(t)
        BY <1>6 DEF PurgeSessions, Pending
    <2>2. /\ \A v \in Threads \ {t} : threads'[v] = threads[v]
          /\ threads'[t].pc = "purge_audit" /\ threads'[t].id = threads[t].id
        BY <1>0, <1>6 DEF PurgeSessions, Goto, ThreadsOK, Request
    <2>3. /\ UNCHANGED <<nextId, tokens>>
          /\ past' = past \cup ending
          /\ forgotten' = forgotten \cup {id \in ending : sessions[id].row = "live"}
          /\ sessions' = Without(ending)
        BY <1>6 DEF PurgeSessions
    <2>4. \A id \in Ids : sessions'[id].row = IF id \in ending THEN "none" ELSE sessions[id].row
        BY <2>3 DEF Without, NoSession
    <2>5. \A id \in ending : id \in Ids /\ sessions[id].row # "none"
        BY DEF Own
    <2>6. ~Pending(t)'
        BY <2>2 DEF Pending
    <2> HIDE DEF ending
    <2> QED BY <1>0, <1>b, <2>1, <2>2, <2>3, <2>4, <2>5, <2>6, ThreadKeeps
<1>7. CASE PurgeAudit(t)
    BY <1>0, <1>7, ThreadKeeps DEF PurgeAudit, Goto, Pending, ThreadsOK, Request
<1>8. CASE PurgeUser(t)
    <2> DEFINE ending == IF threads[t].user \in audited THEN {} ELSE Own(threads[t].user)
    <2>1. threads[t].pc = "purge_user" /\ ~Pending(t)
        BY <1>8 DEF PurgeUser, Pending
    <2>2. /\ \A v \in Threads \ {t} : threads'[v] = threads[v]
          /\ threads'[t].pc = "idle"
        BY <1>0, <1>8 DEF PurgeUser, Answer, Idle, At, ThreadsOK
    <2>3. /\ UNCHANGED <<nextId, tokens>>
          /\ past' = past \cup ending
          /\ forgotten' = forgotten \cup {id \in ending : sessions[id].row = "live"}
        BY <1>8 DEF PurgeUser
    <2>4. \A id \in Ids : sessions'[id].row = IF id \in ending THEN "none" ELSE sessions[id].row
        BY <1>8 DEF PurgeUser, Without, NoSession
    <2>5. \A id \in ending : id \in Ids /\ sessions[id].row # "none"
        BY DEF Own
    <2>6. ~Pending(t)'
        BY <2>2 DEF Pending
    <2> HIDE DEF ending
    <2> QED BY <1>0, <1>b, <2>1, <2>2, <2>3, <2>4, <2>5, <2>6, ThreadKeeps
<1> QED BY <1>1, <1>2, <1>3, <1>4, <1>5, <1>6, <1>7, <1>8

LEMMA OutsideKeeps ==
    ASSUME WellTyped, SessionInv,
           \/ \E id \in Ids : Age(id, "due") \/ Age(id, "expired") \/ EndToken(id)
           \/ RestartWithNewKey
           \/ UNCHANGED vars
    PROVE  SessionInv' /\ StaysOut
<1> USE DEF WellTyped, tables, history
<1>1. /\ UNCHANGED <<nextId, threads, forgotten, past>>
      /\ tokens' \subseteq tokens
    BY DEF Age, EndToken, RestartWithNewKey, vars
<1>2. \A id \in Ids : sessions'[id].row = sessions[id].row
    BY DEF Age, EndToken, RestartWithNewKey, vars, RowsOK, SessionRow, NoSession
<1>3. tokens \subseteq Ids /\ past \subseteq Ids /\ \A t \in Threads : Pending(t) => threads[t].id \in Ids
    BY DEF SetsOK, ThreadsOK, ValidRequest, Pending
<1>4. HandedOut' /\ PendingOwn'
    BY <1>1, <1>2, <1>3 DEF SessionInv, HandedOut, PendingOwn, Pending
<1>5. RevokedRows' /\ LoggedOutFirst' /\ TokensHeld'
    BY <1>1, <1>2, <1>3 DEF SessionInv, RevokedRows, LoggedOutFirst, TokensHeld, Pending
<1>6. StaysOut
    BY <1>1, <1>5 DEF StaysOut, RevokedRows, Under
<1> QED BY <1>4, <1>5, <1>6 DEF SessionInv

LEMMA NextKeeps == WellTyped /\ SessionInv /\ [Next]_vars => SessionInv' /\ StaysOut
BY LoginKeeps, RequestKeeps, OutsideKeeps DEF Next

LEMMA SessionsInvariant == Spec => [](WellTyped /\ SessionInv)
<1>1. Init => WellTyped /\ SessionInv
    BY InitTyped, InitSessions
<1>2. WellTyped /\ SessionInv /\ [Next]_vars => (WellTyped /\ SessionInv)'
    BY NextTyped, NextKeeps
<1> QED BY <1>1, <1>2, PTL DEF Spec

\* Once a session was revoked or deleted, its row is not live again and no
\* request begins under it; those looked up before may still be served.
THEOREM RevokedForGood == Spec => RevokedStaysOut
<1>1. WellTyped /\ SessionInv /\ [Next]_vars => [StaysOut]_vars
    BY NextKeeps
<1> QED BY <1>1, SessionsInvariant, PTL DEF Spec, RevokedStaysOut

\* Every token Immich accepts is in a live session, in a login, or given up in
\* one of the known ways.
THEOREM NoTokenLost == Spec => []TokensAccounted
<1>1. WellTyped /\ SessionInv => TokensAccounted
    BY DEF WellTyped, SessionInv, TokensHeld, TokensAccounted, ThreadsOK, ValidRequest, Pending
<1> QED BY <1>1, SessionsInvariant, PTL

-----------------------------------------------------------------------------
(* The first-admin bootstrap.                                              *)

\* A login that will promote its account, because it saw no admin.
Promising(t) ==
    /\ threads[t].pc \in {"upsert", "promote"}
    /\ threads[t].promote /\ ~threads[t].isAdmin
Promised == {threads[t].user : t \in {u \in Threads : Promising(u)}}

\* The accounts that the bootstrap has promoted or is about to: a login that
\* sees no admin starts the count again, so they are never more than the
\* threads that may be past the check.
Bound(S) == IsFiniteSet(S) /\ Cardinality(S) <= Cardinality(Threads)
Candidates == bootstrapped \cup Promised
PromisesBounded == Bound(Candidates)

LEMMA BoundShrinks == ASSUME NEW S, Bound(S), NEW T \in SUBSET S PROVE Bound(T)
<1>1. IsFiniteSet(T) /\ Cardinality(T) <= Cardinality(S)
    BY FS_Subset DEF Bound
<1>2. Cardinality(T) \in Nat /\ Cardinality(S) \in Nat /\ Cardinality(Threads) \in Nat
    BY <1>1, ConstantsOK, FS_CardinalityType DEF Bound
<1> QED BY <1>1, <1>2 DEF Bound

\* There are at most as many users in requests as there are threads.
LEMMA BoundPromised == Bound(Promised)
<1> DEFINE P == {u \in Threads : Promising(u)}
           f == [t \in P |-> threads[t].user]
<1>1. IsFiniteSet(P) /\ Cardinality(P) <= Cardinality(Threads)
    BY ConstantsOK, FS_Subset
<1>2. f \in Surjection(P, Promised)
    BY DEF Surjection, Promised
<1>3. IsFiniteSet(Promised) /\ Cardinality(Promised) <= Cardinality(P)
    BY <1>1, <1>2, FS_Surjection
<1>4. /\ Cardinality(P) \in Nat /\ Cardinality(Promised) \in Nat
      /\ Cardinality(Threads) \in Nat
    BY <1>1, <1>3, ConstantsOK, FS_CardinalityType
<1> QED BY <1>1, <1>3, <1>4 DEF Bound

\* Promises grow with the step of a login that has counted the admins; every
\* other step keeps or fulfils them.
LEMMA CandidatesShrink ==
    ASSUME WellTyped, NEW t \in Threads,
           \A u \in Threads \ {t} : threads'[u] = threads[u],
           Promising(t)' => Promising(t) /\ threads'[t].user = threads[t].user,
           bootstrapped' \subseteq Candidates
    PROVE  Candidates' \subseteq Candidates
<1>1. \A u \in Threads : Promising(u)' => Promising(u) /\ threads'[u].user = threads[u].user
    BY DEF Promising
<1> QED BY <1>1 DEF Candidates, Promised

LEMMA LoginBounded ==
    ASSUME WellTyped, PromisesBounded, NEW t \in Threads,
           \/ \E u \in Users, admin \in BOOLEAN : ProxyLogin(t, u, admin)
           \/ CountAdmins(t) \/ UpsertUser(t) \/ PromoteToAdmin(t)
           \/ PersistSession(t) \/ WriteAudit(t)
    PROVE  PromisesBounded'
<1> USE DEF WellTyped, tables, history
<1>0. \A u \in Threads : threads[u] \in Request
    BY DEF ThreadsOK, ValidRequest
<1>1. ASSUME NEW u \in Users, NEW admin \in BOOLEAN, ProxyLogin(t, u, admin) PROVE PromisesBounded'
    <2>1. /\ \A v \in Threads \ {t} : threads'[v] = threads[v]
          /\ threads'[t].pc \in {"idle", "count_admins"}
          /\ bootstrapped' = bootstrapped
        BY <1>1 DEF ProxyLogin, At, ThreadsOK
    <2>2. Candidates' \subseteq Candidates
        BY <2>1, CandidatesShrink DEF Promising, Candidates
    <2> QED BY <2>2, BoundShrinks DEF PromisesBounded, Bound
<1>2. CASE CountAdmins(t)
    <2>1. CASE NoAdminYet
        <3>1. bootstrapped = {} /\ bootstrapped' = bootstrapped
            BY <1>2, <2>1 DEF CountAdmins, NoAdminYet, SetsOK
        <3>2. Candidates' = Promised'
            BY <3>1 DEF Candidates
        <3>3. Bound(Promised)'
            BY BoundPromised, PTL
        <3> QED BY <3>2, <3>3 DEF PromisesBounded, Bound
    <2>2. CASE ~NoAdminYet
        <3>1. /\ \A v \in Threads \ {t} : threads'[v] = threads[v]
              /\ ~threads'[t].promote
              /\ bootstrapped' = bootstrapped
            BY <1>0, <1>2, <2>2 DEF CountAdmins, ThreadsOK, Request
        <3>2. Candidates' \subseteq Candidates
            BY <3>1, CandidatesShrink DEF Promising, Candidates
        <3> QED BY <3>2, BoundShrinks DEF PromisesBounded, Bound
    <2> QED BY <2>1, <2>2
<1>3. CASE UpsertUser(t)
    <2>1. /\ \A v \in Threads \ {t} : threads'[v] = threads[v]
          /\ threads'[t].pc \in {"promote", "persist"}
          /\ threads'[t].pc = "promote" => threads[t].promote /\ ~threads[t].isAdmin
          /\ threads'[t].user = threads[t].user
          /\ threads[t].pc = "upsert"
        BY <1>0, <1>3 DEF UpsertUser, Goto, ThreadsOK, Request
    <2>2. Promising(t)' => Promising(t)
        BY <2>1 DEF Promising
    <2>3. bootstrapped' \subseteq Candidates
        BY <1>3 DEF UpsertUser, Candidates, Promised, Promising
    <2>4. Candidates' \subseteq Candidates
        BY <2>1, <2>2, <2>3, CandidatesShrink
    <2> QED BY <2>4, BoundShrinks DEF PromisesBounded, Bound
<1>4. CASE PromoteToAdmin(t)
    <2>1. /\ \A v \in Threads \ {t} : threads'[v] = threads[v]
          /\ threads'[t].pc = "persist" /\ threads[t].pc = "promote"
        BY <1>0, <1>4 DEF PromoteToAdmin, Goto, ThreadsOK, Request
    <2>2. Promising(t) /\ ~Promising(t)'
        BY <2>1 DEF Promising, ThreadsOK, ValidRequest
    <2>3. bootstrapped' \subseteq bootstrapped \cup {threads[t].user}
        BY <1>4 DEF PromoteToAdmin
    <2>4. bootstrapped' \subseteq Candidates
        BY <2>2, <2>3 DEF Candidates, Promised
    <2>5. Candidates' \subseteq Candidates
        BY <2>1, <2>2, <2>4, CandidatesShrink
    <2> QED BY <2>5, BoundShrinks DEF PromisesBounded, Bound
<1>5. CASE PersistSession(t) \/ WriteAudit(t)
    <2>1. /\ \A v \in Threads \ {t} : threads'[v] = threads[v]
          /\ threads'[t].pc \in {"idle", "audit"}
          /\ bootstrapped' = bootstrapped
        BY <1>0, <1>5 DEF PersistSession, WriteAudit, Goto, Answer, Idle, At, ThreadsOK, Request
    <2>2. Candidates' \subseteq Candidates
        BY <2>1, CandidatesShrink DEF Promising, Candidates
    <2> QED BY <2>2, BoundShrinks DEF PromisesBounded, Bound
<1> QED BY <1>1, <1>2, <1>3, <1>4, <1>5

LEMMA RequestBounded ==
    ASSUME WellTyped, PromisesBounded, NEW t \in Threads,
           \/ \E id \in Ids, call \in {"me", "logout", "delete_me"} : Lookup(t, id, call)
           \/ Revalidate(t) \/ MarkRevalidated(t)
           \/ ProxyLogout(t) \/ RevokeSession(t)
           \/ PurgeSessions(t) \/ PurgeAudit(t) \/ PurgeUser(t)
    PROVE  PromisesBounded'
<1> USE DEF WellTyped, tables, history
<1>0. threads[t] \in Request /\ ValidRequest(threads[t])
    BY DEF ThreadsOK, ValidRequest
<1>1. /\ \A v \in Threads \ {t} : threads'[v] = threads[v]
      /\ bootstrapped' \subseteq bootstrapped
    BY DEF Lookup, Revalidate, MarkRevalidated, ProxyLogout, RevokeSession, PurgeSessions, PurgeAudit,
       PurgeUser, Goto, Answer, Accepted, ThreadsOK
<1>2. threads'[t].pc \notin {"upsert", "promote"}
    <2>1. ASSUME NEW id \in Ids, NEW call \in {"me", "logout", "delete_me"}, Lookup(t, id, call)
          PROVE  threads'[t].pc \notin {"upsert", "promote"}
        <3> DEFINE next == IF sessions[id].age = "due" THEN "revalidate" ELSE Begun(call)
        <3>1. next \in {"idle", "logout", "revalidate"}
            <4>1. CASE call = "me"
                BY <4>1 DEF Begun
            <4>2. CASE call = "logout"
                BY <4>2 DEF Begun
            <4>3. CASE call = "delete_me"
                BY <4>3 DEF Begun
            <4> QED BY <4>1, <4>2, <4>3
        <3>2. threads' = [threads EXCEPT ![t] = IF next = "idle" THEN Idle
                                                ELSE At(next, call, sessions[id].user, id, FALSE)]
            BY <2>1 DEF Lookup
        <3> HIDE DEF next
        <3> QED BY <3>1, <3>2 DEF ThreadsOK, At, Idle
    <2>2. CASE MarkRevalidated(t)
        <3>1. Begun(threads[t].call) \in {"idle", "logout"}
            BY <1>0, <2>2 DEF MarkRevalidated, ValidRequest, Begun
        <3>2. \/ threads' = [threads EXCEPT ![t] = Idle]
              \/ threads' = [threads EXCEPT ![t].pc = "logout"]
            BY <2>2, <3>1 DEF MarkRevalidated, Accepted
        <3> QED BY <1>0, <3>2 DEF Idle, At, ThreadsOK, Request
    <2>3. CASE \/ Revalidate(t) \/ ProxyLogout(t) \/ RevokeSession(t)
               \/ PurgeSessions(t) \/ PurgeAudit(t) \/ PurgeUser(t)
        <3>1. \/ Answer(t)
              \/ \E pc \in {"mark", "revoke", "audit", "purge_sessions", "purge_audit", "purge_user"} :
                    Goto(t, pc)
            BY <2>3 DEF Revalidate, ProxyLogout, RevokeSession, PurgeSessions, PurgeAudit, PurgeUser
        <3>2. ASSUME NEW pc, Goto(t, pc) PROVE threads'[t].pc = pc
            BY <1>0, <3>2 DEF Goto, ThreadsOK, Request
        <3>3. CASE Answer(t)
            BY <3>3 DEF Answer, Idle, At, ThreadsOK
        <3> QED BY <3>1, <3>2, <3>3
    <2> QED BY <2>1, <2>2, <2>3
<1>3. Candidates' \subseteq Candidates
    BY <1>1, <1>2, CandidatesShrink DEF Promising, Candidates
<1> QED BY <1>3, BoundShrinks DEF PromisesBounded, Bound

LEMMA NextBounded == WellTyped /\ PromisesBounded /\ [Next]_vars => PromisesBounded'
<1> SUFFICES ASSUME WellTyped, PromisesBounded, [Next]_vars PROVE PromisesBounded'
    OBVIOUS
<1>1. CASE UNCHANGED <<threads, bootstrapped>>
    BY <1>1 DEF PromisesBounded, Bound, Candidates, Promised, Promising
<1>2. CASE \E t \in Threads :
             \/ \E u \in Users, admin \in BOOLEAN : ProxyLogin(t, u, admin)
             \/ CountAdmins(t) \/ UpsertUser(t) \/ PromoteToAdmin(t)
             \/ PersistSession(t) \/ WriteAudit(t)
    BY <1>2, LoginBounded
<1>3. CASE \E t \in Threads :
             \/ \E id \in Ids, call \in {"me", "logout", "delete_me"} : Lookup(t, id, call)
             \/ Revalidate(t) \/ MarkRevalidated(t)
             \/ ProxyLogout(t) \/ RevokeSession(t)
             \/ PurgeSessions(t) \/ PurgeAudit(t) \/ PurgeUser(t)
    BY <1>3, RequestBounded
<1>4. CASE \/ \E id \in Ids : Age(id, "due") \/ Age(id, "expired") \/ EndToken(id)
           \/ RestartWithNewKey \/ UNCHANGED vars
    BY <1>1, <1>4 DEF Age, EndToken, RestartWithNewKey, vars, history
<1> QED BY <1>2, <1>3, <1>4 DEF Next

\* However many first logins overlap, the bootstrap never promotes more
\* accounts than there are threads to serve them.
THEOREM BootstrapIsBounded == Spec => []BootstrapBound
<1>1. Init => WellTyped
    BY InitTyped
<1>2. Init => PromisesBounded
    <2>1. Init => Candidates = {}
        BY DEF Init, Candidates, Promised, Promising, Idle, At
    <2>2. Bound({})
        BY ConstantsOK, FS_EmptySet, FS_CardinalityType DEF Bound
    <2> QED BY <2>1, <2>2 DEF PromisesBounded
<1>3. WellTyped /\ PromisesBounded /\ [Next]_vars => (WellTyped /\ PromisesBounded)'
    BY NextTyped, NextBounded
<1>4. PromisesBounded => BootstrapBound
    BY BoundShrinks DEF PromisesBounded, Candidates, Bound, BootstrapBound
<1> QED BY <1>1, <1>2, <1>3, <1>4, PTL DEF Spec
=============================================================================
