---------------------------- MODULE AutoScanProofs ----------------------------
(***************************************************************************)
(* What holds of the auto-scan coordinator for every number of users,      *)
(* uploads, pages and sign-ins.                                            *)
(***************************************************************************)
EXTENDS AutoScan, FiniteSetTheorems, TLAPS

\* What the coordinator is at: whom it visits and how far it has read.
TickRow == [user : Users, from : Assets \cup {0}]
TickRecord == [pc : {"idle", "next", "page", "dispatch", "record"}, todo : SUBSET TickRow,
               user : Users \cup {NoUser}, from : Assets \cup {0}, token : 0..MaxSessions,
               pages : 0..MaxPages, seen : SUBSET Assets, cursor : Assets \cup {0},
               error : ErrorCodes]
Settings == [enabled : BOOLEAN, cursor : Assets \cup {0}, status : Statuses]

Visiting == tick.pc \in {"page", "dispatch", "record"}
TickFits ==
    /\ Visiting => tick.user \in Users
    /\ tick.pc = "page" => tick.pages < MaxPages
WellTyped == TypeOK /\ TickFits

-----------------------------------------------------------------------------
(* The newest of finitely many timestamps.                                 *)

\* A finite set of numbers has a greatest one: a smallest set without one would
\* still have none after the loss of any of its elements.
LEMMA Greatest ==
    ASSUME NEW S, IsFiniteSet(S), S \subseteq Nat, S # {}
    PROVE  \E x \in S : \A y \in S : y <= x
<1> DEFINE Topless == {T \in SUBSET S : T # {} /\ \A x \in T : \E y \in T : ~(y <= x)}
<1>1. SUFFICES ASSUME Topless # {} PROVE FALSE
    <2>1. S \notin Topless
        BY <1>1
    <2> QED BY <2>1
<1>2. Topless \subseteq FiniteSubsetsOf(S)
    BY FS_Subset DEF FiniteSubsetsOf
<1>3. PICK T \in Topless : \A U \in Topless : <<U, T>> \notin StrictSubsetOrdering(S)
    BY <1>1, <1>2, WFMin, FS_StrictSubsetOrderingWellFounded
<1>4. PICK x \in T : TRUE
    BY <1>3
<1>5. <<T \ {x}, T>> \in StrictSubsetOrdering(S)
    BY <1>4 DEF StrictSubsetOrdering
<1>6. T \ {x} \in SUBSET S /\ T \ {x} \notin Topless
    BY <1>3, <1>5
<1>7. PICK y \in T : ~(y <= x)
    BY <1>4
<1>8. T \ {x} # {} /\ x \in Nat /\ y \in Nat
    BY <1>4, <1>7
<1>9. PICK z \in T \ {x} : \A v \in T \ {x} : v <= z
    BY <1>6, <1>8
<1>10. \A v \in T : v <= z
    BY <1>7, <1>8, <1>9
<1> QED BY <1>10, <1>9

LEMMA Stamps == \A a \in Assets \cup {0} : a \in Nat
BY ConstantsOK

LEMMA LatestIs ==
    ASSUME NEW S \in SUBSET Assets, NEW floor \in Assets \cup {0}
    PROVE  /\ Latest(S, floor) \in S \cup {floor}
           /\ \A n \in S \cup {floor} : n <= Latest(S, floor)
<1>1. IsFiniteSet(S \cup {floor})
    BY ConstantsOK, FS_Subset, FS_AddElement
<1>2. S \cup {floor} \subseteq Nat
    BY ConstantsOK
<1>3. \E x \in S \cup {floor} : \A y \in S \cup {floor} : y <= x
    BY <1>1, <1>2, Greatest
<1> QED BY <1>3 DEF Latest

-----------------------------------------------------------------------------
(* Types.                                                                  *)

\* The ledgers of what was scanned or forgone only grow.
LEMMA AssetsAdded ==
    ASSUME NEW f \in [Users -> SUBSET Assets], NEW S \in SUBSET Assets, NEW u \in Users,
           NEW new, new = f \/ new = [f EXCEPT ![u] = @ \cup S]
    PROVE  new \in [Users -> SUBSET Assets] /\ \A v \in Users : f[v] \subseteq new[v]
<1>1. CASE new = f
    BY <1>1
<1>2. CASE new = [f EXCEPT ![u] = @ \cup S]
    <2>1. \A v \in Users : new[v] = IF v = u THEN f[v] \cup S ELSE f[v]
        BY <1>2
    <2>2. \A v \in Users : new[v] \in SUBSET Assets /\ f[v] \subseteq new[v]
        BY <2>1
    <2> QED BY <1>2, <2>2
<1> QED BY <1>1, <1>2

LEMMA Typed ==
    ASSUME WellTyped
    PROVE  /\ users \subseteq Users /\ nextId \in 1..(MaxSessions + 1)
           /\ sessions \in [Users -> Seq(1..MaxSessions)]
           /\ live \subseteq 1..MaxSessions /\ readable \subseteq 1..MaxSessions
           /\ auto \in [Users -> Settings]
           /\ due \subseteq Users /\ keys \subseteq Users /\ running \subseteq Users
           /\ library \in [Users -> SUBSET Assets]
           /\ scanned \in [Users -> SUBSET Assets] /\ forgone \in [Users -> SUBSET Assets]
           /\ tick \in TickRecord
           /\ \A u \in Users \ users : auto[u] = NoSettings
           /\ MaxSessions \in Nat /\ MaxPages \in Nat \ {0}
BY ConstantsOK DEF WellTyped, TypeOK, Settings, TickRecord, TickRow

LEMMA StaysTyped ==
    ASSUME users' \subseteq Users, nextId' \in 1..(MaxSessions + 1),
           sessions' \in [Users -> Seq(1..MaxSessions)],
           live' \subseteq 1..MaxSessions, readable' \subseteq 1..MaxSessions,
           auto' \in [Users -> Settings],
           due' \subseteq Users, keys' \subseteq Users, running' \subseteq Users,
           library' \in [Users -> SUBSET Assets],
           scanned' \in [Users -> SUBSET Assets], forgone' \in [Users -> SUBSET Assets],
           tick' \in TickRecord, TickFits',
           \A u \in Users \ users' : auto'[u] = NoSettings
    PROVE  WellTyped'
BY DEF WellTyped, TypeOK, Settings, TickRecord, TickRow

LEMMA TickTyped ==
    ASSUME NEW pc \in {"idle", "next", "page", "dispatch", "record"}, NEW todo \in SUBSET TickRow,
           NEW user \in Users \cup {NoUser}, NEW from \in Assets \cup {0},
           NEW token \in 0..MaxSessions, NEW error \in ErrorCodes
    PROVE  Tick(pc, todo, user, from, token, error) \in TickRecord
BY ConstantsOK DEF Tick, TickRecord

LEMMA TickFields ==
    ASSUME NEW pc, NEW todo, NEW user, NEW from, NEW token, NEW error,
           NEW p, p = Tick(pc, todo, user, from, token, error)
    PROVE  /\ p.pc = pc /\ p.todo = todo /\ p.user = user /\ p.from = from
           /\ p.token = token /\ p.error = error /\ p.cursor = from
           /\ p.seen = {} /\ p.pages = 0
BY DEF Tick

LEMMA InitTyped == Init => WellTyped
<1> SUFFICES ASSUME Init PROVE WellTyped
    OBVIOUS
<1>1. tick \in TickRecord
    BY ConstantsOK, TickTyped DEF Init, IdleTick, ErrorCodes
<1>2. TickFits
    BY TickFields DEF Init, IdleTick, TickFits, Visiting
<1>3. NoSettings \in Settings
    BY DEF NoSettings, Settings, Statuses
<1> QED BY <1>1, <1>2, <1>3, ConstantsOK DEF Init, WellTyped, TypeOK, Settings, TickRecord, TickRow

LEMMA SettingsFields ==
    ASSUME NEW row \in Settings, NEW error \in ErrorCodes, NEW cursor \in Assets \cup {0}
    PROVE  /\ Recorded(row, error, cursor) \in Settings
           /\ Recorded(row, error, cursor).cursor = IF cursor = 0 THEN row.cursor ELSE cursor
           /\ error = "none" => Recorded(row, error, cursor).status = "ok"
<1>1. (row.enabled /\ ~Disables(error)) \in BOOLEAN
    OBVIOUS
<1> QED BY <1>1 DEF Recorded, Settings, Statuses

\* A visit lists pages, submits a scan and records its outcome.
LEMMA CoordinatorTyped ==
    ASSUME WellTyped, Coordinator
    PROVE  WellTyped'
<1>1. UNCHANGED <<accounts, library, model, keys, restarts>>
    BY DEF Coordinator, StartPass, EndPass, BeginUser, FetchPage, DispatchScan, RecordTick
<1>2. tick.todo \in SUBSET TickRow /\ "none" \in ErrorCodes /\ 0 \in 0..MaxSessions /\ 0 \in 0..MaxPages
    BY Typed DEF TickRecord, ErrorCodes
<1>3. \A todo \in SUBSET TickRow : Between(todo) \in TickRecord /\ Between(todo).pc = "next"
    BY <1>2, TickTyped, TickFields DEF Between
<1>4. /\ tick' \in TickRecord /\ TickFits'
      /\ running' \subseteq Users /\ scanned' \in [Users -> SUBSET Assets]
      /\ forgone' \in [Users -> SUBSET Assets]
      /\ due' \subseteq Users /\ auto' \in [Users -> Settings]
      /\ \A u \in Users \ users' : auto'[u] = NoSettings
    <2>1. CASE StartPass
        <3> DEFINE todo == {[user |-> u, from |-> auto[u].cursor] : u \in {v \in due : auto[v].enabled}}
        <3>1. todo \in SUBSET TickRow
            BY Typed DEF TickRow, Settings
        <3>2. tick' = Between(todo)
            BY <2>1 DEF StartPass
        <3> HIDE DEF todo
        <3>3. tick' \in TickRecord /\ TickFits'
            BY <1>3, <3>1, <3>2 DEF TickFits, Visiting
        <3> QED BY <1>1, <2>1, <3>3, Typed DEF StartPass, history, accounts
    <2>2. CASE EndPass
        <3>1. tick' \in TickRecord /\ TickFits'
            BY <1>2, <2>2, TickTyped, TickFields DEF EndPass, IdleTick, TickFits, Visiting
        <3> QED BY <1>1, <2>2, <3>1, Typed DEF EndPass, history, accounts
    <2>3. ASSUME NEW row \in tick.todo, BeginUser(row) PROVE <1>4
        <3>1. row \in TickRow /\ row.user \in Users /\ row.from \in Assets \cup {0}
              /\ tick.todo \ {row} \in SUBSET TickRow
            BY <1>2 DEF TickRow
        <3>2. PICK pc \in {"page", "record"}, token \in 0..MaxSessions, error \in ErrorCodes :
                tick' = Tick(pc, tick.todo \ {row}, row.user, row.from, token, error)
            <4>1. sessions[row.user] \in Seq(1..MaxSessions)
                BY <3>1, Typed
            <4>2. sessions[row.user] # <<>> => Last(sessions[row.user]) \in 0..MaxSessions
                BY <4>1, Typed DEF Last
            <4>3. "no_active_session" \in ErrorCodes /\ "session_decrypt_failed" \in ErrorCodes
                BY DEF ErrorCodes
            <4> QED BY <1>2, <2>3, <4>2, <4>3 DEF BeginUser
        <3>3. tick' \in TickRecord
            BY <3>1, <3>2, TickTyped
        <3>4. tick'.user \in Users /\ tick'.pages < MaxPages
            BY <3>1, <3>2, TickFields, Typed
        <3> QED BY <1>1, <2>3, <3>3, <3>4, Typed DEF BeginUser, history, accounts, TickFits
    <2>4. CASE FetchPage
        <3>1. tick.pc = "page" /\ tick \in TickRecord /\ tick.user \in Users /\ tick.pages < MaxPages
            BY <2>4, Typed DEF FetchPage, WellTyped, TickFits, Visiting
        <3>2. tick' \in TickRecord /\ TickFits'
            <4>1. ASSUME NEW items \in SUBSET Possible, NEW more \in BOOLEAN, tick' = PageListed(items, more)
                  PROVE  <3>2
                <5>1. items \in SUBSET Assets
                    BY <3>1, Typed DEF Possible
                <5>2. Latest(items, tick.cursor) \in Assets \cup {0}
                    BY <3>1, <5>1, LatestIs DEF TickRecord
                <5> DEFINE pc == IF more /\ tick.pages + 1 < MaxPages THEN "page" ELSE "dispatch"
                <5>3. tick' = [tick EXCEPT !.pages = tick.pages + 1, !.seen = tick.seen \cup items,
                                           !.cursor = Latest(items, tick.cursor), !.pc = pc]
                    BY <4>1 DEF PageListed
                <5>4. pc \in {"page", "dispatch"} /\ (pc = "page" => tick.pages + 1 < MaxPages)
                    OBVIOUS
                <5>5. tick.pages + 1 \in 0..MaxPages
                    BY <3>1, Typed DEF TickRecord
                <5> HIDE DEF pc
                <5>6. /\ tick' \in TickRecord /\ tick'.pc = pc /\ tick'.pages = tick.pages + 1
                      /\ tick'.user = tick.user
                    BY <3>1, <5>1, <5>2, <5>3, <5>4, <5>5 DEF TickRecord
                <5> QED BY <3>1, <5>4, <5>6 DEF TickFits, Visiting
            <4>2. ASSUME NEW code \in ErrorCodes, tick' = PageFailed(code) PROVE <3>2
                <5>1. /\ tick' \in TickRecord /\ tick'.pc = "record" /\ tick'.user = tick.user
                    BY <1>2, <3>1, <4>2 DEF PageFailed, TickRecord
                <5> QED BY <3>1, <5>1 DEF TickFits, Visiting
            <4> QED BY <2>4, <4>1, <4>2 DEF FetchPage, ErrorCodes
        <3> QED BY <1>1, <2>4, <3>2, Typed DEF FetchPage, history, accounts
    <2>5. CASE DispatchScan
        <3>1. tick.pc = "dispatch" /\ tick \in TickRecord /\ tick.user \in Users
            BY <2>5, Typed DEF DispatchScan, WellTyped, TickFits, Visiting
        <3>2. tick' \in TickRecord /\ TickFits'
            <4>1. CASE tick' = NextUser
                BY <1>2, <1>3, <4>1 DEF NextUser, TickFits, Visiting
            <4>2. CASE tick' = [tick EXCEPT !.pc = "record", !.seen = {}, !.token = 0, !.pages = 0]
                <5>1. tick' \in TickRecord /\ tick'.pc = "record" /\ tick'.user = tick.user
                    BY <1>2, <3>1, <4>2 DEF TickRecord
                <5> QED BY <3>1, <5>1 DEF TickFits, Visiting
            <4> QED BY <2>5, <4>1, <4>2 DEF DispatchScan
        <3>3. /\ running' \subseteq Users /\ scanned' \in [Users -> SUBSET Assets]
              /\ forgone' \in [Users -> SUBSET Assets]
            <4>1. /\ running' = running \/ running' = running \cup {tick.user}
                  /\ scanned' = scanned \/ scanned' = [scanned EXCEPT ![tick.user] = @ \cup library[tick.user]]
                  /\ forgone' = forgone \/ forgone' = [forgone EXCEPT ![tick.user] = @ \cup library[tick.user]]
                BY <2>5 DEF DispatchScan, history
            <4>2. running' \subseteq Users
                BY <3>1, <4>1, Typed
            <4>3. /\ scanned \in [Users -> SUBSET Assets] /\ forgone \in [Users -> SUBSET Assets]
                  /\ library[tick.user] \in SUBSET Assets
                BY <3>1, Typed
            <4>4. scanned' \in [Users -> SUBSET Assets]
                BY <3>1, <4>1, <4>3, AssetsAdded
            <4>5. forgone' \in [Users -> SUBSET Assets]
                BY <3>1, <4>1, <4>3, AssetsAdded
            <4> QED BY <4>2, <4>4, <4>5
        <3> QED BY <1>1, <2>5, <3>2, <3>3, Typed DEF DispatchScan, accounts
    <2>6. CASE RecordTick
        <3>1. tick.pc = "record" /\ tick \in TickRecord /\ tick.user \in Users
            BY <2>6, Typed DEF RecordTick, WellTyped, TickFits, Visiting
        <3>2. tick' \in TickRecord /\ TickFits'
            BY <1>2, <1>3, <2>6 DEF RecordTick, NextUser, TickFits, Visiting
        <3>3. Recorded(auto[tick.user], tick.error, tick.cursor) \in Settings
            BY <3>1, Typed, SettingsFields DEF TickRecord
        <3>4. auto' \in [Users -> Settings] /\ \A u \in Users \ users : auto'[u] = NoSettings
            BY <2>6, <3>1, <3>3, Typed DEF RecordTick
        <3> QED BY <1>1, <2>6, <3>2, <3>4, Typed DEF RecordTick, history, accounts
    <2> QED BY <2>1, <2>2, <2>3, <2>4, <2>5, <2>6 DEF Coordinator
<1> QED BY <1>1, <1>4, Typed, StaysTyped DEF accounts

LEMMA EnvironmentTyped ==
    ASSUME WellTyped, Environment
    PROVE  WellTyped'
<1>1. ASSUME NEW u \in Users, Login(u) PROVE WellTyped'
    <2>1. nextId \in 1..MaxSessions /\ nextId' \in 1..(MaxSessions + 1)
        BY <1>1, Typed DEF Login
    <2>2. sessions' \in [Users -> Seq(1..MaxSessions)]
        BY <1>1, <2>1, Typed DEF Login
    <2>3. TickFits'
        BY <1>1 DEF Login, WellTyped, TickFits, Visiting
    <2> QED BY <1>1, <2>1, <2>2, <2>3, Typed, StaysTyped DEF Login, history
<1>2. ASSUME NEW u \in Users, DeleteMe(u) PROVE WellTyped'
    <2>1. NoSettings \in Settings /\ <<>> \in Seq(1..MaxSessions)
        BY DEF NoSettings, Settings, Statuses
    <2>2. sessions' \in [Users -> Seq(1..MaxSessions)]
        BY <1>2, <2>1, Typed DEF DeleteMe
    <2>3. auto' \in [Users -> Settings] /\ \A v \in Users \ users' : auto'[v] = NoSettings
        BY <1>2, <2>1, Typed DEF DeleteMe
    <2>4. scanned' \in [Users -> SUBSET Assets] /\ forgone' \in [Users -> SUBSET Assets]
        BY <1>2, Typed DEF DeleteMe
    <2>5. TickFits'
        BY <1>2 DEF DeleteMe, WellTyped, TickFits, Visiting
    <2> QED BY <1>2, <2>2, <2>3, <2>4, <2>5, Typed, StaysTyped DEF DeleteMe
<1>3. ASSUME NEW u \in Users, NEW on \in BOOLEAN, PutSettings(u, on) PROVE WellTyped'
    <2>1. auto' = [auto EXCEPT ![u] = [auto[u] EXCEPT !.enabled = on]]
        BY <1>3 DEF PutSettings
    <2>2. [auto[u] EXCEPT !.enabled = on] \in Settings
        BY Typed DEF Settings
    <2>3. auto' \in [Users -> Settings] /\ \A v \in Users \ users' : auto'[v] = NoSettings
        BY <1>3, <2>1, <2>2, Typed DEF PutSettings, accounts
    <2>4. TickFits'
        BY <1>3 DEF PutSettings, WellTyped, TickFits, Visiting
    <2> QED BY <1>3, <2>3, <2>4, Typed, StaysTyped DEF PutSettings, accounts, history
<1>4. ASSUME NEW u \in Users, NEW a \in Assets, Upload(u, a) PROVE WellTyped'
    <2>1. library' \in [Users -> SUBSET Assets] /\ forgone' \in [Users -> SUBSET Assets]
        BY <1>4, Typed DEF Upload
    <2>2. TickFits'
        BY <1>4 DEF Upload, WellTyped, TickFits, Visiting
    <2> QED BY <1>4, <2>1, <2>2, Typed, StaysTyped DEF Upload, accounts
<1>5. ASSUME NEW u \in Users, PutApiKey(u) \/ IntervalElapses(u) \/ EndScan(u) \/ RequestScan(u)
      PROVE  WellTyped'
    <2>1. /\ keys' \subseteq Users /\ due' \subseteq Users /\ running' \subseteq Users
          /\ UNCHANGED <<accounts, auto, library, tick, forgone>>
        BY <1>5, Typed DEF PutApiKey, IntervalElapses, EndScan, RequestScan, history
    <2>2. scanned' \in [Users -> SUBSET Assets]
        <3>1. scanned' = scanned \/ scanned' = [scanned EXCEPT ![u] = @ \cup library[u]]
            BY <1>5 DEF PutApiKey, IntervalElapses, EndScan, RequestScan, history
        <3>2. scanned \in [Users -> SUBSET Assets] /\ library[u] \in SUBSET Assets
            BY Typed
        <3> QED BY <3>1, <3>2, AssetsAdded
    <2>3. TickFits'
        BY <2>1 DEF WellTyped, TickFits, Visiting
    <2> QED BY <2>1, <2>2, <2>3, Typed, StaysTyped DEF accounts
<1>6. ASSUME (\E s \in live : TokenEnds(s)) \/ SwitchModel PROVE WellTyped'
    <2>1. /\ UNCHANGED <<users, sessions, readable, nextId, auto, due, library, keys, running, tick, history>>
          /\ live' \subseteq live
        BY <1>6 DEF TokenEnds, SwitchModel, accounts
    <2>2. TickFits'
        BY <2>1 DEF WellTyped, TickFits, Visiting
    <2> QED BY <2>1, <2>2, Typed, StaysTyped DEF history
<1>7. CASE Restart
    <2>1. tick' \in TickRecord /\ TickFits'
        BY <1>7, Typed, TickTyped, TickFields DEF Restart, IdleTick, TickFits, Visiting, ErrorCodes
    <2> QED BY <1>7, <2>1, Typed, StaysTyped DEF Restart, history
<1> QED BY <1>1, <1>2, <1>3, <1>4, <1>5, <1>6, <1>7 DEF Environment

LEMMA NextTyped == WellTyped /\ [Next]_vars => WellTyped'
<1>1. ASSUME WellTyped, UNCHANGED vars PROVE WellTyped'
    <2>1. TickFits'
        BY <1>1 DEF WellTyped, TickFits, Visiting, vars
    <2> QED BY <1>1, <2>1, Typed, StaysTyped DEF vars, accounts, history
<1> QED BY <1>1, CoordinatorTyped, EnvironmentTyped DEF Next

\* The settings rows and the coordinator's visit keep their shapes, and an account
\* that is gone has no settings.
THEOREM AutoScanTypes == Spec => []TypeOK
<1>1. WellTyped => TypeOK
    BY DEF WellTyped
<1> QED BY <1>1, InitTyped, NextTyped, PTL DEF Spec

-----------------------------------------------------------------------------
(* The cursor.                                                             *)

\* An asset that need not be listed again.
Covered(u, a) == a \in scanned[u] \cup forgone[u]

\* The cursor a pass took from a settings row is still there, or the account was
\* deleted since.
Known(u, from) == auto[u].cursor = from \/ (auto[u].cursor = 0 /\ forgone[u] = Assets)

\* A pass visits a user once, from the cursor it knows.
PassOK ==
    /\ tick.pc = "idle" => tick.todo = {}
    /\ \A r \in tick.todo : Known(r.user, r.from)
    /\ \A r, q \in tick.todo : r.user = q.user => r = q
    /\ Visiting => Known(tick.user, tick.from) /\ \A r \in tick.todo : r.user # tick.user

\* A visit moves its cursor over assets it has seen and before an outcome is
\* recorded everything up to the cursor is covered.
VisitOK ==
    /\ Visiting => tick.from <= tick.cursor
    /\ tick.pc \in {"page", "dispatch"} =>
         tick.error = "none" /\ (tick.seen = {} => tick.cursor = tick.from)
    /\ tick.pc = "record" =>
         /\ tick.error # "none" => tick.cursor = tick.from
         /\ \A a \in library[tick.user] : a <= tick.cursor => Covered(tick.user, a)

CursorInv == PassOK /\ VisitOK /\ NothingSkippedSilently

\* What lies up to a cursor a pass knows is covered.
LEMMA KnownCovers ==
    ASSUME WellTyped, NothingSkippedSilently, NEW u \in Users, NEW from, Known(u, from),
           NEW a \in library[u], a <= from
    PROVE  Covered(u, a)
BY Typed DEF NothingSkippedSilently, Known, Covered

LEMMA InitCursor == Init => CursorInv
<1> SUFFICES ASSUME Init PROVE CursorInv
    OBVIOUS
<1>1. tick.pc = "idle" /\ tick.todo = {}
    BY TickFields DEF Init, IdleTick
<1>2. NothingSkippedSilently
    BY DEF Init, NothingSkippedSilently
<1> QED BY <1>1, <1>2 DEF CursorInv, PassOK, VisitOK, Visiting

\* A step beside the coordinator that forgets nothing.
LEMMA BesideKeeps ==
    ASSUME WellTyped, CursorInv, tick' = tick,
           \A u \in Users : auto'[u].cursor = auto[u].cursor,
           \A u \in Users : scanned[u] \subseteq scanned'[u] /\ forgone[u] \subseteq forgone'[u],
           \A u \in Users : forgone[u] = Assets => forgone'[u] = Assets,
           \A u \in Users : \A a \in library'[u] : a \in library[u] \/
             \/ a \in forgone'[u]
             \/ ~(a <= auto[u].cursor) /\ ~(tick.user = u /\ tick.pc = "record")
    PROVE  CursorInv'
<1>1. NothingSkippedSilently'
    BY DEF CursorInv, NothingSkippedSilently
<1>2. Visiting' <=> Visiting
    BY DEF Visiting
<1>3. tick \in TickRecord /\ (Visiting => tick.user \in Users) /\ \A r \in tick.todo : r.user \in Users
    BY Typed DEF WellTyped, TickFits, TickRecord, TickRow
<1>4. PassOK'
    BY <1>2, <1>3 DEF CursorInv, PassOK, Known
<1>5. VisitOK'
    BY <1>2, <1>3 DEF CursorInv, VisitOK, Covered, Visiting
<1> QED BY <1>1, <1>4, <1>5 DEF CursorInv

LEMMA EnvironmentCursor ==
    ASSUME WellTyped, CursorInv, Environment \/ UNCHANGED vars
    PROVE  CursorInv'
<1>1. ASSUME NEW u \in Users, DeleteMe(u) PROVE CursorInv'
    <2>1. /\ UNCHANGED <<library, tick>>
          /\ \A v \in Users \ {u} : auto'[v] = auto[v] /\ scanned'[v] = scanned[v] /\ forgone'[v] = forgone[v]
          /\ auto'[u].cursor = 0
          /\ tick.pc # "idle" => forgone'[u] = Assets
        <3>1. UNCHANGED <<library, tick>> /\ auto' = [auto EXCEPT ![u] = NoSettings]
              /\ scanned' = [scanned EXCEPT ![u] = {}]
              /\ forgone' = [forgone EXCEPT ![u] = IF tick.pc = "idle" THEN {} ELSE Assets]
            BY <1>1 DEF DeleteMe
        <3>2. auto'[u].cursor = 0
            BY <3>1, Typed DEF NoSettings
        <3>3. tick.pc # "idle" => forgone'[u] = Assets
            BY <3>1, Typed
        <3>4. \A v \in Users \ {u} : auto'[v] = auto[v] /\ scanned'[v] = scanned[v] /\ forgone'[v] = forgone[v]
            BY <3>1, Typed
        <3> QED BY <3>1, <3>2, <3>3, <3>4
    <2>2. \A v \in Users : library[v] \subseteq Assets /\ \A a \in library[v] : ~(a <= 0)
        <3>1. \A a \in Assets : ~(a <= 0)
            BY ConstantsOK
        <3>2. \A v \in Users : library[v] \subseteq Assets
            BY Typed
        <3> QED BY <3>1, <3>2
    <2>3. NothingSkippedSilently'
        BY <2>1, <2>2 DEF CursorInv, NothingSkippedSilently
    <2>4. Visiting' <=> Visiting
        BY <2>1 DEF Visiting
    <2>5. /\ Visiting => tick.user \in Users /\ tick.pc # "idle"
          /\ \A r \in tick.todo : r.user \in Users
          /\ tick.todo # {} => tick.pc # "idle"
        BY Typed DEF WellTyped, TickFits, TickRecord, TickRow, CursorInv, PassOK, Visiting
    <2>6. PassOK'
        BY <2>1, <2>4, <2>5 DEF CursorInv, PassOK, Known
    <2>7. VisitOK'
        BY <2>1, <2>2, <2>4, <2>5 DEF CursorInv, VisitOK, Covered, Visiting
    <2> QED BY <2>3, <2>6, <2>7 DEF CursorInv
<1>2. ASSUME NEW u \in Users, NEW a \in Assets, Upload(u, a) PROVE CursorInv'
    <2>1. /\ UNCHANGED <<auto, tick, scanned>>
          /\ \A v \in Users \ {u} : library'[v] = library[v] /\ forgone'[v] = forgone[v]
          /\ library'[u] = library[u] \cup {a}
          /\ forgone[u] \subseteq forgone'[u] /\ forgone'[u] \subseteq Assets
          /\ a <= auto[u].cursor \/ (tick.user = u /\ tick.pc = "record") => a \in forgone'[u]
        BY <1>2, Typed DEF Upload
    <2> QED BY <2>1, BesideKeeps
<1>3. ASSUME NEW u \in Users, NEW on \in BOOLEAN, PutSettings(u, on) PROVE CursorInv'
    <2>1. UNCHANGED <<library, tick, scanned, forgone>>
        BY <1>3 DEF PutSettings, history
    <2>2. auto' = [auto EXCEPT ![u] = [auto[u] EXCEPT !.enabled = on]]
        BY <1>3 DEF PutSettings
    <2>3. [auto[u] EXCEPT !.enabled = on].cursor = auto[u].cursor
        BY Typed DEF Settings
    <2>4. \A v \in Users : auto'[v].cursor = auto[v].cursor
        BY <2>2, <2>3, Typed
    <2> QED BY <2>1, <2>4, BesideKeeps
<1>4. ASSUME NEW u \in Users, RequestScan(u) PROVE CursorInv'
    <2>1. UNCHANGED <<auto, library, tick, forgone>> /\ \A v \in Users : scanned[v] \subseteq scanned'[v]
        BY <1>4, Typed DEF RequestScan
    <2> QED BY <2>1, BesideKeeps
<1>5. CASE Restart
    <2>1. UNCHANGED <<auto, library, scanned, forgone>> /\ tick'.pc = "idle" /\ tick'.todo = {}
        BY <1>5, TickFields DEF Restart, IdleTick, history
    <2>2. NothingSkippedSilently'
        BY <2>1 DEF CursorInv, NothingSkippedSilently
    <2> QED BY <2>1, <2>2 DEF CursorInv, PassOK, VisitOK, Visiting
<1>6. CASE UNCHANGED <<auto, library, tick, scanned, forgone>>
    BY <1>6, BesideKeeps
<1> QED BY <1>1, <1>2, <1>3, <1>4, <1>5, <1>6 DEF Environment, Login, PutApiKey, IntervalElapses,
           EndScan, TokenEnds, SwitchModel, history, vars

LEMMA CoordinatorCursor ==
    ASSUME WellTyped, CursorInv, Coordinator
    PROVE  CursorInv'
<1>0. /\ tick \in TickRecord /\ (Visiting => tick.user \in Users)
      /\ \A r \in tick.todo : r \in TickRow /\ r.user \in Users
      /\ library' = library
    BY Typed DEF WellTyped, TickFits, TickRecord, TickRow, Coordinator,
       StartPass, EndPass, BeginUser, FetchPage, DispatchScan, RecordTick
<1>1. CASE StartPass
    <2> DEFINE todo == {[user |-> u, from |-> auto[u].cursor] : u \in {v \in due : auto[v].enabled}}
    <2>1. UNCHANGED <<auto, scanned, forgone>> /\ tick' = Between(todo)
        BY <1>1 DEF StartPass, history
    <2>2. /\ \A r \in todo : r.from = auto[r.user].cursor
          /\ \A r, q \in todo : r.user = q.user => r = q
        OBVIOUS
    <2> HIDE DEF todo
    <2>3. tick'.pc = "next" /\ tick'.todo = todo
        BY <2>1, TickFields DEF Between
    <2> QED BY <1>0, <2>1, <2>2, <2>3 DEF CursorInv, PassOK, VisitOK, NothingSkippedSilently, Known, Visiting
<1>2. CASE EndPass
    <2>1. UNCHANGED <<auto, scanned, forgone>> /\ tick'.pc = "idle" /\ tick'.todo = {}
        BY <1>2, TickFields DEF EndPass, IdleTick, history
    <2> QED BY <1>0, <2>1 DEF CursorInv, PassOK, VisitOK, NothingSkippedSilently, Visiting
<1>3. ASSUME NEW row \in tick.todo, BeginUser(row) PROVE CursorInv'
    <2>1. UNCHANGED <<auto, scanned, forgone>>
        BY <1>3 DEF BeginUser, history
    <2>2. PICK pc, token, error :
            /\ pc \in {"page", "record"}
            /\ tick' = Tick(pc, tick.todo \ {row}, row.user, row.from, token, error)
            /\ pc = "page" => error = "none"
        BY <1>3 DEF BeginUser
    <2>3. /\ tick'.pc = pc /\ tick'.todo = tick.todo \ {row} /\ tick'.user = row.user
          /\ tick'.from = row.from /\ tick'.cursor = row.from /\ tick'.error = error
        BY <2>2, TickFields
    <2>4. row.from \in Nat /\ row.user \in Users /\ Known(row.user, row.from)
        <3>1. row \in TickRow /\ row.user \in Users
            BY <1>0
        <3>2. row.from \in Nat
            BY <3>1, Stamps DEF TickRow
        <3>3. Known(row.user, row.from)
            BY DEF CursorInv, PassOK
        <3> QED BY <3>1, <3>2, <3>3
    <2>5. \A a \in library[row.user] : a <= row.from => Covered(row.user, a)
        BY <2>4, KnownCovers DEF CursorInv
    <2>6. NothingSkippedSilently'
        BY <1>0, <2>1 DEF CursorInv, NothingSkippedSilently
    <2>7. PassOK'
        BY <2>1, <2>2, <2>3, <2>4 DEF CursorInv, PassOK, Known, Visiting
    <2>8. VisitOK'
        BY <1>0, <2>1, <2>2, <2>3, <2>4, <2>5 DEF VisitOK, Covered, Visiting
    <2> QED BY <2>6, <2>7, <2>8 DEF CursorInv
<1>4. CASE FetchPage
    <2>1. UNCHANGED <<auto, scanned, forgone>> /\ tick.pc = "page" /\ tick.pages \in Nat
        BY <1>0, <1>4 DEF FetchPage, history, TickRecord
    <2>2. NothingSkippedSilently'
        BY <1>0, <2>1 DEF CursorInv, NothingSkippedSilently
    <2>3. /\ tick'.todo = tick.todo /\ tick'.user = tick.user /\ tick'.from = tick.from
          /\ \/ /\ tick'.pc \in {"page", "dispatch"} /\ tick'.error = tick.error
                /\ tick.cursor <= tick'.cursor
                /\ tick'.seen = {} => tick.seen = {} /\ tick'.cursor = tick.cursor
             \/ tick'.pc = "record" /\ tick'.cursor = tick.from
        <3>1. ASSUME NEW items \in SUBSET Possible, NEW more \in BOOLEAN, tick' = PageListed(items, more)
              PROVE  <2>3
            <4>1. items \in SUBSET Assets /\ tick.cursor \in Assets \cup {0}
                BY <1>0, <2>1, Typed DEF Possible, Visiting, TickRecord
            <4>2. tick.cursor <= Latest(items, tick.cursor)
                  /\ (items = {} => Latest(items, tick.cursor) = tick.cursor)
                BY <4>1, LatestIs
            <4> DEFINE pc == IF more /\ tick.pages + 1 < MaxPages THEN "page" ELSE "dispatch"
                       cursor == Latest(items, tick.cursor)
            <4>3. tick' = [tick EXCEPT !.pages = tick.pages + 1, !.seen = tick.seen \cup items,
                                       !.cursor = cursor, !.pc = pc]
                BY <3>1 DEF PageListed
            <4>4. pc \in {"page", "dispatch"}
                OBVIOUS
            <4> HIDE DEF pc, cursor
            <4>5. /\ tick'.pc = pc /\ tick'.seen = tick.seen \cup items /\ tick'.cursor = cursor
                  /\ tick'.todo = tick.todo /\ tick'.user = tick.user /\ tick'.from = tick.from
                  /\ tick'.error = tick.error
                BY <1>0, <4>3 DEF TickRecord
            <4> QED BY <4>2, <4>4, <4>5 DEF cursor
        <3>2. ASSUME NEW code, tick' = PageFailed(code) PROVE <2>3
            BY <1>0, <3>2 DEF PageFailed, TickRecord
        <3> QED BY <1>4, <3>1, <3>2 DEF FetchPage
    <2>4. Visiting /\ Visiting'
        BY <2>1, <2>3 DEF Visiting
    <2>5. PassOK'
        BY <2>1, <2>3, <2>4 DEF CursorInv, PassOK, Known, Visiting
    <2>6. \A a \in library[tick.user] : a <= tick.from => Covered(tick.user, a)
        BY <1>0, <2>4, KnownCovers DEF CursorInv, PassOK
    <2>7. tick.from \in Nat /\ tick.cursor \in Nat /\ tick'.cursor \in Nat
        <3>1. tick' \in TickRecord
            <4>1. WellTyped'
                BY CoordinatorTyped
            <4> QED BY <4>1 DEF WellTyped, TypeOK, TickRecord, TickRow
        <3> QED BY <1>0, <3>1, Stamps DEF TickRecord
    <2>8. VisitOK'
        BY <1>0, <2>1, <2>3, <2>4, <2>6, <2>7 DEF CursorInv, VisitOK, Covered, Visiting
    <2> QED BY <2>2, <2>5, <2>8 DEF CursorInv
<1>5. CASE DispatchScan
    <2> DEFINE u == tick.user
    <2>1. UNCHANGED auto /\ tick.pc = "dispatch" /\ u \in Users /\ Visiting
        BY <1>0, <1>5 DEF DispatchScan, Visiting
    <2>2. /\ \A v \in Users : scanned[v] \subseteq scanned'[v] /\ forgone[v] \subseteq forgone'[v]
          /\ \A v \in Users : forgone[v] = Assets => forgone'[v] = Assets
        <3>1. /\ scanned' = scanned \/ scanned' = [scanned EXCEPT ![u] = @ \cup library[u]]
              /\ forgone' = forgone \/ forgone' = [forgone EXCEPT ![u] = @ \cup library[u]]
            BY <1>5 DEF DispatchScan, history
        <3>0. /\ scanned \in [Users -> SUBSET Assets] /\ forgone \in [Users -> SUBSET Assets]
              /\ library[u] \in SUBSET Assets /\ u \in Users
            BY <2>1, Typed
        <3> HIDE DEF u
        <3>2. \A v \in Users : scanned[v] \subseteq scanned'[v]
            BY <3>0, <3>1, AssetsAdded
        <3>3. \A v \in Users : forgone[v] \subseteq forgone'[v]
            BY <3>0, <3>1, AssetsAdded
        <3>4. \A v \in Users : forgone[v] = Assets => forgone'[v] = Assets
            <4>1. library[u] \subseteq Assets
                BY <2>1, Typed
            <4>2. \A v \in Users : forgone'[v] = forgone[v] \/ (v = u /\ forgone'[v] = forgone[v] \cup library[u])
                BY <2>1, <3>1, Typed
            <4> QED BY <4>1, <4>2
        <3> QED BY <3>2, <3>3, <3>4
    <2>3. NothingSkippedSilently'
        BY <1>0, <2>1, <2>2 DEF CursorInv, NothingSkippedSilently
    <2>4. CASE tick' = NextUser
        <3>1. tick'.pc = "next" /\ tick'.todo = tick.todo
            BY <2>4, TickFields DEF NextUser, Between
        <3> QED BY <1>0, <2>1, <2>2, <2>3, <3>1 DEF CursorInv, PassOK, VisitOK, Known, Visiting
    <2>5. CASE tick' # NextUser
        <3>1. /\ tick' = [tick EXCEPT !.pc = "record", !.seen = {}, !.token = 0, !.pages = 0]
              /\ \/ tick.seen = {}
                 \/ scanned' = [scanned EXCEPT ![u] = @ \cup library[u]]
                 \/ forgone' = [forgone EXCEPT ![u] = @ \cup library[u]]
            BY <1>5, <2>5 DEF DispatchScan
        <3>2. /\ tick'.pc = "record" /\ tick'.todo = tick.todo /\ tick'.user = u /\ tick'.from = tick.from
              /\ tick'.cursor = tick.cursor /\ tick'.error = tick.error
            BY <1>0, <3>1 DEF TickRecord
        <3>3. Visiting'
            BY <3>2 DEF Visiting
        <3>4. PassOK'
            BY <1>0, <2>1, <2>2, <3>2, <3>3 DEF CursorInv, PassOK, Known
        <3>5. \A a \in library[u] : a <= tick.cursor => Covered(u, a)'
            <4>1. CASE tick.seen = {}
                <5>1. \A a \in library[u] : a <= tick.cursor => Covered(u, a)
                    BY <2>1, <4>1, KnownCovers DEF CursorInv, PassOK, VisitOK
                <5> QED BY <2>1, <2>2, <3>2, <5>1 DEF Covered
            <4>2. CASE tick.seen # {}
                <5>1. \/ library[u] \subseteq scanned'[u]
                      \/ library[u] \subseteq forgone'[u]
                    BY <2>1, <3>1, <4>2, Typed
                <5> QED BY <3>2, <5>1 DEF Covered
            <4> QED BY <4>1, <4>2
        <3>6. VisitOK'
            BY <1>0, <2>1, <3>2, <3>3, <3>5 DEF CursorInv, VisitOK, Covered
        <3> QED BY <2>3, <3>4, <3>6 DEF CursorInv
    <2> QED BY <2>4, <2>5
<1>6. CASE RecordTick
    <2> DEFINE u == tick.user
    <2>1. /\ UNCHANGED <<scanned, forgone>> /\ tick.pc = "record" /\ u \in Users /\ Visiting
          /\ tick' = NextUser
        BY <1>0, <1>6 DEF RecordTick, Visiting, history
    <2>2. tick'.pc = "next" /\ tick'.todo = tick.todo
        BY <2>1, TickFields DEF NextUser, Between
    <2>3. auto' = auto \/ auto' = [auto EXCEPT ![u] = Recorded(auto[u], tick.error, tick.cursor)]
        BY <1>6 DEF RecordTick
    <2>4. /\ \A v \in Users \ {u} : auto'[v] = auto[v]
          /\ auto'[u].cursor \in {auto[u].cursor, tick.cursor}
        BY <1>0, <2>1, <2>3, Typed, SettingsFields DEF TickRecord
    <2>5. NothingSkippedSilently'
        <3>1. \A a \in library[u] : a <= auto'[u].cursor => a \in scanned[u] \cup forgone[u]
            BY <2>1, <2>4 DEF CursorInv, VisitOK, NothingSkippedSilently, Covered
        <3> QED BY <1>0, <2>1, <2>4, <3>1 DEF CursorInv, NothingSkippedSilently
    <2> QED BY <1>0, <2>1, <2>2, <2>4, <2>5 DEF CursorInv, PassOK, VisitOK, Known, Visiting
<1> QED BY <1>1, <1>2, <1>3, <1>4, <1>5, <1>6 DEF Coordinator

LEMMA CursorInvariant == Spec => [](WellTyped /\ CursorInv)
<1>1. WellTyped /\ CursorInv /\ [Next]_vars => (WellTyped /\ CursorInv)'
    BY NextTyped, CoordinatorCursor, EnvironmentCursor DEF Next
<1> QED BY <1>1, InitTyped, InitCursor, PTL DEF Spec

\* Whatever fails, restarts or is uploaded, no asset before the cursor of a user
\* was passed over without a scan or a known reason.
THEOREM NothingSkipped == Spec => []NothingSkippedSilently
<1>1. CursorInv => NothingSkippedSilently
    BY DEF CursorInv
<1> QED BY <1>1, CursorInvariant, PTL

LEMMA CursorStep ==
    ASSUME WellTyped, CursorInv, [Next]_vars, NEW u \in users \cap users'
    PROVE  /\ auto[u].cursor <= auto'[u].cursor
           /\ auto'[u].cursor # auto[u].cursor =>
                auto'[u].status = "ok" \/ auto'[u].cursor = tick.from
<1>1. /\ u \in Users /\ auto[u] \in Settings /\ auto[u].cursor \in Nat
      /\ tick \in TickRecord /\ tick.from \in Nat /\ tick.cursor \in Nat
    BY Typed, Stamps DEF Settings, TickRecord
<1>2. CASE auto'[u].cursor = auto[u].cursor
    BY <1>1, <1>2
<1>3. CASE RecordTick /\ auto'[u].cursor # auto[u].cursor
    <2>1. Visiting /\ tick.pc = "record" /\ tick.user \in Users
        BY <1>3 DEF RecordTick, Visiting, WellTyped, TickFits
    <2>2. tick.user = u /\ auto' = [auto EXCEPT ![u] = Recorded(auto[u], tick.error, tick.cursor)]
        BY <1>1, <1>3, <2>1, Typed DEF RecordTick
    <2>3. auto'[u] = Recorded(auto[u], tick.error, tick.cursor)
        BY <1>1, <2>2, Typed
    <2>4. /\ auto'[u].cursor = tick.cursor
          /\ tick.error = "none" => auto'[u].status = "ok"
        BY <1>1, <1>3, <2>3, SettingsFields DEF TickRecord
    <2>5. /\ auto[u].cursor = tick.from \/ auto[u].cursor = 0
          /\ tick.from <= tick.cursor
          /\ tick.error # "none" => tick.cursor = tick.from
        BY <2>1, <2>2 DEF CursorInv, PassOK, VisitOK, Known
    <2> QED BY <1>1, <2>4, <2>5
<1>4. ASSUME NEW v \in Users, DeleteMe(v) PROVE auto'[u].cursor = auto[u].cursor
    BY <1>1, <1>4, Typed DEF DeleteMe
<1>5. ASSUME NEW v \in Users, NEW on \in BOOLEAN, PutSettings(v, on)
      PROVE  auto'[u].cursor = auto[u].cursor
    <2>1. auto' = [auto EXCEPT ![v] = [auto[v] EXCEPT !.enabled = on]]
        BY <1>5 DEF PutSettings
    <2>2. [auto[v] EXCEPT !.enabled = on].cursor = auto[v].cursor
        BY Typed DEF Settings
    <2> QED BY <1>1, <2>1, <2>2, Typed
<1>6. RecordTick \/ (\E v \in Users : DeleteMe(v) \/ \E on \in BOOLEAN : PutSettings(v, on)) \/ auto' = auto
    BY DEF Next, Coordinator, Environment, StartPass, EndPass, BeginUser, FetchPage, DispatchScan,
       Login, PutApiKey, IntervalElapses, RequestScan, EndScan, Upload, TokenEnds, SwitchModel, Restart, vars
<1> QED BY <1>2, <1>3, <1>4, <1>5, <1>6

\* Cursors only move forward while an account exists, and an error leaves the
\* cursor where the pass found it.
THEOREM CursorsAreDisciplined == Spec => CursorDiscipline
<1>1. WellTyped /\ CursorInv /\ [Next]_vars =>
        [\A u \in users \cap users' :
           /\ auto[u].cursor <= auto'[u].cursor
           /\ auto'[u].cursor # auto[u].cursor =>
                auto'[u].status = "ok" \/ auto'[u].cursor = tick.from]_vars
    BY CursorStep
<1> QED BY <1>1, CursorInvariant, PTL DEF Spec, CursorDiscipline

=============================================================================
