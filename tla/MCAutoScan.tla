----------------------------- MODULE MCAutoScan -----------------------------
(***************************************************************************)
(* Two instances of AutoScan in one run: everything that can happen beside *)
(* one user's ticks, and a pass over two users.  A behaviour belongs to    *)
(* the one or to the other from its first state on.                        *)
(***************************************************************************)
EXTENDS AutoScan

CONSTANTS u1, u2

VARIABLE instance

\* One user, every action: the other one never signs in or uploads.
OneUser == Next /\ users' \subseteq {u1} /\ library'[u2] = {}

\* What decides whether a pass reaches a user: accounts, tokens, settings,
\* and uploads.  Keys, the choice of the runner, scans on request and the end of
\* a scan only decide what a dispatch does with the user in hand, and a restart
\* begins the pass anew.  A user signs in with an asset uploaded, which a page may
\* list or not once the cursor is at it.
BesidePass ==
    \/ \E u \in Users :
         \/ library[u] # {} /\ Login(u)
         \/ DeleteMe(u) \/ IntervalElapses(u)
         \/ \E on \in BOOLEAN : PutSettings(u, on)
         \/ Upload(u, 1)
    \/ \E s \in live : TokenEnds(s)

TwoUsers == Coordinator \/ BesidePass

MCInit == Init /\ instance \in {"one user", "two users"}
MCNext ==
    /\ UNCHANGED instance
    /\ \/ instance = "one user" /\ OneUser
       \/ instance = "two users" /\ TwoUsers
MCSpec == MCInit /\ [][MCNext]_<<vars, instance>> /\ Fairness
=============================================================================
