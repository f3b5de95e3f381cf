---------------------------- MODULE ScanContract ----------------------------
(***************************************************************************)
(* What the scan API promises about a run, without threads, requests or    *)
(* tables: the run is handed out once, belongs to one user, collects       *)
(* action rows only while it is running, ends once, and afterwards changes *)
(* only by an undo, which takes every effect back at once, or by           *)
(* the deletion of the account, which removes all of that user's runs      *)
(* together.  ScanLifecycle implements this specification.                 *)
(***************************************************************************)
EXTENDS Naturals

CONSTANTS Users, RunIds, Keys, NoUser   \* Keys identify the action rows of a run

VARIABLES
    status,   \* "unused", "running", "completed", "failed" or "deleted"
    owner,    \* the user a run was started for
    rows,     \* the action rows recorded for a run
    applied   \* those among them that count as successful

cvars == <<status, owner, rows, applied>>

Init ==
    /\ status = [r \in RunIds |-> "unused"]
    /\ owner = [r \in RunIds |-> NoUser]
    /\ rows = [r \in RunIds |-> {}]
    /\ applied = [r \in RunIds |-> {}]

Begin(r, u) ==
    /\ status[r] = "unused"
    /\ status' = [status EXCEPT ![r] = "running"]
    /\ owner' = [owner EXCEPT ![r] = u]
    /\ UNCHANGED <<rows, applied>>

\* One more action row, successful or not.
Record(r, k) ==
    /\ status[r] = "running" /\ k \notin rows[r]
    /\ rows' = [rows EXCEPT ![r] = @ \cup {k}]
    /\ \/ applied' = [applied EXCEPT ![r] = @ \cup {k}]
       \/ UNCHANGED applied
    /\ UNCHANGED <<status, owner>>

Finish(r) ==
    /\ status[r] = "running"
    /\ \E s \in {"completed", "failed"} : status' = [status EXCEPT ![r] = s]
    /\ UNCHANGED <<owner, rows, applied>>

Undo(r) ==
    /\ status[r] \in {"running", "completed", "failed"}
    /\ applied' = [applied EXCEPT ![r] = {}]
    /\ UNCHANGED <<status, owner, rows>>

Delete(u) ==
    LET gone == {r \in RunIds : owner[r] = u} IN
    /\ status' = [r \in RunIds |-> IF r \in gone THEN "deleted" ELSE status[r]]
    /\ owner' = [r \in RunIds |-> IF r \in gone THEN NoUser ELSE owner[r]]
    /\ rows' = [r \in RunIds |-> IF r \in gone THEN {} ELSE rows[r]]
    /\ applied' = [r \in RunIds |-> IF r \in gone THEN {} ELSE applied[r]]

Next ==
    \/ \E r \in RunIds : \/ \E u \in Users : Begin(r, u)
                         \/ \E k \in Keys : Record(r, k)
                         \/ Finish(r)
                         \/ Undo(r)
    \/ \E u \in Users : Delete(u)

Spec == Init /\ [][Next]_cvars
=============================================================================
