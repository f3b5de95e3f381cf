---------------------------- MODULE EventContract ----------------------------
(***************************************************************************)
(* What the event API promises about the assets of one user, without       *)
(* statuses, statements or threads: each asset is in one event or in none, *)
(* and is pinned there or not.  Pinning is what users do; scans move only  *)
(* what is not pinned, and only a reset unpins.                            *)
(***************************************************************************)
CONSTANTS Assets, Events, None

VARIABLES place, pin

vars == <<place, pin>>

TypeOK == place \in [Assets -> Events \cup {None}] /\ pin \in [Assets -> BOOLEAN]

In(E) == {a \in Assets : place[a] \in E}

PinTo(A, e) ==
    /\ place' = [a \in Assets |-> IF a \in A THEN e ELSE place[a]]
    /\ pin' = [a \in Assets |-> a \in A \/ pin[a]]

\* A scan puts an asset that nobody pinned where its analysis says.
Place(a) ==
    /\ ~pin[a]
    /\ \E e \in Events \cup {None} : place' = [place EXCEPT ![a] = e]
    /\ UNCHANGED pin

\* Everything in the merged events stays together.
Merge(target, sources) == PinTo(In(sources \cup {target}), target)

\* Some assets of one event leave it for an event of their own.
Split(e) ==
    \E A \in SUBSET In({e}), new \in Events : A # {} /\ In({new}) = {} /\ PinTo(A, new)

Remove(a) == place[a] # None /\ PinTo({a}, None)

\* The assets of a reset event go back, one by one, to where scans put them.
Replay(a) ==
    /\ place[a] # None
    /\ \E e \in Events \cup {None} : place' = [place EXCEPT ![a] = e]
    /\ pin' = [pin EXCEPT ![a] = FALSE]

Init == place = [a \in Assets |-> None] /\ pin = [a \in Assets |-> FALSE]

Next ==
    \/ \E a \in Assets : Place(a) \/ Remove(a) \/ Replay(a)
    \/ \E target \in Events, sources \in SUBSET Events : Merge(target, sources)
    \/ \E e \in Events : Split(e)

Spec == Init /\ [][Next]_vars
=============================================================================
