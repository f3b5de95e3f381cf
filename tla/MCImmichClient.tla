--------------------------- MODULE MCImmichClient ---------------------------
(* A small network for ImmichClient. *)
EXTENDS ImmichClient, TLC
CONSTANTS c1, c2, a1, a2, a3

\* The second caller does what can get in the way of the first.
TwoRoles == (c1 :> {"walk", "album", "tag", "lock", "fetch"}) @@ (c2 :> {"album"})
=============================================================================
