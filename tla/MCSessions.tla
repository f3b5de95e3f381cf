------------------------------ MODULE MCSessions ------------------------------
(***************************************************************************)
(* A small service for the model checker: accounts, threads, sign-ins.     *)
(***************************************************************************)
EXTENDS Sessions, TLC

CONSTANTS u1, u2, u3, t1, t2

MCUsers == {u1, u2, u3}
MCThreads == {t1, t2}

Symmetric == Permutations(MCUsers) \cup Permutations(MCThreads)
=============================================================================
