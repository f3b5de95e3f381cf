--------------------------- MODULE MCModelRegistry ---------------------------
(***************************************************************************)
(* A catalog of one classifier and an admin who registers two files under  *)
(* its id, one of them the classifier's own under the classifier's name.   *)
(***************************************************************************)
EXTENDS ModelRegistry, TLC

CONSTANTS t1, t2

Model(id, name, sha, slot) == [id |-> id, name |-> name, sha |-> sha, slot |-> slot]

MCCatalog == {Model("safe", "Safe", "s1", "primary_safety")}
MCProfiles == {Model("safe", "Safe", "s1", "adult_subtype"),
               Model("safe", "Mine", "p1", "adult_subtype")}
MCThreads == {t1, t2}

ThreadSymmetry == Permutations(MCThreads)
=============================================================================
