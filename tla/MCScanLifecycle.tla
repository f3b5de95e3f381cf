--------------------------- MODULE MCScanLifecycle ---------------------------
(* Small instances of ScanLifecycle for TLC. *)
EXTENDS ScanLifecycle, TLC

CONSTANTS u1, u2, q1, q2, q3, a1, a2

\* An asset that cannot be read, one with a plan of two actions, and one whose
\* sampling and OCR both left a warning.
Unreadable == [classified |-> FALSE, errors |-> <<"extractor">>, plan |-> <<>>]
Planned    == [classified |-> TRUE, errors |-> <<>>, plan |-> <<"lock", "tag">>]
Warned     == [classified |-> TRUE, errors |-> <<"extractor", "ocr">>, plan |-> <<"unsupported">>]
Locked     == [classified |-> TRUE, errors |-> <<>>, plan |-> <<"lock">>]

AllOutcomes == {Unreadable, Planned, Warned}
TwoOutcomes == {Unreadable, Locked}

\* Threads, and assets, are interchangeable.
ScanSymmetry == Permutations(Slots) \cup Permutations(Assets)
=============================================================================
