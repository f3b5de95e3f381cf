----------------------------- MODULE MCCliScan ------------------------------
(* A small instance of CliScan for TLC: an asset that scans should take and  *)
(* one, archived and without a date, that they should leave; files of which  *)
(* two are accepted, and others that differ from them in one place.          *)
EXTENDS CliScan, TLC

CONSTANTS a1, a2, c1, c2

MCDetails ==
    (a1 :> [media |-> "image", archived |-> FALSE, favorite |-> TRUE, albums |-> {"trip"}, time |-> 2,
            sums |-> {c1, c2, NoChecksum}])
    @@ (a2 :> [media |-> "image", archived |-> TRUE, favorite |-> FALSE, albums |-> {"work"}, time |-> 0,
               sums |-> {c1}])

Plain ==
    [version |-> 1, categories |-> <<"sensitive", "unruled">>,
     profiles |-> [main |-> [backend |-> "onnx", path |-> TRUE,
                             output |-> [nsfw |-> "sensitive", sfw |-> "unruled"]]],
     active |-> "main",
     scanner |-> [mode |-> "full", since |-> 0, include |-> {}, exclude |-> {}, archived |-> FALSE,
                  favorites |-> TRUE, media |-> {"image"}],
     archive |-> FALSE, neverDelete |-> TRUE,
     policies |-> [sensitive |-> [image |-> <<"add_tag", "manual_review">>],
                   unruled |-> [video |-> <<"add_tag">>]]]
Dated == [Plain EXCEPT !.archive = TRUE, !.profiles.main.output.sfw = "sensitive",
               !.scanner.archived = TRUE,
               !.scanner.mode = "date_range", !.scanner.since = 1,
               !.policies.sensitive.image = <<"archive">>]
Acting(actions) == [Plain EXCEPT !.policies.sensitive.image = actions]
MCFiles ==
    [plain |-> Plain, dated |-> Dated,
     undated |-> [Dated EXCEPT !.scanner.since = 0],
     homeless |-> [Dated EXCEPT !.scanner.mode = "album"],
     switched_off |-> Acting(<<"archive">>), deleting |-> Acting(<<"trash">>),
     misspelt |-> Acting(<<"ad_tag">>), empty |-> Acting(<<>>),
     stray |-> [Plain EXCEPT !.categories = <<"sensitive">>]]
Client(named, fails) ==
    [live |-> FALSE, album |-> named, makeAlbum |-> TRUE, tag |-> named, makeTag |-> TRUE,
     archiveOn |-> FALSE, canTag |-> TRUE, canArchive |-> FALSE, canLock |-> TRUE,
     albumFound |-> FALSE, tagFound |-> FALSE, raises |-> fails]
MCClients == {Client(TRUE, TRUE), Client(TRUE, FALSE), Client(FALSE, FALSE)}

\* The first version that is listed is c1 or has no checksum; c2 is an edit's.
MCInit == Init /\ library[a1] # c2
MCSpec == MCInit /\ [][Next]_vars
=============================================================================
