----------------------------- MODULE ImmichClient -----------------------------
(***************************************************************************)
(* HttpImmichClient: what a caller may conclude from the answer of a call  *)
(* that was tried several times over a network that loses requests and     *)
(* answers, against a library its owner changes meanwhile.                 *)
(*                                                                         *)
(* A caller runs one job at a time: page through the library, file an      *)
(* asset in the review album or under the review tag (look up, create,     *)
(* add), lock an asset, or fetch an original to a file.  A job is a        *)
(* sequence of requests ("step"), a request a sequence of attempts.  An    *)
(* attempt is served in one action and its answer read in a later one;     *)
(* in between the answer may be lost.  A request given up may still reach  *)
(* the server later.                                                       *)
(* Bounds: MaxJobs per caller, MaxChanges of the library by its owner,     *)
(* MaxLate requests that arrive after their caller gave up, MaxSize chunks *)
(* of an original.  Losses are not bounded: MaxRetries bounds them.        *)
(***************************************************************************)
EXTENDS Naturals, Sequences, FiniteSets, SequencesExt

CONSTANTS
    Callers, Assets,
    Owned,       \* the assets the library starts with
    Targets,     \* the assets that jobs are about
    Jobs,        \* the jobs each caller may start
    PageSize,
    MaxRetries,  \* _max_retries
    MaxBytes,    \* max_bytes of a download, in chunks
    MaxSize, MaxJobs, MaxChanges, MaxLate,
    NoAsset

JobNames == {"walk", "album", "tag", "lock", "fetch"}

ASSUME ConstantsOK ==
    /\ IsFiniteSet(Callers) /\ IsFiniteSet(Assets) /\ NoAsset \notin Assets
    /\ PageSize \in Nat \ {0} /\ Targets \subseteq Assets /\ Targets # {}
    /\ Owned \subseteq Assets /\ Jobs \in [Callers -> SUBSET JobNames]
    /\ {MaxRetries, MaxBytes, MaxSize, MaxJobs, MaxChanges, MaxLate} \subseteq Nat

VARIABLES
    library,  \* the assets of the owner, in the order of the search
    shelves,  \* the albums and the tags that have the review name
    locked,   \* assets in the Locked Folder
    restored, \* history: assets the owner has taken out of it
    late,     \* writes given up that have not reached the server, numbered
    call,     \* the job of each caller
    budget,   \* jobs each caller may still start
    changes, lateCount,
    blind,    \* history: lookups answered "there is none", by kind
    unsure    \* history: creates that happened and went unacknowledged, by kind

server == <<library, shelves, locked, restored>>
vars == <<server, late, call, budget, changes, lateCount, blind, unsure>>

Kinds == {"album", "tag"}
\* "request_failed": no usable answer; "refused": any status that is not retried.
Codes == {"none", "ok", "request_failed", "refused", "invalid_response", "add_failed",
          "original_too_large", "os_error"}
Steps == {"search", "find", "create", "add", "visibility", "original"}
Phases == {"idle", "send", "answer", "stream", "done"}

\* The job of a caller: its parameters, the request it is at, and what it got.
\* A walk also keeps what it has listed, and what happened around it.
Fresh == [job |-> "none", phase |-> "idle", step |-> "search", attempt |-> 0,
          asset |-> NoAsset, id |-> 0, page |-> 1, items |-> {}, next |-> 0,
          seen |-> {}, again |-> 0, stable |-> {}, removed |-> 0, arrived |-> 0,
          file |-> "absent", size |-> 0, total |-> 0, acted |-> FALSE, code |-> "none"]

Kind(c) == IF call[c].job = "tag" THEN "tag" ELSE "album"
Present == ToSet(library)
Walking(c) == call[c].job = "walk" /\ call[c].phase # "done"

FirstStep(job) == CASE job = "walk" -> "search" [] job = "lock" -> "visibility"
                    [] job = "fetch" -> "original" [] OTHER -> "find"

Set(c, new) == call' = [call EXCEPT ![c] = new]

\* A caller starts a job.
Start(c) ==
    /\ call[c].phase = "idle" /\ budget[c] > 0
    /\ \E job \in Jobs[c], a \in Targets, size \in 0..MaxSize :
         /\ job = "walk" => a = CHOOSE x \in Targets : TRUE
         /\ job # "fetch" => size = 0
         /\ Set(c, [call[c] EXCEPT !.job = job, !.phase = "send", !.step = FirstStep(job),
                           !.size = size, !.asset = IF job = "walk" THEN NoAsset ELSE a,
                           !.stable = IF job = "walk" THEN Present ELSE {}])
    /\ budget' = [budget EXCEPT ![c] = @ - 1]
    /\ UNCHANGED <<server, late, changes, lateCount, blind, unsure>>

Forget(c) ==
    /\ call[c].phase = "done"
    /\ Set(c, Fresh)
    /\ UNCHANGED <<server, late, budget, changes, lateCount, blind, unsure>>

----------------------------------------------------------------------------
(* Attempts *)

\* How a request that failed ends: the next attempt, or the error of the last.
\* A download removes its file either way.
\* Variant: the last attempt is repeated as well.
GiveUpNever(c, code) ==
    Set(c, [call[c] EXCEPT !.phase = "send", !.file = "absent", !.total = 0,
                           !.attempt = IF @ < MaxRetries THEN @ + 1 ELSE @])
RetryOrFail(c, code) ==
    IF call[c].attempt < MaxRetries
    THEN Set(c, [call[c] EXCEPT !.phase = "send", !.attempt = @ + 1, !.file = "absent",
                                !.total = 0])
    ELSE Set(c, [call[c] EXCEPT !.phase = "done", !.code = code, !.file = "absent", !.total = 0])

Fail(c, code) == Set(c, [call[c] EXCEPT !.phase = "done", !.code = code])

FailDownload(c, code) ==
    Set(c, [call[c] EXCEPT !.phase = "done", !.code = code, !.file = "absent"])

\* The next request of the job, with a first attempt of its own, or success; with
\* what the job got so far.
Then(c, step, got) == Set(c, [got EXCEPT !.step = step, !.phase = "send", !.attempt = 0])
Return(c, got) == Set(c, [got EXCEPT !.phase = "done", !.code = "ok"])

\* What a write does to the server; a write about an asset that is gone is refused.
Write(c) == [step |-> call[c].step, kind |-> Kind(c), id |-> call[c].id, asset |-> call[c].asset]
Effect(w) ==
    /\ shelves' = CASE w.step = "create" -> [shelves EXCEPT ![w.kind] = Append(@, {})]
                    [] w.step = "add" /\ w.asset \in Present ->
                         [shelves EXCEPT ![w.kind][w.id] = @ \cup {w.asset}]
                    [] OTHER -> shelves
    /\ locked' = IF w.step = "visibility" /\ w.asset \in Present
                 THEN locked \cup {w.asset} ELSE locked
    /\ UNCHANGED <<library, restored>>

\* The page of the search as the library is now, and the number of the next one.
PageItems(page) ==
    {library[i] : i \in {j \in DOMAIN library :
                            (page - 1) * PageSize < j /\ j <= page * PageSize}}
NextPage(page) == IF Len(library) > page * PageSize THEN page + 1 ELSE 0

\* The server answers an attempt of caller c.
Serve(c) ==
    /\ call[c].phase = "send"
    /\ Effect(Write(c))
    /\ CASE call[c].step = "search" ->
              Set(c, [call[c] EXCEPT !.phase = "answer", !.items = PageItems(call[c].page),
                                     !.next = NextPage(call[c].page)])
         [] call[c].step = "find" ->
              \E i \in IF shelves[Kind(c)] = <<>> THEN {0} ELSE DOMAIN shelves[Kind(c)] :
                 Set(c, [call[c] EXCEPT !.phase = "answer", !.id = i])
         [] call[c].step = "create" ->
              Set(c, [call[c] EXCEPT !.phase = "answer", !.id = Len(shelves'[Kind(c)])])
         [] call[c].step \in {"add", "visibility"} ->
              Set(c, [call[c] EXCEPT !.phase = "answer", !.acted = call[c].asset \in Present])
         [] call[c].step = "original" ->
              IF call[c].asset \in Present
              THEN Set(c, [call[c] EXCEPT !.phase = "stream", !.file = "partial", !.total = 0])
              ELSE FailDownload(c, "refused")
    /\ UNCHANGED <<late, budget, changes, lateCount, blind, unsure>>

\* The attempt does not reach the server, or not yet, and the client times out;
\* or the server answers 429 or 5xx without doing anything.
LoseRequest(c) ==
    /\ call[c].phase = "send"
    /\ \/ UNCHANGED <<late, lateCount>>
       \/ /\ call[c].step \in {"create", "add", "visibility"} /\ lateCount < MaxLate
          /\ late' = late \cup {<<lateCount, Write(c)>>} /\ lateCount' = lateCount + 1
    /\ unsure' = IF lateCount' # lateCount /\ call[c].step = "create"
                 THEN [unsure EXCEPT ![Kind(c)] = @ + 1] ELSE unsure
    /\ RetryOrFail(c, "refused")
    /\ UNCHANGED <<server, budget, changes, blind>>

\* The server refuses the request; such a status is not retried.
Refuse(c) ==
    /\ call[c].phase = "send"
    /\ FailDownload(c, "refused")
    /\ UNCHANGED <<server, late, budget, changes, lateCount, blind, unsure>>

\* The answer is lost, or it is a 5xx of a server that has done its work.
LoseAnswer(c) ==
    /\ call[c].phase \in {"answer", "stream"}
    /\ RetryOrFail(c, "refused")
    /\ unsure' = IF call[c].step = "create"
                 THEN [unsure EXCEPT ![Kind(c)] = @ + 1] ELSE unsure
    /\ UNCHANGED <<server, late, budget, changes, lateCount, blind>>

\* The answer is not JSON, or not of the expected shape: the call fails at
\* once, although the server has acted.
Garble(c) ==
    /\ call[c].phase = "answer"
    /\ Fail(c, "invalid_response")
    /\ unsure' = IF call[c].step = "create"
                 THEN [unsure EXCEPT ![Kind(c)] = @ + 1] ELSE unsure
    /\ UNCHANGED <<server, late, budget, changes, lateCount, blind>>

----------------------------------------------------------------------------
(* Answers *)

answerFrame == UNCHANGED <<server, late, budget, changes, lateCount, unsure>>

\* list_assets under iter_candidates: pages until there is no next one.
\* Variant: the next page is skipped.
SkippedPage(c) == IF call[c].next = 0 THEN 0 ELSE call[c].next + 1
PageAfter(c) == call[c].next
ListAssets(c) ==
    /\ call[c].phase = "answer" /\ call[c].step = "search"
    /\ LET got == [call[c] EXCEPT !.seen = @ \cup call[c].items, !.items = {}, !.next = 0,
                     !.again = @ + Cardinality(call[c].seen \cap call[c].items)]
       IN  IF PageAfter(c) = 0 THEN Return(c, got)
           ELSE Then(c, "search", [got EXCEPT !.page = PageAfter(c)])
    /\ UNCHANGED blind /\ answerFrame

\* find_album_by_name and find_tag_by_name: the first of that name, or none.
\* Variant: create without looking.
AlwaysCreate(c) == Then(c, "create", [call[c] EXCEPT !.id = 0])
CreateIfMissing(c) ==
    IF call[c].id = 0 THEN Then(c, "create", call[c]) ELSE Then(c, "add", call[c])
Find(c) ==
    /\ call[c].phase = "answer" /\ call[c].step = "find"
    /\ blind' = IF call[c].id = 0 THEN [blind EXCEPT ![Kind(c)] = @ + 1] ELSE blind
    /\ CreateIfMissing(c)
    /\ answerFrame

FindAlbum(c) == call[c].job = "album" /\ Find(c)
FindTag(c) == call[c].job = "tag" /\ Find(c)

\* create_album and create_tag.
Create(c) ==
    /\ call[c].phase = "answer" /\ call[c].step = "create"
    /\ Then(c, "add", call[c])
    /\ UNCHANGED blind /\ answerFrame

CreateAlbum(c) == call[c].job = "album" /\ Create(c)
CreateTag(c) == call[c].job = "tag" /\ Create(c)

\* add_to_album and add_tag_to_asset look into the answer for failed items.
\* Variant: a 200 is enough.
TakeAnyStatus(c) == Return(c, call[c])
CheckItems(c) == IF call[c].acted THEN Return(c, call[c]) ELSE Fail(c, "add_failed")
Add(c) ==
    /\ call[c].phase = "answer" /\ call[c].step = "add"
    /\ CheckItems(c)
    /\ UNCHANGED blind /\ answerFrame

AddToAlbum(c) == call[c].job = "album" /\ Add(c)
AddTagToAsset(c) == call[c].job = "tag" /\ Add(c)

SetAssetVisibility(c) ==
    /\ call[c].phase = "answer" /\ call[c].step = "visibility"
    /\ IF call[c].acted THEN Return(c, call[c]) ELSE Fail(c, "refused")
    /\ UNCHANGED blind /\ answerFrame

\* _request_to_file: the next chunk of the stream, or its end.
StreamChunk(c) ==
    /\ call[c].phase = "stream"
    /\ CASE call[c].total = call[c].size -> Return(c, [call[c] EXCEPT !.file = "whole"])
         [] call[c].total < call[c].size /\ call[c].total + 1 > MaxBytes ->
              FailDownload(c, "original_too_large")
         [] OTHER -> Set(c, [call[c] EXCEPT !.total = @ + 1])
    /\ UNCHANGED blind /\ answerFrame

\* The disk is full: no handler of the client is for an OSError.
DiskFull(c) ==
    /\ call[c].phase = "stream"
    /\ Fail(c, "os_error")
    /\ UNCHANGED blind /\ answerFrame

----------------------------------------------------------------------------
(* Everything else that happens *)

\* The owner uploads, removes and unlocks assets, at any place of the order.
Upload(a) ==
    /\ changes < MaxChanges /\ a \notin Present
    /\ \E i \in 1..Len(library) + 1 : library' = InsertAt(library, i, a)
    /\ call' = [c \in Callers |-> IF Walking(c) THEN [call[c] EXCEPT !.arrived = @ + 1]
                                                ELSE call[c]]
    /\ changes' = changes + 1
    /\ UNCHANGED <<shelves, locked, restored, late, budget, lateCount, blind, unsure>>

Delete(a) ==
    /\ changes < MaxChanges /\ a \in Present
    /\ \E i \in DOMAIN library : library[i] = a /\ library' = RemoveAt(library, i)
    /\ call' = [c \in Callers |->
                  IF Walking(c) THEN [call[c] EXCEPT !.removed = @ + 1, !.stable = @ \ {a}]
                                ELSE call[c]]
    /\ changes' = changes + 1
    /\ UNCHANGED <<shelves, locked, restored, late, budget, lateCount, blind, unsure>>

Unlock(a) ==
    /\ changes < MaxChanges /\ a \in locked
    /\ locked' = locked \ {a} /\ restored' = restored \cup {a} /\ changes' = changes + 1
    /\ UNCHANGED <<library, shelves, late, call, budget, lateCount, blind, unsure>>

\* A request that was given up reaches the server after all.
ArriveLate(w) ==
    /\ w \in late
    /\ Effect(w[2]) /\ late' = late \ {w}
    /\ UNCHANGED <<call, budget, changes, lateCount, blind, unsure>>

Init ==
    /\ library = SetToSeq(Owned)   \* any order: assets are interchangeable
    /\ shelves = [k \in Kinds |-> <<>>] /\ locked = {} /\ restored = {} /\ late = {}
    /\ call = [c \in Callers |-> Fresh] /\ budget = [c \in Callers |-> MaxJobs]
    /\ changes = 0 /\ lateCount = 0
    /\ blind = [k \in Kinds |-> 0] /\ unsure = [k \in Kinds |-> 0]

\* What brings a call to its end, faults aside.
Progress(c) ==
    Serve(c) \/ ListAssets(c) \/ FindAlbum(c) \/ FindTag(c) \/ CreateAlbum(c) \/ CreateTag(c)
    \/ AddToAlbum(c) \/ AddTagToAsset(c) \/ SetAssetVisibility(c) \/ StreamChunk(c)
Trouble(c) == LoseRequest(c) \/ Refuse(c) \/ LoseAnswer(c) \/ Garble(c) \/ DiskFull(c)

Next ==
    \/ \E c \in Callers : Start(c) \/ Forget(c) \/ Progress(c) \/ Trouble(c)
    \/ \E a \in Assets : Upload(a) \/ Delete(a) \/ Unlock(a)
    \/ \E w \in late : ArriveLate(w)

Spec == Init /\ [][Next]_vars
          /\ \A c \in Callers : WF_vars(Progress(c) \/ Trouble(c))

----------------------------------------------------------------------------
(* Properties *)

\* Every variable has its type; a call keeps within its attempts.
TypeOK ==
    /\ IsInjective(library) /\ Present \subseteq Assets
    /\ shelves \in [Kinds -> Seq(SUBSET Assets)] /\ locked \cup restored \subseteq Assets
    /\ \A w \in late : w[2].kind \in Kinds /\ w[2].asset \in Assets
    /\ \A c \in Callers :
         /\ call[c].phase \in Phases /\ call[c].step \in Steps /\ call[c].code \in Codes
         /\ call[c].attempt \in 0..MaxRetries
         /\ call[c].phase = "done" <=> call[c].code # "none"
         /\ call[c].step = "add" => call[c].id \in DOMAIN shelves[Kind(c)]
    /\ budget \in [Callers -> 0..MaxJobs]
    /\ changes \in 0..MaxChanges /\ lateCount \in 0..MaxLate

\* A call that reports success has had its effect, whatever was lost, repeated
\* or changed on the way: the asset is in an album (under a tag) of the review
\* name, or was locked until the owner took it out, the original is complete and
\* within the limit.  A call that reports an error of the client leaves no part of
\* a download; only an OSError of the disk does, and the caller has to remove it.
AnswersAreTrue ==
  /\ \A c \in Callers : call[c].code = "ok" =>
       /\ call[c].job \in Kinds =>
            \E i \in DOMAIN shelves[Kind(c)] : call[c].asset \in shelves[Kind(c)][i]
       /\ call[c].job = "lock" => call[c].asset \in locked \cup restored
       /\ call[c].job = "fetch" =>
            call[c].file = "whole" /\ call[c].total = call[c].size /\ call[c].size <= MaxBytes
  /\ \A c \in Callers :
       call[c].phase = "done" /\ call[c].file # "absent" => call[c].code \in {"ok", "os_error"}

\* A second album or tag of the review name has a cause: a lookup that was
\* overtaken by another caller's, or a create nobody acknowledged.
ShelvesAccounted ==
    \A k \in Kinds : Len(shelves[k]) <= blind[k] + unsure[k]

\* A walk by page numbers over a library that changes misses an asset that was
\* there all the time only when another one was removed meanwhile, and lists an
\* asset twice only when one arrived.
WalkAccounted ==
    \A c \in Callers :
       /\ call[c].again <= call[c].arrived
       /\ call[c].job = "walk" /\ call[c].code = "ok" =>
            Cardinality(call[c].stable \ call[c].seen) <= call[c].removed

\* Every call ends, in success or in an error: an attempt is answered or times
\* out, and attempts are counted.
CallsEnd == \A c \in Callers : (call[c].phase = "send") ~> (call[c].phase = "done")
=============================================================================
