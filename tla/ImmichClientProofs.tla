-------------------------- MODULE ImmichClientProofs --------------------------
(***************************************************************************)
(* Proofs about the HTTP client: what success and failure of a call mean,  *)
(* where second albums come from, and what a walk by pages can miss.       *)
(***************************************************************************)
EXTENDS ImmichClient, Integers, FiniteSetTheorems, SequenceTheorems, TLAPS

-----------------------------------------------------------------------------
(* The invariant.                                                           *)

Writes == [step : {"create", "add", "visibility"}, kind : Kinds, id : Nat, asset : Assets]
Calls == [job : JobNames \cup {"none"}, phase : Phases, step : Steps, attempt : 0 .. MaxRetries,
          asset : Assets \cup {NoAsset}, id : Nat, page : Nat \ {0}, items : SUBSET Assets,
          next : Nat, seen : SUBSET Assets, again : Nat, stable : SUBSET Assets,
          removed : Nat, arrived : Nat, file : {"absent", "partial", "whole"}, size : Nat,
          total : Nat, acted : BOOLEAN, code : Codes]

Typed ==
    /\ library \in Seq(Assets) /\ IsInjective(library)
    /\ shelves \in [Kinds -> Seq(SUBSET Assets)]
    /\ locked \subseteq Assets /\ restored \subseteq Assets
    /\ late \subseteq Nat \X Writes /\ IsFiniteSet(late)
    /\ call \in [Callers -> Calls]
    /\ budget \in [Callers -> 0 .. MaxJobs]
    /\ changes \in 0 .. MaxChanges /\ lateCount \in 0 .. MaxLate
    /\ blind \in [Kinds -> Nat] /\ unsure \in [Kinds -> Nat]

\* The step of a call is one of its job's, its fields are set where the step needs
\* them, and a request names a shelf that is there.
StepsOf(job) == CASE job = "walk" -> {"search"} [] job = "lock" -> {"visibility"}
                  [] job = "fetch" -> {"original"} [] OTHER -> {"find", "create", "add"}
KindOf(job) == IF job = "tag" THEN "tag" ELSE "album"
Fits(w) ==
    /\ w.phase = "idle" => w = Fresh
    /\ w.phase = "done" <=> w.code # "none"
    /\ w.phase # "idle" => /\ w.job # "none" /\ w.step \in StepsOf(w.job)
                           /\ w.job = "walk" \/ w.asset \in Assets
    /\ w.phase \in {"send", "answer"} => w.file = "absent"
    /\ w.phase = "answer" => w.step # "original"
    /\ w.phase = "stream" => w.step = "original"
\* A shelf that a call or a late request names is one of the server's.
Shelved(w, sh) ==
    LET on == DOMAIN sh[KindOf(w.job)] IN
    /\ w.step = "add" => w.id \in on
    /\ w.step = "create" /\ w.phase = "answer" => w.id \in on
    /\ w.step = "find" /\ w.phase = "answer" => w.id \in on \cup {0}
LateFits == \A w \in late : w[2].step = "add" => w[2].id \in DOMAIN shelves[w[2].kind]

\* What an answer that was read, or is about to be, rests on; out are the assets
\* that are, or were, in the Locked Folder.
OnShelf(w, sh) == \E i \in DOMAIN sh[KindOf(w.job)] : w.asset \in sh[KindOf(w.job)][i]
Honest(w, sh, out) ==
    /\ w.phase = "answer" /\ w.acted =>
         /\ w.step = "add" => OnShelf(w, sh)
         /\ w.step = "visibility" => w.asset \in out
    /\ w.phase = "stream" => w.total <= w.size /\ w.total <= MaxBytes
    /\ w.code = "ok" =>
         /\ w.job \in Kinds => OnShelf(w, sh)
         /\ w.job = "lock" => w.asset \in out
         /\ w.job = "fetch" => w.file = "whole" /\ w.total = w.size /\ w.size <= MaxBytes
    /\ w.phase = "done" /\ w.file # "absent" => w.code \in {"ok", "os_error"}

\* Every album is there because of a lookup that found none or a create that went
\* unacknowledged, and the creates still to come have theirs already.
Sends(w, k) == w.step = "create" /\ w.phase = "send" /\ KindOf(w.job) = k
Creating(k) == {c \in Callers : Sends(call[c], k)}
LateCreates(k) == {w \in late : w[2].step = "create" /\ w[2].kind = k}
Accounted(k) ==
    Len(shelves[k]) + Cardinality(Creating(k)) + Cardinality(LateCreates(k))
        <= blind[k] + unsure[k]

\* The library up to a place, and beyond it; where a page begins.
Passed(lib, k) == {lib[i] : i \in {j \in DOMAIN lib : j <= k}}
Ahead(lib, k) == {lib[i] : i \in {j \in DOMAIN lib : j > k}}
Edge(page) == (page - 1) * PageSize

\* A walk that has passed k places and seen some assets: those it missed were
\* pushed behind it by removals, those it will see again pushed ahead by arrivals.
UpTo(lib, k, seen, again, w) ==
    /\ Cardinality((w.stable \cap Passed(lib, k)) \ seen) <= w.removed
    /\ again + Cardinality(seen \cap Ahead(lib, k)) <= w.arrived
AtEnd(seen, again, w) ==
    Cardinality(w.stable \ seen) <= w.removed /\ again <= w.arrived

\* A walk at a page, and once the answer in flight has been read.
Read(w) == w.seen \cup w.items
ReadAgain(w) == w.again + Cardinality(w.seen \cap w.items)
Paced(lib, w) ==
    /\ w.job = "walk" /\ w.phase # "done" =>
         /\ w.stable \subseteq ToSet(lib)
         /\ UpTo(lib, Edge(w.page), w.seen, w.again, w)
         /\ w.phase = "answer" /\ w.next # 0 =>
              UpTo(lib, Edge(w.next), Read(w), ReadAgain(w), w)
         /\ w.phase = "answer" /\ w.next = 0 => AtEnd(Read(w), ReadAgain(w), w)
    /\ w.again <= w.arrived
    /\ w.job = "walk" /\ w.code = "ok" => AtEnd(w.seen, w.again, w)

GoodCall(w, lib, sh, out) ==
    Fits(w) /\ Shelved(w, sh) /\ Honest(w, sh, out) /\ Paced(lib, w)
ClientInv ==
    /\ Typed /\ LateFits
    /\ \A c \in Callers : GoodCall(call[c], library, shelves, locked \cup restored)
    /\ \A k \in Kinds : Accounted(k)

-----------------------------------------------------------------------------
(* The library and its pages.                                               *)

LEMMA FiniteAssets ==
    /\ IsFiniteSet(Assets)
    /\ \A S \in SUBSET Assets : IsFiniteSet(S) /\ Cardinality(S) \in Nat
BY ConstantsOK, FS_Subset, FS_CardinalityType

\* A set that has at most one element more than another.
OneNew(T, S) == \E x : T \subseteq S \cup {x}

\* One more asset, at most, is one more to count.
LEMMA OneMore ==
    ASSUME NEW S \in SUBSET Assets, NEW T \in SUBSET Assets, NEW x, T \subseteq S \cup {x}
    PROVE  Cardinality(T) <= Cardinality(S) + 1
<1>1. IsFiniteSet(S) /\ Cardinality(S) \in Nat /\ Cardinality(T) \in Nat
    BY FiniteAssets
<1>2. /\ IsFiniteSet(S \cup {x})
      /\ Cardinality(S \cup {x}) = IF x \in S THEN Cardinality(S) ELSE Cardinality(S) + 1
    BY <1>1, FS_AddElement
<1>3. Cardinality(T) <= Cardinality(S \cup {x})
    BY <1>2, FS_Subset
<1> QED BY <1>1, <1>2, <1>3

LEMMA NoMore ==
    ASSUME NEW S \in SUBSET Assets, NEW T \in SUBSET S
    PROVE  Cardinality(T) <= Cardinality(S) /\ Cardinality(T) \in Nat /\ Cardinality(S) \in Nat
BY FiniteAssets, FS_Subset

\* An asset that arrives pushes at most one asset ahead, and puts none behind
\* that was there.
LEMMA Inserted ==
    ASSUME NEW lib \in Seq(Assets), IsInjective(lib), NEW a \in Assets, a \notin ToSet(lib),
           NEW i \in Int, 1 <= i, i <= Len(lib) + 1, NEW new, new = InsertAt(lib, i, a)
    PROVE  /\ new \in Seq(Assets) /\ IsInjective(new) /\ ToSet(new) = ToSet(lib) \cup {a}
           /\ \A k \in Nat : Passed(new, k) \subseteq Passed(lib, k) \cup {a}
           /\ \A k \in Nat : OneNew(Ahead(new, k), Ahead(lib, k))
<1>1. PICK n \in Nat : n = Len(lib)
    OBVIOUS
<1>2. DOMAIN lib = 1 .. n /\ \A j \in 1 .. n : lib[j] \in Assets
    BY <1>1, ElementOfSeq
<1> DEFINE s == SubSeq(lib, 1, i - 1)
           t == SubSeq(lib, i, n)
<1>3. /\ s \in Seq(Assets) /\ Len(s) = i - 1 /\ \A j \in 1 .. (i - 1) : s[j] = lib[j]
    <2>1. \A j \in 1 .. (i - 1) : lib[j] \in Assets
        BY <1>1, <1>2
    <2>2. i - 1 \in Int /\ 1 \in Int
        BY <1>1
    <2>3. /\ s \in Seq(Assets) /\ Len(s) = (IF 1 <= i - 1 THEN i - 1 - 1 + 1 ELSE 0)
          /\ \A j \in 1 .. (i - 1 - 1 + 1) : s[j] = lib[1 + j - 1]
        BY <2>1, <2>2, SubSeqProperties
    <2> HIDE DEF s
    <2>4. \A j \in 1 .. (i - 1) : j \in 1 .. (i - 1 - 1 + 1) /\ 1 + j - 1 = j
        BY <1>1
    <2> QED BY <1>1, <2>3, <2>4
<1>4. /\ t \in Seq(Assets) /\ Len(t) = n - i + 1 /\ \A j \in 1 .. (n - i + 1) : t[j] = lib[i + j - 1]
    <2>1. \A j \in i .. n : lib[j] \in Assets
        BY <1>1, <1>2
    <2>2. i \in Int /\ n \in Int
        BY <1>1
    <2>3. /\ t \in Seq(Assets) /\ Len(t) = (IF i <= n THEN n - i + 1 ELSE 0)
          /\ \A j \in 1 .. (n - i + 1) : t[j] = lib[i + j - 1]
        BY <2>1, <2>2, SubSeqProperties
    <2> HIDE DEF t
    <2> QED BY <1>1, <2>3
<1>5. new = (s \o <<a>>) \o t
    BY <1>1 DEF InsertAt
<1> HIDE DEF s, t
<1>6. /\ s \o <<a>> \in Seq(Assets) /\ Len(s \o <<a>>) = i
      /\ \A j \in 1 .. i : (s \o <<a>>)[j] = IF j = i THEN a ELSE lib[j]
    <2>1. <<a>> \in Seq(Assets) /\ Len(<<a>>) = 1 /\ <<a>>[1] = a
        OBVIOUS
    <2>2. /\ s \o <<a>> \in Seq(Assets) /\ Len(s \o <<a>>) = (i - 1) + 1
          /\ \A j \in 1 .. ((i - 1) + 1) : (s \o <<a>>)[j] =
                IF j <= i - 1 THEN s[j] ELSE <<a>>[j - (i - 1)]
        BY <1>3, <2>1, ConcatProperties
    <2>3. (i - 1) + 1 = i
        BY <1>1
    <2>4. ASSUME NEW j \in 1 .. i PROVE (s \o <<a>>)[j] = IF j = i THEN a ELSE lib[j]
        <3>1. CASE j = i
            <4>1. ~ (j <= i - 1) /\ j - (i - 1) = 1
                BY <1>1, <3>1
            <4> QED BY <2>1, <2>2, <2>3, <3>1, <4>1
        <3>2. CASE j # i
            <4>1. j \in 1 .. (i - 1) /\ j <= i - 1
                BY <1>1, <3>2
            <4> QED BY <1>3, <2>2, <2>3, <3>2, <4>1
        <3> QED BY <3>1, <3>2
    <2> QED BY <2>2, <2>3, <2>4
<1>7. /\ new \in Seq(Assets) /\ Len(new) = n + 1
      /\ \A j \in 1 .. (n + 1) : new[j] = IF j < i THEN lib[j] ELSE IF j = i THEN a ELSE lib[j - 1]
    <2>1. PICK u : u = s \o <<a>>
        OBVIOUS
    <2>2. /\ u \o t \in Seq(Assets) /\ Len(u \o t) = i + (n - i + 1)
          /\ \A j \in 1 .. (i + (n - i + 1)) : (u \o t)[j] = IF j <= i THEN u[j] ELSE t[j - i]
        <3>1. u \in Seq(Assets) /\ t \in Seq(Assets) /\ Len(u) = i /\ Len(t) = n - i + 1
            BY <1>4, <1>6, <2>1
        <3>2. /\ u \o t \in Seq(Assets) /\ Len(u \o t) = Len(u) + Len(t)
              /\ \A j \in 1 .. (Len(u) + Len(t)) : (u \o t)[j] =
                    IF j <= Len(u) THEN u[j] ELSE t[j - Len(u)]
            BY <3>1, ConcatProperties
        <3> QED BY <3>1, <3>2
    <2>3. i + (n - i + 1) = n + 1
        BY <1>1
    <2>4. ASSUME NEW j \in 1 .. (n + 1)
          PROVE  (u \o t)[j] = IF j < i THEN lib[j] ELSE IF j = i THEN a ELSE lib[j - 1]
        <3>1. CASE j <= i
            BY <1>1, <1>6, <2>1, <2>2, <2>3, <3>1
        <3>2. CASE ~ (j <= i)
            <4>1. j - i \in 1 .. (n - i + 1) /\ i + (j - i) - 1 = j - 1 /\ ~ (j < i) /\ j # i
                BY <1>1, <3>2
            <4> QED BY <1>4, <2>2, <2>3, <3>2, <4>1
        <3> QED BY <3>1, <3>2
    <2> QED BY <1>5, <2>1, <2>2, <2>3, <2>4
<1>8. DOMAIN new = 1 .. (n + 1)
    BY <1>7
<1>9. \A j \in 1 .. (n + 1) : j < i => j \in 1 .. n
    BY <1>1
<1>10. \A j \in 1 .. (n + 1) : j > i => j - 1 \in 1 .. n
    BY <1>1
<1>11. a \notin {lib[j] : j \in 1 .. n}
    BY <1>2 DEF ToSet
<1>12. \A j, l \in 1 .. n : lib[j] = lib[l] => j = l
    BY <1>2 DEF IsInjective
<1>13. IsInjective(new)
    <2> SUFFICES ASSUME NEW j \in 1 .. (n + 1), NEW l \in 1 .. (n + 1), new[j] = new[l], j < l
                 PROVE  FALSE
        <3>1. \A j, l \in 1 .. (n + 1) : j = l \/ j < l \/ l < j
            OBVIOUS
        <3> QED BY <1>8, <3>1 DEF IsInjective
    <2>1. CASE l < i
        <3>1. j < i /\ j \in 1 .. n /\ l \in 1 .. n /\ j # l
            BY <1>1, <2>1
        <3>2. new[j] = lib[j] /\ new[l] = lib[l]
            BY <1>7, <2>1, <3>1
        <3> QED BY <1>12, <3>1, <3>2
    <2>2. CASE l = i
        BY <1>7, <1>9, <1>11, <2>2
    <2>3. CASE l > i
        <3>1. l - 1 \in 1 .. n /\ new[l] = lib[l - 1]
            BY <1>1, <1>7, <1>10, <2>3
        <3>2. CASE j < i
            <4>1. j \in 1 .. n /\ j # l - 1 /\ new[j] = lib[j]
                BY <1>1, <1>7, <1>9, <2>3, <3>2
            <4> QED BY <1>12, <3>1, <4>1
        <3>3. CASE j = i
            BY <1>7, <1>11, <3>1, <3>3
        <3>4. CASE j > i
            <4>1. j - 1 \in 1 .. n /\ j - 1 # l - 1 /\ new[j] = lib[j - 1]
                BY <1>1, <1>7, <1>10, <3>4
            <4> QED BY <1>12, <3>1, <4>1
        <3> QED BY <1>1, <3>2, <3>3, <3>4
    <2> QED BY <1>1, <2>1, <2>2, <2>3
<1>14. ToSet(new) = ToSet(lib) \cup {a}
    <2>1. ASSUME NEW j \in 1 .. (n + 1) PROVE new[j] \in {lib[l] : l \in 1 .. n} \cup {a}
        <3>1. j < i \/ j = i \/ j > i
            BY <1>1
        <3> QED BY <1>7, <1>9, <1>10, <3>1
    <2>2. i \in 1 .. (n + 1) /\ new[i] = a
        BY <1>1, <1>7
    <2>3. ASSUME NEW l \in 1 .. n PROVE \E j \in 1 .. (n + 1) : new[j] = lib[l]
        <3>1. CASE l < i
            <4>1. l \in 1 .. (n + 1)
                BY <1>1
            <4> QED BY <1>7, <3>1, <4>1
        <3>2. CASE ~ (l < i)
            <4>1. l + 1 \in 1 .. (n + 1) /\ ~ (l + 1 < i) /\ l + 1 # i /\ l + 1 - 1 = l
                BY <1>1, <3>2
            <4>2. new[l + 1] = lib[l + 1 - 1]
                BY <1>7, <4>1
            <4> QED BY <4>1, <4>2
        <3> QED BY <3>1, <3>2
    <2>4. ToSet(lib) = {lib[l] : l \in 1 .. n} /\ ToSet(new) = {new[j] : j \in 1 .. (n + 1)}
        BY <1>2, <1>8 DEF ToSet
    <2>5. ToSet(new) \subseteq ToSet(lib) \cup {a}
        BY <2>1, <2>4
    <2>6. ToSet(lib) \cup {a} \subseteq ToSet(new)
        BY <2>2, <2>3, <2>4
    <2> QED BY <2>5, <2>6
<1>15. ASSUME NEW k \in Nat PROVE Passed(new, k) \subseteq Passed(lib, k) \cup {a}
    <2> SUFFICES ASSUME NEW j \in 1 .. (n + 1), j <= k PROVE new[j] \in Passed(lib, k) \cup {a}
        BY <1>8 DEF Passed
    <2>1. CASE j < i
        BY <1>2, <1>7, <1>9, <2>1 DEF Passed
    <2>2. CASE j = i
        BY <1>7, <2>2
    <2>3. CASE j > i
        <3>1. j - 1 \in 1 .. n /\ j - 1 <= k /\ new[j] = lib[j - 1]
            BY <1>1, <1>7, <1>10, <2>3
        <3> QED BY <1>2, <3>1 DEF Passed
    <2> QED BY <1>1, <2>1, <2>2, <2>3
<1>16. ASSUME NEW k \in Nat PROVE OneNew(Ahead(new, k), Ahead(lib, k))
    <2> DEFINE x == IF i <= k THEN lib[k] ELSE a
    <2>1. ASSUME NEW j \in 1 .. (n + 1), j > k PROVE new[j] \in Ahead(lib, k) \cup {x}
        <3>1. CASE j < i
            BY <1>2, <1>7, <1>9, <2>1, <3>1 DEF Ahead
        <3>2. CASE j = i
            BY <1>1, <1>7, <2>1, <3>2
        <3>3. CASE j > i
            <4>1. j - 1 \in 1 .. n /\ new[j] = lib[j - 1] /\ (j - 1 > k \/ j - 1 = k)
                BY <1>1, <1>7, <1>10, <2>1, <3>3
            <4>2. j - 1 = k => i <= k
                BY <1>1, <3>3
            <4> QED BY <1>2, <4>1, <4>2 DEF Ahead
        <3> QED BY <1>1, <3>1, <3>2, <3>3
    <2>2. Ahead(new, k) \subseteq Ahead(lib, k) \cup {x}
        BY <1>8, <2>1 DEF Ahead
    <2> QED BY <2>2 DEF OneNew
<1> QED BY <1>7, <1>13, <1>14, <1>15, <1>16

\* An asset that is removed lets at most one asset slip behind, and puts none ahead.
LEMMA Removed ==
    ASSUME NEW lib \in Seq(Assets), IsInjective(lib), NEW i \in DOMAIN lib,
           NEW new, new = RemoveAt(lib, i)
    PROVE  /\ new \in Seq(Assets) /\ IsInjective(new) /\ ToSet(new) = ToSet(lib) \ {lib[i]}
           /\ \A k \in Nat : /\ OneNew(Passed(new, k), Passed(lib, k))
                             /\ Ahead(new, k) \subseteq Ahead(lib, k)
<1>1. PICK n \in Nat : n = Len(lib)
    OBVIOUS
<1>2. DOMAIN lib = 1 .. n /\ \A j \in 1 .. n : lib[j] \in Assets
    BY <1>1, ElementOfSeq
<1> DEFINE s == SubSeq(lib, 1, i - 1)
           t == SubSeq(lib, i + 1, n)
<1>3. /\ s \in Seq(Assets) /\ Len(s) = i - 1 /\ \A j \in 1 .. (i - 1) : s[j] = lib[j]
    <2>1. \A j \in 1 .. (i - 1) : lib[j] \in Assets
        BY <1>1, <1>2
    <2>2. i - 1 \in Int /\ 1 \in Int
        BY <1>2
    <2>3. /\ s \in Seq(Assets) /\ Len(s) = (IF 1 <= i - 1 THEN i - 1 - 1 + 1 ELSE 0)
          /\ \A j \in 1 .. (i - 1 - 1 + 1) : s[j] = lib[1 + j - 1]
        BY <2>1, <2>2, SubSeqProperties
    <2> HIDE DEF s
    <2>4. \A j \in 1 .. (i - 1) : j \in 1 .. (i - 1 - 1 + 1) /\ 1 + j - 1 = j
        BY <1>2
    <2> QED BY <1>2, <2>3, <2>4
<1>4. /\ t \in Seq(Assets) /\ Len(t) = n - i /\ \A j \in 1 .. (n - i) : t[j] = lib[i + j]
    <2>1. \A j \in (i + 1) .. n : lib[j] \in Assets
        BY <1>2
    <2>2. i + 1 \in Int /\ n \in Int
        BY <1>2
    <2>3. /\ t \in Seq(Assets) /\ Len(t) = (IF i + 1 <= n THEN n - (i + 1) + 1 ELSE 0)
          /\ \A j \in 1 .. (n - (i + 1) + 1) : t[j] = lib[(i + 1) + j - 1]
        BY <2>1, <2>2, SubSeqProperties
    <2> HIDE DEF t
    <2>4. \A j \in 1 .. (n - i) : j \in 1 .. (n - (i + 1) + 1) /\ (i + 1) + j - 1 = i + j
        BY <1>2
    <2> QED BY <1>2, <2>3, <2>4
<1>5. new = s \o t
    BY <1>1 DEF RemoveAt
<1> HIDE DEF s, t
<1>6. /\ new \in Seq(Assets) /\ Len(new) = n - 1
      /\ \A j \in 1 .. (n - 1) : new[j] = IF j < i THEN lib[j] ELSE lib[j + 1]
    <2>1. /\ s \o t \in Seq(Assets) /\ Len(s \o t) = (i - 1) + (n - i)
          /\ \A j \in 1 .. ((i - 1) + (n - i)) : (s \o t)[j] = IF j <= i - 1 THEN s[j] ELSE t[j - (i - 1)]
        <3>1. /\ s \o t \in Seq(Assets) /\ Len(s \o t) = Len(s) + Len(t)
              /\ \A j \in 1 .. (Len(s) + Len(t)) : (s \o t)[j] =
                    IF j <= Len(s) THEN s[j] ELSE t[j - Len(s)]
            BY <1>3, <1>4, ConcatProperties
        <3> QED BY <1>3, <1>4, <3>1
    <2>2. (i - 1) + (n - i) = n - 1
        BY <1>2
    <2>3. ASSUME NEW j \in 1 .. (n - 1) PROVE (s \o t)[j] = IF j < i THEN lib[j] ELSE lib[j + 1]
        <3>1. CASE j < i
            <4>1. j <= i - 1 /\ j \in 1 .. (i - 1)
                BY <1>2, <3>1
            <4> QED BY <1>3, <2>1, <2>2, <3>1, <4>1
        <3>2. CASE ~ (j < i)
            <4>1. /\ ~ (j <= i - 1) /\ j - (i - 1) \in 1 .. (n - i)
                  /\ i + (j - (i - 1)) = j + 1
                BY <1>2, <3>2
            <4>2. (s \o t)[j] = t[j - (i - 1)]
                BY <2>1, <2>2, <4>1
            <4>3. t[j - (i - 1)] = lib[i + (j - (i - 1))]
                BY <1>4, <4>1
            <4> QED BY <3>2, <4>1, <4>2, <4>3
        <3> QED BY <3>1, <3>2
    <2> QED BY <1>5, <2>1, <2>2, <2>3
<1>7. DOMAIN new = 1 .. (n - 1)
    BY <1>2, <1>6
<1>8. \A j \in 1 .. (n - 1) : j \in 1 .. n /\ j + 1 \in 1 .. n
    BY <1>1
<1>9. \A j, l \in 1 .. n : lib[j] = lib[l] => j = l
    BY <1>2 DEF IsInjective
<1> DEFINE from(j) == IF j < i THEN j ELSE j + 1
<1>10. \A j \in 1 .. (n - 1) : from(j) \in 1 .. n /\ from(j) # i /\ new[j] = lib[from(j)]
    BY <1>2, <1>6, <1>8
<1>11. \A j, l \in 1 .. (n - 1) : from(j) = from(l) => j = l
    BY <1>2
<1>12. IsInjective(new)
    <2> HIDE DEF from
    <2> QED BY <1>7, <1>9, <1>10, <1>11 DEF IsInjective
<1>13. ToSet(new) = ToSet(lib) \ {lib[i]}
    <2>1. \A j \in 1 .. (n - 1) : new[j] \in {lib[l] : l \in 1 .. n} \ {lib[i]}
        <3> HIDE DEF from
        <3> QED BY <1>2, <1>9, <1>10
    <2>2. ASSUME NEW l \in 1 .. n, l # i PROVE \E j \in 1 .. (n - 1) : new[j] = lib[l]
        <3>1. CASE l < i
            <4>1. l \in 1 .. (n - 1)
                BY <1>2, <3>1
            <4> QED BY <1>6, <3>1, <4>1
        <3>2. CASE ~ (l < i)
            <4>1. l - 1 \in 1 .. (n - 1) /\ ~ (l - 1 < i) /\ (l - 1) + 1 = l
                BY <1>2, <2>2, <3>2
            <4>2. new[l - 1] = lib[(l - 1) + 1]
                BY <1>6, <4>1
            <4> QED BY <4>1, <4>2
        <3> QED BY <3>1, <3>2
    <2> QED BY <1>2, <1>7, <2>1, <2>2 DEF ToSet
<1>14. ASSUME NEW k \in Nat PROVE OneNew(Passed(new, k), Passed(lib, k))
    <2>1. ASSUME NEW j \in 1 .. (n - 1), j <= k PROVE new[j] \in Passed(lib, k) \cup {lib[k + 1]}
        <3>1. from(j) <= k \/ from(j) = k + 1
            BY <2>1
        <3> HIDE DEF from
        <3> QED BY <1>2, <1>10, <3>1 DEF Passed
    <2>2. Passed(new, k) \subseteq Passed(lib, k) \cup {lib[k + 1]}
        BY <1>7, <2>1 DEF Passed
    <2> QED BY <2>2 DEF OneNew
<1>15. ASSUME NEW k \in Nat PROVE Ahead(new, k) \subseteq Ahead(lib, k)
    <2>1. ASSUME NEW j \in 1 .. (n - 1), j > k PROVE new[j] \in Ahead(lib, k)
        <3>1. from(j) > k
            BY <2>1
        <3> HIDE DEF from
        <3> QED BY <1>2, <1>10, <3>1 DEF Ahead
    <2> QED BY <1>7, <2>1 DEF Ahead
<1> QED BY <1>6, <1>12, <1>13, <1>14, <1>15

\* A page is what lies between its edge and the next one's.
LEMMA Edges ==
    ASSUME NEW page \in Nat \ {0}
    PROVE  /\ Edge(page) \in Nat /\ Edge(page + 1) = page * PageSize
           /\ Edge(page + 1) \in Nat /\ Edge(page) < Edge(page + 1)
<1>1. PICK q \in Nat : page = q + 1
    <2>1. page - 1 \in Nat /\ page = (page - 1) + 1
        OBVIOUS
    <2> QED BY <2>1
<1>2. PageSize \in Nat /\ PageSize > 0
    BY ConstantsOK
<1>3. q * PageSize \in Nat /\ (q + 1) * PageSize = q * PageSize + PageSize
    BY <1>2
<1>4. page - 1 = q /\ (page + 1) - 1 = q + 1
    BY <1>1
<1>5. Edge(page) = q * PageSize /\ Edge(page + 1) = (q + 1) * PageSize
    BY <1>4 DEF Edge
<1> QED BY <1>1, <1>2, <1>3, <1>5

LEMMA Paging ==
    ASSUME Typed, NEW page \in Nat \ {0}, NEW items, items = PageItems(page)
    PROVE  /\ items \subseteq Assets
           /\ Passed(library, Edge(page + 1)) = Passed(library, Edge(page)) \cup items
           /\ Ahead(library, Edge(page)) = Ahead(library, Edge(page + 1)) \cup items
           /\ Ahead(library, Edge(page + 1)) \cap items = {}
           /\ NextPage(page) \in {0, page + 1}
           /\ NextPage(page) = 0 => Passed(library, Edge(page + 1)) = ToSet(library)
<1>1. PICK n \in Nat : n = Len(library) /\ DOMAIN library = 1 .. n
    BY DEF Typed
<1>2. \A j \in 1 .. n : library[j] \in Assets
    BY <1>1, ElementOfSeq DEF Typed
<1>3. PICK d \in Nat, e \in Nat : d = Edge(page) /\ e = Edge(page + 1) /\ e = page * PageSize /\ d < e
    BY Edges
<1>4. items = {library[i] : i \in {j \in 1 .. n : d < j /\ j <= e}}
    BY <1>1, <1>3 DEF PageItems, Edge
<1>5. \A j \in 1 .. n : /\ j <= e <=> j <= d \/ (d < j /\ j <= e)
                        /\ j > d <=> j > e \/ (d < j /\ j <= e)
    BY <1>3
<1>6. \A j, l \in 1 .. n : library[j] = library[l] => j = l
    BY <1>1 DEF Typed, IsInjective
<1>7. Passed(library, e) = Passed(library, d) \cup items
    BY <1>1, <1>4, <1>5 DEF Passed
<1>8. Ahead(library, d) = Ahead(library, e) \cup items
    BY <1>1, <1>4, <1>5 DEF Ahead
<1>9. Ahead(library, e) \cap items = {}
    <2>1. ASSUME NEW j \in 1 .. n, j > e, NEW l \in 1 .. n, l <= e PROVE library[j] # library[l]
        BY <1>3, <1>6, <2>1
    <2> QED BY <1>1, <1>4, <2>1 DEF Ahead
<1>10. NextPage(page) = IF n > e THEN page + 1 ELSE 0
    BY <1>1, <1>3 DEF NextPage
<1>11. ASSUME NextPage(page) = 0 PROVE Passed(library, e) = ToSet(library)
    <2>1. ~ (n > e)
        BY <1>10, <1>11
    <2>2. \A j \in 1 .. n : j <= e
        BY <1>3, <2>1
    <2> QED BY <1>1, <2>2 DEF Passed, ToSet
<1> QED BY <1>2, <1>3, <1>4, <1>7, <1>8, <1>9, <1>10, <1>11

-----------------------------------------------------------------------------
(* Steps of one call.                                                       *)

\* The server only ever adds to its shelves and to what was locked.
Grows ==
    /\ \A k \in Kinds : /\ DOMAIN shelves[k] \subseteq DOMAIN shelves'[k]
                        /\ \A i \in DOMAIN shelves[k] : shelves[k][i] \subseteq shelves'[k][i]
    /\ locked \cup restored \subseteq locked' \cup restored'

LEMMA KindIs == \A job : KindOf(job) \in Kinds
BY DEF KindOf, Kinds

LEMMA StillGood ==
    ASSUME Grows, NEW w \in Calls, NEW lib, GoodCall(w, lib, shelves, locked \cup restored)
    PROVE  GoodCall(w, lib, shelves', locked' \cup restored')
<1>1. PICK k \in Kinds : k = KindOf(w.job)
    BY KindIs
<1>2. DOMAIN shelves[k] \subseteq DOMAIN shelves'[k]
      /\ \A i \in DOMAIN shelves[k] : shelves[k][i] \subseteq shelves'[k][i]
    BY DEF Grows
<1>3. Shelved(w, shelves')
    BY <1>1, <1>2 DEF GoodCall, Shelved
<1>4. OnShelf(w, shelves) => OnShelf(w, shelves')
    BY <1>1, <1>2 DEF OnShelf
<1>5. Honest(w, shelves', locked' \cup restored')
    BY <1>4 DEF GoodCall, Honest, Grows
<1> QED BY <1>3, <1>5 DEF GoodCall

LEMMA OneCall ==
    ASSUME ClientInv, NEW c \in Callers, NEW w \in Calls, call' = [call EXCEPT ![c] = w],
           library' = library, Grows, GoodCall(w, library, shelves', locked' \cup restored')
    PROVE  /\ call' \in [Callers -> Calls]
           /\ \A d \in Callers : GoodCall(call[d], library, shelves, locked \cup restored)'
<1>1. call' \in [Callers -> Calls] /\ call'[c] = w /\ \A d \in Callers : d # c => call'[d] = call[d]
    BY DEF ClientInv, Typed
<1>2. ASSUME NEW d \in Callers PROVE GoodCall(call'[d], library', shelves', locked' \cup restored')
    <2>1. CASE d = c
        BY <1>1, <2>1
    <2>2. CASE d # c
        <3>1. PICK v \in Calls : v = call[d]
            BY DEF ClientInv, Typed
        <3>2. GoodCall(v, library, shelves, locked \cup restored)
            BY <3>1 DEF ClientInv
        <3>3. GoodCall(v, library, shelves', locked' \cup restored')
            BY <3>2, StillGood
        <3> QED BY <1>1, <2>2, <3>1, <3>3
    <2> QED BY <2>1, <2>2
<1> QED BY <1>1, <1>2

\* The calls about to create something, after a step of one call.
LEMMA CreatingMoves ==
    ASSUME Typed, NEW c \in Callers, NEW w, call' = [call EXCEPT ![c] = w], NEW k
    PROVE  /\ Cardinality(Creating(k)) \in Nat /\ Cardinality(Creating(k))' \in Nat
           /\ Cardinality(Creating(k))' <= Cardinality(Creating(k)) + 1
           /\ (Sends(w, k) => Sends(call[c], k)) => Cardinality(Creating(k))' <= Cardinality(Creating(k))
           /\ ~ Sends(w, k) /\ Sends(call[c], k) =>
                Cardinality(Creating(k))' = Cardinality(Creating(k)) - 1
<1>1. call \in [Callers -> Calls] /\ call'[c] = w /\ \A d \in Callers : d # c => call'[d] = call[d]
    BY DEF Typed
<1> DEFINE A == Creating(k)
           B == {d \in Callers : Sends(call'[d], k)}
<1>2. Creating(k)' = B
    BY DEF Creating
<1>3. A = {d \in Callers : Sends(call[d], k)}
    BY DEF Creating
<1> HIDE DEF A, B
<1>4. B \subseteq A \cup {c} /\ ((Sends(w, k) => Sends(call[c], k)) => B \subseteq A)
      /\ (~ Sends(w, k) /\ Sends(call[c], k) => B = A \ {c} /\ c \in A)
    BY <1>1, <1>3 DEF B
<1>5. IsFiniteSet(A) /\ IsFiniteSet(B) /\ Cardinality(A) \in Nat /\ Cardinality(B) \in Nat
    BY <1>3, ConstantsOK, FS_Subset, FS_CardinalityType DEF B
<1>6. /\ IsFiniteSet(A \cup {c})
      /\ Cardinality(A \cup {c}) = IF c \in A THEN Cardinality(A) ELSE Cardinality(A) + 1
    BY <1>5, FS_AddElement
<1>7. Cardinality(A \ {c}) = IF c \in A THEN Cardinality(A) - 1 ELSE Cardinality(A)
    BY <1>5, FS_RemoveElement
<1>8. Cardinality(B) <= Cardinality(A \cup {c})
    BY <1>4, <1>6, FS_Subset
<1>9. ASSUME B \subseteq A PROVE Cardinality(B) <= Cardinality(A)
    <2>1. B \in SUBSET A
        BY <1>9
    <2>2. IsFiniteSet(A)
        BY <1>5
    <2> QED BY <2>1, <2>2, FS_Subset
<1>10. PICK p \in Nat, q \in Nat : p = Cardinality(A) /\ q = Cardinality(B)
    BY <1>5
<1>11. Cardinality(Creating(k)) = p /\ Cardinality(Creating(k))' = q
    BY <1>2, <1>10 DEF A
<1>12. q <= p + 1
    BY <1>6, <1>8, <1>10
<1>13. (Sends(w, k) => Sends(call[c], k)) => q <= p
    BY <1>4, <1>9, <1>10
<1>14. ~ Sends(w, k) /\ Sends(call[c], k) => q = p - 1
    BY <1>4, <1>7, <1>10
<1> QED BY <1>10, <1>11, <1>12, <1>13, <1>14

LEMMA LateFinite ==
    ASSUME Typed, NEW k
    PROVE  IsFiniteSet(LateCreates(k)) /\ Cardinality(LateCreates(k)) \in Nat
BY FS_Subset, FS_CardinalityType DEF Typed, LateCreates

\* A step of one call that changes nothing on the server and pays for each create
\* it is about to send.
Paid(w, v) ==
    \A k \in Kinds : /\ blind'[k] >= blind[k] /\ unsure'[k] >= unsure[k]
                     /\ \/ Sends(w, k) => Sends(v, k)
                        \/ blind'[k] + unsure'[k] >= blind[k] + unsure[k] + 1
LEMMA QuietStep ==
    ASSUME ClientInv, NEW c \in Callers, NEW w \in Calls, call' = [call EXCEPT ![c] = w],
           UNCHANGED <<server, late, changes, lateCount>>, budget' \in [Callers -> 0 .. MaxJobs],
           blind' \in [Kinds -> Nat], unsure' \in [Kinds -> Nat],
           GoodCall(w, library, shelves, locked \cup restored), Paid(w, call[c])
    PROVE  ClientInv'
<1>1. library' = library /\ shelves' = shelves /\ locked' = locked /\ restored' = restored
      /\ late' = late /\ changes' = changes /\ lateCount' = lateCount
    BY DEF server
<1>2. Grows
    BY <1>1 DEF Grows
<1>3. /\ call' \in [Callers -> Calls]
      /\ \A d \in Callers : GoodCall(call[d], library, shelves, locked \cup restored)'
    BY <1>1, <1>2, OneCall
<1>4. Typed'
    BY <1>1, <1>3 DEF ClientInv, Typed
<1>5. LateFits'
    BY <1>1 DEF ClientInv, LateFits
<1>6. ASSUME NEW k \in Kinds PROVE Accounted(k)'
    <2>1. LateCreates(k)' = LateCreates(k)
        BY <1>1 DEF LateCreates
    <2>2. Accounted(k)
        BY DEF ClientInv
    <2>3. PICK l \in Nat : l = Len(shelves[k])
        BY DEF ClientInv, Typed
    <2>4. PICK m \in Nat : m = Cardinality(LateCreates(k))
        BY LateFinite DEF ClientInv
    <2>5. PICK p \in Nat, q \in Nat :
             /\ p = Cardinality(Creating(k)) /\ q = Cardinality(Creating(k))'
             /\ q <= p + 1 /\ ((Sends(w, k) => Sends(call[c], k)) => q <= p)
        BY CreatingMoves DEF ClientInv
    <2>6. /\ blind[k] \in Nat /\ unsure[k] \in Nat /\ blind'[k] \in Nat /\ unsure'[k] \in Nat
        BY DEF ClientInv, Typed
    <2>7. /\ blind'[k] >= blind[k] /\ unsure'[k] >= unsure[k]
          /\ \/ Sends(w, k) => Sends(call[c], k)
             \/ blind'[k] + unsure'[k] >= blind[k] + unsure[k] + 1
        BY DEF Paid
    <2>8. l + p + m <= blind[k] + unsure[k]
        BY <2>2, <2>3, <2>4, <2>5 DEF Accounted
    <2>9. l + q + m <= blind'[k] + unsure'[k]
        BY <2>5, <2>6, <2>7, <2>8
    <2> QED BY <1>1, <2>1, <2>3, <2>4, <2>5, <2>9 DEF Accounted
<1> QED BY <1>3, <1>4, <1>5, <1>6 DEF ClientInv

\* A walk that goes on at the page it is at, or gives up.
SameWalk(v, w) ==
    /\ w.job = v.job /\ w.page = v.page /\ w.seen = v.seen /\ w.again = v.again
    /\ w.stable = v.stable /\ w.removed = v.removed /\ w.arrived = v.arrived
LEMMA WalkKept ==
    ASSUME NEW lib, NEW v, NEW w, SameWalk(v, w), v.phase # "done", w.phase # "answer",
           w.code # "ok" \/ w.job # "walk", Paced(lib, v)
    PROVE  Paced(lib, w)
BY DEF SameWalk, Paced, UpTo, AtEnd

\* A call in flight that fails, or is sent again.
InFlight == {"send", "answer", "stream"}
LEMMA Ends ==
    ASSUME NEW v \in Calls, NEW w \in Calls, NEW lib, NEW sh, NEW out, GoodCall(v, lib, sh, out),
           v.phase \in InFlight, w.phase = "done", w.code \notin {"none", "ok"},
           w.step = v.step, w.asset = v.asset, w.id = v.id, SameWalk(v, w),
           w.file # "absent" => w.code = "os_error"
    PROVE  GoodCall(w, lib, sh, out)
<1>1. w.job = v.job
    BY DEF SameWalk
<1>2. Paced(lib, w)
    BY WalkKept DEF GoodCall, InFlight
<1>3. Fits(w)
    BY <1>1 DEF GoodCall, Fits, InFlight
<1>4. Shelved(w, sh)
    BY <1>1 DEF GoodCall, Shelved
<1>5. Honest(w, sh, out)
    BY DEF Honest
<1> QED BY <1>2, <1>3, <1>4, <1>5 DEF GoodCall

LEMMA Resends ==
    ASSUME NEW v \in Calls, NEW w \in Calls, NEW lib, NEW sh, NEW out, GoodCall(v, lib, sh, out),
           v.phase \in InFlight, w.phase = "send", w.code = v.code, w.file = "absent",
           w.step = v.step, w.asset = v.asset, w.id = v.id, SameWalk(v, w)
    PROVE  GoodCall(w, lib, sh, out)
<1>1. w.job = v.job /\ v.code = "none"
    BY DEF SameWalk, GoodCall, Fits, InFlight
<1>2. Paced(lib, w)
    BY <1>1, WalkKept DEF InFlight, GoodCall
<1>3. Fits(w)
    BY <1>1 DEF GoodCall, Fits, InFlight
<1>4. Shelved(w, sh)
    BY <1>1 DEF GoodCall, Shelved
<1>5. Honest(w, sh, out)
    BY <1>1 DEF Honest
<1> QED BY <1>2, <1>3, <1>4, <1>5 DEF GoodCall

LEMMA CallIs ==
    ASSUME ClientInv, NEW c \in Callers
    PROVE  /\ call[c] \in Calls /\ GoodCall(call[c], library, shelves, locked \cup restored)
           /\ Kind(c) = KindOf(call[c].job) /\ Kind(c) \in Kinds
BY KindIs DEF ClientInv, Typed, Kind, KindOf

LEMMA FailIs ==
    ASSUME ClientInv, NEW c \in Callers, call[c].phase \in InFlight,
           NEW code \in Codes \ {"none", "ok"},
           \/ Fail(c, code) /\ (call[c].phase = "answer" \/ code = "os_error")
           \/ FailDownload(c, code)
    PROVE  \E w \in Calls : /\ call' = [call EXCEPT ![c] = w] /\ w.phase = "done"
                            /\ GoodCall(w, library, shelves, locked \cup restored)
<1>1. PICK v \in Calls : v = call[c] /\ GoodCall(v, library, shelves, locked \cup restored)
    BY CallIs
<1>2. CASE Fail(c, code) /\ (call[c].phase = "answer" \/ code = "os_error")
    <2> DEFINE w == [v EXCEPT !.phase = "done", !.code = code]
    <2>1. call' = [call EXCEPT ![c] = w]
        BY <1>1, <1>2 DEF Fail, Set
    <2>2. w \in Calls
        BY DEF Calls, Phases
    <2>3. /\ w.phase = "done" /\ w.code = code /\ w.step = v.step /\ w.asset = v.asset /\ w.id = v.id
          /\ SameWalk(v, w) /\ w.file = v.file
        BY DEF Calls, SameWalk
    <2> HIDE DEF w
    <2>4. w.file # "absent" => w.code = "os_error"
        BY <1>1, <1>2, <2>3 DEF GoodCall, Fits
    <2> QED BY <1>1, <2>1, <2>2, <2>3, <2>4, Ends
<1>3. CASE FailDownload(c, code)
    <2> DEFINE w == [v EXCEPT !.phase = "done", !.code = code, !.file = "absent"]
    <2>1. call' = [call EXCEPT ![c] = w]
        BY <1>1, <1>3 DEF FailDownload, Set
    <2>2. w \in Calls
        BY DEF Calls, Phases
    <2>3. /\ w.phase = "done" /\ w.code = code /\ w.step = v.step /\ w.asset = v.asset /\ w.id = v.id
          /\ SameWalk(v, w) /\ w.file = "absent"
        BY DEF Calls, SameWalk
    <2> HIDE DEF w
    <2> QED BY <1>1, <2>1, <2>2, <2>3, Ends
<1> QED BY <1>2, <1>3

LEMMA RetryIs ==
    ASSUME ClientInv, NEW c \in Callers, call[c].phase \in InFlight, RetryOrFail(c, "refused")
    PROVE  \E w \in Calls : /\ call' = [call EXCEPT ![c] = w]
                            /\ GoodCall(w, library, shelves, locked \cup restored)
                            /\ w.phase \in {"send", "done"} /\ w.step = call[c].step
                            /\ w.job = call[c].job
<1>1. PICK v \in Calls : v = call[c] /\ GoodCall(v, library, shelves, locked \cup restored)
    BY CallIs
<1>2. CASE v.attempt < MaxRetries
    <2> DEFINE w == [v EXCEPT !.phase = "send", !.attempt = @ + 1, !.file = "absent", !.total = 0]
    <2>1. call' = [call EXCEPT ![c] = w]
        BY <1>1, <1>2 DEF RetryOrFail, Set
    <2>2. v.attempt + 1 \in 0 .. MaxRetries
        BY <1>2, ConstantsOK DEF Calls
    <2>3. w \in Calls
        BY <2>2 DEF Calls, Phases
    <2>4. /\ w.phase = "send" /\ w.code = v.code /\ w.step = v.step /\ w.asset = v.asset /\ w.id = v.id
          /\ SameWalk(v, w) /\ w.file = "absent" /\ w.job = v.job
        BY DEF Calls, SameWalk
    <2> HIDE DEF w
    <2> QED BY <1>1, <2>1, <2>3, <2>4, Resends
<1>3. CASE ~ (v.attempt < MaxRetries)
    <2> DEFINE w == [v EXCEPT !.phase = "done", !.code = "refused", !.file = "absent", !.total = 0]
    <2>1. call' = [call EXCEPT ![c] = w]
        BY <1>1, <1>3 DEF RetryOrFail, Set
    <2>3. w \in Calls
        BY DEF Calls, Phases, Codes
    <2>4. /\ w.phase = "done" /\ w.code = "refused" /\ w.step = v.step /\ w.asset = v.asset
          /\ w.id = v.id /\ SameWalk(v, w) /\ w.file = "absent" /\ w.job = v.job
        BY DEF Calls, SameWalk
    <2> HIDE DEF w
    <2> QED BY <1>1, <2>1, <2>3, <2>4, Ends
<1> QED BY <1>2, <1>3

\* Steps that lose something.
LEMMA RefuseKeeps == ASSUME ClientInv, NEW c \in Callers, Refuse(c) PROVE ClientInv'
<1>1. PICK w \in Calls : /\ call' = [call EXCEPT ![c] = w] /\ w.phase = "done"
                         /\ GoodCall(w, library, shelves, locked \cup restored)
    BY FailIs DEF Refuse, InFlight, Codes
<1>2. Paid(w, call[c])
    BY <1>1 DEF Paid, Sends, Refuse, ClientInv, Typed
<1> QED BY <1>1, <1>2, QuietStep DEF Refuse, ClientInv, Typed

LEMMA DiskFullKeeps == ASSUME ClientInv, NEW c \in Callers, DiskFull(c) PROVE ClientInv'
<1>1. PICK w \in Calls : /\ call' = [call EXCEPT ![c] = w] /\ w.phase = "done"
                         /\ GoodCall(w, library, shelves, locked \cup restored)
    BY FailIs DEF DiskFull, InFlight, Codes
<1>2. Paid(w, call[c])
    BY <1>1 DEF Paid, Sends, DiskFull, answerFrame, ClientInv, Typed
<1> QED BY <1>1, <1>2, QuietStep DEF DiskFull, answerFrame, ClientInv, Typed

\* A create whose answer is lost is counted.
LEMMA UnsureIs ==
    ASSUME ClientInv, NEW c \in Callers,
           unsure' = IF call[c].step = "create" THEN [unsure EXCEPT ![Kind(c)] = @ + 1] ELSE unsure
    PROVE  /\ unsure' \in [Kinds -> Nat]
           /\ \A k \in Kinds : unsure'[k] >= unsure[k]
           /\ call[c].step = "create" => unsure'[Kind(c)] = unsure[Kind(c)] + 1
<1>1. unsure \in [Kinds -> Nat] /\ Kind(c) \in Kinds
    BY CallIs DEF ClientInv, Typed
<1> QED BY <1>1

LEMMA LoseAnswerKeeps == ASSUME ClientInv, NEW c \in Callers, LoseAnswer(c) PROVE ClientInv'
<1>1. PICK w \in Calls : /\ call' = [call EXCEPT ![c] = w] /\ w.phase \in {"send", "done"}
                         /\ GoodCall(w, library, shelves, locked \cup restored)
                         /\ w.step = call[c].step /\ w.job = call[c].job
    BY RetryIs DEF LoseAnswer, InFlight
<1>2. /\ unsure' \in [Kinds -> Nat]
      /\ \A k \in Kinds : unsure'[k] >= unsure[k]
      /\ call[c].step = "create" => unsure'[Kind(c)] = unsure[Kind(c)] + 1
    BY UnsureIs DEF LoseAnswer
<1>3. blind' = blind /\ blind \in [Kinds -> Nat] /\ unsure \in [Kinds -> Nat]
    BY DEF LoseAnswer, ClientInv, Typed
<1>4. \A k : Sends(w, k) => k = Kind(c) /\ call[c].step = "create"
    BY <1>1, CallIs DEF Sends
<1>5. Paid(w, call[c])
    <2> SUFFICES ASSUME NEW k \in Kinds
                 PROVE  /\ blind'[k] >= blind[k] /\ unsure'[k] >= unsure[k]
                        /\ \/ Sends(w, k) => Sends(call[c], k)
                           \/ blind'[k] + unsure'[k] >= blind[k] + unsure[k] + 1
        BY DEF Paid
    <2>1. blind[k] \in Nat /\ unsure[k] \in Nat /\ unsure'[k] \in Nat /\ blind'[k] = blind[k]
        BY <1>2, <1>3
    <2>2. Sends(w, k) => unsure'[k] = unsure[k] + 1
        BY <1>2, <1>4
    <2> QED BY <1>2, <2>1, <2>2
<1> QED BY <1>1, <1>2, <1>5, QuietStep DEF LoseAnswer, ClientInv, Typed

LEMMA GarbleKeeps == ASSUME ClientInv, NEW c \in Callers, Garble(c) PROVE ClientInv'
<1>1. PICK w \in Calls : /\ call' = [call EXCEPT ![c] = w] /\ w.phase = "done"
                         /\ GoodCall(w, library, shelves, locked \cup restored)
    BY FailIs DEF Garble, InFlight, Codes
<1>2. unsure' \in [Kinds -> Nat] /\ \A k \in Kinds : unsure'[k] >= unsure[k]
    BY UnsureIs DEF Garble
<1>3. Paid(w, call[c])
    BY <1>1, <1>2 DEF Paid, Sends, Garble, ClientInv, Typed
<1> QED BY <1>1, <1>2, <1>3, QuietStep DEF Garble, ClientInv, Typed

-----------------------------------------------------------------------------
(* Steps that begin a job or take it further.                               *)

\* A call that has returned, or has not yet been sent for a new request.
LEMMA NotWalking ==
    ASSUME NEW lib, NEW w, w.job # "walk", w.again <= w.arrived
    PROVE  Paced(lib, w)
BY DEF Paced

LEMMA StartKeeps == ASSUME ClientInv, NEW c \in Callers, Start(c) PROVE ClientInv'
<1>1. PICK v \in Calls : v = call[c] /\ GoodCall(v, library, shelves, locked \cup restored)
    BY CallIs
<1>2. PICK job \in Jobs[c], a \in Targets, size \in 0 .. MaxSize :
         call' = [call EXCEPT ![c] =
                    [v EXCEPT !.job = job, !.phase = "send", !.step = FirstStep(job), !.size = size,
                              !.asset = IF job = "walk" THEN NoAsset ELSE a,
                              !.stable = IF job = "walk" THEN Present ELSE {}]]
    BY <1>1 DEF Start, Set
<1> DEFINE asset == IF job = "walk" THEN NoAsset ELSE a
           stable == IF job = "walk" THEN Present ELSE {}
           w == [v EXCEPT !.job = job, !.phase = "send", !.step = FirstStep(job), !.size = size,
                          !.asset = asset, !.stable = stable]
<1>3. call' = [call EXCEPT ![c] = w]
    BY <1>2
<1>4. v = Fresh
    BY <1>1 DEF Start, GoodCall, Fits
<1>5. job \in JobNames /\ a \in Assets /\ size \in Nat
    BY ConstantsOK
<1>6. Present \subseteq Assets
    <2>1. \A i \in DOMAIN library : library[i] \in Assets
        BY ElementOfSeq DEF ClientInv, Typed
    <2> QED BY <2>1 DEF Present, ToSet
<1>7. asset \in Assets \cup {NoAsset} /\ stable \in SUBSET Assets /\ FirstStep(job) \in Steps
    BY <1>5, <1>6 DEF FirstStep, Steps
<1> HIDE DEF asset, stable
<1>8. w \in Calls
    BY <1>5, <1>7 DEF Calls, Phases
<1>9. /\ w.job = job /\ w.phase = "send" /\ w.step = FirstStep(job) /\ w.asset = asset
      /\ w.stable = stable /\ w.file = "absent" /\ w.code = "none" /\ w.page = 1 /\ w.seen = {}
      /\ w.again = 0 /\ w.removed = 0 /\ w.arrived = 0
    <2>1. /\ w.job = job /\ w.phase = "send" /\ w.step = FirstStep(job) /\ w.asset = asset
          /\ w.stable = stable /\ w.file = v.file /\ w.code = v.code /\ w.page = v.page
          /\ w.seen = v.seen /\ w.again = v.again /\ w.removed = v.removed /\ w.arrived = v.arrived
        BY DEF Calls
    <2> HIDE DEF w
    <2> QED BY <1>4, <2>1 DEF Fresh
<1> HIDE DEF w
<1>10. FirstStep(job) \in StepsOf(job) /\ FirstStep(job) \in {"search", "find", "visibility", "original"}
    BY <1>5 DEF FirstStep, StepsOf, JobNames
<1>11. Fits(w)
    BY <1>5, <1>9, <1>10 DEF Fits, asset, JobNames
<1>12. Shelved(w, shelves) /\ Honest(w, shelves, locked \cup restored)
    BY <1>9, <1>10 DEF Shelved, Honest
<1>13. Paced(library, w)
    <2>1. CASE job # "walk"
        BY <1>9, <2>1, NotWalking
    <2>2. CASE job = "walk"
        <3>1. Edge(w.page) = 0
            BY <1>9, ConstantsOK DEF Edge
        <3>2. Passed(library, 0) = {}
            <4>1. \A j \in DOMAIN library : ~ (j <= 0)
                BY DEF ClientInv, Typed
            <4> QED BY <4>1 DEF Passed
        <3>3. Cardinality({}) = 0
            BY FS_EmptySet
        <3>4. (w.stable \cap Passed(library, Edge(w.page))) \ w.seen = {}
              /\ w.seen \cap Ahead(library, Edge(w.page)) = {}
            BY <1>9, <3>1, <3>2
        <3>5. UpTo(library, Edge(w.page), w.seen, w.again, w)
            BY <1>9, <3>3, <3>4 DEF UpTo
        <3>6. w.stable \subseteq ToSet(library)
            BY <1>9, <2>2 DEF stable, Present
        <3> QED BY <1>9, <3>5, <3>6 DEF Paced
    <2> QED BY <2>1, <2>2
<1>14. Paid(w, call[c])
    BY <1>9, <1>10 DEF Paid, Sends, Start, ClientInv, Typed
<1>15. budget' \in [Callers -> 0 .. MaxJobs]
    BY ConstantsOK DEF Start, ClientInv, Typed
<1>16. GoodCall(w, library, shelves, locked \cup restored)
    BY <1>11, <1>12, <1>13 DEF GoodCall
<1>17. /\ UNCHANGED <<server, late, changes, lateCount>>
       /\ blind' \in [Kinds -> Nat] /\ unsure' \in [Kinds -> Nat]
    BY DEF Start, ClientInv, Typed
<1> QED BY <1>3, <1>8, <1>14, <1>15, <1>16, <1>17, QuietStep

LEMMA FreshIs ==
    /\ Fresh \in Calls
    /\ \A lib, sh, out : GoodCall(Fresh, lib, sh, out)
    /\ \A k : ~ Sends(Fresh, k)
<1>1. Fresh \in Calls
    BY ConstantsOK DEF Fresh, Calls, Phases, Steps, Codes
<1>2. /\ Fresh.phase = "idle" /\ Fresh.job = "none" /\ Fresh.code = "none" /\ Fresh.step = "search"
      /\ Fresh.again = 0 /\ Fresh.arrived = 0
    BY DEF Fresh
<1> QED BY <1>1, <1>2 DEF GoodCall, Fits, Shelved, Honest, Paced, Sends

LEMMA ForgetKeeps == ASSUME ClientInv, NEW c \in Callers, Forget(c) PROVE ClientInv'
<1>1. call' = [call EXCEPT ![c] = Fresh]
    BY DEF Forget, Set
<1>2. Paid(Fresh, call[c])
    BY FreshIs DEF Paid, Forget, ClientInv, Typed
<1> QED BY <1>1, <1>2, FreshIs, QuietStep DEF Forget, ClientInv, Typed

\* The next request of a job.
LEMMA NextRequest ==
    ASSUME NEW v \in Calls, NEW w \in Calls, NEW lib, NEW sh, NEW out, GoodCall(v, lib, sh, out),
           v.phase = "answer", v.job \in Kinds, w.phase = "send", w.code = v.code, w.file = v.file,
           w.step \in {"create", "add"}, w.asset = v.asset, w.id = v.id, SameWalk(v, w),
           w.step = "add" => v.id \in DOMAIN sh[KindOf(v.job)]
    PROVE  GoodCall(w, lib, sh, out)
<1>1. w.job = v.job /\ v.job # "walk" /\ w.again = v.again /\ w.arrived = v.arrived
    BY DEF SameWalk, Kinds
<1>2. v.code = "none" /\ v.file = "absent" /\ v.asset \in Assets
    BY <1>1 DEF GoodCall, Fits
<1>3. Paced(lib, w)
    BY <1>1 DEF GoodCall, Paced
<1>4. StepsOf(w.job) = {"find", "create", "add"} /\ w.job # "none"
    BY <1>1 DEF StepsOf, Kinds
<1>5. Fits(w)
    BY <1>1, <1>2, <1>4 DEF Fits
<1>6. Shelved(w, sh)
    BY <1>1 DEF Shelved
<1>7. Honest(w, sh, out)
    BY <1>2 DEF Honest
<1> QED BY <1>3, <1>5, <1>6, <1>7 DEF GoodCall

LEMMA ThenIs ==
    ASSUME ClientInv, NEW c \in Callers, call[c].phase = "answer", call[c].job \in Kinds,
           NEW step \in {"create", "add"}, Then(c, step, call[c]),
           step = "add" => call[c].id \in DOMAIN shelves[Kind(c)]
    PROVE  \E w \in Calls : /\ call' = [call EXCEPT ![c] = w] /\ w.phase = "send" /\ w.step = step
                            /\ w.job = call[c].job
                            /\ GoodCall(w, library, shelves, locked \cup restored)
<1>1. PICK v \in Calls : v = call[c] /\ GoodCall(v, library, shelves, locked \cup restored)
                         /\ Kind(c) = KindOf(v.job)
    BY CallIs
<1> DEFINE w == [v EXCEPT !.step = step, !.phase = "send", !.attempt = 0]
<1>2. call' = [call EXCEPT ![c] = w]
    <2>1. call' = [call EXCEPT ![c] = [call[c] EXCEPT !.step = step, !.phase = "send", !.attempt = 0]]
        BY DEF Then, Set
    <2>2. v = call[c]
        BY <1>1
    <2> QED BY <2>1, <2>2
<1>3. w \in Calls
    <2>1. step \in Steps /\ 0 \in 0 .. MaxRetries /\ "send" \in Phases
        BY ConstantsOK DEF Steps, Phases
    <2> QED BY <2>1 DEF Calls
<1>4. /\ w.phase = "send" /\ w.code = v.code /\ w.file = v.file /\ w.step = step
      /\ w.asset = v.asset /\ w.id = v.id /\ w.job = v.job /\ SameWalk(v, w)
    BY DEF Calls, SameWalk
<1> HIDE DEF w
<1> QED BY <1>1, <1>2, <1>3, <1>4, NextRequest

LEMMA FindKeeps ==
    ASSUME ClientInv, NEW c \in Callers, call[c].job \in Kinds, Find(c) PROVE ClientInv'
<1>1. Kind(c) \in Kinds /\ Kind(c) = KindOf(call[c].job) /\ blind \in [Kinds -> Nat]
      /\ unsure \in [Kinds -> Nat] /\ unsure' = unsure
    BY CallIs DEF ClientInv, Typed, Find, answerFrame
<1>2. call[c].id = 0 \/ call[c].id \in DOMAIN shelves[Kind(c)]
    BY <1>1 DEF Find, ClientInv, GoodCall, Shelved
<1>3. CASE call[c].id = 0
    <2>1. PICK w \in Calls : /\ call' = [call EXCEPT ![c] = w] /\ w.phase = "send" /\ w.step = "create"
                             /\ w.job = call[c].job
                             /\ GoodCall(w, library, shelves, locked \cup restored)
        BY <1>3, ThenIs DEF Find, CreateIfMissing
    <2>2. blind' = [blind EXCEPT ![Kind(c)] = @ + 1]
        BY <1>3 DEF Find
    <2>3. blind' \in [Kinds -> Nat] /\ blind'[Kind(c)] = blind[Kind(c)] + 1
          /\ \A k \in Kinds : blind'[k] >= blind[k]
        BY <1>1, <2>2
    <2>4. ASSUME NEW k \in Kinds, Sends(w, k) PROVE k = Kind(c)
        BY <1>1, <2>1, <2>4 DEF Sends
    <2>5. Paid(w, call[c])
        BY <1>1, <2>3, <2>4 DEF Paid
    <2> QED BY <1>1, <2>1, <2>3, <2>5, QuietStep DEF Find, answerFrame, ClientInv, Typed
<1>4. CASE call[c].id # 0
    <2>1. PICK w \in Calls : /\ call' = [call EXCEPT ![c] = w] /\ w.phase = "send" /\ w.step = "add"
                             /\ w.job = call[c].job
                             /\ GoodCall(w, library, shelves, locked \cup restored)
        BY <1>2, <1>4, ThenIs DEF Find, CreateIfMissing
    <2>2. blind' = blind
        BY <1>4 DEF Find
    <2>3. Paid(w, call[c])
        BY <1>1, <2>1, <2>2 DEF Paid, Sends
    <2> QED BY <1>1, <2>1, <2>2, <2>3, QuietStep DEF Find, answerFrame, ClientInv, Typed
<1> QED BY <1>3, <1>4

LEMMA CreateKeeps ==
    ASSUME ClientInv, NEW c \in Callers, call[c].job \in Kinds, Create(c) PROVE ClientInv'
<1>1. Kind(c) = KindOf(call[c].job)
    BY CallIs
<1>2. call[c].id \in DOMAIN shelves[Kind(c)]
    BY <1>1 DEF Create, ClientInv, GoodCall, Shelved
<1>3. PICK w \in Calls : /\ call' = [call EXCEPT ![c] = w] /\ w.phase = "send" /\ w.step = "add"
                         /\ w.job = call[c].job
                         /\ GoodCall(w, library, shelves, locked \cup restored)
    BY <1>2, ThenIs DEF Create
<1>4. Paid(w, call[c])
    BY <1>3 DEF Paid, Sends, Create, answerFrame, ClientInv, Typed
<1> QED BY <1>3, <1>4, QuietStep DEF Create, answerFrame, ClientInv, Typed


-----------------------------------------------------------------------------
(* The server acts.                                                         *)

LEMMA PresentIs == ASSUME Typed PROVE Present \subseteq Assets
<1>1. \A i \in DOMAIN library : library[i] \in Assets
    BY ElementOfSeq DEF Typed
<1> QED BY <1>1 DEF Present, ToSet

LEMMA EffectIs ==
    ASSUME Typed, NEW w, w.kind \in Kinds, Effect(w),
           w.step = "add" => w.id \in DOMAIN shelves[w.kind]
    PROVE  /\ library' = library /\ restored' = restored /\ locked' \subseteq Assets
           /\ shelves' \in [Kinds -> Seq(SUBSET Assets)] /\ Grows
           /\ \A k \in Kinds : Len(shelves'[k]) = IF w.step = "create" /\ w.kind = k
                                                 THEN Len(shelves[k]) + 1 ELSE Len(shelves[k])
           /\ w.step = "create" => Len(shelves'[w.kind]) \in DOMAIN shelves'[w.kind]
           /\ w.step = "add" /\ w.asset \in Present =>
                w.id \in DOMAIN shelves'[w.kind] /\ w.asset \in shelves'[w.kind][w.id]
           /\ w.step = "visibility" /\ w.asset \in Present => w.asset \in locked'
<1>1. library' = library /\ restored' = restored
    BY DEF Effect
<1>2. /\ locked' \subseteq Assets /\ locked \cup restored \subseteq locked' \cup restored'
      /\ w.step = "visibility" /\ w.asset \in Present => w.asset \in locked'
    BY PresentIs DEF Effect, Typed
<1>3. shelves \in [Kinds -> Seq(SUBSET Assets)]
    BY DEF Typed
<1>4. PICK s : s = shelves[w.kind]
    OBVIOUS
<1>5. s \in Seq(SUBSET Assets)
    BY <1>3, <1>4
<1>6. CASE w.step = "create"
    <2>1. shelves' = [shelves EXCEPT ![w.kind] = Append(s, {})]
        BY <1>4, <1>6 DEF Effect
    <2>2. PICK t : t = Append(s, {})
        OBVIOUS
    <2>3. /\ t \in Seq(SUBSET Assets) /\ Len(t) = Len(s) + 1
          /\ \A i \in 1 .. Len(s) : t[i] = s[i]
        BY <1>5, <2>2, AppendProperties
    <2>4. shelves'[w.kind] = t /\ \A k \in Kinds : k # w.kind => shelves'[k] = shelves[k]
        BY <1>3, <2>1, <2>2
    <2>5. shelves' \in [Kinds -> Seq(SUBSET Assets)]
        BY <1>3, <2>1, <2>2, <2>3
    <2>6. PICK n \in Nat : n = Len(s)
        BY <1>5
    <2>7. DOMAIN s = 1 .. n /\ DOMAIN t = 1 .. (n + 1) /\ n + 1 \in 1 .. (n + 1)
        BY <1>5, <2>3, <2>6
    <2>8. DOMAIN s \subseteq DOMAIN t /\ \A i \in DOMAIN s : s[i] = t[i]
        BY <2>3, <2>6, <2>7
    <2>9. Grows
        BY <1>2, <1>4, <2>4, <2>8 DEF Grows
    <2>10. Len(shelves'[w.kind]) \in DOMAIN shelves'[w.kind]
        BY <2>3, <2>4, <2>6, <2>7
    <2>11. \A k \in Kinds : Len(shelves'[k]) = IF w.kind = k THEN Len(shelves[k]) + 1
                                                             ELSE Len(shelves[k])
        BY <1>4, <2>3, <2>4
    <2> QED BY <1>1, <1>2, <1>6, <2>5, <2>9, <2>10, <2>11
<1>7. CASE w.step = "add" /\ w.asset \in Present
    <2>1. PICK u : u = s[w.id] \cup {w.asset}
        OBVIOUS
    <2>2. s[w.id] \subseteq Assets /\ u \subseteq Assets /\ w.id \in DOMAIN s
        BY <1>4, <1>5, <1>7, <2>1, ElementOfSeq, PresentIs
    <2>3. PICK t : t = [s EXCEPT ![w.id] = u]
        OBVIOUS
    <2>4. shelves' = [shelves EXCEPT ![w.kind] = t]
        BY <1>4, <1>7, <2>1, <2>3 DEF Effect
    <2>5. t \in Seq(SUBSET Assets) /\ Len(t) = Len(s) /\ DOMAIN t = DOMAIN s
          /\ t[w.id] = u /\ \A i \in DOMAIN s : i # w.id => t[i] = s[i]
        <3>1. u \in SUBSET Assets
            BY <2>2
        <3> QED BY <1>5, <2>2, <2>3, <3>1
    <2>6. shelves'[w.kind] = t /\ \A k \in Kinds : k # w.kind => shelves'[k] = shelves[k]
        BY <1>3, <2>4
    <2>7. shelves' \in [Kinds -> Seq(SUBSET Assets)]
        BY <1>3, <2>4, <2>5
    <2>8. Grows
        <3>1. \A i \in DOMAIN s : s[i] \subseteq t[i]
            BY <2>1, <2>5
        <3> QED BY <1>2, <1>4, <2>5, <2>6, <3>1 DEF Grows
    <2>9. \A k \in Kinds : Len(shelves'[k]) = Len(shelves[k])
        BY <1>4, <2>5, <2>6
    <2>10. w.id \in DOMAIN shelves'[w.kind] /\ w.asset \in shelves'[w.kind][w.id]
        BY <2>1, <2>2, <2>5, <2>6
    <2> QED BY <1>1, <1>2, <1>7, <2>7, <2>8, <2>9, <2>10
<1>8. CASE w.step # "create" /\ ~ (w.step = "add" /\ w.asset \in Present)
    <2>1. shelves' = shelves
        BY <1>8 DEF Effect
    <2>2. Grows
        BY <1>2, <2>1 DEF Grows
    <2> QED BY <1>1, <1>2, <1>3, <1>8, <2>1, <2>2
<1> QED BY <1>6, <1>7, <1>8

\* What is true of a write a call sends.
LEMMA WriteIs ==
    ASSUME ClientInv, NEW c \in Callers
    PROVE  /\ Write(c).step = call[c].step /\ Write(c).kind = Kind(c) /\ Write(c).kind \in Kinds
           /\ Write(c).id = call[c].id /\ Write(c).asset = call[c].asset
           /\ Write(c).step = "add" => Write(c).id \in DOMAIN shelves[Write(c).kind]
<1>1. /\ Write(c).step = call[c].step /\ Write(c).kind = Kind(c)
      /\ Write(c).id = call[c].id /\ Write(c).asset = call[c].asset
    BY DEF Write
<1> QED BY <1>1, CallIs DEF GoodCall, Shelved

\* An attempt that is served: the request is no longer about to be sent.
LEMMA ServeStep ==
    ASSUME ClientInv, NEW c \in Callers, call[c].phase = "send", Effect(Write(c)),
           UNCHANGED <<late, budget, changes, lateCount, blind, unsure>>,
           NEW w \in Calls, call' = [call EXCEPT ![c] = w], w.phase # "send",
           GoodCall(w, library, shelves', locked' \cup restored')
    PROVE  ClientInv'
<1>1. Typed
    BY DEF ClientInv
<1>2. /\ library' = library /\ restored' = restored /\ locked' \subseteq Assets
      /\ shelves' \in [Kinds -> Seq(SUBSET Assets)] /\ Grows
      /\ \A k \in Kinds : Len(shelves'[k]) = IF call[c].step = "create" /\ Kind(c) = k
                                            THEN Len(shelves[k]) + 1 ELSE Len(shelves[k])
    BY <1>1, EffectIs, WriteIs
<1>3. /\ call' \in [Callers -> Calls]
      /\ \A d \in Callers : GoodCall(call[d], library, shelves, locked \cup restored)'
    BY <1>2, OneCall
<1>4. Typed'
    BY <1>1, <1>2, <1>3 DEF Typed
<1>5. LateFits'
    <2>1. \A x \in late : x[2].kind \in Kinds
        BY <1>1 DEF Typed, Writes
    <2> QED BY <1>2, <2>1 DEF ClientInv, LateFits, Grows
<1>6. ASSUME NEW k \in Kinds PROVE Accounted(k)'
    <2>1. LateCreates(k)' = LateCreates(k)
        BY DEF LateCreates
    <2>2. Accounted(k) /\ blind[k] \in Nat /\ unsure[k] \in Nat
        BY <1>1 DEF ClientInv, Typed
    <2>3. PICK l \in Nat : l = Len(shelves[k])
        BY <1>1 DEF Typed
    <2>4. PICK m \in Nat : m = Cardinality(LateCreates(k))
        BY <1>1, LateFinite
    <2>5. ~ Sends(w, k)
        BY DEF Sends
    <2>6. Sends(call[c], k) <=> call[c].step = "create" /\ Kind(c) = k
        BY CallIs DEF Sends
    <2>7. PICK p \in Nat, q \in Nat :
             /\ p = Cardinality(Creating(k)) /\ q = Cardinality(Creating(k))'
             /\ q <= p /\ (Sends(call[c], k) => q = p - 1)
        BY <1>1, <2>5, CreatingMoves
    <2>8. l + p + m <= blind[k] + unsure[k]
        BY <2>2, <2>3, <2>4, <2>7 DEF Accounted
    <2>9. PICK n \in Nat : n = Len(shelves'[k]) /\ n = IF Sends(call[c], k) THEN l + 1 ELSE l
        BY <1>2, <2>3, <2>6
    <2>10. n + q + m <= blind[k] + unsure[k]
        BY <2>2, <2>7, <2>8, <2>9
    <2> QED BY <2>1, <2>4, <2>7, <2>9, <2>10 DEF Accounted
<1> QED BY <1>3, <1>4, <1>5, <1>6 DEF ClientInv

\* A page of the search: the walk as it will be once the answer is read.
LEMMA PageRead ==
    ASSUME Typed, NEW v \in Calls, v.job = "walk", v.phase # "done", Paced(library, v),
           NEW w, SameWalk(v, w), w.items = PageItems(v.page), w.next = NextPage(v.page),
           w.phase = "answer", w.code = "none"
    PROVE  Paced(library, w)
<1>1. w.job = v.job /\ w.page = v.page /\ w.seen = v.seen /\ w.again = v.again
      /\ w.stable = v.stable /\ w.removed = v.removed /\ w.arrived = v.arrived
    BY DEF SameWalk
<1>2. /\ v.page \in Nat \ {0} /\ v.seen \subseteq Assets /\ v.stable \subseteq Assets
      /\ v.again \in Nat /\ v.removed \in Nat /\ v.arrived \in Nat
    BY DEF Calls
<1>3. /\ v.stable \subseteq ToSet(library) /\ UpTo(library, Edge(v.page), v.seen, v.again, v)
      /\ v.again <= v.arrived
    BY DEF Paced
<1> DEFINE d == Edge(v.page)
           e == Edge(v.page + 1)
           items == PageItems(v.page)
<1>4. /\ items \subseteq Assets
      /\ Passed(library, e) = Passed(library, d) \cup items
      /\ Ahead(library, d) = Ahead(library, e) \cup items
      /\ Ahead(library, e) \cap items = {}
      /\ NextPage(v.page) \in {0, v.page + 1}
      /\ NextPage(v.page) = 0 => Passed(library, e) = ToSet(library)
    BY <1>2, Paging
<1> HIDE DEF items, d, e
<1>5. PICK read : read = v.seen \cup items
    OBVIOUS
<1>6. PICK more \in Nat : more = Cardinality(v.seen \cap items)
    BY <1>2, FiniteAssets
<1>7. Read(w) = read /\ ReadAgain(w) = v.again + more
    BY <1>1, <1>5, <1>6 DEF Read, ReadAgain, items
<1>8. \A S : (S \subseteq (v.stable \cap Passed(library, d)) \ v.seen) => Cardinality(S) <= v.removed
    <2>1. (v.stable \cap Passed(library, d)) \ v.seen \subseteq Assets
        BY <1>2
    <2>2. Cardinality((v.stable \cap Passed(library, d)) \ v.seen) <= v.removed
        BY <1>3 DEF UpTo, d
    <2> TAKE S
    <2> HAVE S \subseteq (v.stable \cap Passed(library, d)) \ v.seen
    <2> QED BY <1>2, <2>1, <2>2, NoMore
<1>9. PICK back \in Nat : /\ back = Cardinality(v.seen \cap Ahead(library, d))
                          /\ v.again + back <= v.arrived
    <2>1. Cardinality(v.seen \cap Ahead(library, d)) \in Nat
        BY <1>2, FiniteAssets
    <2> QED BY <1>3, <2>1 DEF UpTo, d
<1>10. PICK rest \in Nat : rest = Cardinality(read \cap Ahead(library, e)) /\ more + rest = back
    <2>1. read \cap Ahead(library, e) = v.seen \cap Ahead(library, e)
        BY <1>4, <1>5
    <2>2. v.seen \cap Ahead(library, d) = (v.seen \cap items) \cup (v.seen \cap Ahead(library, e))
        BY <1>4
    <2>3. (v.seen \cap items) \cap (v.seen \cap Ahead(library, e)) = {}
        BY <1>4
    <2>4. IsFiniteSet(v.seen \cap items) /\ IsFiniteSet(v.seen \cap Ahead(library, e))
          /\ Cardinality(v.seen \cap Ahead(library, e)) \in Nat
        BY <1>2, FiniteAssets
    <2>5. Cardinality((v.seen \cap items) \cup (v.seen \cap Ahead(library, e))) =
             Cardinality(v.seen \cap items) + Cardinality(v.seen \cap Ahead(library, e))
               - Cardinality((v.seen \cap items) \cap (v.seen \cap Ahead(library, e)))
        BY <2>4, FS_Union
    <2>6. PICK r \in Nat : r = Cardinality(v.seen \cap Ahead(library, e))
        BY <2>4
    <2>7. Cardinality((v.seen \cap items) \cap (v.seen \cap Ahead(library, e))) = 0
        BY <2>3, FS_EmptySet
    <2>8. Cardinality((v.seen \cap items) \cup (v.seen \cap Ahead(library, e))) = back
        BY <1>9, <2>2
    <2>9. back = more + r - 0
        BY <1>6, <2>5, <2>6, <2>7, <2>8
    <2>10. r = Cardinality(read \cap Ahead(library, e))
        BY <2>1, <2>6
    <2>11. more + r = back
        BY <1>6, <1>9, <2>6, <2>9
    <2> QED BY <2>6, <2>10, <2>11
<1>11. UpTo(library, e, read, v.again + more, w)
    <2>1. (w.stable \cap Passed(library, e)) \ read \subseteq (v.stable \cap Passed(library, d)) \ v.seen
        BY <1>1, <1>4, <1>5
    <2> QED BY <1>1, <1>2, <1>8, <1>9, <1>10, <2>1 DEF UpTo
<1>12. ASSUME NextPage(v.page) = 0 PROVE AtEnd(read, v.again + more, w)
    <2>1. w.stable \ read \subseteq (v.stable \cap Passed(library, d)) \ v.seen
        BY <1>1, <1>3, <1>4, <1>5, <1>12
    <2> QED BY <1>1, <1>2, <1>8, <1>9, <1>10, <2>1 DEF AtEnd
<1>13. w.next # 0 => Edge(w.next) = e
    BY <1>4 DEF e
<1>14. UpTo(library, Edge(w.page), w.seen, w.again, w)
    BY <1>1, <1>3 DEF UpTo
<1> QED BY <1>1, <1>3, <1>7, <1>11, <1>12, <1>13, <1>14 DEF Paced

LEMMA ServeKeeps == ASSUME ClientInv, NEW c \in Callers, Serve(c) PROVE ClientInv'
<1>1. PICK v \in Calls : /\ v = call[c] /\ GoodCall(v, library, shelves, locked \cup restored)
                         /\ Kind(c) = KindOf(v.job) /\ Kind(c) \in Kinds
    BY CallIs
<1>2. Typed /\ Effect(Write(c)) /\ v.phase = "send"
      /\ UNCHANGED <<late, budget, changes, lateCount, blind, unsure>>
    BY <1>1 DEF ClientInv, Serve
<1>3. /\ Grows /\ locked \cup restored \subseteq locked' \cup restored'
      /\ v.step = "create" => Len(shelves'[Kind(c)]) \in DOMAIN shelves'[Kind(c)]
      /\ v.step = "add" /\ v.asset \in Present =>
           v.id \in DOMAIN shelves'[Kind(c)] /\ v.asset \in shelves'[Kind(c)][v.id]
      /\ v.step = "visibility" /\ v.asset \in Present => v.asset \in locked'
      /\ shelves' \in [Kinds -> Seq(SUBSET Assets)]
    BY <1>1, <1>2, EffectIs, WriteIs DEF Grows
<1>4. PICK out : out = locked' \cup restored'
    OBVIOUS
<1>5. GoodCall(v, library, shelves', out)
    BY <1>1, <1>3, <1>4, StillGood
<1>6. v.code = "none" /\ v.job # "none" /\ v.step \in StepsOf(v.job) /\ v.file = "absent"
      /\ (v.job = "walk" \/ v.asset \in Assets)
    BY <1>2, <1>5 DEF GoodCall, Fits
<1>7. SUFFICES \E w \in Calls : /\ call' = [call EXCEPT ![c] = w] /\ w.phase # "send"
                                /\ GoodCall(w, library, shelves', out)
    BY <1>1, <1>2, <1>4, ServeStep
\* What is asked of the answer of a request that is not a page.
<1>8. ASSUME NEW w \in Calls, v.step \in {"find", "create", "add", "visibility"},
             w.phase = "answer", w.code = v.code, w.file = v.file, w.step = v.step,
             w.asset = v.asset, SameWalk(v, w), Shelved(w, shelves'),
             w.acted => /\ w.step = "add" => OnShelf(w, shelves')
                        /\ w.step = "visibility" => w.asset \in out
      PROVE  GoodCall(w, library, shelves', out)
    <2>1. w.job = v.job /\ w.again = v.again /\ w.arrived = v.arrived
        BY <1>8 DEF SameWalk
    <2>2. v.job # "walk"
        BY <1>6, <1>8 DEF StepsOf
    <2>3. Paced(library, w)
        BY <1>5, <2>1, <2>2, NotWalking DEF GoodCall, Paced
    <2>4. Fits(w)
        BY <1>2, <1>6, <1>8, <2>1 DEF Fits
    <2>5. Honest(w, shelves', out)
        BY <1>6, <1>8 DEF Honest
    <2> QED BY <1>8, <2>3, <2>4, <2>5 DEF GoodCall
<1>9. CASE v.step = "search"
    <2> DEFINE w == [v EXCEPT !.phase = "answer", !.items = PageItems(v.page), !.next = NextPage(v.page)]
    <2>1. call' = [call EXCEPT ![c] = w]
        <3>1. Set(c, [call[c] EXCEPT !.phase = "answer", !.items = PageItems(call[c].page),
                                     !.next = NextPage(call[c].page)])
            BY <1>1, <1>9 DEF Serve
        <3> QED BY <1>1, <3>1 DEF Set
    <2>2. PageItems(v.page) \subseteq Assets /\ NextPage(v.page) \in Nat
        <3>1. v.page \in Nat \ {0}
            BY DEF Calls
        <3>2. PageItems(v.page) \subseteq Assets /\ NextPage(v.page) \in {0, v.page + 1}
            BY <1>2, <3>1, Paging
        <3> QED BY <3>1, <3>2
    <2>3. w \in Calls
        BY <2>2 DEF Calls, Phases
    <2>4. /\ w.phase = "answer" /\ w.items = PageItems(v.page) /\ w.next = NextPage(v.page)
          /\ w.code = v.code /\ w.file = v.file /\ w.step = v.step /\ w.asset = v.asset
          /\ SameWalk(v, w) /\ w.job = v.job
        BY DEF Calls, SameWalk
    <2> HIDE DEF w
    <2>5. v.job = "walk"
        BY <1>6, <1>9 DEF StepsOf
    <2>6. Paced(library, w)
        BY <1>2, <1>5, <1>6, <2>4, <2>5, PageRead DEF GoodCall
    <2>7. Fits(w)
        BY <1>6, <1>9, <2>4, <2>5 DEF Fits
    <2>8. Shelved(w, shelves') /\ Honest(w, shelves', out)
        BY <1>6, <1>9, <2>4 DEF Shelved, Honest
    <2> QED BY <2>1, <2>3, <2>4, <2>6, <2>7, <2>8 DEF GoodCall
<1>10. CASE v.step = "find"
    <2>1. PICK i \in IF shelves[Kind(c)] = <<>> THEN {0} ELSE DOMAIN shelves[Kind(c)] :
             call' = [call EXCEPT ![c] = [v EXCEPT !.phase = "answer", !.id = i]]
        BY <1>1, <1>10 DEF Serve, Set
    <2>2. i \in Nat /\ i \in DOMAIN shelves[Kind(c)] \cup {0}
        <3>1. shelves[Kind(c)] \in Seq(SUBSET Assets)
            BY <1>1, <1>2 DEF Typed
        <3> QED BY <2>1, <3>1
    <2> DEFINE w == [v EXCEPT !.phase = "answer", !.id = i]
    <2>3. w \in Calls
        BY <2>2 DEF Calls, Phases
    <2>4. /\ w.phase = "answer" /\ w.id = i /\ w.code = v.code /\ w.file = v.file /\ w.step = v.step
          /\ w.asset = v.asset /\ SameWalk(v, w) /\ w.job = v.job
        BY DEF Calls, SameWalk
    <2>5. call' = [call EXCEPT ![c] = w]
        BY <2>1
    <2> HIDE DEF w
    <2>6. Shelved(w, shelves')
        BY <1>1, <1>3, <1>10, <2>2, <2>4 DEF Shelved, Grows
    <2> QED BY <1>8, <1>10, <2>3, <2>4, <2>5, <2>6
<1>11. CASE v.step = "create"
    <2>1. PICK i : i = Len(shelves'[Kind(c)])
        OBVIOUS
    <2>2. i \in Nat /\ i \in DOMAIN shelves'[Kind(c)]
        BY <1>1, <1>3, <1>11, <2>1
    <2> DEFINE w == [v EXCEPT !.phase = "answer", !.id = i]
    <2>3. w \in Calls
        BY <2>2 DEF Calls, Phases
    <2>4. /\ w.phase = "answer" /\ w.id = i /\ w.code = v.code /\ w.file = v.file /\ w.step = v.step
          /\ w.asset = v.asset /\ SameWalk(v, w) /\ w.job = v.job
        BY DEF Calls, SameWalk
    <2>5. call' = [call EXCEPT ![c] = w]
        BY <1>1, <1>11, <2>1 DEF Serve, Set
    <2> HIDE DEF w
    <2>6. Shelved(w, shelves')
        BY <1>1, <1>11, <2>2, <2>4 DEF Shelved
    <2> QED BY <1>8, <1>11, <2>3, <2>4, <2>5, <2>6
<1>12. CASE v.step \in {"add", "visibility"}
    <2> DEFINE b == v.asset \in Present
    <2>1. b \in BOOLEAN
        OBVIOUS
    <2> DEFINE w == [v EXCEPT !.phase = "answer", !.acted = b]
    <2>2. w \in Calls
        BY <2>1 DEF Calls, Phases
    <2>3. /\ w.phase = "answer" /\ w.acted = b /\ w.id = v.id /\ w.code = v.code /\ w.file = v.file
          /\ w.step = v.step /\ w.asset = v.asset /\ SameWalk(v, w) /\ w.job = v.job
        BY DEF Calls, SameWalk
    <2>4. call' = [call EXCEPT ![c] = w]
        <3>1. Set(c, [call[c] EXCEPT !.phase = "answer", !.acted = call[c].asset \in Present])
            BY <1>1, <1>12 DEF Serve
        <3> QED BY <1>1, <2>1, <3>1 DEF Set
    <2> HIDE DEF w
    <2>5. Shelved(w, shelves')
        BY <1>5, <1>12, <2>3 DEF Shelved, GoodCall
    <2>6. w.acted => /\ w.step = "add" => OnShelf(w, shelves')
                     /\ w.step = "visibility" => w.asset \in out
        BY <1>1, <1>3, <1>4, <2>1, <2>3 DEF OnShelf
    <2> QED BY <1>8, <1>12, <2>2, <2>3, <2>4, <2>5, <2>6
<1>13. CASE v.step = "original" /\ v.asset \in Present
    <2> DEFINE w == [v EXCEPT !.phase = "stream", !.file = "partial", !.total = 0]
    <2>1. w \in Calls
        BY DEF Calls, Phases
    <2>2. /\ w.phase = "stream" /\ w.total = 0 /\ w.code = v.code /\ w.size = v.size
          /\ w.step = v.step /\ w.asset = v.asset /\ SameWalk(v, w) /\ w.job = v.job
        BY DEF Calls, SameWalk
    <2>3. call' = [call EXCEPT ![c] = w]
        BY <1>1, <1>13 DEF Serve, Set
    <2> HIDE DEF w
    <2>4. v.job # "walk" /\ v.size \in Nat
        BY <1>6, <1>13 DEF StepsOf, Calls
    <2>5. w.again <= w.arrived
        BY <1>5, <2>2 DEF GoodCall, Paced, SameWalk
    <2>6. Paced(library, w)
        BY <2>2, <2>4, <2>5, NotWalking
    <2>7. Fits(w)
        BY <1>6, <1>13, <2>2, <2>4 DEF Fits
    <2>8. 0 <= v.size /\ 0 <= MaxBytes
        BY <2>4, ConstantsOK
    <2>9. Honest(w, shelves', out)
        BY <1>6, <2>2, <2>8 DEF Honest
    <2>10. Shelved(w, shelves')
        BY <1>13, <2>2 DEF Shelved
    <2> QED BY <2>1, <2>2, <2>3, <2>6, <2>7, <2>9, <2>10 DEF GoodCall
<1>14. CASE v.step = "original" /\ v.asset \notin Present
    <2> DEFINE w == [v EXCEPT !.phase = "done", !.code = "refused", !.file = "absent"]
    <2>1. w \in Calls
        BY DEF Calls, Phases, Codes
    <2>2. /\ w.phase = "done" /\ w.code = "refused" /\ w.file = "absent"
          /\ w.step = v.step /\ w.asset = v.asset /\ w.id = v.id /\ SameWalk(v, w)
        BY DEF Calls, SameWalk
    <2>3. call' = [call EXCEPT ![c] = w]
        BY <1>1, <1>14 DEF Serve, Set, FailDownload
    <2> HIDE DEF w
    <2>4. GoodCall(w, library, shelves', out)
        BY <1>2, <1>5, <2>1, <2>2, Ends DEF InFlight
    <2> QED BY <2>1, <2>2, <2>3, <2>4
<1> QED BY <1>9, <1>10, <1>11, <1>12, <1>13, <1>14 DEF Calls, Steps

\* A request that is given up may still be on its way; a create that is has been counted.
LEMMA LoseRequestKeeps == ASSUME ClientInv, NEW c \in Callers, LoseRequest(c) PROVE ClientInv'
<1>1. PICK w \in Calls : /\ call' = [call EXCEPT ![c] = w] /\ w.phase \in {"send", "done"}
                         /\ GoodCall(w, library, shelves, locked \cup restored)
                         /\ w.step = call[c].step /\ w.job = call[c].job
    BY RetryIs DEF LoseRequest, InFlight
<1>2. Typed /\ call[c].phase = "send" /\ UNCHANGED <<server, budget, changes, blind>>
    BY DEF LoseRequest, ClientInv
<1>3. \A k : Sends(w, k) => Sends(call[c], k)
    BY <1>1, <1>2 DEF Sends
<1>4. CASE UNCHANGED <<late, lateCount>>
    <2>1. unsure' = unsure
        BY <1>4 DEF LoseRequest
    <2>2. Paid(w, call[c])
        BY <1>2, <1>3, <2>1 DEF Paid, Typed
    <2> QED BY <1>1, <1>2, <1>4, <2>1, <2>2, QuietStep DEF Typed
<1>5. CASE /\ call[c].step \in {"create", "add", "visibility"} /\ lateCount < MaxLate
           /\ late' = late \cup {<<lateCount, Write(c)>>} /\ lateCount' = lateCount + 1
    <2>1. PICK x : x = Write(c)
        OBVIOUS
    <2>2. /\ x.step = call[c].step /\ x.kind = Kind(c) /\ x.kind \in Kinds
          /\ x.id = call[c].id /\ x.asset = call[c].asset
          /\ x.step = "add" => x.id \in DOMAIN shelves[x.kind]
        BY <2>1, WriteIs
    <2>3. lateCount \in Nat /\ lateCount' # lateCount /\ lateCount' \in 0 .. MaxLate
        BY <1>2, <1>5, ConstantsOK DEF Typed
    <2>4. call[c].asset \in Assets /\ call[c].id \in Nat
        BY <1>2, <1>5, CallIs DEF GoodCall, Fits, StepsOf, Calls
    <2>5. x \in Writes
        BY <1>5, <2>1, <2>2, <2>4 DEF Writes, Write
    <2>6. PICK y : y = <<lateCount, x>>
        OBVIOUS
    <2>7. late' = late \cup {y} /\ y[2] = x /\ y \in Nat \X Writes
        BY <1>5, <2>1, <2>3, <2>5, <2>6
    <2>8. late' \subseteq Nat \X Writes /\ IsFiniteSet(late')
        BY <1>2, <2>7, FS_AddElement DEF Typed
    <2>9. unsure' = IF call[c].step = "create" THEN [unsure EXCEPT ![Kind(c)] = @ + 1] ELSE unsure
        BY <2>3 DEF LoseRequest
    <2>10. unsure' \in [Kinds -> Nat] /\ \A k \in Kinds : unsure'[k] =
              IF call[c].step = "create" /\ k = Kind(c) THEN unsure[k] + 1 ELSE unsure[k]
        BY <1>2, <2>9, CallIs DEF Typed
    <2>11. Grows
        BY <1>2 DEF Grows, server
    <2>12. /\ call' \in [Callers -> Calls]
           /\ \A d \in Callers : GoodCall(call[d], library, shelves, locked \cup restored)'
        BY <1>1, <1>2, <2>11, OneCall DEF server
    <2>13. Typed'
        BY <1>2, <2>3, <2>8, <2>10, <2>12 DEF Typed, server
    <2>14. LateFits'
        BY <1>2, <2>2, <2>7 DEF LateFits, ClientInv, server
    <2>15. ASSUME NEW k \in Kinds PROVE Accounted(k)'
        <3>1. PICK l \in Nat : l = Len(shelves[k]) /\ l = Len(shelves'[k])
            BY <1>2 DEF Typed, server
        <3>2. PICK m \in Nat : m = Cardinality(LateCreates(k)) /\ IsFiniteSet(LateCreates(k))
            BY <1>2, LateFinite
        <3>3. PICK p \in Nat, q \in Nat :
                 p = Cardinality(Creating(k)) /\ q = Cardinality(Creating(k))' /\ q <= p
            BY <1>1, <1>2, <1>3, CreatingMoves
        <3>4. blind[k] \in Nat /\ unsure[k] \in Nat /\ blind'[k] = blind[k]
            BY <1>2 DEF Typed
        <3>5. l + p + m <= blind[k] + unsure[k]
            BY <3>1, <3>2, <3>3 DEF Accounted, ClientInv
        <3>6. CASE call[c].step = "create" /\ k = Kind(c)
            <4>1. LateCreates(k)' = LateCreates(k) \cup {y}
                BY <2>2, <2>7, <3>6 DEF LateCreates
            <4>2. PICK n \in Nat : n = Cardinality(LateCreates(k)') /\ n <= m + 1
                <5>1. Cardinality(LateCreates(k) \cup {y}) =
                         IF y \in LateCreates(k) THEN m ELSE m + 1
                    BY <3>2, FS_AddElement
                <5> QED BY <3>2, <4>1, <5>1
            <4>3. unsure'[k] = unsure[k] + 1
                BY <2>10, <3>6
            <4>4. l + q + n <= blind'[k] + unsure'[k]
                BY <3>3, <3>4, <3>5, <4>2, <4>3
            <4> QED BY <3>1, <3>3, <4>2, <4>4 DEF Accounted
        <3>7. CASE ~ (call[c].step = "create" /\ k = Kind(c))
            <4>1. LateCreates(k)' = LateCreates(k)
                BY <2>2, <2>7, <3>7 DEF LateCreates
            <4>2. unsure'[k] = unsure[k]
                BY <2>10, <3>7
            <4>3. l + q + m <= blind'[k] + unsure'[k]
                BY <3>3, <3>4, <3>5, <4>2
            <4> QED BY <3>1, <3>2, <3>3, <4>1, <4>3 DEF Accounted
        <3> QED BY <3>6, <3>7
    <2> QED BY <2>12, <2>13, <2>14, <2>15 DEF ClientInv
<1> QED BY <1>4, <1>5 DEF LoseRequest

\* A walk that has read a page returns, or asks for the next one.
LEMMA ListAssetsKeeps == ASSUME ClientInv, NEW c \in Callers, ListAssets(c) PROVE ClientInv'
<1>1. PICK v \in Calls : v = call[c] /\ GoodCall(v, library, shelves, locked \cup restored)
    BY CallIs
<1>2. v.phase = "answer" /\ v.step = "search"
    BY <1>1 DEF ListAssets
<1>3. v.job = "walk" /\ v.code = "none" /\ v.file = "absent"
    BY <1>1, <1>2 DEF GoodCall, Fits, StepsOf
<1>4. /\ v.stable \subseteq ToSet(library) /\ v.again <= v.arrived
      /\ v.next # 0 => UpTo(library, Edge(v.next), Read(v), ReadAgain(v), v)
      /\ v.next = 0 => AtEnd(Read(v), ReadAgain(v), v)
    BY <1>1, <1>2, <1>3 DEF GoodCall, Paced
<1>5. PICK read \in SUBSET Assets, again \in Nat : read = Read(v) /\ again = ReadAgain(v)
    <2>1. Read(v) \subseteq Assets /\ v.again \in Nat /\ v.seen \cap v.items \subseteq Assets
        BY DEF Read, Calls
    <2>2. ReadAgain(v) \in Nat
        BY <2>1, FiniteAssets DEF ReadAgain
    <2> QED BY <2>1, <2>2
<1> DEFINE got == [v EXCEPT !.seen = read, !.items = {}, !.next = 0, !.again = again]
<1>6. got = [call[c] EXCEPT !.seen = @ \cup call[c].items, !.items = {}, !.next = 0,
                     !.again = @ + Cardinality(call[c].seen \cap call[c].items)]
    BY <1>1, <1>5 DEF Read, ReadAgain
<1>7. IF v.next = 0 THEN Return(c, got) ELSE Then(c, "search", [got EXCEPT !.page = v.next])
    BY <1>1, <1>6 DEF ListAssets, PageAfter
<1>8. \A w : w.phase # "send" \/ w.step # "create" => Paid(w, v)
    BY DEF Paid, Sends, ListAssets, answerFrame, ClientInv, Typed
<1>9. CASE v.next = 0
    <2> DEFINE w == [got EXCEPT !.phase = "done", !.code = "ok"]
    <2>1. call' = [call EXCEPT ![c] = w]
        BY <1>7, <1>9 DEF Return, Set
    <2>2. w \in Calls
        BY DEF Calls, Phases, Codes
    <2>3. /\ w.job = "walk" /\ w.phase = "done" /\ w.code = "ok" /\ w.step = "search"
          /\ w.file = "absent" /\ w.seen = read /\ w.again = again /\ w.stable = v.stable
          /\ w.removed = v.removed /\ w.arrived = v.arrived
        BY <1>2, <1>3 DEF Calls
    <2> HIDE DEF w, got
    <2>4. AtEnd(read, again, w) /\ again <= v.arrived
        BY <1>4, <1>5, <1>9, <2>3 DEF AtEnd
    <2>5. Paced(library, w)
        BY <2>3, <2>4 DEF Paced
    <2>6. Fits(w) /\ Shelved(w, shelves) /\ Honest(w, shelves, locked \cup restored)
        BY <2>3 DEF Fits, StepsOf, Shelved, Honest, Kinds
    <2>7. Paid(w, v)
        BY <1>8, <2>3
    <2> QED BY <1>1, <2>1, <2>2, <2>5, <2>6, <2>7, QuietStep
            DEF GoodCall, ListAssets, answerFrame, ClientInv, Typed
<1>10. CASE v.next # 0
    <2> DEFINE w == [[got EXCEPT !.page = v.next] EXCEPT !.step = "search", !.phase = "send", !.attempt = 0]
    <2>1. call' = [call EXCEPT ![c] = w]
        BY <1>7, <1>10 DEF Then, Set
    <2>2. 0 \in 0 .. MaxRetries /\ v.next \in Nat \ {0}
        BY <1>10, ConstantsOK DEF Calls
    <2>3. w \in Calls
        BY <2>2 DEF Calls, Phases, Steps
    <2>4. /\ w.job = "walk" /\ w.phase = "send" /\ w.code = "none" /\ w.step = "search"
          /\ w.file = "absent" /\ w.seen = read /\ w.again = again /\ w.stable = v.stable
          /\ w.removed = v.removed /\ w.arrived = v.arrived /\ w.page = v.next
        BY <1>2, <1>3 DEF Calls
    <2> HIDE DEF w, got
    <2>5. UpTo(library, Edge(w.page), read, again, w)
        BY <1>4, <1>5, <1>10, <2>4 DEF UpTo
    <2>6. again <= w.arrived
        <3>1. again + Cardinality(read \cap Ahead(library, Edge(w.page))) <= w.arrived
            BY <2>5 DEF UpTo
        <3>2. Cardinality(read \cap Ahead(library, Edge(w.page))) \in Nat
            BY <1>5, FiniteAssets
        <3>3. w.arrived \in Nat
            BY <2>3 DEF Calls
        <3> QED BY <1>5, <3>1, <3>2, <3>3
    <2>7. Paced(library, w)
        BY <1>4, <2>4, <2>5, <2>6 DEF Paced
    <2>8. Fits(w) /\ Shelved(w, shelves) /\ Honest(w, shelves, locked \cup restored)
        BY <2>4 DEF Fits, StepsOf, Shelved, Honest
    <2>9. Paid(w, v)
        BY <1>8, <2>4
    <2> QED BY <1>1, <2>1, <2>3, <2>7, <2>8, <2>9, QuietStep
            DEF GoodCall, ListAssets, answerFrame, ClientInv, Typed
<1> QED BY <1>9, <1>10

\* A call that is about to return success keeps everything but its end.
LEMMA ReturnIs ==
    ASSUME NEW v \in Calls, v.job \notin {"none", "walk"}, NEW lib, NEW sh, NEW out,
           GoodCall(v, lib, sh, out), v.phase \in {"answer", "stream"}, v.step \notin {"create", "find"},
           v.job \in Kinds => OnShelf(v, sh), v.job = "lock" => v.asset \in out,
           NEW file \in {"absent", "whole"},
           v.job = "fetch" => file = "whole" /\ v.total = v.size /\ v.size <= MaxBytes
    PROVE  [v EXCEPT !.phase = "done", !.code = "ok", !.file = file] \in Calls
           /\ GoodCall([v EXCEPT !.phase = "done", !.code = "ok", !.file = file], lib, sh, out)
<1> DEFINE w == [v EXCEPT !.phase = "done", !.code = "ok", !.file = file]
<1>1. w \in Calls
    BY DEF Calls, Phases, Codes
<1>2. /\ w.phase = "done" /\ w.code = "ok" /\ w.file = file /\ w.job = v.job /\ w.step = v.step
      /\ w.asset = v.asset /\ w.id = v.id /\ w.total = v.total /\ w.size = v.size
      /\ w.again = v.again /\ w.arrived = v.arrived
    BY DEF Calls
<1> HIDE DEF w
<1>3. Fits(w)
    BY <1>2 DEF Fits, GoodCall
<1>4. Shelved(w, sh)
    BY <1>2 DEF Shelved, GoodCall
<1>5. Honest(w, sh, out)
    BY <1>2 DEF Honest, OnShelf
<1>6. Paced(lib, w)
    BY <1>2 DEF Paced, GoodCall
<1>7. GoodCall(w, lib, sh, out)
    BY <1>3, <1>4, <1>5, <1>6 DEF GoodCall
<1> QED BY <1>1, <1>7 DEF w

\* Reading an answer sends no create, unless it says so.
LEMMA ReadStep ==
    ASSUME ClientInv, NEW c \in Callers, UNCHANGED blind, answerFrame, NEW w \in Calls,
           call' = [call EXCEPT ![c] = w], w.phase # "send",
           GoodCall(w, library, shelves, locked \cup restored)
    PROVE  ClientInv'
<1>1. Paid(w, call[c])
    BY DEF Paid, Sends, answerFrame, ClientInv, Typed
<1> QED BY <1>1, QuietStep DEF answerFrame, ClientInv, Typed

LEMMA AddKeeps ==
    ASSUME ClientInv, NEW c \in Callers, call[c].job \in Kinds, Add(c) PROVE ClientInv'
<1>1. PICK v \in Calls : v = call[c] /\ GoodCall(v, library, shelves, locked \cup restored)
    BY CallIs
<1>2. v.phase = "answer" /\ v.step = "add" /\ v.job \in Kinds
    BY <1>1 DEF Add
<1>3. CASE v.acted
    <2>1. v.code = "none" /\ v.file = "absent" /\ OnShelf(v, shelves)
        BY <1>1, <1>2, <1>3 DEF GoodCall, Fits, Honest
    <2> DEFINE w == [v EXCEPT !.phase = "done", !.code = "ok", !.file = "absent"]
    <2>2. w \in Calls /\ GoodCall(w, library, shelves, locked \cup restored) /\ w.phase = "done"
        <3>1. w \in Calls /\ GoodCall(w, library, shelves, locked \cup restored)
            BY <1>1, <1>2, <2>1, ReturnIs DEF Kinds
        <3>2. w.phase = "done"
            BY DEF Calls
        <3> QED BY <3>1, <3>2
    <2>3. w = [v EXCEPT !.phase = "done", !.code = "ok"]
        BY <2>1 DEF Calls
    <2>4. call' = [call EXCEPT ![c] = w]
        BY <1>1, <1>3, <2>3 DEF Add, CheckItems, Return, Set
    <2> HIDE DEF w
    <2> QED BY <2>2, <2>4, ReadStep DEF Add
<1>4. CASE ~ v.acted
    <2>1. Fail(c, "add_failed")
        BY <1>1, <1>4 DEF Add, CheckItems
    <2>2. PICK w \in Calls : /\ call' = [call EXCEPT ![c] = w] /\ w.phase = "done"
                             /\ GoodCall(w, library, shelves, locked \cup restored)
        BY <1>1, <1>2, <2>1, FailIs DEF InFlight, Codes
    <2> QED BY <2>2, ReadStep DEF Add
<1> QED BY <1>3, <1>4

LEMMA SetAssetVisibilityKeeps ==
    ASSUME ClientInv, NEW c \in Callers, SetAssetVisibility(c) PROVE ClientInv'
<1>1. PICK v \in Calls : v = call[c] /\ GoodCall(v, library, shelves, locked \cup restored)
    BY CallIs
<1>2. v.phase = "answer" /\ v.step = "visibility"
    BY <1>1 DEF SetAssetVisibility
<1>3. v.job = "lock"
    BY <1>1, <1>2 DEF GoodCall, Fits, StepsOf, Calls, JobNames
<1>4. CASE v.acted
    <2>1. v.code = "none" /\ v.file = "absent" /\ v.asset \in locked \cup restored
        BY <1>1, <1>2, <1>4 DEF GoodCall, Fits, Honest
    <2> DEFINE w == [v EXCEPT !.phase = "done", !.code = "ok", !.file = "absent"]
    <2>2. w \in Calls /\ GoodCall(w, library, shelves, locked \cup restored) /\ w.phase = "done"
        <3>1. w \in Calls /\ GoodCall(w, library, shelves, locked \cup restored)
            BY <1>1, <1>2, <1>3, <2>1, ReturnIs DEF Kinds
        <3>2. w.phase = "done"
            BY DEF Calls
        <3> QED BY <3>1, <3>2
    <2>3. w = [v EXCEPT !.phase = "done", !.code = "ok"]
        BY <2>1 DEF Calls
    <2>4. call' = [call EXCEPT ![c] = w]
        BY <1>1, <1>4, <2>3 DEF SetAssetVisibility, Return, Set
    <2> HIDE DEF w
    <2> QED BY <2>2, <2>4, ReadStep DEF SetAssetVisibility
<1>5. CASE ~ v.acted
    <2>1. Fail(c, "refused")
        BY <1>1, <1>5 DEF SetAssetVisibility
    <2>2. PICK w \in Calls : /\ call' = [call EXCEPT ![c] = w] /\ w.phase = "done"
                             /\ GoodCall(w, library, shelves, locked \cup restored)
        BY <1>1, <1>2, <2>1, FailIs DEF InFlight, Codes
    <2> QED BY <2>2, ReadStep DEF SetAssetVisibility
<1> QED BY <1>4, <1>5

\* A chunk is written only while the limit allows it.
LEMMA StreamChunkKeeps == ASSUME ClientInv, NEW c \in Callers, StreamChunk(c) PROVE ClientInv'
<1>1. PICK v \in Calls : v = call[c] /\ GoodCall(v, library, shelves, locked \cup restored)
    BY CallIs
<1>2. v.phase = "stream"
    BY <1>1 DEF StreamChunk
<1>3. v.job = "fetch" /\ v.step = "original" /\ v.code = "none" /\ v.asset \in Assets
      /\ v.total <= v.size /\ v.total <= MaxBytes
    BY <1>1, <1>2 DEF GoodCall, Fits, StepsOf, Honest, Calls, JobNames
<1>4. v.total \in Nat /\ v.size \in Nat /\ MaxBytes \in Nat
    BY ConstantsOK DEF Calls
<1>5. CASE v.total = v.size
    <2> DEFINE w == [v EXCEPT !.phase = "done", !.code = "ok", !.file = "whole"]
    <2>1. w \in Calls /\ GoodCall(w, library, shelves, locked \cup restored) /\ w.phase = "done"
        <3>1. v.size <= MaxBytes
            BY <1>3, <1>5
        <3>2. w \in Calls /\ GoodCall(w, library, shelves, locked \cup restored)
            BY <1>1, <1>2, <1>3, <1>5, <3>1, ReturnIs DEF Kinds
        <3>3. w.phase = "done"
            BY DEF Calls
        <3> QED BY <3>2, <3>3
    <2>2. w = [[v EXCEPT !.file = "whole"] EXCEPT !.phase = "done", !.code = "ok"]
        BY DEF Calls
    <2>3. call' = [call EXCEPT ![c] = w]
        <3>1. Return(c, [v EXCEPT !.file = "whole"])
            <4>1. call[c].total = call[c].size
                BY <1>1, <1>5
            <4>2. Return(c, [call[c] EXCEPT !.file = "whole"])
                BY <1>1, <1>4, <4>1 DEF StreamChunk
            <4> QED BY <1>1, <4>2
        <3> QED BY <2>2, <3>1 DEF Return, Set
    <2> HIDE DEF w
    <2> QED BY <2>1, <2>3, ReadStep DEF StreamChunk
<1>6. CASE v.total < v.size /\ v.total + 1 > MaxBytes
    <2>1. FailDownload(c, "original_too_large")
        BY <1>1, <1>4, <1>6 DEF StreamChunk
    <2>2. PICK w \in Calls : /\ call' = [call EXCEPT ![c] = w] /\ w.phase = "done"
                             /\ GoodCall(w, library, shelves, locked \cup restored)
        BY <1>1, <1>2, <2>1, FailIs DEF InFlight, Codes
    <2> QED BY <2>2, ReadStep DEF StreamChunk
<1>7. CASE v.total # v.size /\ ~ (v.total < v.size /\ v.total + 1 > MaxBytes)
    <2>1. PICK n \in Nat : n = v.total + 1 /\ n <= v.size /\ n <= MaxBytes
        BY <1>3, <1>4, <1>7
    <2> DEFINE w == [v EXCEPT !.total = n]
    <2>2. w \in Calls
        BY DEF Calls
    <2>3. /\ w.phase = "stream" /\ w.total = n /\ w.size = v.size /\ w.code = "none" /\ w.job = "fetch"
          /\ w.step = "original" /\ w.asset = v.asset /\ w.again = v.again /\ w.arrived = v.arrived
        BY <1>2, <1>3 DEF Calls
    <2>4. call' = [call EXCEPT ![c] = w]
        BY <1>1, <1>4, <1>7, <2>1 DEF StreamChunk, Set
    <2> HIDE DEF w
    <2>5. Fits(w)
        BY <1>3, <2>3 DEF Fits, StepsOf
    <2>6. Shelved(w, shelves) /\ Honest(w, shelves, locked \cup restored)
        BY <2>1, <2>3 DEF Shelved, Honest
    <2>7. Paced(library, w)
        BY <1>1, <2>3 DEF Paced, GoodCall
    <2> QED BY <2>2, <2>3, <2>4, <2>5, <2>6, <2>7, ReadStep DEF GoodCall, StreamChunk
<1> QED BY <1>5, <1>6, <1>7

-----------------------------------------------------------------------------
(* The owner, and requests that arrive late.                                *)

\* What keeps the calls but changes what they count, or nothing of them.
LEMMA OwnerStep ==
    ASSUME ClientInv, UNCHANGED <<shelves, late, budget, lateCount, blind, unsure>>,
           library' \in Seq(Assets), IsInjective(library'), locked' \subseteq Assets,
           restored' \subseteq Assets, changes' \in 0 .. MaxChanges,
           call' \in [Callers -> Calls],
           \A c \in Callers :
              /\ \A k \in Kinds : Sends(call'[c], k) = Sends(call[c], k)
              /\ GoodCall(call'[c], library', shelves, locked' \cup restored')
    PROVE  ClientInv'
<1>1. Typed'
    BY DEF ClientInv, Typed
<1>2. LateFits'
    BY DEF ClientInv, LateFits
<1>3. \A k \in Kinds : Creating(k)' = Creating(k) /\ LateCreates(k)' = LateCreates(k)
    BY DEF Creating, LateCreates
<1>4. \A k \in Kinds : Accounted(k)'
    BY <1>3 DEF ClientInv, Accounted
<1> QED BY <1>1, <1>2, <1>4 DEF ClientInv

SameRequest(v, w) ==
    /\ w.job = v.job /\ w.phase = v.phase /\ w.code = v.code /\ w.step = v.step
    /\ w.asset = v.asset /\ w.id = v.id /\ w.file = v.file /\ w.size = v.size
    /\ w.total = v.total /\ w.acted = v.acted
LEMMA Counts ==
    ASSUME NEW v, NEW w, SameRequest(v, w), v.phase # "idle", NEW lib, NEW sh, NEW out,
           GoodCall(v, lib, sh, out), NEW new, Paced(new, w)
    PROVE  GoodCall(w, new, sh, out) /\ \A k : Sends(w, k) = Sends(v, k)
<1>1. \A k : Sends(w, k) = Sends(v, k)
    BY DEF Sends, SameRequest
<1>2. Fits(w)
    BY DEF Fits, GoodCall, SameRequest
<1>3. Shelved(w, sh) /\ Honest(w, sh, out)
    BY DEF Shelved, Honest, OnShelf, GoodCall, SameRequest
<1> QED BY <1>1, <1>2, <1>3 DEF GoodCall

\* A walk whose library gains an asset counts one arrival, and may meet one asset again.
LEMMA WalkGains ==
    ASSUME Typed, NEW v \in Calls, v.job = "walk", v.phase # "done", v.code = "none",
           Paced(library, v), NEW w, w = [v EXCEPT !.arrived = @ + 1],
           NEW a \in Assets, a \notin ToSet(library), NEW new,
           ToSet(library) \subseteq ToSet(new),
           \A k \in Nat : /\ Passed(new, k) \subseteq Passed(library, k) \cup {a}
                          /\ OneNew(Ahead(new, k), Ahead(library, k))
    PROVE  Paced(new, w)
<1>1. /\ v.page \in Nat \ {0} /\ v.seen \subseteq Assets /\ v.stable \subseteq Assets
      /\ v.items \subseteq Assets /\ v.next \in Nat
      /\ v.again \in Nat /\ v.removed \in Nat /\ v.arrived \in Nat
    BY DEF Calls
<1>2. /\ w.job = v.job /\ w.phase = v.phase /\ w.code = v.code /\ w.page = v.page
      /\ w.seen = v.seen /\ w.again = v.again /\ w.items = v.items /\ w.next = v.next
      /\ w.stable = v.stable /\ w.removed = v.removed /\ w.arrived = v.arrived + 1
    BY DEF Calls
<1>3. v.stable \subseteq ToSet(library) /\ v.again <= v.arrived
    BY DEF Paced
<1>4. ASSUME NEW k \in Nat, NEW seen \in SUBSET Assets, NEW again \in Nat,
             UpTo(library, k, seen, again, v)
      PROVE  UpTo(new, k, seen, again, w)
    <2>1. (w.stable \cap Passed(new, k)) \ seen \subseteq (v.stable \cap Passed(library, k)) \ seen
        BY <1>2, <1>3
    <2>2. (v.stable \cap Passed(library, k)) \ seen \in SUBSET Assets
        BY <1>1
    <2>3. Cardinality((v.stable \cap Passed(library, k)) \ seen) <= v.removed
        BY <1>4 DEF UpTo
    <2>4. Cardinality((w.stable \cap Passed(new, k)) \ seen) <= w.removed
        <3>1. PICK p \in Nat, q \in Nat :
                 /\ p = Cardinality((v.stable \cap Passed(library, k)) \ seen)
                 /\ q = Cardinality((w.stable \cap Passed(new, k)) \ seen) /\ q <= p
            BY <2>1, <2>2, NoMore
        <3> QED BY <1>1, <1>2, <2>3, <3>1
    <2>5. PICK x : Ahead(new, k) \subseteq Ahead(library, k) \cup {x}
        BY DEF OneNew
    <2>6. PICK p \in Nat, q \in Nat : /\ p = Cardinality(seen \cap Ahead(library, k))
                                      /\ q = Cardinality(seen \cap Ahead(new, k)) /\ q <= p + 1
        <3>1. /\ seen \cap Ahead(library, k) \in SUBSET Assets
              /\ seen \cap Ahead(new, k) \in SUBSET Assets
              /\ seen \cap Ahead(new, k) \subseteq (seen \cap Ahead(library, k)) \cup {x}
            BY <2>5
        <3> QED BY <3>1, OneMore, FiniteAssets
    <2>7. again + p <= v.arrived
        BY <1>4, <2>6 DEF UpTo
    <2>8. again + q <= w.arrived
        BY <1>1, <1>2, <2>6, <2>7
    <2> QED BY <2>4, <2>6, <2>8 DEF UpTo
<1>5. ASSUME NEW seen, NEW again \in Nat, AtEnd(seen, again, v) PROVE AtEnd(seen, again, w)
    BY <1>1, <1>2, <1>5 DEF AtEnd
<1>6. Read(w) = Read(v) /\ ReadAgain(w) = ReadAgain(v) /\ Read(v) \in SUBSET Assets
      /\ ReadAgain(v) \in Nat
    <2>1. Cardinality(v.seen \cap v.items) \in Nat
        BY <1>1, FiniteAssets
    <2> QED BY <1>1, <1>2, <2>1 DEF Read, ReadAgain
<1>7. UpTo(new, Edge(w.page), w.seen, w.again, w)
    <2>1. Edge(v.page) \in Nat
        BY <1>1, Edges
    <2>2. UpTo(library, Edge(v.page), v.seen, v.again, v)
        BY DEF Paced
    <2> QED BY <1>1, <1>2, <1>4, <2>1, <2>2
<1>8. w.phase = "answer" /\ w.next # 0 => UpTo(new, Edge(w.next), Read(w), ReadAgain(w), w)
    <2> SUFFICES ASSUME v.phase = "answer", v.next # 0
                 PROVE  UpTo(new, Edge(v.next), Read(v), ReadAgain(v), w)
        BY <1>2, <1>6
    <2>1. Edge(v.next) \in Nat
        BY <1>1, Edges
    <2>2. UpTo(library, Edge(v.next), Read(v), ReadAgain(v), v)
        BY DEF Paced
    <2> QED BY <1>4, <1>6, <2>1, <2>2
<1>9. w.phase = "answer" /\ w.next = 0 => AtEnd(Read(w), ReadAgain(w), w)
    BY <1>2, <1>5, <1>6 DEF Paced
<1>10. w.stable \subseteq ToSet(new) /\ w.again <= w.arrived
    BY <1>1, <1>2, <1>3
<1> QED BY <1>2, <1>7, <1>8, <1>9, <1>10 DEF Paced

\* A walk whose library loses an asset counts one removal, and may miss one more.
LEMMA WalkLoses ==
    ASSUME Typed, NEW v \in Calls, v.job = "walk", v.phase # "done", v.code = "none",
           Paced(library, v), NEW a, NEW w, w = [v EXCEPT !.removed = @ + 1, !.stable = @ \ {a}],
           NEW new, ToSet(new) = ToSet(library) \ {a},
           \A k \in Nat : /\ OneNew(Passed(new, k), Passed(library, k))
                          /\ Ahead(new, k) \subseteq Ahead(library, k)
    PROVE  Paced(new, w)
<1>1. /\ v.page \in Nat \ {0} /\ v.seen \subseteq Assets /\ v.stable \subseteq Assets
      /\ v.items \subseteq Assets /\ v.next \in Nat
      /\ v.again \in Nat /\ v.removed \in Nat /\ v.arrived \in Nat
    BY DEF Calls
<1>2. /\ w.job = v.job /\ w.phase = v.phase /\ w.code = v.code /\ w.page = v.page
      /\ w.seen = v.seen /\ w.again = v.again /\ w.items = v.items /\ w.next = v.next
      /\ w.stable = v.stable \ {a} /\ w.removed = v.removed + 1 /\ w.arrived = v.arrived
    BY DEF Calls
<1>3. v.stable \subseteq ToSet(library) /\ v.again <= v.arrived
    BY DEF Paced
<1>4. ASSUME NEW k \in Nat, NEW seen \in SUBSET Assets, NEW again \in Nat,
             UpTo(library, k, seen, again, v)
      PROVE  UpTo(new, k, seen, again, w)
    <2>1. PICK x : Passed(new, k) \subseteq Passed(library, k) \cup {x}
        BY DEF OneNew
    <2>2. PICK p \in Nat, q \in Nat :
             /\ p = Cardinality((v.stable \cap Passed(library, k)) \ seen)
             /\ q = Cardinality((w.stable \cap Passed(new, k)) \ seen) /\ q <= p + 1
        <3>1. /\ (v.stable \cap Passed(library, k)) \ seen \in SUBSET Assets
              /\ (w.stable \cap Passed(new, k)) \ seen \in SUBSET Assets
              /\ (w.stable \cap Passed(new, k)) \ seen \subseteq
                    ((v.stable \cap Passed(library, k)) \ seen) \cup {x}
            BY <1>1, <1>2, <2>1
        <3> QED BY <3>1, OneMore, FiniteAssets
    <2>3. p <= v.removed
        BY <1>4, <2>2 DEF UpTo
    <2>4. q <= w.removed
        BY <1>1, <1>2, <2>2, <2>3
    <2>5. PICK r \in Nat, s \in Nat : /\ r = Cardinality(seen \cap Ahead(library, k))
                                      /\ s = Cardinality(seen \cap Ahead(new, k)) /\ s <= r
        <3>1. /\ seen \cap Ahead(library, k) \in SUBSET Assets
              /\ seen \cap Ahead(new, k) \subseteq seen \cap Ahead(library, k)
            OBVIOUS
        <3> QED BY <3>1, NoMore
    <2>6. again + r <= v.arrived
        BY <1>4, <2>5 DEF UpTo
    <2>7. again + s <= w.arrived
        BY <1>1, <1>2, <2>5, <2>6
    <2> QED BY <2>2, <2>4, <2>5, <2>7 DEF UpTo
<1>5. ASSUME NEW seen, NEW again \in Nat, AtEnd(seen, again, v) PROVE AtEnd(seen, again, w)
    <2>1. PICK p \in Nat, q \in Nat : /\ p = Cardinality(v.stable \ seen)
                                      /\ q = Cardinality(w.stable \ seen) /\ q <= p
        <3>1. v.stable \ seen \in SUBSET Assets /\ w.stable \ seen \subseteq v.stable \ seen
            BY <1>1, <1>2
        <3> QED BY <3>1, NoMore
    <2>2. p <= v.removed /\ again <= v.arrived
        BY <1>5, <2>1 DEF AtEnd
    <2>3. q <= w.removed
        BY <1>1, <1>2, <2>1, <2>2
    <2> QED BY <1>2, <2>1, <2>2, <2>3 DEF AtEnd
<1>6. Read(w) = Read(v) /\ ReadAgain(w) = ReadAgain(v) /\ Read(v) \in SUBSET Assets
      /\ ReadAgain(v) \in Nat
    <2>1. Cardinality(v.seen \cap v.items) \in Nat
        BY <1>1, FiniteAssets
    <2> QED BY <1>1, <1>2, <2>1 DEF Read, ReadAgain
<1>7. UpTo(new, Edge(w.page), w.seen, w.again, w)
    <2>1. Edge(v.page) \in Nat
        BY <1>1, Edges
    <2>2. UpTo(library, Edge(v.page), v.seen, v.again, v)
        BY DEF Paced
    <2> QED BY <1>1, <1>2, <1>4, <2>1, <2>2
<1>8. w.phase = "answer" /\ w.next # 0 => UpTo(new, Edge(w.next), Read(w), ReadAgain(w), w)
    <2> SUFFICES ASSUME v.phase = "answer", v.next # 0
                 PROVE  UpTo(new, Edge(v.next), Read(v), ReadAgain(v), w)
        BY <1>2, <1>6
    <2>1. Edge(v.next) \in Nat
        BY <1>1, Edges
    <2>2. UpTo(library, Edge(v.next), Read(v), ReadAgain(v), v)
        BY DEF Paced
    <2> QED BY <1>4, <1>6, <2>1, <2>2
<1>9. w.phase = "answer" /\ w.next = 0 => AtEnd(Read(w), ReadAgain(w), w)
    BY <1>2, <1>5, <1>6 DEF Paced
<1>10. w.stable \subseteq ToSet(new) /\ w.again <= w.arrived
    BY <1>2, <1>3
<1> QED BY <1>2, <1>7, <1>8, <1>9, <1>10 DEF Paced

\* A call that does not walk does not look at the library.
LEMMA NotLooking ==
    ASSUME NEW lib, NEW new, NEW v, Paced(lib, v), ~ (v.job = "walk" /\ v.phase # "done")
    PROVE  Paced(new, v)
BY DEF Paced

LEMMA UploadKeeps == ASSUME ClientInv, NEW a \in Assets, Upload(a) PROVE ClientInv'
<1>1. PICK i \in 1 .. Len(library) + 1 : library' = InsertAt(library, i, a)
    BY DEF Upload
<1>2. Typed /\ a \notin ToSet(library) /\ library \in Seq(Assets) /\ IsInjective(library)
    BY DEF ClientInv, Typed, Upload, Present
<1>3. /\ library' \in Seq(Assets) /\ IsInjective(library') /\ ToSet(library') = ToSet(library) \cup {a}
      /\ \A k \in Nat : /\ Passed(library', k) \subseteq Passed(library, k) \cup {a}
                        /\ OneNew(Ahead(library', k), Ahead(library, k))
    <2>1. PICK new, lib : new = library' /\ lib = library
        OBVIOUS
    <2>2. lib \in Seq(Assets) /\ IsInjective(lib) /\ a \notin ToSet(lib) /\ i \in Int /\ 1 <= i /\ i <= Len(lib) + 1
          /\ new = InsertAt(lib, i, a)
        BY <1>1, <1>2, <2>1
    <2>3. /\ new \in Seq(Assets) /\ IsInjective(new) /\ ToSet(new) = ToSet(lib) \cup {a}
          /\ \A k \in Nat : /\ Passed(new, k) \subseteq Passed(lib, k) \cup {a}
                            /\ OneNew(Ahead(new, k), Ahead(lib, k))
        <3>1. new \in Seq(Assets) /\ IsInjective(new) /\ ToSet(new) = ToSet(lib) \cup {a}
            BY <2>2, Inserted
        <3>2. ASSUME NEW k \in Nat PROVE Passed(new, k) \subseteq Passed(lib, k) \cup {a}
            BY <2>2, Inserted
        <3>3. ASSUME NEW k \in Nat PROVE OneNew(Ahead(new, k), Ahead(lib, k))
            BY <2>2, Inserted
        <3> QED BY <3>1, <3>2, <3>3
    <2> QED BY <2>1, <2>3
<1>4. ASSUME NEW c \in Callers
      PROVE  /\ call'[c] \in Calls /\ \A k \in Kinds : Sends(call'[c], k) = Sends(call[c], k)
             /\ GoodCall(call'[c], library', shelves, locked \cup restored)
    <2>1. PICK v \in Calls : v = call[c] /\ GoodCall(v, library, shelves, locked \cup restored)
        BY CallIs
    <2>2. CASE v.job = "walk" /\ v.phase # "done"
        <3>1. call'[c] = [v EXCEPT !.arrived = @ + 1]
            BY <2>1, <2>2 DEF Upload, Walking
        <3>2. PICK w : w = [v EXCEPT !.arrived = @ + 1]
            OBVIOUS
        <3>3. w \in Calls /\ SameRequest(v, w)
            <4>1. w \in Calls
                <5>1. v.arrived + 1 \in Nat
                    BY DEF Calls
                <5> QED BY <3>2, <5>1 DEF Calls
            <4>2. SameRequest(v, w)
                BY <3>2 DEF Calls, SameRequest
            <4> QED BY <4>1, <4>2
        <3>5. v.phase # "idle" /\ v.code = "none"
            BY <2>1, <2>2 DEF GoodCall, Fits, Fresh
        <3>7. Paced(library', w)
            <4>1. ToSet(library) \subseteq ToSet(library')
                BY <1>3
            <4> QED BY <1>2, <1>3, <2>1, <2>2, <3>2, <3>5, <4>1, WalkGains DEF GoodCall
        <3>8. GoodCall(w, library', shelves, locked \cup restored) /\ \A k : Sends(w, k) = Sends(v, k)
            BY <2>1, <3>3, <3>5, <3>7, Counts
        <3> QED BY <2>1, <3>1, <3>2, <3>3, <3>8
    <2>3. CASE ~ (v.job = "walk" /\ v.phase # "done")
        <3>1. call'[c] = v
            BY <2>1, <2>3 DEF Upload, Walking
        <3> QED BY <2>1, <2>3, <3>1, NotLooking DEF GoodCall
    <2> QED BY <2>2, <2>3
<1>5. call' \in [Callers -> Calls]
    <2>1. call' = [c \in Callers |-> call'[c]]
        BY DEF Upload
    <2> QED BY <1>4, <2>1
<1>6. changes' \in 0 .. MaxChanges
    <2>1. changes < MaxChanges /\ changes' = changes + 1
        BY DEF Upload
    <2> QED BY <1>2, <2>1, ConstantsOK DEF Typed
<1>7. UNCHANGED <<shelves, locked, restored, late, budget, lateCount, blind, unsure>>
      /\ locked \subseteq Assets /\ restored \subseteq Assets
    BY <1>2 DEF Upload, Typed
<1> QED BY <1>3, <1>4, <1>5, <1>6, <1>7, OwnerStep

LEMMA DeleteKeeps == ASSUME ClientInv, NEW a \in Assets, Delete(a) PROVE ClientInv'
<1>1. PICK i \in DOMAIN library : library[i] = a /\ library' = RemoveAt(library, i)
    BY DEF Delete
<1>2. Typed /\ library \in Seq(Assets) /\ IsInjective(library)
    BY DEF ClientInv, Typed
<1>3. /\ library' \in Seq(Assets) /\ IsInjective(library') /\ ToSet(library') = ToSet(library) \ {a}
      /\ \A k \in Nat : /\ OneNew(Passed(library', k), Passed(library, k))
                        /\ Ahead(library', k) \subseteq Ahead(library, k)
    BY <1>1, <1>2, Removed
<1>4. ASSUME NEW c \in Callers
      PROVE  /\ call'[c] \in Calls /\ \A k \in Kinds : Sends(call'[c], k) = Sends(call[c], k)
             /\ GoodCall(call'[c], library', shelves, locked \cup restored)
    <2>1. PICK v \in Calls : v = call[c] /\ GoodCall(v, library, shelves, locked \cup restored)
        BY CallIs
    <2>2. CASE v.job = "walk" /\ v.phase # "done"
        <3>1. call'[c] = [v EXCEPT !.removed = @ + 1, !.stable = @ \ {a}]
            BY <2>1, <2>2 DEF Delete, Walking
        <3>2. PICK w : w = [v EXCEPT !.removed = @ + 1, !.stable = @ \ {a}]
            OBVIOUS
        <3>3. w \in Calls /\ SameRequest(v, w)
            <4>1. v.removed + 1 \in Nat /\ v.stable \ {a} \in SUBSET Assets
                BY DEF Calls
            <4>2. w \in Calls
                BY <3>2, <4>1 DEF Calls
            <4>3. SameRequest(v, w)
                BY <3>2 DEF Calls, SameRequest
            <4> QED BY <4>2, <4>3
        <3>5. v.phase # "idle" /\ v.code = "none"
            BY <2>1, <2>2 DEF GoodCall, Fits, Fresh
        <3>7. Paced(library', w)
            BY <1>2, <1>3, <2>1, <2>2, <3>2, <3>5, WalkLoses DEF GoodCall
        <3>8. GoodCall(w, library', shelves, locked \cup restored) /\ \A k : Sends(w, k) = Sends(v, k)
            BY <2>1, <3>3, <3>5, <3>7, Counts
        <3> QED BY <2>1, <3>1, <3>2, <3>3, <3>8
    <2>3. CASE ~ (v.job = "walk" /\ v.phase # "done")
        <3>1. call'[c] = v
            BY <2>1, <2>3 DEF Delete, Walking
        <3> QED BY <2>1, <2>3, <3>1, NotLooking DEF GoodCall
    <2> QED BY <2>2, <2>3
<1>5. call' \in [Callers -> Calls]
    <2>1. call' = [c \in Callers |-> call'[c]]
        BY DEF Delete
    <2> QED BY <1>4, <2>1
<1>6. changes' \in 0 .. MaxChanges
    <2>1. changes < MaxChanges /\ changes' = changes + 1
        BY DEF Delete
    <2> QED BY <1>2, <2>1, ConstantsOK DEF Typed
<1>7. UNCHANGED <<shelves, locked, restored, late, budget, lateCount, blind, unsure>>
      /\ locked \subseteq Assets /\ restored \subseteq Assets
    BY <1>2 DEF Delete, Typed
<1> QED BY <1>3, <1>4, <1>5, <1>6, <1>7, OwnerStep

\* What leaves the Locked Folder is remembered as restored.
LEMMA UnlockKeeps == ASSUME ClientInv, NEW a \in Assets, Unlock(a) PROVE ClientInv'
<1>1. locked' \cup restored' = locked \cup restored
    BY DEF Unlock
<1>2. UNCHANGED <<library, shelves, late, call, budget, lateCount, blind, unsure>>
    BY DEF Unlock
<1>3. locked' \subseteq Assets /\ restored' \subseteq Assets /\ changes' \in 0 .. MaxChanges
      /\ library \in Seq(Assets) /\ IsInjective(library) /\ call \in [Callers -> Calls]
    BY ConstantsOK DEF Unlock, ClientInv, Typed
<1>4. \A c \in Callers : GoodCall(call[c], library, shelves, locked' \cup restored')
    BY <1>1 DEF ClientInv
<1> QED BY <1>2, <1>3, <1>4, OwnerStep

\* A write that arrives late was counted when it was given up.
LEMMA ArriveLateKeeps == ASSUME ClientInv, NEW x \in late, ArriveLate(x) PROVE ClientInv'
<1>1. Typed /\ late' = late \ {x} /\ UNCHANGED <<call, budget, changes, lateCount, blind, unsure>>
    BY DEF ClientInv, ArriveLate
<1>2. PICK w \in Writes : w = x[2] /\ Effect(w)
    BY <1>1 DEF ArriveLate, Typed
<1>3. w.kind \in Kinds /\ (w.step = "add" => w.id \in DOMAIN shelves[w.kind])
    BY <1>2 DEF Writes, ClientInv, LateFits
<1>4. /\ library' = library /\ restored' = restored /\ locked' \subseteq Assets
      /\ shelves' \in [Kinds -> Seq(SUBSET Assets)] /\ Grows
      /\ \A k \in Kinds : Len(shelves'[k]) = IF w.step = "create" /\ w.kind = k
                                            THEN Len(shelves[k]) + 1 ELSE Len(shelves[k])
    BY <1>1, <1>2, <1>3, EffectIs
<1>5. ASSUME NEW c \in Callers PROVE GoodCall(call[c], library, shelves', locked' \cup restored')
    <2>1. call[c] \in Calls /\ GoodCall(call[c], library, shelves, locked \cup restored)
        BY CallIs
    <2> QED BY <1>4, <2>1, StillGood
<1>6. IsFiniteSet(late')
    BY <1>1, FS_RemoveElement DEF Typed
<1>7. Typed'
    BY <1>1, <1>4, <1>6 DEF Typed
<1>8. LateFits'
    <2>1. \A y \in late : y[2].kind \in Kinds
        BY <1>1 DEF Typed, Writes
    <2> QED BY <1>1, <1>4, <2>1 DEF ClientInv, LateFits, Grows
<1>9. ASSUME NEW k \in Kinds PROVE Accounted(k)'
    <2>1. Creating(k)' = Creating(k)
        BY <1>1 DEF Creating
    <2>2. PICK p \in Nat : p = Cardinality(Creating(k))
        <3>1. Creating(k) \in SUBSET Callers
            BY DEF Creating
        <3> QED BY <3>1, ConstantsOK, FS_Subset, FS_CardinalityType
    <2>3. PICK m \in Nat : m = Cardinality(LateCreates(k)) /\ IsFiniteSet(LateCreates(k))
        BY <1>1, LateFinite
    <2>4. PICK l \in Nat : l = Len(shelves[k])
        BY <1>1 DEF Typed
    <2>5. blind[k] \in Nat /\ unsure[k] \in Nat /\ l + p + m <= blind[k] + unsure[k]
        BY <1>1, <2>2, <2>3, <2>4 DEF Typed, ClientInv, Accounted
    <2>6. CASE w.step = "create" /\ w.kind = k
        <3>1. LateCreates(k)' = LateCreates(k) \ {x} /\ x \in LateCreates(k)
            BY <1>1, <1>2, <2>6 DEF LateCreates
        <3>2. PICK n \in Nat : n = Cardinality(LateCreates(k)') /\ n = m - 1
            <4>1. Cardinality(LateCreates(k) \ {x}) = m - 1
                BY <2>3, <3>1, FS_RemoveElement
            <4>2. Cardinality(LateCreates(k) \ {x}) \in Nat
                BY <2>3, FS_RemoveElement, FS_CardinalityType
            <4> QED BY <3>1, <4>1, <4>2
        <3>3. Len(shelves'[k]) = l + 1
            BY <1>4, <2>4, <2>6
        <3>4. (l + 1) + p + n <= blind[k] + unsure[k]
            BY <2>2, <2>3, <2>4, <2>5, <3>2
        <3> QED BY <1>1, <2>1, <2>2, <3>2, <3>3, <3>4 DEF Accounted
    <2>7. CASE ~ (w.step = "create" /\ w.kind = k)
        <3>1. LateCreates(k)' = LateCreates(k)
            BY <1>1, <1>2, <2>7 DEF LateCreates
        <3>2. Len(shelves'[k]) = l
            BY <1>4, <2>4, <2>7
        <3> QED BY <1>1, <2>1, <2>2, <2>3, <2>5, <3>1, <3>2 DEF Accounted
    <2> QED BY <2>6, <2>7
<1> QED BY <1>1, <1>4, <1>5, <1>7, <1>8, <1>9 DEF ClientInv

-----------------------------------------------------------------------------
(* The theorems.                                                            *)

LEMMA InitHolds == ASSUME Init PROVE ClientInv
<1>1. IsFiniteSet(Owned) /\ Owned \subseteq Assets
    BY ConstantsOK, FS_Subset
<1>2. PICK n \in Nat : n = Cardinality(Owned) /\ ExistsBijection(1 .. n, Owned)
    BY <1>1, FS_CardinalityType
<1>3. PICK f \in [1 .. n -> Owned] : IsInjective(f)
    BY <1>2 DEF ExistsBijection, Bijection, Injection
<1>4. library \in [1 .. n -> Owned] /\ IsInjective(library)
    <2>1. library = CHOOSE g \in [1 .. n -> Owned] : IsInjective(g)
        BY <1>2 DEF Init, SetToSeq
    <2> QED BY <1>3, <2>1
<1>5. library \in Seq(Assets)
    BY <1>1, <1>2, <1>4
<1>6. shelves = [k \in Kinds |-> <<>>] /\ shelves \in [Kinds -> Seq(SUBSET Assets)]
    BY DEF Init
<1>7. call = [c \in Callers |-> Fresh] /\ call \in [Callers -> Calls]
    BY FreshIs DEF Init
<1>8. 0 \in 0 .. MaxChanges /\ 0 \in 0 .. MaxLate /\ MaxJobs \in 0 .. MaxJobs
    BY ConstantsOK
<1>9. late = {} /\ IsFiniteSet(late)
    BY FS_EmptySet DEF Init
<1>10. Typed
    BY <1>4, <1>5, <1>6, <1>7, <1>8, <1>9 DEF Init, Typed
<1>11. LateFits
    BY <1>9 DEF LateFits
<1>12. \A c \in Callers : GoodCall(call[c], library, shelves, locked \cup restored)
    BY <1>7, FreshIs
<1>13. ASSUME NEW k \in Kinds PROVE Accounted(k)
    <2>1. Creating(k) = {}
        BY <1>7, FreshIs DEF Creating
    <2>2. LateCreates(k) = {}
        BY <1>9 DEF LateCreates
    <2>3. Len(shelves[k]) = 0 /\ blind[k] = 0 /\ unsure[k] = 0
        BY <1>6 DEF Init
    <2> QED BY <2>1, <2>2, <2>3, FS_EmptySet DEF Accounted
<1> QED BY <1>10, <1>11, <1>12, <1>13 DEF ClientInv

LEMMA StepHolds == ASSUME ClientInv, [Next]_vars PROVE ClientInv'
<1>1. ASSUME NEW c \in Callers, Start(c) \/ Forget(c) PROVE ClientInv'
    BY <1>1, StartKeeps, ForgetKeeps
<1>2. ASSUME NEW c \in Callers, Progress(c) PROVE ClientInv'
    <2>1. CASE FindAlbum(c) \/ FindTag(c)
        BY <2>1, FindKeeps DEF FindAlbum, FindTag, Kinds
    <2>2. CASE CreateAlbum(c) \/ CreateTag(c)
        BY <2>2, CreateKeeps DEF CreateAlbum, CreateTag, Kinds
    <2>3. CASE AddToAlbum(c) \/ AddTagToAsset(c)
        BY <2>3, AddKeeps DEF AddToAlbum, AddTagToAsset, Kinds
    <2>4. CASE Serve(c) \/ ListAssets(c) \/ SetAssetVisibility(c) \/ StreamChunk(c)
        BY <2>4, ServeKeeps, ListAssetsKeeps, SetAssetVisibilityKeeps, StreamChunkKeeps
    <2> QED BY <1>2, <2>1, <2>2, <2>3, <2>4 DEF Progress
<1>3. ASSUME NEW c \in Callers, Trouble(c) PROVE ClientInv'
    BY <1>3, LoseRequestKeeps, RefuseKeeps, LoseAnswerKeeps, GarbleKeeps, DiskFullKeeps
       DEF Trouble
<1>4. ASSUME NEW a \in Assets, Upload(a) \/ Delete(a) \/ Unlock(a) PROVE ClientInv'
    BY <1>4, UploadKeeps, DeleteKeeps, UnlockKeeps
<1>5. ASSUME NEW x \in late, ArriveLate(x) PROVE ClientInv'
    BY <1>5, ArriveLateKeeps
<1>6. CASE UNCHANGED vars
    <2>1. UNCHANGED <<library, shelves, locked, restored, late, call, budget, changes, lateCount,
                      blind, unsure>>
        BY <1>6 DEF vars, server
    <2>2. Typed' /\ LateFits'
        BY <2>1 DEF ClientInv, Typed, LateFits
    <2>3. \A k : Creating(k)' = Creating(k) /\ LateCreates(k)' = LateCreates(k)
        BY <2>1 DEF Creating, LateCreates
    <2>4. \A k \in Kinds : Accounted(k)'
        BY <2>1, <2>3 DEF ClientInv, Accounted
    <2>5. \A c \in Callers : GoodCall(call[c], library, shelves, locked \cup restored)'
        BY <2>1 DEF ClientInv
    <2> QED BY <2>2, <2>4, <2>5 DEF ClientInv
<1> QED BY <1>1, <1>2, <1>3, <1>4, <1>5, <1>6 DEF Next

LEMMA InvariantHolds == Spec => []ClientInv
<1> QED BY InitHolds, StepHolds, PTL DEF Spec

\* Every variable of the client and of the server keeps its type (`immich.py`,
\* `_request_raw` and the calls on it): attempts stay within the retries, and a
\* request that adds names an album or tag that exists.
THEOREM ClientTypeTheorem == Spec => []TypeOK
<1>1. ASSUME ClientInv PROVE TypeOK
    <2>1. Typed
        BY <1>1 DEF ClientInv
    <2>2. IsInjective(library) /\ Present \subseteq Assets
        BY <2>1, PresentIs DEF Typed
    <2>3. /\ shelves \in [Kinds -> Seq(SUBSET Assets)] /\ locked \cup restored \subseteq Assets
          /\ \A w \in late : w[2].kind \in Kinds /\ w[2].asset \in Assets
          /\ budget \in [Callers -> 0 .. MaxJobs]
          /\ changes \in 0 .. MaxChanges /\ lateCount \in 0 .. MaxLate
        BY <2>1 DEF Typed, Writes
    <2>4. ASSUME NEW c \in Callers
          PROVE  /\ call[c].phase \in Phases /\ call[c].step \in Steps /\ call[c].code \in Codes
                 /\ call[c].attempt \in 0 .. MaxRetries
                 /\ call[c].phase = "done" <=> call[c].code # "none"
                 /\ call[c].step = "add" => call[c].id \in DOMAIN shelves[Kind(c)]
        BY <1>1, CallIs DEF Calls, GoodCall, Fits, Shelved
    <2> QED BY <2>2, <2>3, <2>4 DEF TypeOK
<1> QED BY <1>1, InvariantHolds, PTL

\* A call that reports success has had its effect, and one that reports an error
\* leaves no part of a download unless the disk failed (`immich.py`, `add_to_album`,
\* `add_tag_to_asset`, `set_asset_visibility`, `_request_to_file`).
THEOREM AnswersTheorem == Spec => []AnswersAreTrue
<1>1. ASSUME ClientInv PROVE AnswersAreTrue
    <2> SUFFICES ASSUME NEW c \in Callers
                 PROVE  /\ call[c].code = "ok" =>
                             /\ call[c].job \in Kinds =>
                                  \E i \in DOMAIN shelves[Kind(c)] :
                                     call[c].asset \in shelves[Kind(c)][i]
                             /\ call[c].job = "lock" => call[c].asset \in locked \cup restored
                             /\ call[c].job = "fetch" => /\ call[c].file = "whole"
                                                         /\ call[c].total = call[c].size
                                                         /\ call[c].size <= MaxBytes
                        /\ call[c].phase = "done" /\ call[c].file # "absent" =>
                             call[c].code \in {"ok", "os_error"}
        BY DEF AnswersAreTrue
    <2>1. Honest(call[c], shelves, locked \cup restored) /\ Kind(c) = KindOf(call[c].job)
        BY <1>1, CallIs DEF GoodCall
    <2> QED BY <2>1 DEF Honest, OnShelf
<1> QED BY <1>1, InvariantHolds, PTL

\* Albums and tags of the review name beyond the first were created blindly or
\* without anybody knowing (`immich.py`, `find_album_by_name` and `create_album`,
\* `find_tag_by_name` and `create_tag`, retried by `_request_raw`).
THEOREM ShelvesTheorem == Spec => []ShelvesAccounted
<1>1. ASSUME ClientInv PROVE ShelvesAccounted
    <2> SUFFICES ASSUME NEW k \in Kinds PROVE Len(shelves[k]) <= blind[k] + unsure[k]
        BY DEF ShelvesAccounted
    <2>1. PICK p \in Nat : p = Cardinality(Creating(k))
        <3>1. Creating(k) \in SUBSET Callers
            BY DEF Creating
        <3> QED BY <3>1, ConstantsOK, FS_Subset, FS_CardinalityType
    <2>2. PICK m \in Nat : m = Cardinality(LateCreates(k))
        BY <1>1, LateFinite DEF ClientInv
    <2>3. Len(shelves[k]) \in Nat /\ blind[k] \in Nat /\ unsure[k] \in Nat
        BY <1>1 DEF ClientInv, Typed
    <2>4. Len(shelves[k]) + p + m <= blind[k] + unsure[k]
        BY <1>1, <2>1, <2>2 DEF ClientInv, Accounted
    <2> QED BY <2>1, <2>2, <2>3, <2>4
<1> QED BY <1>1, InvariantHolds, PTL

\* A walk by pages misses at most as many lasting assets as were removed while it
\* ran, and lists at most as many twice as arrived (`immich.py`, `list_assets` and
\* `iter_candidates`).
THEOREM WalkTheorem == Spec => []WalkAccounted
<1>1. ASSUME ClientInv PROVE WalkAccounted
    <2> SUFFICES ASSUME NEW c \in Callers
                 PROVE  /\ call[c].again <= call[c].arrived
                        /\ call[c].job = "walk" /\ call[c].code = "ok" =>
                             Cardinality(call[c].stable \ call[c].seen) <= call[c].removed
        BY DEF WalkAccounted
    <2> QED BY <1>1 DEF ClientInv, GoodCall, Paced, AtEnd
<1> QED BY <1>1, InvariantHolds, PTL

=============================================================================
