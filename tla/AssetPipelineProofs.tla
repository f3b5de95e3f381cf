-------------------------- MODULE AssetPipelineProofs --------------------------
(***************************************************************************)
(* Proofs about one asset of a scan: its types, what is stored about the   *)
(* origin of a result, the error rows, that a result follows the scores of *)
(* its frames, and that doubt about a sensitive asset reaches a person.    *)
(*                                                                         *)
(* The first sections are about the operators of Classification: sums by   *)
(* folds, the best label of a set, the highest score.  Then one invariant  *)
(* says what is known at each step of the asset.                           *)
(***************************************************************************)
EXTENDS AssetPipeline, Folds, FiniteSetTheorems, SequenceTheorems, TLAPS

-----------------------------------------------------------------------------
(* Sums.  Of a finite set S and a natural number f[i] for every i in S, the *)
(* fold that a sum is has a value, the number of dots in rows of f[i] dots. *)

Row(f, i) == {i} \X (1..f[i])
Dots(f, S) == UNION {Row(f, i) : i \in S}
Pick(T) == CHOOSE x \in T : TRUE
Adds(f, S, F) ==
    F = [s \in SUBSET S |-> IF s = {} THEN 0 ELSE f[Pick(s)] + F[s \ {Pick(s)}]]

LEMMA RowCount ==
    ASSUME NEW f, NEW i, f[i] \in Nat
    PROVE  IsFiniteSet(Row(f, i)) /\ Cardinality(Row(f, i)) = f[i]
<1>1. IsFiniteSet({i}) /\ Cardinality({i}) = 1
    BY FS_Singleton
<1>2. IsFiniteSet(1..f[i]) /\ Cardinality(1..f[i]) = f[i]
    BY FS_Interval
<1>3. /\ IsFiniteSet({i} \X (1..f[i]))
      /\ Cardinality({i} \X (1..f[i])) = Cardinality({i}) * Cardinality(1..f[i])
    BY <1>1, <1>2, FS_Product
<1>4. Cardinality({i} \X (1..f[i])) = f[i]
    BY <1>1, <1>2, <1>3
<1> QED BY <1>3, <1>4 DEF Row

LEMMA DotsFinite ==
    ASSUME NEW S, IsFiniteSet(S), NEW f, \A i \in S : f[i] \in Nat
    PROVE  IsFiniteSet(Dots(f, S)) /\ Cardinality(Dots(f, S)) \in Nat
<1> DEFINE R == {Row(f, i) : i \in S}
           g == [i \in S |-> Row(f, i)]
<1>1. g \in Surjection(S, R)
    BY DEF Surjection
<1>2. IsFiniteSet(R)
    BY <1>1, FS_Surjection
<1>3. \A T \in R : IsFiniteSet(T)
    BY RowCount
<1> HIDE DEF R
<1>4. IsFiniteSet(UNION R)
    BY <1>2, <1>3, FS_UNION
<1> USE DEF R
<1>5. IsFiniteSet(Dots(f, S))
    BY <1>4 DEF Dots
<1> QED BY <1>5, FS_CardinalityType

LEMMA DotsOfOneMore ==
    ASSUME NEW S, IsFiniteSet(S), NEW f, \A i \in S : f[i] \in Nat, NEW x \in S
    PROVE  Cardinality(Dots(f, S)) = f[x] + Cardinality(Dots(f, S \ {x}))
<1>1. IsFiniteSet(S \ {x}) /\ \A i \in S \ {x} : f[i] \in Nat
    BY FS_RemoveElement
<1>2. IsFiniteSet(Dots(f, S \ {x})) /\ Cardinality(Dots(f, S \ {x})) \in Nat
    BY <1>1, DotsFinite
<1>3. IsFiniteSet(Row(f, x)) /\ Cardinality(Row(f, x)) = f[x]
    BY RowCount
<1>4. Dots(f, S) = Row(f, x) \cup Dots(f, S \ {x})
    BY DEF Dots
<1>5. Row(f, x) \cap Dots(f, S \ {x}) = {}
    BY DEF Dots, Row
<1>6. Cardinality(Row(f, x) \cap Dots(f, S \ {x})) = 0
    BY <1>5, FS_EmptySet
<1>7. Cardinality(Dots(f, S)) = f[x] + Cardinality(Dots(f, S \ {x})) - 0
    BY <1>2, <1>3, <1>4, <1>6, FS_Union
<1> QED BY <1>2, <1>7

LEMMA SumExists ==
    ASSUME NEW S, IsFiniteSet(S), NEW f, \A i \in S : f[i] \in Nat
    PROVE  \E F : Adds(f, S, F)
<1> DEFINE F == [s \in SUBSET S |-> Cardinality(Dots(f, s))]
<1>1. ASSUME NEW s \in SUBSET S, s # {}
      PROVE  F[s] = f[Pick(s)] + F[s \ {Pick(s)}]
    <2>1. Pick(s) \in s
        BY <1>1 DEF Pick
    <2>2. IsFiniteSet(s) /\ \A i \in s : f[i] \in Nat
        BY FS_Subset
    <2> QED BY <2>1, <2>2, DotsOfOneMore
<1>2. F[{}] = 0
    BY FS_EmptySet DEF Dots
<1>3. Adds(f, S, F)
    BY <1>1, <1>2 DEF Adds
<1> QED BY <1>3

LEMMA SumIs ==
    ASSUME NEW S, IsFiniteSet(S), NEW f, \A i \in S : f[i] \in Nat, NEW F, Adds(f, S, F)
    PROVE  F[S] = Cardinality(Dots(f, S))
<1> DEFINE Wrong == {T \in SUBSET S : F[T] # Cardinality(Dots(f, T))}
<1>1. SUFFICES ASSUME Wrong # {} PROVE FALSE
    OBVIOUS
<1>2. Wrong \subseteq FiniteSubsetsOf(S)
    BY FS_Subset DEF FiniteSubsetsOf
<1>3. PICK T \in Wrong : \A U \in Wrong : <<U, T>> \notin StrictSubsetOrdering(S)
    BY <1>1, <1>2, WFMin, FS_StrictSubsetOrderingWellFounded
<1>4. F[T] = IF T = {} THEN 0 ELSE f[Pick(T)] + F[T \ {Pick(T)}]
    BY DEF Adds
<1>5. T # {}
    BY <1>3, <1>4, FS_EmptySet DEF Dots
<1>6. Pick(T) \in T
    BY <1>5 DEF Pick
<1>7. <<T \ {Pick(T)}, T>> \in StrictSubsetOrdering(S)
    BY <1>6 DEF StrictSubsetOrdering
<1>8. F[T \ {Pick(T)}] = Cardinality(Dots(f, T \ {Pick(T)}))
    BY <1>3, <1>7
<1>9. IsFiniteSet(T) /\ \A i \in T : f[i] \in Nat
    BY FS_Subset
<1>10. F[T] = Cardinality(Dots(f, T))
    BY <1>4, <1>5, <1>6, <1>8, <1>9, DotsOfOneMore
<1> QED BY <1>10

LEMMA DotsOfOne ==
    ASSUME NEW x, NEW f, f[x] \in Nat
    PROVE  Cardinality(Dots(f, {x})) = f[x]
BY RowCount DEF Dots

\* The sum of one label's scores over the frames S.
Total(fr, l, S) == MapThenSumSet(LAMBDA i : fr[i].scores[l][1], S)

LEMMA SumOfScores ==
    ASSUME NEW fr, NEW l, NEW S, IsFiniteSet(S), \A i \in S : fr[i].scores[l][1] \in Nat
    PROVE  Total(fr, l, S) = Cardinality(Dots([i \in S |-> fr[i].scores[l][1]], S))
<1> DEFINE h == [i \in S |-> fr[i].scores[l][1]]
           Sums(F) == F = [s \in SUBSET S |-> IF s = {} THEN 0
                             ELSE fr[Pick(s)].scores[l][1] + F[s \ {Pick(s)}]]
<1>1. \A i \in S : h[i] \in Nat
    OBVIOUS
<1>2. \A s \in SUBSET S : s # {} => Pick(s) \in S
    BY DEF Pick
<1>3. ASSUME NEW F PROVE Sums(F) <=> Adds(h, S, F)
    <2>1. [s \in SUBSET S |-> IF s = {} THEN 0 ELSE fr[Pick(s)].scores[l][1] + F[s \ {Pick(s)}]]
          = [s \in SUBSET S |-> IF s = {} THEN 0 ELSE h[Pick(s)] + F[s \ {Pick(s)}]]
        BY <1>2
    <2> QED BY <2>1 DEF Adds
<1>4. Total(fr, l, S) = (CHOOSE F : Sums(F))[S]
    BY DEF Total, MapThenSumSet, MapThenFoldSet, Pick
<1> HIDE DEF h, Sums
<1>5. \E F : Sums(F)
    BY <1>1, <1>3, SumExists
<1>6. Adds(h, S, CHOOSE F : Sums(F))
    BY <1>3, <1>5
<1>7. (CHOOSE F : Sums(F))[S] = Cardinality(Dots(h, S))
    BY <1>1, <1>6, SumIs
<1> QED BY <1>4, <1>7 DEF h

-----------------------------------------------------------------------------
(* The best of a finite set of labels.                                      *)

LEMMA Greatest ==
    ASSUME NEW S, IsFiniteSet(S), S # {}, NEW f, \A i \in S : f[i] \in Nat
    PROVE  \E l \in S : \A k \in S : f[k] <= f[l]
<1> DEFINE Topless == {T \in SUBSET S : T # {} /\ \A x \in T : \E y \in T : ~(f[y] <= f[x])}
<1>1. SUFFICES ASSUME Topless # {} PROVE FALSE
    <2>1. S \notin Topless
        BY <1>1
    <2> QED BY <2>1
<1>2. Topless \subseteq FiniteSubsetsOf(S)
    BY FS_Subset DEF FiniteSubsetsOf
<1>3. PICK T \in Topless : \A U \in Topless : <<U, T>> \notin StrictSubsetOrdering(S)
    BY <1>1, <1>2, WFMin, FS_StrictSubsetOrderingWellFounded
<1>4. PICK x \in T : TRUE
    BY <1>3
<1>5. <<T \ {x}, T>> \in StrictSubsetOrdering(S)
    BY <1>4 DEF StrictSubsetOrdering
<1>6. T \ {x} \in SUBSET S /\ T \ {x} \notin Topless
    BY <1>3, <1>5
<1>7. PICK y \in T : ~(f[y] <= f[x])
    BY <1>4
<1>8. T \ {x} # {} /\ f[x] \in Nat /\ f[y] \in Nat
    BY <1>4, <1>7
<1>9. PICK z \in T \ {x} : \A v \in T \ {x} : f[v] <= f[z]
    BY <1>6, <1>8
<1>10. f[z] \in Nat
    BY <1>9
<1>11. \A v \in T : f[v] <= f[z]
    BY <1>7, <1>8, <1>9, <1>10
<1> QED BY <1>11, <1>9

\* Scores over a common number of frames compare like whole numbers.
LEMMA LessIs ==
    ASSUME NEW d \in Nat \ {0}, NEW a \in Nat \X {d}, NEW b \in Nat \X {d}
    PROVE  Less(a, b) <=> a[1] < b[1]
<1>1. a[1] \in Nat /\ b[1] \in Nat /\ a[2] = d /\ b[2] = d
    OBVIOUS
<1>2. \A m, n \in Nat : m < n => m * d < n * d
    <2> TAKE m, n \in Nat
    <2>1. HAVE m < n
    <2>2. PICK k \in Nat : n = m + 1 + k
        <3>1. n - m - 1 \in Nat /\ n = m + 1 + (n - m - 1)
            BY <2>1
        <3> QED BY <3>1
    <2>3. n * d = m * d + d + k * d
        BY <2>2
    <2>4. k * d \in Nat /\ m * d \in Nat
        OBVIOUS
    <2> QED BY <2>3, <2>4
<1>3. CASE a[1] < b[1]
    BY <1>1, <1>2, <1>3 DEF Less
<1>4. CASE b[1] < a[1]
    <2>1. b[1] * d < a[1] * d /\ b[1] * d \in Nat /\ a[1] * d \in Nat
        BY <1>1, <1>2, <1>4
    <2> QED BY <1>1, <1>4, <2>1 DEF Less
<1>5. CASE a[1] = b[1]
    BY <1>1, <1>5 DEF Less
<1> QED BY <1>1, <1>3, <1>4, <1>5

\* Scores with one denominator: a finite set of labels has a highest one.
Comparable(scores, S, d) == \A l \in S : scores[l] \in Nat \X {d}

LEMMA HighestScore ==
    ASSUME NEW S, IsFiniteSet(S), S # {}, NEW d, NEW scores, Comparable(scores, S, d)
    PROVE  \E l \in S : \A k \in S : scores[k][1] <= scores[l][1]
<1> DEFINE f == [l \in S |-> scores[l][1]]
<1>1. \A l \in S : f[l] \in Nat
    BY DEF Comparable
<1>2. PICK l \in S : \A k \in S : f[k] <= f[l]
    BY <1>1, Greatest
<1> QED BY <1>2

LEMMA RankIs ==
    ASSUME NEW p, NEW M, p.order \in Seq(M), NEW l \in ToSet(p.order)
    PROVE  Rank(p, l) \in 1..Len(p.order) /\ p.order[Rank(p, l)] = l
<1>1. \E i \in DOMAIN p.order : p.order[i] = l
    BY DEF ToSet
<1>2. DOMAIN p.order = 1..Len(p.order)
    BY LenProperties
<1> QED BY <1>1, <1>2 DEF Rank

LEMMA BestIs ==
    ASSUME NEW p, NEW M, p.order \in Seq(M), NEW S \in SUBSET ToSet(p.order),
           IsFiniteSet(S), S # {}, NEW d \in Nat \ {0}, NEW scores, Comparable(scores, S, d)
    PROVE  /\ Best(p, scores, S) \in S
           /\ \A k \in S : scores[k][1] <= scores[Best(p, scores, S)][1]
<1> DEFINE Beats(l, k) == \/ Less(scores[k], scores[l])
                          \/ ~ Less(scores[l], scores[k]) /\ Rank(p, l) < Rank(p, k)
           n == Len(p.order)
<1>1. PICK top \in S : \A k \in S : scores[k][1] <= scores[top][1]
    BY HighestScore
<1> DEFINE T == {l \in S : scores[l][1] = scores[top][1]}
           early == [l \in T |-> n - Rank(p, l)]
<1>2. n \in Nat
    BY LenProperties
<1>3. \A l \in S : Rank(p, l) \in 1..n /\ p.order[Rank(p, l)] = l
    BY RankIs
<1>4. IsFiniteSet(T) /\ T # {} /\ T \subseteq S
    BY <1>1, FS_Subset
<1>5. \A l \in T : early[l] \in Nat
    BY <1>2, <1>3, <1>4
<1>6. PICK l \in T : \A k \in T : early[k] <= early[l]
    <2> HIDE DEF T, early
    <2> QED BY <1>4, <1>5, Greatest
<1>7. \A k \in S : scores[k] \in Nat \X {d} /\ scores[k][1] \in Nat
    BY DEF Comparable
<1>8. \A j, k \in S : Less(scores[j], scores[k]) <=> scores[j][1] < scores[k][1]
    BY <1>7, LessIs
<1>9. ASSUME NEW k \in S \ {l} PROVE Beats(l, k)
    <2>1. CASE k \in T
        <3>1. Rank(p, l) <= Rank(p, k) /\ Rank(p, l) # Rank(p, k)
            BY <1>2, <1>3, <1>4, <1>6, <1>9, <2>1
        <3>2. ~ Less(scores[l], scores[k])
            BY <1>4, <1>6, <1>7, <1>8, <2>1
        <3>3. Rank(p, l) \in Nat /\ Rank(p, k) \in Nat
            BY <1>2, <1>3, <1>4, <1>6, <1>9
        <3>4. Rank(p, l) < Rank(p, k)
            BY <3>1, <3>3
        <3> QED BY <3>2, <3>4
    <2>2. CASE k \notin T
        BY <1>1, <1>4, <1>6, <1>7, <1>8, <2>2
    <2> QED BY <2>1, <2>2
<1>10. \E b \in S : \A k \in S \ {b} : Beats(b, k)
    BY <1>4, <1>6, <1>9
<1> DEFINE b == CHOOSE v \in S : \A k \in S \ {v} : Beats(v, k)
<1>11. b \in S /\ \A k \in S \ {b} : Beats(b, k)
    <2> HIDE DEF Beats
    <2> QED BY <1>10
<1>12. Best(p, scores, S) = b
    BY DEF Best
<1> HIDE DEF b
<1>13. ASSUME NEW k \in S PROVE scores[k][1] <= scores[b][1]
    <2>1. k = b \/ Less(scores[k], scores[b]) \/ ~ Less(scores[b], scores[k])
        BY <1>11
    <2> QED BY <1>7, <1>8, <1>11, <2>1
<1> QED BY <1>11, <1>12, <1>13

LEMMA HighestIs ==
    ASSUME NEW scores, IsFiniteSet(DOMAIN scores), DOMAIN scores # {},
           NEW d \in Nat \ {0}, Comparable(scores, DOMAIN scores, d)
    PROVE  \E k \in DOMAIN scores : /\ Highest(scores) = scores[k]
                                   /\ \A j \in DOMAIN scores : scores[j][1] <= scores[k][1]
<1> DEFINE D == DOMAIN scores
<1>1. \A k \in D : scores[k] \in Nat \X {d} /\ scores[k][1] \in Nat
    BY DEF Comparable
<1>2. \A j, k \in D : Less(scores[j], scores[k]) <=> scores[j][1] < scores[k][1]
    BY <1>1, LessIs
<1>3. PICK top \in D : \A k \in D : scores[k][1] <= scores[top][1]
    BY HighestScore
<1>4. \E k \in D : \A j \in D : ~ Less(scores[k], scores[j])
    BY <1>1, <1>2, <1>3
<1> DEFINE h == CHOOSE k \in D : \A j \in D : ~ Less(scores[k], scores[j])
<1>5. h \in D /\ \A j \in D : ~ Less(scores[h], scores[j])
    BY <1>4
<1>6. Highest(scores) = scores[h]
    BY DEF Highest
<1> HIDE DEF h
<1>7. \A j \in D : scores[j][1] <= scores[h][1]
    BY <1>1, <1>2, <1>5
<1> QED BY <1>5, <1>6, <1>7

-----------------------------------------------------------------------------
(* Outputs of the backend, and the results that follow them.                *)

OutputsOf(c) ==
    {RawOutput(c.profile.order, s) :
       s \in Scores(Mapped(c.profile)) \cup Scores(Mapped(c.profile) \cup {Alien})}

\* Every label of D has a score, and the label of the output the highest.
Scored(o, D) ==
    /\ o.scores \in Scores(D)
    /\ D # {} => o.label \in D /\ \A k \in D : o.scores[k][1] <= o.scores[o.label][1]

ScoreOver(fr, strategy, l) ==
    LET S == {i \in DOMAIN fr : l \in DOMAIN fr[i].scores}
    IN  IF strategy = "mean" THEN <<Total(fr, l, S), Cardinality(S)>>
        ELSE <<Max({fr[i].scores[l][1] : i \in S}), 1>>

\* What a result has to do with the frames fr it was made from.
Follows(r, fr, c) ==
    /\ fr \in Seq(OutputsOf(c)) /\ fr # <<>>
    /\ r.label \in Mapped(c.profile) /\ r.category = c.profile.category[r.label]
    /\ Mapped(c.profile) \subseteq DOMAIN r.scores
    /\ DOMAIN r.scores \subseteq Mapped(c.profile) \cup {Alien}
    /\ \A l \in Mapped(c.profile) : r.scores[l] = ScoreOver(fr, c.strategy, l)
    /\ \E d \in Nat \ {0} : Comparable(r.scores, DOMAIN r.scores, d)
    /\ \A k \in DOMAIN r.scores : r.scores[k][1] <= r.scores[r.label][1]

Setups == [enabled : BOOLEAN, limit : FrameLimits, strategy : Strategies,
           profile : Profiles, subtype : {"none", "unacknowledged", "ready"}]

LEMMA SetToSeqIs ==
    ASSUME NEW S, IsFiniteSet(S)
    PROVE  SetToSeq(S) \in Seq(S) /\ ToSet(SetToSeq(S)) = S
<1> DEFINE n == Cardinality(S)
           f == SetToSeq(S)
<1>1. n \in Nat /\ ExistsBijection(1..n, S)
    BY FS_CardinalityType
<1>2. \E g \in [1..n -> S] : IsInjective(g)
    BY <1>1 DEF ExistsBijection, Bijection, Injection, IsInjective
<1>3. f \in [1..n -> S] /\ IsInjective(f)
    BY <1>2 DEF SetToSeq
<1>4. f \in Injection(1..n, S)
    BY <1>3 DEF Injection
<1>5. IsFiniteSet(1..n) /\ Cardinality(1..n) = n
    BY <1>1, FS_Interval
<1>6. f \in Surjection(1..n, S)
    BY <1>4, <1>5, FS_Injection
<1>7. f \in Seq(S)
    BY <1>1, <1>3, SeqDef
<1> HIDE DEF f, n
<1>8. ToSet(f) = S
    BY <1>3, <1>6 DEF ToSet, Surjection
<1> QED BY <1>7, <1>8 DEF f

LEMMA ProfileIs ==
    ASSUME NEW p \in Profiles
    PROVE  /\ p.order \in Seq(Mapped(p)) /\ ToSet(p.order) = Mapped(p)
           /\ IsFiniteSet(Mapped(p)) /\ Alien \notin Mapped(p)
           /\ IsFiniteSet(Mapped(p) \cup {Alien})
<1>1. p.order \in Seq(Mapped(p)) /\ Alien \notin Mapped(p)
    BY ConstantsOK
<1>2. ToSet(p.order) = Mapped(p)
    BY DEF Mapped
<1>3. DOMAIN p.order = 1..Len(p.order) /\ Len(p.order) \in Nat /\ p.order \in [1..Len(p.order) -> Mapped(p)]
    BY <1>1, LenProperties
<1>4. p.order \in Surjection(1..Len(p.order), Mapped(p))
    BY <1>2, <1>3 DEF Surjection, ToSet
<1>5. IsFiniteSet(1..Len(p.order))
    BY <1>3, FS_Interval
<1>6. IsFiniteSet(Mapped(p))
    BY <1>4, <1>5, FS_Surjection
<1>7. IsFiniteSet(Mapped(p) \cup {Alien})
    BY <1>6, FS_AddElement
<1> QED BY <1>1, <1>2, <1>6, <1>7

LEMMA ScoreValue ==
    ASSUME NEW D, NEW s \in Scores(D)
    PROVE  DOMAIN s = D /\ Comparable(s, D, 1)
BY ConstantsOK DEF Scores, Comparable

LEMMA RawOutputIs ==
    ASSUME NEW M, NEW order \in Seq(M), NEW D, IsFiniteSet(D), NEW s \in Scores(D)
    PROVE  Scored(RawOutput(order, s), D) /\ RawOutput(order, s).scores = s
<1> DEFINE rest == SetToSeq(D \ ToSet(order))
           p == [order |-> order \o rest]
<1>1. DOMAIN s = D /\ Comparable(s, D, 1)
    BY ScoreValue
<1>2. RawOutput(order, s) = [label |-> Best(p, s, D), scores |-> s]
    BY <1>1 DEF RawOutput
<1>3. IsFiniteSet(D \ ToSet(order))
    BY FS_Difference
<1>4. rest \in Seq(D \ ToSet(order)) /\ ToSet(rest) = D \ ToSet(order)
    BY <1>3, SetToSeqIs
<1> HIDE DEF rest
<1>5. p.order \in Seq(M \cup D)
    <2>1. order \in Seq(M \cup D) /\ rest \in Seq(M \cup D)
        BY <1>4
    <2> QED BY <2>1, ConcatProperties
<1>6. D \subseteq ToSet(p.order)
    <2> SUFFICES ASSUME NEW l \in D PROVE l \in ToSet(p.order)
        OBVIOUS
    <2>1. Len(order) \in Nat /\ Len(rest) \in Nat /\ DOMAIN order = 1..Len(order)
              /\ DOMAIN rest = 1..Len(rest)
        BY <1>4, LenProperties
    <2>2. /\ DOMAIN (order \o rest) = 1..(Len(order) + Len(rest))
          /\ \A i \in 1..(Len(order) + Len(rest)) :
               (order \o rest)[i] = IF i <= Len(order) THEN order[i] ELSE rest[i - Len(order)]
        BY <1>4, <2>1, ConcatProperties, LenProperties
    <2>3. CASE l \in ToSet(order)
        <3>1. PICK i \in 1..Len(order) : order[i] = l
            BY <2>1, <2>3 DEF ToSet
        <3>2. i \in DOMAIN (order \o rest) /\ (order \o rest)[i] = l
            BY <2>1, <2>2, <3>1
        <3> QED BY <3>2 DEF ToSet
    <2>4. CASE l \notin ToSet(order)
        <3>1. PICK i \in 1..Len(rest) : rest[i] = l
            BY <1>4, <2>1, <2>4 DEF ToSet
        <3>2. /\ i + Len(order) \in 1..(Len(order) + Len(rest)) /\ ~(i + Len(order) <= Len(order))
              /\ (i + Len(order)) - Len(order) = i
            BY <2>1, <3>1
        <3>3. i + Len(order) \in DOMAIN (order \o rest) /\ (order \o rest)[i + Len(order)] = l
            BY <2>2, <3>1, <3>2
        <3> QED BY <3>3 DEF ToSet
    <2> QED BY <2>3, <2>4
<1> HIDE DEF p
<1>7. D # {} => Best(p, s, D) \in D /\ \A k \in D : s[k][1] <= s[Best(p, s, D)][1]
    BY <1>1, <1>5, <1>6, BestIs
<1> QED BY <1>2, <1>7 DEF Scored

LEMMA OutputIs ==
    ASSUME NEW c, c.profile \in Profiles, NEW o \in OutputsOf(c)
    PROVE  \E D \in {Mapped(c.profile), Mapped(c.profile) \cup {Alien}} : Scored(o, D)
<1>1. PICK s \in Scores(Mapped(c.profile)) \cup Scores(Mapped(c.profile) \cup {Alien}) :
        o = RawOutput(c.profile.order, s)
    BY DEF OutputsOf
<1>2. PICK D \in {Mapped(c.profile), Mapped(c.profile) \cup {Alien}} : s \in Scores(D)
    BY <1>1
<1>3. IsFiniteSet(D) /\ c.profile.order \in Seq(Mapped(c.profile))
    BY ProfileIs
<1>4. Scored(o, D)
    BY <1>1, <1>2, <1>3, RawOutputIs
<1> QED BY <1>4

LEMMA MappedScore ==
    ASSUME NEW c, c.profile \in Profiles, NEW o \in OutputsOf(c), NEW l \in Mapped(c.profile)
    PROVE  l \in DOMAIN o.scores /\ o.scores[l] \in Nat \X {1}
<1>1. PICK D \in {Mapped(c.profile), Mapped(c.profile) \cup {Alien}} : Scored(o, D)
    BY OutputIs
<1>2. DOMAIN o.scores = D /\ Comparable(o.scores, D, 1)
    BY <1>1, ScoreValue DEF Scored
<1> QED BY <1>2 DEF Comparable

\* The score of a label that every one of n frames has.
LEMMA TotalIs ==
    ASSUME NEW n \in Nat \ {0}, NEW fr, DOMAIN fr = 1..n, NEW l,
           \A i \in 1..n : l \in DOMAIN fr[i].scores /\ fr[i].scores[l] \in Nat \X {1}
    PROVE  /\ Total(fr, l, 1..n) \in Nat
           /\ Cardinality(1..n) = n
           /\ n = 1 => Total(fr, l, 1..n) = fr[1].scores[l][1]
<1> DEFINE h == [i \in 1..n |-> fr[i].scores[l][1]]
<1>1. IsFiniteSet(1..n) /\ Cardinality(1..n) = n
    BY FS_Interval
<1>2. \A i \in 1..n : fr[i].scores[l][1] \in Nat /\ h[i] \in Nat
    OBVIOUS
<1>3. Total(fr, l, 1..n) = Cardinality(Dots(h, 1..n))
    BY <1>1, <1>2, SumOfScores
<1>4. n = 1 => 1..n = {1} /\ h[1] = fr[1].scores[l][1]
    OBVIOUS
<1>5. 1 \in 1..n
    OBVIOUS
<1> HIDE DEF h
<1>6. Cardinality(Dots(h, 1..n)) \in Nat
    BY <1>1, <1>2, DotsFinite
<1>7. n = 1 => Cardinality(Dots(h, 1..n)) = fr[1].scores[l][1]
    BY <1>2, <1>4, <1>5, DotsOfOne
<1> QED BY <1>1, <1>3, <1>6, <1>7

LEMMA MaxIs ==
    ASSUME NEW S, NEW x \in S, S \subseteq Nat, \A y \in S : y <= x
    PROVE  Max(S) = x
<1>1. \E m \in S : \A y \in S : m >= y
    OBVIOUS
<1>2. Max(S) \in S /\ \A y \in S : Max(S) >= y
    BY <1>1 DEF Max
<1>3. Max(S) \in Nat /\ x \in Nat /\ Max(S) >= x /\ Max(S) <= x
    BY <1>2
<1> QED BY <1>3

\* A label's score in the result is its score under the strategy.
LEMMA ScoreOfIs ==
    ASSUME NEW n \in Nat \ {0}, NEW fr, DOMAIN fr = 1..n, NEW l, NEW strategy,
           \A i \in 1..n : l \in DOMAIN fr[i].scores /\ fr[i].scores[l] \in Nat \X {1}
    PROVE  /\ ScoreOf(strategy, fr, l) = ScoreOver(fr, strategy, l)
           /\ ScoreOf(strategy, fr, l) \in Nat \X {IF strategy = "mean" THEN n ELSE 1}
           /\ n = 1 => ScoreOf(strategy, fr, l) = fr[1].scores[l]
<1>1. Of(fr, l) = 1..n
    BY DEF Of
<1>2. {i \in DOMAIN fr : l \in DOMAIN fr[i].scores} = 1..n
    OBVIOUS
<1>3. n = 1 => fr[1].scores[l] = <<fr[1].scores[l][1], 1>>
    OBVIOUS
<1>4. CASE strategy = "mean"
    <2>1. MeanOf(fr, l) = <<Total(fr, l, 1..n), Cardinality(1..n)>>
        BY <1>1 DEF MeanOf, Total
    <2>2. ScoreOver(fr, strategy, l)
            = <<Total(fr, l, 1..n), Cardinality(1..n)>>
        BY <1>2, <1>4 DEF ScoreOver
    <2>3. /\ Total(fr, l, 1..n) \in Nat /\ Cardinality(1..n) = n
          /\ n = 1 => Total(fr, l, 1..n) = fr[1].scores[l][1]
        BY TotalIs
    <2>4. ScoreOf(strategy, fr, l) = <<Total(fr, l, 1..n), n>>
        BY <1>4, <2>1, <2>3 DEF ScoreOf
    <2> QED BY <1>3, <1>4, <2>2, <2>3, <2>4
<1>5. CASE strategy # "mean"
    <2> DEFINE h == [i \in 1..n |-> fr[i].scores[l][1]]
               best == CHOOSE i \in 1..n :
                          \A j \in 1..n : ~ Less(fr[i].scores[l], fr[j].scores[l])
    <2>1. \A i \in 1..n : h[i] \in Nat
        OBVIOUS
    <2>0. IsFiniteSet(1..n) /\ 1 \in 1..n
        BY FS_Interval
    <2>2. PICK i \in 1..n : \A j \in 1..n : h[j] <= h[i]
        <3> HIDE DEF h
        <3> QED BY <2>0, <2>1, Greatest
    <2>3. ASSUME NEW j \in 1..n, NEW k \in 1..n
          PROVE  Less(fr[j].scores[l], fr[k].scores[l]) <=> h[j] < h[k]
        <3>1. fr[j].scores[l] \in Nat \X {1} /\ fr[k].scores[l] \in Nat \X {1} /\ 1 \in Nat \ {0}
            OBVIOUS
        <3> QED BY <3>1, LessIs
    <2>4. \E v \in 1..n : \A j \in 1..n : ~ Less(fr[v].scores[l], fr[j].scores[l])
        <3> HIDE DEF h
        <3>1. \A j \in 1..n : ~(h[i] < h[j])
            BY <2>1, <2>2
        <3>2. \A j \in 1..n : ~ Less(fr[i].scores[l], fr[j].scores[l])
            BY <2>3, <3>1
        <3> QED BY <3>2
    <2>5. best \in 1..n /\ \A j \in 1..n : ~ Less(fr[best].scores[l], fr[j].scores[l])
        BY <2>4
    <2>6. ScoreOf(strategy, fr, l) = fr[best].scores[l]
        BY <1>1, <1>5 DEF ScoreOf, MaxOf
    <2> HIDE DEF best
    <2>7. \A j \in 1..n : h[j] <= h[best]
        BY <2>1, <2>3, <2>5
    <2>8. Max({fr[v].scores[l][1] : v \in 1..n}) = fr[best].scores[l][1]
        <3>1. {fr[v].scores[l][1] : v \in 1..n} \subseteq Nat
            OBVIOUS
        <3>2. \A y \in {fr[v].scores[l][1] : v \in 1..n} : y <= fr[best].scores[l][1]
            BY <2>5, <2>7
        <3> QED BY <2>5, <3>1, <3>2, MaxIs
    <2>9. ScoreOver(fr, strategy, l) = <<fr[best].scores[l][1], 1>>
        BY <1>2, <1>5, <2>8 DEF ScoreOver
    <2>10. fr[best].scores[l] \in Nat \X {1}
        BY <2>5
    <2>11. n = 1 => best = 1
        BY <2>5
    <2> QED BY <1>5, <2>6, <2>9, <2>10, <2>11
<1> QED BY <1>4, <1>5

LEMMA FramesScore ==
    ASSUME NEW c, c.profile \in Profiles, NEW fr \in Seq(OutputsOf(c)), fr # <<>>
    PROVE  /\ Len(fr) \in Nat \ {0} /\ DOMAIN fr = 1..Len(fr)
           /\ \A l \in Mapped(c.profile), i \in 1..Len(fr) :
                l \in DOMAIN fr[i].scores /\ fr[i].scores[l] \in Nat \X {1}
<1>1. Len(fr) \in Nat /\ DOMAIN fr = 1..Len(fr) /\ \A i \in 1..Len(fr) : fr[i] \in OutputsOf(c)
    BY LenProperties, ElementOfSeq
<1>2. Len(fr) # 0
    BY EmptySeq
<1> QED BY <1>1, <1>2, MappedScore

\* predict_one
LEMMA PredictOneFollows ==
    ASSUME NEW c, c.profile \in Profiles, NEW o \in OutputsOf(c),
           PredictOne(c.profile, o) # NoResult
    PROVE  /\ Follows(PredictOne(c.profile, o), <<o>>, c)
           /\ Len(PredictOne(c.profile, o).labels) = 1
<1> DEFINE r == PredictOne(c.profile, o)
           M == Mapped(c.profile)
<1>1. o.label \in M
    BY DEF PredictOne, Resolve
<1>2. r = [category |-> c.profile.category[o.label], label |-> o.label, labels |-> <<o.label>>,
           scores |-> o.scores]
    BY <1>1 DEF PredictOne, Resolve
<1>3. PICK D \in {M, M \cup {Alien}} : Scored(o, D)
    BY OutputIs
<1>4. DOMAIN o.scores = D /\ Comparable(o.scores, D, 1)
    BY <1>3, ScoreValue DEF Scored
<1>5. \A k \in D : o.scores[k][1] <= o.scores[o.label][1]
    BY <1>1, <1>3 DEF Scored
<1>6. <<o>> \in Seq(OutputsOf(c)) /\ <<o>> # <<>> /\ Len(<<o>>) = 1 /\ DOMAIN <<o>> = 1..1
    OBVIOUS
<1>7. ASSUME NEW l \in M PROVE o.scores[l] = ScoreOver(<<o>>, c.strategy, l)
    <2> DEFINE fr == <<o>>
    <2>1. PICK n \in Nat \ {0} : n = 1
        OBVIOUS
    <2>2. l \in DOMAIN o.scores /\ o.scores[l] \in Nat \X {1}
        BY MappedScore
    <2>3. DOMAIN fr = 1..n /\ fr[1] = o /\ \A i \in 1..n : fr[i] = o
        BY <2>1
    <2> HIDE DEF fr
    <2>4. \A i \in 1..n : l \in DOMAIN fr[i].scores /\ fr[i].scores[l] \in Nat \X {1}
        BY <2>2, <2>3
    <2>5. /\ ScoreOf(c.strategy, fr, l) = ScoreOver(fr, c.strategy, l)
          /\ n = 1 => ScoreOf(c.strategy, fr, l) = fr[1].scores[l]
        <3>1. DOMAIN fr = 1..n
            BY <2>3
        <3> QED BY ONLY n \in Nat \ {0}, <2>4, <3>1, ScoreOfIs
    <2>6. ScoreOver(fr, c.strategy, l) = o.scores[l]
        BY <2>1, <2>3, <2>5
    <2> QED BY <2>6 DEF fr
<1>8. M \subseteq D /\ D \subseteq M \cup {Alien}
    OBVIOUS
<1>9. Follows(r, <<o>>, c)
    <2>1. r.label = o.label /\ r.category = c.profile.category[o.label] /\ r.scores = o.scores
        BY <1>2
    <2> HIDE DEF r
    <2>2. \E d \in Nat \ {0} : Comparable(r.scores, DOMAIN r.scores, d)
        BY <1>4, <2>1
    <2> QED BY <1>1, <1>4, <1>5, <1>6, <1>7, <1>8, <2>1, <2>2 DEF Follows
<1> QED BY <1>2, <1>9

\* predict_aggregate
LEMMA AggregateFollows ==
    ASSUME NEW c, c.profile \in Profiles, NEW fr \in Seq(OutputsOf(c)), fr # <<>>,
           Aggregate(c.profile, c.strategy, fr) # NoResult
    PROVE  /\ Follows(Aggregate(c.profile, c.strategy, fr), fr, c)
           /\ Len(Aggregate(c.profile, c.strategy, fr).labels) = Len(fr)
<1> DEFINE r == Aggregate(c.profile, c.strategy, fr)
           M == Mapped(c.profile)
           n == Len(fr)
           d == IF c.strategy = "mean" THEN n ELSE 1
           total == [l \in M |-> ScoreOf(c.strategy, fr, l)]
           names == [i \in DOMAIN fr |-> fr[i].label]
           best == Best(c.profile, total, M)
<1>1. /\ n \in Nat \ {0} /\ DOMAIN fr = 1..n
      /\ \A l \in M, i \in 1..n : l \in DOMAIN fr[i].scores /\ fr[i].scores[l] \in Nat \X {1}
    BY FramesScore
<1>2. \A l \in M : Of(fr, l) # {}
    BY <1>1 DEF Of
<1>3. {l \in M : Of(fr, l) # {}} = M
    BY <1>2
<1>4. r = IF fr = <<>> \/ M = {} THEN NoResult
          ELSE Resolve(c.profile, best, names, total)
    BY <1>3 DEF Aggregate
<1>5. M # {}
    BY <1>4
<1>6. d \in Nat \ {0}
    BY <1>1
<1> HIDE DEF d
<1>7. \A l \in M : total[l] = ScoreOver(fr, c.strategy, l) /\ total[l] \in Nat \X {d}
    BY <1>1, ScoreOfIs DEF d
<1>8. Comparable(total, M, d) /\ DOMAIN total = M
    BY <1>7 DEF Comparable
<1>9. c.profile.order \in Seq(M) /\ ToSet(c.profile.order) = M /\ IsFiniteSet(M)
    BY ProfileIs
<1> HIDE DEF total
<1>10. best \in M /\ \A k \in M : total[k][1] <= total[best][1]
    BY <1>5, <1>6, <1>8, <1>9, BestIs
<1>11. r = [category |-> c.profile.category[best], label |-> best, labels |-> names,
            scores |-> total]
    BY <1>4, <1>5, <1>10 DEF Resolve
<1>12. Len(names) = n
    BY <1>1
<1>13. Follows(r, fr, c)
    <2>1. r.label = best /\ r.category = c.profile.category[best] /\ r.scores = total
        BY <1>11
    <2> HIDE DEF r, best
    <2>2. \E e \in Nat \ {0} : Comparable(r.scores, DOMAIN r.scores, e)
        BY <1>6, <1>8, <2>1
    <2> QED BY <1>7, <1>8, <1>10, <2>1, <2>2 DEF Follows
<1> QED BY <1>11, <1>12, <1>13

\* The adult subtype model: of the labels it is configured for, every one that
\* was scored has a score over the same number of inputs.
SubScored(r) == \E d \in Nat \ {0} : Comparable(r.scores, DOMAIN r.scores \cap SubLabels, d)

LEMMA SubOutputScore ==
    ASSUME NEW o \in SubOutputs, NEW l \in SubLabels
    PROVE  l \in DOMAIN o.scores /\ o.scores[l] \in Nat \X {1}
<1>1. PICK s \in Scores(SubLabels) \cup Scores(SubLabels \cup {Alien}) :
        o = RawOutput(SubProfile.order, s)
    BY DEF SubOutputs
<1>2. PICK D \in {SubLabels, SubLabels \cup {Alien}} : s \in Scores(D)
    BY <1>1
<1>3. DOMAIN s = D /\ Comparable(s, D, 1)
    BY <1>2, ScoreValue
<1>4. o.scores = s
    BY <1>1 DEF RawOutput
<1> QED BY <1>3, <1>4 DEF Comparable

LEMMA SubResultScored ==
    ASSUME setup \in Setups, NEW n \in Nat \ {0}, DOMAIN frames = 1..n, Len(frames) = n,
           NEW s \in [1..n -> SubOutputs], NEW r, r = SubResult(s), r # NoResult
    PROVE  SubScored(r) /\ (n = 1 => r.scores = s[1].scores)
<1>1. CASE n = 1
    <2> DEFINE o == s[1]
    <2>1. r = PredictOne(SubProfile, o) /\ o \in SubOutputs
        BY <1>1 DEF SubResult
    <2> HIDE DEF o
    <2>2. r.scores = o.scores
        BY <2>1 DEF PredictOne, Resolve
    <2>3. Comparable(r.scores, DOMAIN r.scores \cap SubLabels, 1)
        BY <2>1, <2>2, SubOutputScore DEF Comparable
    <2>4. SubScored(r)
        BY <2>3 DEF SubScored
    <2> QED BY <2>2, <2>4 DEF o
<1>2. CASE n # 1
    <2>1. r = Aggregate(SubProfile, setup.strategy, s)
        BY <1>2 DEF SubResult
    <2> DEFINE seen == {l \in Mapped(SubProfile) : Of(s, l) # {}}
               total == [l \in seen |-> ScoreOf(setup.strategy, s, l)]
               d == IF setup.strategy = "mean" THEN n ELSE 1
    <2>2. r.scores = total
        BY <2>1 DEF Aggregate, Resolve
    <2>3. ASSUME NEW l \in seen \cap SubLabels PROVE total[l] \in Nat \X {d}
        <3>1. \A i \in 1..n : l \in DOMAIN s[i].scores /\ s[i].scores[l] \in Nat \X {1}
            BY SubOutputScore
        <3>2. ScoreOf(setup.strategy, s, l) \in Nat \X {d}
            BY <3>1, ScoreOfIs
        <3> QED BY <3>2
    <2>4. DOMAIN total = seen /\ d \in Nat \ {0}
        OBVIOUS
    <2> HIDE DEF seen, total, d
    <2>5. Comparable(r.scores, DOMAIN r.scores \cap SubLabels, d)
        BY <2>2, <2>3, <2>4 DEF Comparable
    <2> QED BY <1>2, <2>4, <2>5 DEF SubScored
<1> QED BY <1>1, <1>2

\* Where the highest known subtype is not below the threshold, some is not.
LEMMA Undoubted ==
    ASSUME NEW r, SubScored(r), NEW known, known = DOMAIN r.scores \cap SubLabels, known # {},
           ~ Less(Highest([l \in known |-> r.scores[l]]), <<Threshold, 1>>)
    PROVE  \E l \in known : ~ Less(r.scores[l], <<Threshold, 1>>)
<1> DEFINE s == [l \in known |-> r.scores[l]]
<1>1. IsFiniteSet(known)
    BY ConstantsOK, FS_Subset
<1>2. PICK d \in Nat \ {0} : Comparable(r.scores, known, d)
    BY DEF SubScored
<1>3. DOMAIN s = known /\ Comparable(s, known, d)
    BY <1>2 DEF Comparable
<1> HIDE DEF s
<1>4. PICK k \in known : Highest(s) = s[k]
    BY <1>1, <1>3, HighestIs
<1> QED BY <1>4 DEF s

\* The confidence is the score of the result's label when no category is named
\* like another label.
LEMMA ConfidenceIs ==
    ASSUME NEW c, c.profile \in Profiles, NEW fr, NEW r, Follows(r, fr, c),
           c.profile.category[r.label] \in Mapped(c.profile) \cup {Alien} =>
             c.profile.category[r.label] = r.label
    PROVE  Confidence(r) = ScoreOver(fr, c.strategy, r.label)
<1>1. r.scores[r.label] = ScoreOver(fr, c.strategy, r.label) /\ r.label \in DOMAIN r.scores
    BY DEF Follows
<1>2. CASE r.category \in DOMAIN r.scores
    <2>1. r.category = r.label
        BY <1>2 DEF Follows
    <2> QED BY <1>1, <1>2, <2>1 DEF Confidence
<1>3. CASE r.category \notin DOMAIN r.scores
    <2>1. PICK d \in Nat \ {0} : Comparable(r.scores, DOMAIN r.scores, d)
        BY DEF Follows
    <2>2. IsFiniteSet(DOMAIN r.scores)
        BY ProfileIs, FS_Subset DEF Follows
    <2>3. PICK k \in DOMAIN r.scores : /\ Highest(r.scores) = r.scores[k]
                                       /\ \A j \in DOMAIN r.scores : r.scores[j][1] <= r.scores[k][1]
        BY <1>1, <2>1, <2>2, HighestIs
    <2>4. r.scores[k] \in Nat \X {d} /\ r.scores[r.label] \in Nat \X {d}
        BY <1>1, <2>1, <2>3 DEF Comparable
    <2>5. r.scores[k][1] <= r.scores[r.label][1] /\ r.scores[r.label][1] <= r.scores[k][1]
        BY <1>1, <2>3 DEF Follows
    <2>6. r.scores[k] = r.scores[r.label]
        BY <2>4, <2>5
    <2> QED BY <1>1, <1>3, <2>3, <2>6 DEF Confidence
<1> QED BY <1>2, <1>3

\* Of the mapped labels none has a higher score than the result's.
LEMMA NoneHigher ==
    ASSUME NEW c, c.profile \in Profiles, NEW fr, NEW r, Follows(r, fr, c),
           NEW l \in Mapped(c.profile)
    PROVE  /\ ~ Less(ScoreOver(fr, c.strategy, r.label), ScoreOver(fr, c.strategy, l))
           /\ ~ Less(ScoreOver(fr, c.strategy, r.label), ScoreOver(fr, c.strategy, r.label))
<1>1. PICK d \in Nat \ {0} : Comparable(r.scores, DOMAIN r.scores, d)
    BY DEF Follows
<1>2. r.label \in DOMAIN r.scores /\ l \in DOMAIN r.scores
    BY DEF Follows
<1>3. r.scores[r.label] \in Nat \X {d} /\ r.scores[l] \in Nat \X {d}
    BY <1>1, <1>2 DEF Comparable
<1>4. r.scores[l][1] <= r.scores[r.label][1]
    BY <1>2 DEF Follows
<1>5. ~ Less(r.scores[r.label], r.scores[l]) /\ ~ Less(r.scores[r.label], r.scores[r.label])
    BY <1>3, <1>4, LessIs
<1>6. /\ r.scores[r.label] = ScoreOver(fr, c.strategy, r.label)
      /\ r.scores[l] = ScoreOver(fr, c.strategy, l)
    BY DEF Follows
<1> QED BY <1>5, <1>6

-----------------------------------------------------------------------------
(* The invariant.                                                           *)

Busy == {"temp", "download", "gif", "frames_dir", "extract", "predict"}
Results == {"record", "subtype", "analyse", "analysed"}

WellTyped == TypeOK /\ setup \in Setups

\* The directories the code is inside of, by the step it is at.
DirsFit ==
    /\ pc \in {"download", "gif", "frames_dir"} => dirs = {"original"}
    /\ pc \in {"extract", "predict"} => dirs = {"original", "frames"}
    /\ pc \notin {"download", "gif", "frames_dir", "extract", "predict", "unwind"} => dirs = {}

\* An outcome of the original, with no more inputs than the limit.
Sampled(o) ==
    /\ o.status \in {"sampled", "static_gif"} /\ o.warning = "none"
    /\ o.source \in {"original_frames", "original_still"}
    /\ o.count = Len(o.result.labels) /\ o.count <= setup.limit

\* Until its result is there the original has no outcome.
SamplingInv ==
    /\ pc \in Busy \cup {"classify"} => out = NoOutcome
    /\ pc \in Busy \cup {"unwind"} => SamplingApplies
    /\ pc = "predict" => /\ frames \in Seq(OutputsOf(setup)) /\ frames # <<>>
                         /\ Len(frames) <= setup.limit
    /\ pc = "unwind" /\ exc = "none" => Sampled(out) /\ Follows(out.result, frames, setup)

\* A preview is classified because nothing is sampled or because sampling failed.
Disabled == [NoOutcome EXCEPT !.status = "disabled", !.source = "preview"]
PreviewInv ==
    pc = "preview" =>
       \/ ~ SamplingApplies /\ out = NoOutcome
       \/ SamplingApplies /\ out = Disabled
       \/ SamplingApplies /\ \E code \in MediaErrors : out = FallBack(code)

Previewed(o) ==
    /\ o.count = 0 /\ o.source \in {"none", "preview", "preview_fallback"}
    /\ o.warning \in MediaErrors \cup {"none"}
    /\ o.status = "failed" <=> o.warning # "none"
    /\ o.status = "not_applicable" <=> asset.kind = "image"

ResultInv ==
    pc \in Results =>
       /\ (SamplingApplies /\ Sampled(out)) \/ Previewed(out)
       /\ Follows(out.result, frames, setup)

\* The last failure of the media or of the classifier is the one that counts: the
\* exception on its way up, then the warning of the result, then its row.
NoOcr(s) == \A i \in DOMAIN s : s[i][1] # "ocr"
EndsWith(s, f) == s # <<>> /\ s[Len(s)] = f
Told(s, code) ==
    /\ s \in Seq(Failures) /\ NoOcr(s)
    /\ code = "none" => s = <<>>
    /\ code # "none" => EndsWith(s, <<"extractor", code>>)
RowsInv ==
    /\ pc \in Busy \cup {"classify"} => failures = <<>>
    /\ pc \in Busy \cup {"classify", "unwind", "preview", "record", "run_failed"} => rows = <<>>
    /\ pc = "unwind" => /\ NoOcr(failures)
                        /\ exc = "none" => failures = <<>>
                        /\ exc # "none" => EndsWith(failures, Failure(exc))
    /\ pc \in {"preview", "record"} => Told(failures, out.warning)
    /\ pc = "asset_error" => \E f : /\ NoOcr(failures) /\ EndsWith(failures, f)
                                    /\ rows = <<f>>
    /\ pc \in {"subtype", "analyse", "analysed"} =>
         \E s : /\ Told(s, out.warning)
               /\ \/ failures = s /\ rows = WarningRow(out.warning)
                  \/ /\ failures = Append(s, OcrFailure)
                     /\ rows = WarningRow(out.warning) \o <<OcrFailure>>

SubtypeInv ==
    /\ pc \in Busy \cup {"classify", "unwind", "preview", "record", "subtype"} => subtype = NoResult
    /\ pc \in {"analyse", "analysed"} /\ subtype # NoResult =>
         /\ setup.subtype # "none" /\ out.result.category \in Sensitive
         /\ SubScored(subtype)
         /\ foreign /\ Len(frames) = 1 => Alien \in DOMAIN subtype.scores
    /\ pc = "analysed" => analysis = analyze_asset

AssetInv == /\ WellTyped /\ DirsFit /\ SamplingInv /\ PreviewInv /\ ResultInv /\ RowsInv
            /\ SubtypeInv

-----------------------------------------------------------------------------
(* Each step keeps it.                                                      *)

LEMMA AppendIs ==
    ASSUME NEW s \in Seq(Failures), NEW f \in Failures
    PROVE  /\ Append(s, f) \in Seq(Failures) /\ EndsWith(Append(s, f), f)
           /\ Len(Append(s, f)) = Len(s) + 1 /\ Len(s) \in Nat
           /\ \A i \in 1..Len(s) : Append(s, f)[i] = s[i]
           /\ NoOcr(s) /\ f[1] # "ocr" => NoOcr(Append(s, f))
<1>1. /\ Append(s, f) \in Seq(Failures) /\ Len(Append(s, f)) = Len(s) + 1 /\ Len(s) \in Nat
      /\ \A i \in 1..Len(s) : Append(s, f)[i] = s[i]
      /\ Append(s, f)[Len(s) + 1] = f
      /\ DOMAIN Append(s, f) = 1..(Len(s) + 1) /\ DOMAIN s = 1..Len(s)
    BY AppendProperties, LenProperties
<1>2. Append(s, f) # <<>>
    BY <1>1
<1>3. ASSUME NoOcr(s), f[1] # "ocr" PROVE NoOcr(Append(s, f))
    <2> SUFFICES ASSUME NEW i \in 1..(Len(s) + 1) PROVE Append(s, f)[i][1] # "ocr"
        BY <1>1 DEF NoOcr
    <2>1. i \in 1..Len(s) \/ i = Len(s) + 1
        BY <1>1
    <2> QED BY <1>1, <1>3, <2>1 DEF NoOcr
<1> QED BY <1>1, <1>2, <1>3 DEF EndsWith

Raisable == MediaErrors \cup {"classifier_error"}

LEMMA RaiseFails ==
    ASSUME failures \in Seq(Failures), NoOcr(failures), NEW code \in Raisable, Raise(code)
    PROVE  /\ failures' \in Seq(Failures) /\ NoOcr(failures') /\ EndsWith(failures', Failure(code))
           /\ pc' = "unwind" /\ exc' = code /\ code # "none"
<1>1. Failure(code) \in Failures /\ Failure(code)[1] # "ocr"
    BY DEF Failure, Failures, Raisable
<1>2. code # "none"
    BY DEF Raisable, MediaErrors
<1> QED BY <1>1, <1>2, AppendIs DEF Raise

\* A step of the sampling goes on, or raises.
Sampling == \/ pc' \in Busy \cup {"unwind"} /\ exc' = exc /\ failures' = failures
            \/ \E code \in Raisable : Raise(code)

LEMMA SamplingFails ==
    ASSUME AssetInv, pc \in Busy, Sampling, rows' = rows
    PROVE  failures' \in Seq(Failures) /\ rows' \in Seq(Failures) /\ RowsInv'
<1>1. failures = <<>> /\ rows = <<>> /\ failures \in Seq(Failures) /\ rows \in Seq(Failures)
    BY DEF AssetInv, RowsInv, WellTyped, TypeOK
<1>2. exc = "none" /\ NoOcr(failures)
    BY <1>1 DEF AssetInv, WellTyped, TypeOK, Busy, NoOcr
<1>3. CASE pc' \in Busy \cup {"unwind"} /\ exc' = exc /\ failures' = failures
    BY <1>1, <1>2, <1>3 DEF RowsInv, Busy, NoOcr
<1>4. ASSUME NEW code \in Raisable, Raise(code)
      PROVE  failures' \in Seq(Failures) /\ RowsInv'
    <2>1. /\ failures' \in Seq(Failures) /\ NoOcr(failures') /\ EndsWith(failures', Failure(code))
          /\ pc' = "unwind" /\ exc' = code /\ code # "none"
        BY <1>1, <1>2, <1>4, RaiseFails
    <2> QED BY <1>1, <2>1 DEF RowsInv, Busy, NoOcr, EndsWith, Failure
<1> QED BY <1>1, <1>3, <1>4 DEF Sampling

LEMMA ClassifyStep ==
    ASSUME AssetInv, Classify
    PROVE  AssetInv'
<1> USE DEF AssetInv
<1>1. asset' = asset /\ setup' = setup
    BY DEF Classify, frame
<1>2. WellTyped'
    BY <1>1 DEF Classify, Goto, Raise, frame, Busy, Results, WellTyped, TypeOK, MediaErrors, ExtractErrors, Outcomes
<1>3. DirsFit'
    BY DEF Classify, Goto, Raise, frame, Busy, Results, DirsFit
<1>4. SamplingInv'
    BY <1>1 DEF Classify, Goto, Raise, frame, Busy, Results, SamplingInv, SamplingApplies, NoOutcome
<1>5. PreviewInv'
    <2>1. out = NoOutcome
        BY DEF Classify, SamplingInv
    <2>2. SamplingApplies' = SamplingApplies
        BY <1>1 DEF SamplingApplies
    <2>3. CASE pc' = "preview"
        <3>1. IF SamplingApplies THEN out' = Disabled ELSE out' = NoOutcome
            BY <2>1, <2>3 DEF Classify, Goto, Disabled
        <3> QED BY <2>1, <2>2, <3>1 DEF PreviewInv
    <2> QED BY <2>3 DEF PreviewInv
<1>6. ResultInv'
    BY <1>1 DEF Classify, Goto, Raise, frame, Busy, Results, ResultInv
<1>7. RowsInv'
    <2>1. /\ failures = <<>> /\ rows = <<>> /\ failures' = failures /\ rows' = rows
          /\ pc' \in {"temp", "preview"} /\ out = NoOutcome
        BY DEF Classify, Goto, frame, RowsInv, SamplingInv
    <2>2. out'.warning = "none"
        <3>1. out' = out \/ out' = [out EXCEPT !.status = "disabled", !.source = "preview"]
            BY DEF Classify
        <3>2. out' = NoOutcome \/ out' = Disabled
            BY <2>1, <3>1 DEF Disabled
        <3>3. NoOutcome.warning = "none" /\ Disabled.warning = "none"
            BY DEF NoOutcome, Disabled
        <3> QED BY <3>2, <3>3
    <2>3. Told(failures', out'.warning)
        BY <2>1, <2>2 DEF Told, NoOcr
    <2> QED BY <2>1, <2>3 DEF RowsInv, Busy
<1>8. SubtypeInv'
    BY <1>1 DEF Classify, Goto, Raise, frame, Busy, Results, SubtypeInv
<1> QED BY <1>2, <1>3, <1>4, <1>5, <1>6, <1>7, <1>8

LEMMA MakeTempStep ==
    ASSUME AssetInv, MakeTemp
    PROVE  AssetInv'
<1> USE DEF AssetInv
<1>1. asset' = asset /\ setup' = setup
    BY DEF MakeTemp, frame
<1>0. failures' \in Seq(Failures) /\ rows' \in Seq(Failures) /\ RowsInv'
    <2>1. pc \in Busy /\ rows' = rows
        BY DEF MakeTemp, frame, Busy
    <2>2. Sampling
        BY DEF MakeTemp, Goto, Raise, Sampling, Raisable, MediaErrors, ExtractErrors, Busy
    <2> QED BY <2>1, <2>2, SamplingFails
<1>2. WellTyped'
    BY <1>0, <1>1 DEF MakeTemp, Goto, Raise, frame, Busy, Results, WellTyped, TypeOK, MediaErrors, ExtractErrors, Outcomes
<1>3. DirsFit'
    BY DEF MakeTemp, Goto, Raise, frame, Busy, Results, DirsFit
<1>4. SamplingInv'
    BY <1>1 DEF MakeTemp, Goto, Raise, frame, Busy, Results, SamplingInv, SamplingApplies, NoOutcome
<1>5. PreviewInv'
    BY <1>1 DEF MakeTemp, Goto, Raise, frame, Busy, Results, PreviewInv, SamplingApplies
<1>6. ResultInv'
    BY <1>1 DEF MakeTemp, Goto, Raise, frame, Busy, Results, ResultInv
<1>7. RowsInv'
    BY <1>0
<1>8. SubtypeInv'
    BY <1>1 DEF MakeTemp, Goto, Raise, frame, Busy, Results, SubtypeInv
<1> QED BY <1>2, <1>3, <1>4, <1>5, <1>6, <1>7, <1>8

LEMMA DownloadStep ==
    ASSUME AssetInv, Download
    PROVE  AssetInv'
<1> USE DEF AssetInv
<1>1. asset' = asset /\ setup' = setup
    BY DEF Download, frame
<1>0. failures' \in Seq(Failures) /\ rows' \in Seq(Failures) /\ RowsInv'
    <2>1. pc \in Busy /\ rows' = rows
        BY DEF Download, frame, Busy
    <2>2. Sampling
        BY DEF Download, Goto, Raise, Sampling, Raisable, MediaErrors, ExtractErrors, Busy
    <2> QED BY <2>1, <2>2, SamplingFails
<1>2. WellTyped'
    BY <1>0, <1>1 DEF Download, Goto, Raise, frame, Busy, Results, WellTyped, TypeOK, MediaErrors, ExtractErrors, Outcomes
<1>3. DirsFit'
    BY DEF Download, Goto, Raise, frame, Busy, Results, DirsFit
<1>4. SamplingInv'
    BY <1>1 DEF Download, Goto, Raise, frame, Busy, Results, SamplingInv, SamplingApplies, NoOutcome
<1>5. PreviewInv'
    BY <1>1 DEF Download, Goto, Raise, frame, Busy, Results, PreviewInv, SamplingApplies
<1>6. ResultInv'
    BY <1>1 DEF Download, Goto, Raise, frame, Busy, Results, ResultInv
<1>7. RowsInv'
    BY <1>0
<1>8. SubtypeInv'
    BY <1>1 DEF Download, Goto, Raise, frame, Busy, Results, SubtypeInv
<1> QED BY <1>2, <1>3, <1>4, <1>5, <1>6, <1>7, <1>8

LEMMA StillGifStep ==
    ASSUME AssetInv, StillGif
    PROVE  AssetInv'
<1> USE DEF AssetInv
<1>1. asset' = asset /\ setup' = setup
    BY DEF StillGif, frame
<1>0. failures' \in Seq(Failures) /\ rows' \in Seq(Failures) /\ RowsInv'
    <2>1. pc \in Busy /\ rows' = rows
        BY DEF StillGif, frame, Busy
    <2>2. Sampling
        BY DEF StillGif, Goto, Raise, Sampling, Raisable, MediaErrors, ExtractErrors, Busy
    <2> QED BY <2>1, <2>2, SamplingFails
<1>2. WellTyped'
    BY <1>0, <1>1 DEF StillGif, Goto, Raise, frame, Busy, Results, WellTyped, TypeOK, MediaErrors, ExtractErrors, Outcomes
<1>3. DirsFit'
    BY DEF StillGif, Goto, Raise, frame, Busy, Results, DirsFit
<1>4. SamplingInv'
    <2>1. /\ pc = "gif" /\ out = NoOutcome /\ SamplingApplies
          /\ SamplingApplies'
        BY <1>1 DEF StillGif, SamplingInv, Busy, SamplingApplies
    <2>2. CASE Goto("frames_dir") /\ UNCHANGED <<exc, out, frames>>
        BY <2>1, <2>2 DEF SamplingInv, Goto
    <2>3. ASSUME NEW o \in Outputs, PredictOne(setup.profile, o) # NoResult,
                 frames' = <<o>>, exc' = exc, Goto("unwind"),
                 out' = [out EXCEPT !.result = PredictOne(setup.profile, o),
                           !.status = "static_gif", !.source = "original_still", !.count = 1]
          PROVE  SamplingInv'
        <3> DEFINE r == PredictOne(setup.profile, o)
        <3>1. /\ out'.result = r /\ out'.status = "static_gif" /\ out'.source = "original_still"
              /\ out'.count = 1 /\ out'.warning = "none"
            BY <2>1, <2>3 DEF NoOutcome
        <3>2. setup.profile \in Profiles /\ o \in OutputsOf(setup)
            BY <2>3 DEF WellTyped, Setups, Outputs, OutputsOf
        <3>3. Follows(r, <<o>>, setup) /\ Len(r.labels) = 1
            BY <2>3, <3>2, PredictOneFollows
        <3>4. setup.limit \in Nat \ {0}
            BY ConstantsOK DEF WellTyped, Setups
        <3> HIDE DEF r
        <3>5. Sampled(out)'
            BY <1>1, <3>1, <3>3, <3>4 DEF Sampled
        <3>6. Follows(out.result, frames, setup)'
            BY <1>1, <2>3, <3>1, <3>3
        <3> QED BY <2>1, <2>3, <3>5, <3>6 DEF SamplingInv, Goto, Busy
    <2>4. CASE \E code \in {"corrupt_image_bytes", "original_temp_failed", "classifier_error"} :
                 Raise(code) /\ UNCHANGED <<out, frames>>
        BY <2>1, <2>4 DEF SamplingInv, Raise, Busy
    <2> QED BY <2>2, <2>3, <2>4 DEF StillGif
<1>5. PreviewInv'
    BY <1>1 DEF StillGif, Goto, Raise, frame, Busy, Results, PreviewInv, SamplingApplies
<1>6. ResultInv'
    BY <1>1 DEF StillGif, Goto, Raise, frame, Busy, Results, ResultInv
<1>7. RowsInv'
    BY <1>0
<1>8. SubtypeInv'
    BY <1>1 DEF StillGif, Goto, Raise, frame, Busy, Results, SubtypeInv
<1> QED BY <1>2, <1>3, <1>4, <1>5, <1>6, <1>7, <1>8

LEMMA FramesDirStep ==
    ASSUME AssetInv, FramesDir
    PROVE  AssetInv'
<1> USE DEF AssetInv
<1>1. asset' = asset /\ setup' = setup
    BY DEF FramesDir, frame
<1>0. failures' \in Seq(Failures) /\ rows' \in Seq(Failures) /\ RowsInv'
    <2>1. pc \in Busy /\ rows' = rows
        BY DEF FramesDir, frame, Busy
    <2>2. Sampling
        BY DEF FramesDir, Goto, Raise, Sampling, Raisable, MediaErrors, ExtractErrors, Busy
    <2> QED BY <2>1, <2>2, SamplingFails
<1>2. WellTyped'
    <2>1. dirs = {"original"}
        BY DEF FramesDir, DirsFit
    <2> QED BY <1>0, <1>1, <2>1 DEF FramesDir, Goto, Raise, frame, WellTyped, TypeOK, MediaErrors, Outcomes
<1>3. DirsFit'
    BY DEF FramesDir, Goto, Raise, frame, Busy, Results, DirsFit
<1>4. SamplingInv'
    BY <1>1 DEF FramesDir, Goto, Raise, frame, Busy, Results, SamplingInv, SamplingApplies, NoOutcome
<1>5. PreviewInv'
    BY <1>1 DEF FramesDir, Goto, Raise, frame, Busy, Results, PreviewInv, SamplingApplies
<1>6. ResultInv'
    BY <1>1 DEF FramesDir, Goto, Raise, frame, Busy, Results, ResultInv
<1>7. RowsInv'
    BY <1>0
<1>8. SubtypeInv'
    BY <1>1 DEF FramesDir, Goto, Raise, frame, Busy, Results, SubtypeInv
<1> QED BY <1>2, <1>3, <1>4, <1>5, <1>6, <1>7, <1>8

LEMMA ExtractStep ==
    ASSUME AssetInv, Extract
    PROVE  AssetInv'
<1> USE DEF AssetInv
<1>1. asset' = asset /\ setup' = setup
    BY DEF Extract, frame
<1>0. failures' \in Seq(Failures) /\ rows' \in Seq(Failures) /\ RowsInv'
    <2>1. pc \in Busy /\ rows' = rows
        BY DEF Extract, frame, Busy
    <2>2. Sampling
        BY DEF Extract, Goto, Raise, Sampling, Raisable, MediaErrors, ExtractErrors, Busy
    <2> QED BY <2>1, <2>2, SamplingFails
<1>2. WellTyped'
    BY <1>0, <1>1 DEF Extract, Goto, Raise, frame, Busy, Results, WellTyped, TypeOK, MediaErrors, ExtractErrors, Outcomes
<1>3. DirsFit'
    BY DEF Extract, Goto, Raise, frame, Busy, Results, DirsFit
<1>4. SamplingInv'
    <2>1. /\ pc = "extract" /\ out = NoOutcome /\ SamplingApplies
          /\ out' = NoOutcome /\ SamplingApplies'
        BY <1>1 DEF Extract, SamplingInv, Busy, SamplingApplies
    <2>2. ASSUME NEW found \in 1..MaxFound, frames' \in [1..KeptFrames(found) -> Outputs],
                 Goto("predict")
          PROVE  SamplingInv'
        <3>1. setup.limit \in Nat \ {0} /\ MaxFound \in Nat
            BY ConstantsOK DEF WellTyped, Setups
        <3>2. KeptFrames(found) \in Nat \ {0} /\ KeptFrames(found) <= setup.limit
            BY <3>1 DEF KeptFrames
        <3> HIDE DEF KeptFrames
        <3>3. Outputs = OutputsOf(setup)
            BY DEF Outputs, OutputsOf
        <3>4. frames' \in Seq(OutputsOf(setup)) /\ Len(frames') = KeptFrames(found)
            BY <2>2, <3>2, <3>3
        <3>5. frames' # <<>>
            BY <3>2, <3>4
        <3> QED BY <1>1, <2>1, <2>2, <3>2, <3>4, <3>5 DEF SamplingInv, Goto
    <2>3. CASE \E code \in ExtractErrors \cup {"corrupt_video_frame", "video_temp_failed"} :
                 Raise(code) /\ UNCHANGED frames
        BY <2>1, <2>3 DEF SamplingInv, Raise, Busy, ExtractErrors
    <2> QED BY <2>2, <2>3 DEF Extract
<1>5. PreviewInv'
    BY <1>1 DEF Extract, Goto, Raise, frame, Busy, Results, PreviewInv, SamplingApplies
<1>6. ResultInv'
    BY <1>1 DEF Extract, Goto, Raise, frame, Busy, Results, ResultInv
<1>7. RowsInv'
    BY <1>0
<1>8. SubtypeInv'
    BY <1>1 DEF Extract, Goto, Raise, frame, Busy, Results, SubtypeInv
<1> QED BY <1>2, <1>3, <1>4, <1>5, <1>6, <1>7, <1>8

LEMMA PredictStep ==
    ASSUME AssetInv, Predict
    PROVE  AssetInv'
<1> USE DEF AssetInv
<1>1. asset' = asset /\ setup' = setup
    BY DEF Predict, frame
<1>0. failures' \in Seq(Failures) /\ rows' \in Seq(Failures) /\ RowsInv'
    <2>1. pc \in Busy /\ rows' = rows
        BY DEF Predict, frame, Busy
    <2>2. Sampling
        BY DEF Predict, Goto, Raise, Sampling, Raisable, MediaErrors, ExtractErrors, Busy
    <2> QED BY <2>1, <2>2, SamplingFails
<1>2. WellTyped'
    BY <1>0, <1>1 DEF Predict, Goto, Raise, frame, Busy, Results, WellTyped, TypeOK, MediaErrors, ExtractErrors, Outcomes
<1>3. DirsFit'
    BY DEF Predict, Goto, Raise, frame, Busy, Results, DirsFit
<1>4. SamplingInv'
    <2> DEFINE r == Aggregate(setup.profile, setup.strategy, frames)
    <2>1. /\ pc = "predict" /\ out = NoOutcome /\ SamplingApplies
          /\ SamplingApplies' /\ frames' = frames
          /\ frames \in Seq(OutputsOf(setup)) /\ frames # <<>> /\ Len(frames) <= setup.limit
        BY <1>1 DEF Predict, SamplingInv, Busy, SamplingApplies
    <2>2. CASE /\ r # NoResult /\ Goto("unwind") /\ UNCHANGED exc
               /\ out' = [out EXCEPT !.result = r, !.status = "sampled",
                            !.source = "original_frames", !.count = Len(frames)]
        <3>1. setup.profile \in Profiles
            BY DEF WellTyped, Setups
        <3>2. Follows(r, frames, setup) /\ Len(r.labels) = Len(frames)
            BY <2>1, <2>2, <3>1, AggregateFollows
        <3>3. /\ out'.result = r /\ out'.status = "sampled" /\ out'.source = "original_frames"
              /\ out'.count = Len(frames) /\ out'.warning = "none"
            BY <2>1, <2>2 DEF NoOutcome
        <3> HIDE DEF r
        <3>4. Sampled(out)'
            BY <1>1, <2>1, <3>2, <3>3 DEF Sampled
        <3>5. Follows(out.result, frames, setup)'
            BY <1>1, <2>1, <3>2, <3>3
        <3> QED BY <2>1, <2>2, <3>4, <3>5 DEF SamplingInv, Goto, Busy
    <2>3. CASE Raise("classifier_error") /\ UNCHANGED out
        BY <2>1, <2>3 DEF SamplingInv, Raise, Busy
    <2> QED BY <2>2, <2>3 DEF Predict
<1>5. PreviewInv'
    BY <1>1 DEF Predict, Goto, Raise, frame, Busy, Results, PreviewInv, SamplingApplies
<1>6. ResultInv'
    BY <1>1 DEF Predict, Goto, Raise, frame, Busy, Results, ResultInv
<1>7. RowsInv'
    BY <1>0
<1>8. SubtypeInv'
    BY <1>1 DEF Predict, Goto, Raise, frame, Busy, Results, SubtypeInv
<1> QED BY <1>2, <1>3, <1>4, <1>5, <1>6, <1>7, <1>8

LEMMA CloseDirStep ==
    ASSUME AssetInv, CloseDir
    PROVE  AssetInv'
<1> USE DEF AssetInv
<1>1. asset' = asset /\ setup' = setup
    BY DEF CloseDir, frame
<1>0. failures' \in Seq(Failures) /\ rows' = rows /\ RowsInv'
    <2>1. /\ pc = "unwind" /\ rows' = rows /\ rows = <<>> /\ failures \in Seq(Failures)
          /\ NoOcr(failures)
        BY DEF CloseDir, frame, RowsInv, WellTyped, TypeOK
    <2>2. CASE UNCHANGED <<pc, exc, failures>>
        BY <2>1, <2>2 DEF RowsInv, Busy
    <2>3. CASE \E code \in Raisable : Raise(code)
        <3>1. PICK code \in Raisable : Raise(code)
            BY <2>3
        <3>2. /\ failures' \in Seq(Failures) /\ NoOcr(failures') /\ EndsWith(failures', Failure(code))
              /\ pc' = "unwind" /\ exc' = code /\ code # "none"
            BY <2>1, <3>1, RaiseFails
        <3> QED BY <2>1, <3>2 DEF RowsInv, Busy
    <2> QED BY <2>1, <2>2, <2>3 DEF CloseDir, Raisable, MediaErrors
<1>2. WellTyped'
    <2>1. dirs' \in {{}, {"original"}, {"original", "frames"}}
        <3>1. dirs \in {{"original"}, {"original", "frames"}}
            BY DEF CloseDir, WellTyped, TypeOK
        <3>2. dirs \ {Inner} \in {{}, {"original"}}
            BY <3>1 DEF Inner
        <3> QED BY <3>2 DEF CloseDir
    <2>2. exc' \in MediaErrors \cup {"none", "classifier_error"}
        BY DEF CloseDir, Raise, WellTyped, TypeOK, MediaErrors
    <2> QED BY <1>0, <1>1, <2>1, <2>2 DEF CloseDir, Raise, frame, WellTyped, TypeOK
<1>3. DirsFit'
    BY DEF CloseDir, Goto, Raise, frame, Busy, Results, DirsFit
<1>4. SamplingInv'
    <2>1. /\ pc = "unwind" /\ pc' = "unwind" /\ out' = out /\ frames' = frames
          /\ SamplingApplies /\ SamplingApplies'
        BY <1>1 DEF CloseDir, Raise, SamplingInv, SamplingApplies
    <2>2. exc' = exc \/ exc' \in MediaErrors
        BY DEF CloseDir, Raise, MediaErrors
    <2>3. "none" \notin MediaErrors
        BY DEF MediaErrors
    <2>4. exc' = "none" => Sampled(out)' /\ Follows(out.result, frames, setup)'
        BY <1>1, <2>1, <2>2, <2>3 DEF SamplingInv, Sampled
    <2> QED BY <2>1, <2>4 DEF SamplingInv, Busy
<1>5. PreviewInv'
    BY <1>1 DEF CloseDir, Goto, Raise, frame, Busy, Results, PreviewInv, SamplingApplies
<1>6. ResultInv'
    BY <1>1 DEF CloseDir, Goto, Raise, frame, Busy, Results, ResultInv
<1>7. RowsInv'
    BY <1>0
<1>8. SubtypeInv'
    BY <1>1 DEF CloseDir, Goto, Raise, frame, Busy, Results, SubtypeInv
<1> QED BY <1>2, <1>3, <1>4, <1>5, <1>6, <1>7, <1>8

LEMMA UnwoundStep ==
    ASSUME AssetInv, Unwound
    PROVE  AssetInv'
<1> USE DEF AssetInv
<1>1. asset' = asset /\ setup' = setup
    BY DEF Unwound, frame
<1>2. WellTyped'
    <2>1. exc \in Raisable \cup {"none"} /\ rows \in Seq(Failures) /\ failures' = failures
        BY DEF Unwound, WellTyped, TypeOK, Raisable
    <2>2. exc # "none" => Failure(exc) \in Failures
        BY <2>1 DEF Failure, Failures, Raisable
    <2>3. rows' \in Seq(Failures)
        BY <2>1, <2>2 DEF Unwound
    <2> QED BY <1>1, <2>1, <2>3 DEF Unwound, Goto, WellTyped, TypeOK, Outcomes
<1>3. DirsFit'
    BY DEF Unwound, Goto, Raise, frame, Busy, Results, DirsFit
<1>4. SamplingInv'
    BY <1>1 DEF Unwound, Goto, Raise, frame, Busy, Results, SamplingInv, SamplingApplies, NoOutcome
<1>5. PreviewInv'
    <2>1. SamplingApplies'
        BY <1>1 DEF Unwound, SamplingInv, SamplingApplies
    <2>2. "none" \notin MediaErrors
        BY DEF MediaErrors
    <2>3. CASE pc' = "preview"
        <3>1. exc \in MediaErrors /\ out' = FallBack(exc)
            BY <2>2, <2>3 DEF Unwound, Goto
        <3>2. out'.warning # "none"
            BY <2>2, <3>1 DEF FallBack, NoOutcome
        <3> QED BY <2>1, <3>1, <3>2 DEF PreviewInv, FallBack
    <2> QED BY <2>3 DEF PreviewInv
<1>6. ResultInv'
    <2>1. /\ pc = "unwind" /\ SamplingApplies'
          /\ exc = "none" => Sampled(out) /\ Follows(out.result, frames, setup)
        BY <1>1 DEF Unwound, SamplingInv, SamplingApplies
    <2>2. "none" \notin MediaErrors
        BY DEF MediaErrors
    <2>3. CASE exc = "none"
        <3>1. out' = out /\ frames' = frames
            BY <2>2, <2>3 DEF Unwound
        <3>2. Sampled(out)' /\ Follows(out.result, frames, setup)'
            BY <1>1, <2>1, <2>2, <2>3, <3>1 DEF Sampled
        <3> QED BY <2>1, <3>2 DEF ResultInv
    <2>4. CASE exc # "none"
        BY <2>4 DEF Unwound, Goto, ResultInv, Results
    <2> QED BY <2>3, <2>4
<1>7. RowsInv'
    <2>1. /\ pc = "unwind" /\ rows = <<>> /\ failures' = failures /\ failures \in Seq(Failures)
          /\ NoOcr(failures)
          /\ exc = "none" => failures = <<>>
          /\ exc # "none" => EndsWith(failures, Failure(exc))
        BY DEF Unwound, RowsInv, WellTyped, TypeOK
    <2>2. CASE exc = "none"
        <3>1. pc' = "record" /\ rows' = rows /\ out'.warning = "none"
            <4>1. "none" \notin MediaErrors
                BY DEF MediaErrors
            <4>2. pc' = "record" /\ rows' = rows /\ out' = out
                BY <2>2, <4>1 DEF Unwound, Goto
            <4> QED BY <2>1, <2>2, <4>2 DEF SamplingInv, Sampled
        <3>2. Told(failures', out'.warning)
            BY <2>1, <2>2, <3>1 DEF Told
        <3> QED BY <2>1, <3>1, <3>2 DEF RowsInv, Busy
    <2>3. CASE exc # "none" /\ exc \in MediaErrors
        <3>1. pc' = "preview" /\ rows' = rows /\ out' = FallBack(exc)
            BY <2>1, <2>3 DEF Unwound, Goto
        <3>2. out'.warning = exc /\ Failure(exc) = <<"extractor", exc>>
            BY <2>3, <3>1 DEF FallBack, NoOutcome, Failure, MediaErrors
        <3> QED BY <2>1, <2>3, <3>1, <3>2 DEF RowsInv, Told, Busy
    <2>4. CASE exc # "none" /\ exc \notin MediaErrors
        <3>1. pc' = "asset_error" /\ rows' = Append(rows, Failure(exc))
            BY <2>1, <2>4 DEF Unwound, Goto
        <3>2. rows' = <<Failure(exc)>>
            BY <2>1, <3>1
        <3> QED BY <2>1, <2>4, <3>1, <3>2 DEF RowsInv, Busy
    <2> QED BY <2>2, <2>3, <2>4
<1>8. SubtypeInv'
    BY <1>1 DEF Unwound, Goto, Raise, frame, Busy, Results, SubtypeInv
<1> QED BY <1>2, <1>3, <1>4, <1>5, <1>6, <1>7, <1>8

LEMMA PreviewStep ==
    ASSUME AssetInv, Preview
    PROVE  AssetInv'
<1> USE DEF AssetInv
<1>1. asset' = asset /\ setup' = setup
    BY DEF Preview, frame
<1>2. WellTyped'
    <2>1. \A code \in MediaErrors \cup {"classifier_error"} :
             <<"extractor", code>> \in Failures /\ <<"classifier", code>> \in Failures
        BY DEF Failures
    <2>2. \/ rows' = rows /\ failures' = failures
          \/ \E e \in Failures : rows' = Append(rows, e) /\ failures' = Append(failures, e)
        BY <2>1 DEF Preview, MediaErrors
    <2>3. rows' \in Seq(Failures) /\ failures' \in Seq(Failures)
        <3>1. rows \in Seq(Failures) /\ failures \in Seq(Failures)
            BY DEF WellTyped, TypeOK
        <3> QED BY <2>2, <3>1, AppendIs
    <2>4. /\ exc' = exc /\ dirs' = dirs /\ foreign' = foreign /\ pc = "preview"
          /\ pc' \in {"record", "run_failed", "asset_error"}
        BY DEF Preview, Goto
    <2> QED BY <1>1, <2>3, <2>4 DEF WellTyped, TypeOK, Outcomes
<1>3. DirsFit'
    BY DEF Preview, Goto, Raise, frame, Busy, Results, DirsFit
<1>4. SamplingInv'
    BY <1>1 DEF Preview, Goto, Raise, frame, Busy, Results, SamplingInv, SamplingApplies, NoOutcome
<1>5. PreviewInv'
    BY <1>1 DEF Preview, Goto, Raise, frame, Busy, Results, PreviewInv, SamplingApplies
<1>6. ResultInv'
    <2>1. /\ pc = "preview"
          /\ \/ ~ SamplingApplies /\ out = NoOutcome
             \/ SamplingApplies /\ out = Disabled
             \/ SamplingApplies /\ \E code \in MediaErrors : out = FallBack(code)
        BY DEF Preview, PreviewInv
    <2>2. asset.kind \in Kinds
        BY DEF WellTyped, TypeOK
    <2>3. ASSUME NEW o \in Outputs, PredictOne(setup.profile, o) # NoResult,
                 asset.kind # "other", frames' = <<o>>,
                 out' = [out EXCEPT !.result = PredictOne(setup.profile, o)]
          PROVE  ResultInv'
        <3> DEFINE r == PredictOne(setup.profile, o)
        <3>1. setup.profile \in Profiles /\ o \in OutputsOf(setup)
            BY <2>3 DEF WellTyped, Setups, Outputs, OutputsOf
        <3>2. Follows(r, <<o>>, setup)
            BY <2>3, <3>1, PredictOneFollows
        <3> HIDE DEF r
        <3>3. /\ out'.result = r /\ out'.status = out.status /\ out'.source = out.source
              /\ out'.count = out.count /\ out'.warning = out.warning
            BY <2>1, <2>3 DEF r, NoOutcome, Disabled, FallBack
        <3>4. "none" \notin MediaErrors
            BY DEF MediaErrors
        <3>5. Previewed(out)
            <4>1. SamplingApplies <=> asset.kind # "image"
                BY <2>2, <2>3 DEF SamplingApplies, Kinds
            <4>2. CASE ~ SamplingApplies /\ out = NoOutcome
                BY <4>1, <4>2 DEF Previewed, NoOutcome
            <4>3. CASE SamplingApplies /\ out = Disabled
                BY <4>1, <4>3 DEF Previewed, NoOutcome, Disabled
            <4>4. ASSUME NEW code \in MediaErrors, SamplingApplies, out = FallBack(code)
                  PROVE  Previewed(out)
                <5>1. /\ out.count = 0 /\ out.source = "preview_fallback" /\ out.warning = code
                      /\ out.status = "failed"
                    BY <4>4 DEF NoOutcome, FallBack
                <5> QED BY <3>4, <4>1, <4>4, <5>1 DEF Previewed
            <4> QED BY <2>1, <4>2, <4>3, <4>4
        <3>6. Previewed(out)'
            BY <1>1, <3>3, <3>5 DEF Previewed
        <3>7. Follows(out.result, frames, setup)'
            BY <1>1, <2>3, <3>2, <3>3
        <3> QED BY <2>1, <3>3, <3>6, <3>7 DEF ResultInv
    <2>4. CASE pc' \notin Results
        BY <2>4 DEF ResultInv
    <2> QED BY <2>3, <2>4 DEF Preview, Goto, Results
<1>7. RowsInv'
    <2>1. pc = "preview" /\ rows = <<>> /\ Told(failures, out.warning)
        BY DEF Preview, RowsInv
    <2>2. CASE /\ pc' = "record" /\ rows' = rows /\ failures' = failures
               /\ out'.warning = out.warning
        BY <2>1, <2>2 DEF RowsInv, Busy
    <2>3. CASE pc' = "run_failed" /\ rows' = rows
        BY <2>1, <2>3 DEF RowsInv, Busy
    <2>4. ASSUME NEW e \in Failures, e[1] # "ocr", rows' = Append(rows, e),
                 failures' = Append(failures, e), pc' = "asset_error"
          PROVE  RowsInv'
        <3>1. NoOcr(failures') /\ EndsWith(failures', e)
            BY <2>1, <2>4, AppendIs DEF Told
        <3>2. rows' = <<e>>
            BY <2>1, <2>4
        <3> QED BY <2>4, <3>1, <3>2 DEF RowsInv, Busy
    <2>5. \A r : [out EXCEPT !.result = r].warning = out.warning
        BY <2>1 DEF PreviewInv, NoOutcome, Disabled, FallBack
    <2>6. \A code \in MediaErrors \cup {"classifier_error"} :
             <<"extractor", code>> \in Failures /\ <<"classifier", code>> \in Failures
        BY DEF Failures
    <2>7. \/ /\ pc' = "record" /\ rows' = rows /\ failures' = failures
             /\ \E r : out' = [out EXCEPT !.result = r]
          \/ pc' = "run_failed" /\ rows' = rows
          \/ \E e \in Failures : /\ e[1] # "ocr" /\ rows' = Append(rows, e)
                                 /\ failures' = Append(failures, e) /\ pc' = "asset_error"
        BY <2>6 DEF Preview, Goto, MediaErrors
    <2> QED BY <2>2, <2>3, <2>4, <2>5, <2>7
<1>8. SubtypeInv'
    BY <1>1 DEF Preview, Goto, Raise, frame, Busy, Results, SubtypeInv
<1> QED BY <1>2, <1>3, <1>4, <1>5, <1>6, <1>7, <1>8

LEMMA RecordStep ==
    ASSUME AssetInv, Record
    PROVE  AssetInv'
<1> USE DEF AssetInv
<1>1. asset' = asset /\ setup' = setup
    BY DEF Record, frame
<1>0. rows' \in Seq(Failures) /\ failures' \in Seq(Failures) /\ RowsInv'
    <2> DEFINE row == WarningRow(out.warning)
    <2>1. /\ pc = "record" /\ pc' = "subtype" /\ out' = out /\ rows = <<>>
          /\ Told(failures, out.warning) /\ failures \in Seq(Failures)
        BY DEF Record, Goto, RowsInv, WellTyped, TypeOK
    <2>2. row \in Seq(Failures)
        <3>1. out.warning \in MediaErrors \cup {"none"}
            BY <2>1 DEF ResultInv, Results, Sampled, Previewed
        <3>2. out.warning # "none" => <<"extractor", out.warning>> \in Failures
            BY <3>1 DEF Failures
        <3> QED BY <3>2 DEF WarningRow
    <2>3. OcrFailure \in Failures
        BY DEF OcrFailure, Failures
    <2>4. PICK failed \in {<<>>, <<OcrFailure>>} :
             rows' = (rows \o row) \o failed /\ failures' = failures \o failed
        BY DEF Record
    <2> HIDE DEF row
    <2>5. rows \o row = row
        BY <2>1, <2>2
    <2>6. CASE failed = <<>>
        <3>1. rows' = row /\ failures' = failures
            BY <2>1, <2>2, <2>4, <2>5, <2>6
        <3> QED BY <2>1, <2>2, <3>1 DEF RowsInv, Busy, row
    <2>7. CASE failed = <<OcrFailure>>
        <3>1. rows' = row \o <<OcrFailure>> /\ failures' = Append(failures, OcrFailure)
            BY <2>1, <2>3, <2>4, <2>5, <2>7, AppendIsConcat
        <3>2. rows' \in Seq(Failures) /\ failures' \in Seq(Failures)
            BY <2>1, <2>2, <2>3, <3>1
        <3> QED BY <2>1, <3>1, <3>2 DEF RowsInv, Busy, row
    <2> QED BY <2>4, <2>6, <2>7
<1>2. WellTyped'
    <2> QED BY <1>0, <1>1 DEF Record, Goto, WellTyped, TypeOK
<1>3. DirsFit'
    BY DEF Record, Goto, Raise, frame, Busy, Results, DirsFit
<1>4. SamplingInv'
    BY <1>1 DEF Record, Goto, Raise, frame, Busy, Results, SamplingInv, SamplingApplies, NoOutcome
<1>5. PreviewInv'
    BY <1>1 DEF Record, Goto, Raise, frame, Busy, Results, PreviewInv, SamplingApplies
<1>6. ResultInv'
    <2>1. /\ pc \in Results /\ out' = out /\ frames' = frames
          /\ SamplingApplies' = SamplingApplies
        BY <1>1 DEF Record, Results, SamplingApplies
    <2>2. Sampled(out)' = Sampled(out) /\ Previewed(out)' = Previewed(out)
        BY <1>1, <2>1 DEF Sampled, Previewed
    <2> QED BY <1>1, <2>1, <2>2 DEF ResultInv
<1>7. RowsInv'
    BY <1>0
<1>8. SubtypeInv'
    BY <1>1 DEF Record, Goto, Raise, frame, Busy, Results, SubtypeInv
<1> QED BY <1>2, <1>3, <1>4, <1>5, <1>6, <1>7, <1>8

LEMMA RunSubtypeStep ==
    ASSUME AssetInv, RunSubtype
    PROVE  AssetInv'
<1> USE DEF AssetInv
<1>1. asset' = asset /\ setup' = setup
    BY DEF RunSubtype, frame
<1>2. WellTyped'
    BY <1>1 DEF RunSubtype, Goto, Raise, frame, Busy, Results, WellTyped, TypeOK, MediaErrors, ExtractErrors, Outcomes
<1>3. DirsFit'
    BY DEF RunSubtype, Goto, Raise, frame, Busy, Results, DirsFit
<1>4. SamplingInv'
    BY <1>1 DEF RunSubtype, Goto, Raise, frame, Busy, Results, SamplingInv, SamplingApplies, NoOutcome
<1>5. PreviewInv'
    BY <1>1 DEF RunSubtype, Goto, Raise, frame, Busy, Results, PreviewInv, SamplingApplies
<1>6. ResultInv'
    <2>1. /\ pc \in Results /\ out' = out /\ frames' = frames
          /\ SamplingApplies' = SamplingApplies
        BY <1>1 DEF RunSubtype, Results, SamplingApplies
    <2>2. Sampled(out)' = Sampled(out) /\ Previewed(out)' = Previewed(out)
        BY <1>1, <2>1 DEF Sampled, Previewed
    <2> QED BY <1>1, <2>1, <2>2 DEF ResultInv
<1>7. RowsInv'
    BY <1>1 DEF RunSubtype, Goto, Raise, frame, Busy, Results, RowsInv
<1>8. SubtypeInv'
    <2>1. pc = "subtype" /\ pc' = "analyse" /\ out' = out /\ subtype = NoResult
        BY DEF RunSubtype, Goto, SubtypeInv
    <2>2. ASSUME subtype' # NoResult
          PROVE  /\ setup.subtype # "none" /\ out.result.category \in Sensitive /\ SubScored(subtype')
                 /\ foreign' /\ Len(frames) = 1 => Alien \in DOMAIN subtype'.scores
        <3>1. /\ setup.subtype # "none" /\ out.result.category \in Sensitive
              /\ \E outputs \in [DOMAIN frames -> SubOutputs] :
                    /\ subtype' = SubResult(outputs)
                    /\ foreign' = (\E i \in DOMAIN outputs : Alien \in DOMAIN outputs[i].scores)
            BY <2>1, <2>2 DEF RunSubtype
        <3> PICK outputs \in [DOMAIN frames -> SubOutputs] :
                    /\ subtype' = SubResult(outputs)
                    /\ foreign' = (\E i \in DOMAIN outputs : Alien \in DOMAIN outputs[i].scores)
            BY <3>1
        <3>2. Follows(out.result, frames, setup)
            BY <2>1 DEF ResultInv, Results
        <3>3. setup \in Setups /\ setup.profile \in Profiles
            BY DEF WellTyped, Setups
        <3>4. Len(frames) \in Nat \ {0} /\ DOMAIN frames = 1..Len(frames)
            BY <3>2, <3>3, FramesScore DEF Follows
        <3>5. SubScored(subtype') /\ (Len(frames) = 1 => subtype'.scores = outputs[1].scores)
            BY <2>2, <3>3, <3>4, SubResultScored
        <3>6. ASSUME foreign', Len(frames) = 1 PROVE Alien \in DOMAIN outputs[1].scores
            <4>1. DOMAIN outputs = {1}
                BY <3>4, <3>6
            <4> QED BY <3>6, <4>1
        <3> QED BY <3>1, <3>5, <3>6
    <2>3. frames' = frames
        BY DEF RunSubtype
    <2> QED BY <1>1, <2>1, <2>2, <2>3 DEF SubtypeInv, Busy, SubScored
<1> QED BY <1>2, <1>3, <1>4, <1>5, <1>6, <1>7, <1>8

LEMMA AnalyseStep ==
    ASSUME AssetInv, Analyse
    PROVE  AssetInv'
<1> USE DEF AssetInv
<1>1. asset' = asset /\ setup' = setup
    BY DEF Analyse, frame
<1>2. WellTyped'
    BY <1>1 DEF Analyse, Goto, Raise, frame, Busy, Results, WellTyped, TypeOK, MediaErrors, ExtractErrors, Outcomes
<1>3. DirsFit'
    BY DEF Analyse, Goto, Raise, frame, Busy, Results, DirsFit
<1>4. SamplingInv'
    BY <1>1 DEF Analyse, Goto, Raise, frame, Busy, Results, SamplingInv, SamplingApplies, NoOutcome
<1>5. PreviewInv'
    BY <1>1 DEF Analyse, Goto, Raise, frame, Busy, Results, PreviewInv, SamplingApplies
<1>6. ResultInv'
    <2>1. /\ pc \in Results /\ out' = out /\ frames' = frames
          /\ SamplingApplies' = SamplingApplies
        BY <1>1 DEF Analyse, Results, SamplingApplies
    <2>2. Sampled(out)' = Sampled(out) /\ Previewed(out)' = Previewed(out)
        BY <1>1, <2>1 DEF Sampled, Previewed
    <2> QED BY <1>1, <2>1, <2>2 DEF ResultInv
<1>7. RowsInv'
    BY <1>1 DEF Analyse, Goto, Raise, frame, Busy, Results, RowsInv
<1>8. SubtypeInv'
    <2>1. /\ pc = "analyse" /\ pc' = "analysed" /\ out' = out /\ subtype' = subtype
          /\ analysis' = analyze_asset /\ foreign' = foreign /\ frames' = frames
        BY DEF Analyse, Goto
    <2>2. analyze_asset' = analyze_asset
        BY <1>1, <2>1 DEF analyze_asset
    <2> QED BY <1>1, <2>1, <2>2 DEF SubtypeInv, Busy, SubScored
<1> QED BY <1>2, <1>3, <1>4, <1>5, <1>6, <1>7, <1>8

LEMMA AssetInvInit == Init => AssetInv
<1> SUFFICES ASSUME Init PROVE AssetInv
    OBVIOUS
<1>1. /\ asset \in [kind : Kinds, tags : Tags] /\ setup \in Setups
      /\ pc = "classify" /\ exc = "none" /\ dirs = {}
      /\ frames = <<>> /\ out = NoOutcome /\ subtype = NoResult /\ rows = <<>>
      /\ failures = <<>> /\ foreign = FALSE
    BY DEF Init, Setups
<1>2. WellTyped
    <2>1. <<>> \in Seq(Failures)
        OBVIOUS
    <2> QED BY <1>1, <2>1 DEF WellTyped, TypeOK
<1>3. DirsFit /\ SamplingInv
    BY <1>1 DEF DirsFit, SamplingInv, Busy
<1>4. PreviewInv /\ ResultInv
    BY <1>1 DEF PreviewInv, ResultInv, Results
<1>5. RowsInv /\ SubtypeInv
    BY <1>1 DEF RowsInv, SubtypeInv
<1> QED BY <1>2, <1>3, <1>4, <1>5 DEF AssetInv

LEMMA AssetInvStep == AssetInv /\ [Next]_vars => AssetInv'
<1> SUFFICES ASSUME AssetInv, [Next]_vars PROVE AssetInv'
    OBVIOUS
<1>1. CASE UNCHANGED vars
    <2> USE <1>1 DEF vars
    <2>1. SamplingApplies' = SamplingApplies /\ Sampled(out)' = Sampled(out)
          /\ Previewed(out)' = Previewed(out) /\ analyze_asset' = analyze_asset
        BY DEF SamplingApplies, Sampled, Previewed, analyze_asset
    <2>2. WellTyped'
        BY DEF AssetInv, WellTyped, TypeOK
    <2>3. DirsFit' /\ SamplingInv'
        BY <2>1 DEF AssetInv, DirsFit, SamplingInv
    <2>4. PreviewInv' /\ ResultInv'
        BY <2>1 DEF AssetInv, PreviewInv, ResultInv
    <2>5. RowsInv' /\ SubtypeInv'
        BY <2>1 DEF AssetInv, RowsInv, SubtypeInv, SubScored
    <2> QED BY <2>2, <2>3, <2>4, <2>5 DEF AssetInv
<1>2. CASE Next
    BY <1>2, ClassifyStep, MakeTempStep, DownloadStep, StillGifStep, FramesDirStep, ExtractStep,
       PredictStep, CloseDirStep, UnwoundStep, PreviewStep, RecordStep, RunSubtypeStep, AnalyseStep
       DEF Next
<1> QED BY <1>1, <1>2

\* Every part of the invariant holds at every step of an asset's scan.
THEOREM AssetInvariant == Spec => []AssetInv
BY AssetInvInit, AssetInvStep, PTL DEF Spec

\* The variables of an asset's scan keep their types, an exception is on its way
\* only while directories are left, and error rows have one of three stages.
THEOREM AssetTypeTheorem == Spec => []TypeOK
<1>1. AssetInv => TypeOK
    BY DEF AssetInv, WellTyped
<1> QED BY <1>1, AssetInvariant, PTL

-----------------------------------------------------------------------------
(* What follows from it.                                                    *)

\* runner.py stores with a result where it comes from: whatever step of the
\* sampling fails and whichever directory cannot be removed, a count of frames
\* is that of the labels and within the limit, and "failed" comes with a code.
THEOREM MetadataTheorem == Spec => []MetadataIsHonest
<1>1. ASSUME AssetInv PROVE MetadataIsHonest
    <2> SUFFICES ASSUME pc \in Results
                 PROVE  /\ out.count = IF out.source \in {"original_frames", "original_still"}
                                       THEN Len(out.result.labels) ELSE 0
                        /\ out.count <= setup.limit
                        /\ out.status = "failed" <=> out.warning # "none"
                        /\ out.status = "not_applicable" <=> asset.kind = "image"
        BY DEF MetadataIsHonest, Results
    <2>1. (SamplingApplies /\ Sampled(out)) \/ Previewed(out)
        BY <1>1 DEF AssetInv, ResultInv
    <2>2. setup.limit \in Nat \ {0}
        BY <1>1, ConstantsOK DEF AssetInv, WellTyped, Setups
    <2>3. CASE SamplingApplies /\ Sampled(out)
        BY <2>3 DEF SamplingApplies, Sampled
    <2>4. CASE Previewed(out)
        BY <2>2, <2>4 DEF Previewed
    <2> QED BY <2>1, <2>3, <2>4
<1> QED BY <1>1, AssetInvariant, PTL

LEMMA ConcatSingles ==
    ASSUME NEW a, NEW b
    PROVE  <<a>> \o <<b>> = <<a, b>>
<1> DEFINE S == {a, b}
           s == <<a>>
           t == <<b>>
           u == <<a, b>>
<1>1. s \in Seq(S) /\ t \in Seq(S) /\ u \in Seq(S)
    OBVIOUS
<1>2. Len(s) = 1 /\ Len(t) = 1 /\ Len(u) = 2 /\ s[1] = a /\ t[1] = b /\ u[1] = a /\ u[2] = b
    OBVIOUS
<1> HIDE DEF S, s, t, u
<1>3. /\ s \o t \in Seq(S) /\ Len(s \o t) = 2
      /\ \A i \in 1..2 : (s \o t)[i] = IF i <= 1 THEN s[i] ELSE t[i - 1]
    BY <1>1, <1>2, ConcatProperties
<1>4. \A i \in 1..2 : (s \o t)[i] = u[i]
    BY <1>2, <1>3
<1>5. s \o t = u
    BY <1>1, <1>2, <1>3, <1>4, SeqEqual
<1> QED BY <1>5 DEF s, t, u

\* Which failures no later one takes the place of.
LEMMA LastKept ==
    ASSUME failures \in Seq(Failures), failures # <<>>, NoOcr(failures)
    PROVE  /\ {i \in DOMAIN failures : ~ Replaced(i)} = {Len(failures)}
           /\ Len(failures) \in DOMAIN failures
<1>1. Len(failures) \in Nat \ {0} /\ DOMAIN failures = 1..Len(failures)
    BY LenProperties, EmptySeq
<1>2. ~ Replaced(Len(failures))
    BY <1>1 DEF Replaced
<1> DEFINE n == Len(failures)
<1>3. n \in 1..n /\ failures[n][1] # "ocr"
    BY <1>1 DEF NoOcr
<1> HIDE DEF n
<1>4. ASSUME NEW i \in 1..n, i # n PROVE Replaced(i)
    <2>0. n \in Nat /\ DOMAIN failures = 1..n
        BY <1>1 DEF n
    <2>1. n > i /\ n \in DOMAIN failures
        BY <1>3, <1>4, <2>0
    <2> QED BY <1>3, <2>1 DEF Replaced
<1>5. DOMAIN failures = 1..n /\ ~ Replaced(n)
    BY <1>1, <1>2 DEF n
<1>6. {i \in DOMAIN failures : ~ Replaced(i)} = {n}
    BY <1>3, <1>4, <1>5
<1> QED BY <1>3, <1>5, <1>6 DEF n

LEMMA LastTwoKept ==
    ASSUME NEW s \in Seq(Failures), s # <<>>, NoOcr(s), failures = Append(s, OcrFailure)
    PROVE  /\ {i \in DOMAIN failures : ~ Replaced(i)} = {Len(s), Len(s) + 1}
           /\ Len(s) \in Nat \ {0} /\ Len(s) \in DOMAIN failures
           /\ failures[Len(s)] = s[Len(s)] /\ failures[Len(s) + 1] = OcrFailure
<1> DEFINE n == Len(s)
<1>1. n \in Nat \ {0} /\ DOMAIN s = 1..n
    BY LenProperties, EmptySeq
<1>2. /\ DOMAIN failures = 1..(n + 1) /\ failures[n + 1] = OcrFailure
      /\ \A i \in 1..n : failures[i] = s[i]
    <2>1. OcrFailure \in Failures
        BY DEF OcrFailure, Failures
    <2> QED BY <1>1, <2>1, AppendProperties, LenProperties
<1> HIDE DEF n
<1>3. OcrFailure[1] = "ocr" /\ \A i \in 1..n : failures[i][1] # "ocr"
    BY <1>1, <1>2 DEF NoOcr, OcrFailure
<1>4. ~ Replaced(n) /\ ~ Replaced(n + 1)
    BY <1>1, <1>2, <1>3 DEF Replaced
<1>5. \A i \in 1..(n + 1) : i # n /\ i # n + 1 => Replaced(i)
    BY <1>1, <1>2, <1>3 DEF Replaced
<1>6. n \in 1..n /\ n \in 1..(n + 1) /\ n + 1 \in 1..(n + 1)
    BY <1>1
<1> QED BY <1>1, <1>2, <1>4, <1>5, <1>6 DEF n

LEMMA NoSuchAppend ==
    ASSUME NEW s \in Seq(Failures)
    PROVE  s # Append(s, OcrFailure)
<1>1. OcrFailure \in Failures
    BY DEF OcrFailure, Failures
<1>2. Len(Append(s, OcrFailure)) = Len(s) + 1 /\ Len(s) \in Nat
    BY <1>1, AppendIs
<1> QED BY <1>2

\* The error rows of an asset (runner.py, make_real_runner): in a run that goes on
\* a row for each failure that no later one took the place of, the removal of a
\* directory included, and none for an asset with which the run itself failed.
THEOREM ErrorsTheorem == Spec => []ErrorsAreRecorded
<1>1. ASSUME AssetInv PROVE ErrorsAreRecorded
    <2> DEFINE kept == {i \in DOMAIN failures : ~ Replaced(i)}
               Rows == ToSet(rows) = {failures[i] : i \in kept} /\ Len(rows) = Cardinality(kept)
    <2>0. failures \in Seq(Failures)
        BY <1>1 DEF AssetInv, WellTyped, TypeOK
    <2>1. ASSUME pc = "asset_error" PROVE Rows
        <3>1. PICK f : NoOcr(failures) /\ EndsWith(failures, f) /\ rows = <<f>>
            BY <1>1, <2>1 DEF AssetInv, RowsInv
        <3>2. kept = {Len(failures)} /\ failures[Len(failures)] = f
            BY <2>0, <3>1, LastKept DEF EndsWith
        <3> DEFINE n == Len(failures)
        <3> HIDE DEF kept, n
        <3>5. kept = {n} /\ failures[n] = f
            BY <3>2 DEF n
        <3>3. Cardinality(kept) = 1 /\ {failures[i] : i \in kept} = {f}
            BY <3>5, FS_Singleton
        <3>4. ToSet(rows) = {f} /\ Len(rows) = 1
            BY <3>1 DEF ToSet
        <3> QED BY <3>3, <3>4
    <2>2. ASSUME pc = "analysed"
          PROVE  Rows /\ (out.warning = "none" <=> \A i \in DOMAIN failures : failures[i][1] = "ocr")
        <3> DEFINE w == <<"extractor", out.warning>>
        <3>1. PICK s : /\ Told(s, out.warning)
                       /\ \/ failures = s /\ rows = WarningRow(out.warning)
                          \/ /\ failures = Append(s, OcrFailure)
                             /\ rows = WarningRow(out.warning) \o <<OcrFailure>>
            BY <1>1, <2>2 DEF AssetInv, RowsInv
        <3>2. /\ s \in Seq(Failures) /\ NoOcr(s) /\ (out.warning = "none" => s = <<>>)
              /\ out.warning # "none" => s # <<>> /\ s[Len(s)] = w
            BY <3>1 DEF Told, EndsWith
        <3>3. CASE out.warning = "none" /\ failures = s
            <4>1. failures = <<>> /\ rows = <<>>
                BY <3>1, <3>2, <3>3, NoSuchAppend DEF WarningRow
            <4>2. kept = {} /\ DOMAIN failures = {} /\ ToSet(rows) = {} /\ Len(rows) = 0
                BY <4>1 DEF ToSet
            <4> HIDE DEF kept
            <4> QED BY <3>3, <4>2, FS_EmptySet
        <3>4. CASE out.warning = "none" /\ failures # s
            <4>1. failures = <<OcrFailure>> /\ rows = <<OcrFailure>>
                BY <3>1, <3>2, <3>4 DEF WarningRow
            <4>2. DOMAIN failures = {1} /\ failures[1] = OcrFailure
                BY <4>1
            <4>3. kept = {1}
                BY <4>2 DEF Replaced
            <4>4. ToSet(rows) = {OcrFailure} /\ Len(rows) = 1
                BY <4>1 DEF ToSet
            <4> HIDE DEF kept
            <4>5. Cardinality(kept) = 1 /\ {failures[i] : i \in kept} = {OcrFailure}
                <5>1. {failures[i] : i \in kept} = {OcrFailure}
                    BY <4>2, <4>3
                <5>2. Cardinality(kept) = 1
                    BY <4>3, FS_Singleton
                <5> QED BY <5>1, <5>2
            <4>6. \A i \in DOMAIN failures : failures[i][1] = "ocr"
                BY <4>2 DEF OcrFailure
            <4> QED BY <3>4, <4>4, <4>5, <4>6
        <3>5. CASE out.warning # "none" /\ failures = s
            <4>1. rows = <<w>>
                BY <3>1, <3>2, <3>5, NoSuchAppend DEF WarningRow
            <4>2. kept = {Len(failures)} /\ Len(failures) \in DOMAIN failures
                BY <3>2, <3>5, LastKept
            <4>3. failures[Len(failures)] = w
                BY <3>2, <3>5
            <4> HIDE DEF kept
            <4> HIDE DEF w
            <4>4. Cardinality(kept) = 1 /\ {failures[i] : i \in kept} = {w}
                <5>1. {failures[i] : i \in kept} = {w}
                    BY <4>2, <4>3
                <5>2. Cardinality(kept) = 1
                    BY <4>2, FS_Singleton
                <5> QED BY <5>1, <5>2
            <4> USE DEF w
            <4>5. ToSet(rows) = {w} /\ Len(rows) = 1
                BY <4>1 DEF ToSet
            <4>6. failures[Len(failures)][1] # "ocr"
                BY <4>3
            <4> QED BY <3>5, <4>2, <4>4, <4>5, <4>6
        <3>6. CASE out.warning # "none" /\ failures # s
            <4>1. failures = Append(s, OcrFailure) /\ rows = <<w>> \o <<OcrFailure>>
                BY <3>1, <3>6 DEF WarningRow
            <4>2. rows = <<w, OcrFailure>>
                BY <4>1, ConcatSingles
            <4> DEFINE n == Len(s)
            <4>3. /\ kept = {n, n + 1} /\ n \in Nat \ {0} /\ n \in DOMAIN failures
                  /\ failures[n] = s[n] /\ failures[n + 1] = OcrFailure
                BY <3>2, <3>6, <4>1, LastTwoKept
            <4>4. failures[n] = w /\ s[n] = w
                BY <3>2, <3>6, <4>3
            <4> HIDE DEF kept, n
            <4>5. Cardinality(kept) = 2
                <5>0. n + 1 \notin {n}
                    BY <4>3
                <5>1. IsFiniteSet({n}) /\ Cardinality({n}) = 1 /\ n + 1 \notin {n}
                    BY <5>0, FS_Singleton
                <5>2. Cardinality({n} \cup {n + 1}) = 2
                    BY <5>1, FS_AddElement
                <5>3. kept = {n} \cup {n + 1}
                    BY <4>3
                <5> QED BY <5>2, <5>3
            <4>6. {failures[i] : i \in kept} = {w, OcrFailure}
                BY <4>3, <4>4
            <4>7. ToSet(rows) = {w, OcrFailure} /\ Len(rows) = 2
                BY <4>2 DEF ToSet
            <4>8. failures[n][1] # "ocr"
                BY <4>4
            <4> QED BY <3>6, <4>3, <4>5, <4>6, <4>7, <4>8
        <3> QED BY <3>3, <3>4, <3>5, <3>6
    <2>3. pc = "run_failed" => rows = <<>>
        BY <1>1 DEF AssetInv, RowsInv
    <2> QED BY <2>1, <2>2, <2>3 DEF ErrorsAreRecorded
<1> QED BY <1>1, AssetInvariant, PTL

LEMMA ScoreIsOver == \A l : Score(l) = ScoreOver(frames, setup.strategy, l)
BY DEF Score, ScoreOver, Total

\* For every profile, every strategy and any number of frames, the label of a
\* result (classifier.py, aggregate_model_outputs) is one that no mapped label
\* exceeds, and the confidence that analysis.py looks up is its score.
THEOREM FramesTheorem == Spec => []ResultFollowsFrames
<1>1. ASSUME AssetInv PROVE ResultFollowsFrames
    <2> SUFFICES ASSUME pc \in Results
                 PROVE  /\ out.result.category = setup.profile.category[out.result.label]
                        /\ \A l \in Mapped(setup.profile) : ~ Less(Score(out.result.label), Score(l))
                        /\ pc = "analysed" /\ Uncrossed =>
                              ~ Less(analysis.confidence, Score(out.result.label))
                              /\ ~ Less(Score(out.result.label), analysis.confidence)
        BY DEF ResultFollowsFrames, Results
    <2>1. Follows(out.result, frames, setup) /\ setup.profile \in Profiles
        BY <1>1 DEF AssetInv, ResultInv, WellTyped, Setups
    <2>2. out.result.label \in Mapped(setup.profile)
          /\ out.result.category = setup.profile.category[out.result.label]
        BY <2>1 DEF Follows
    <2>3. ASSUME NEW l \in Mapped(setup.profile)
          PROVE  /\ ~ Less(Score(out.result.label), Score(l))
                 /\ ~ Less(Score(out.result.label), Score(out.result.label))
        BY <2>1, NoneHigher, ScoreIsOver
    <2>4. ASSUME pc = "analysed", Uncrossed
          PROVE  analysis.confidence = Score(out.result.label)
        <3>1. analysis = analyze_asset
            BY <1>1, <2>4 DEF AssetInv, SubtypeInv
        <3>2. analysis.confidence = Confidence(out.result)
            BY <3>1 DEF analyze_asset, Safety
        <3>3. setup.profile.category[out.result.label] \in Mapped(setup.profile) \cup {Alien} =>
                 setup.profile.category[out.result.label] = out.result.label
            BY <2>2, <2>4 DEF Uncrossed
        <3> QED BY <2>1, <3>2, <3>3, ConfidenceIs, ScoreIsOver
    <2> QED BY <2>2, <2>3, <2>4
<1> QED BY <1>1, AssetInvariant, PTL

\* What a person gets to see of the adult subtype model (analysis.py,
\* _adult_subtype_signal): subtypes of sensitive assets only, with a call for
\* review where none reaches the threshold, and none at all for one input of which
\* a foreign label was scored.
THEOREM DoubtTheorem == Spec => []DoubtIsReviewed
<1>1. ASSUME AssetInv PROVE DoubtIsReviewed
    <2> SUFFICES ASSUME pc = "analysed" PROVE DoubtIsReviewed
        BY DEF DoubtIsReviewed
    <2> DEFINE safety == Safety(out.result, Threshold)
               subtypes == Subtypes(safety, setup.subtype, SubLabels, Threshold, subtype)
               facets == Facets(out.result, asset.tags)
               custom == CustomCategories(facets, Categories)
               known == DOMAIN subtype.scores \cap SubLabels
    <2>1. /\ analysis.subtypes = subtypes.labels
          /\ analysis.queues = ReviewQueues(safety, subtypes, facets, custom)
        BY <1>1 DEF AssetInv, SubtypeInv, analyze_asset
    <2>2. /\ setup.subtype \in {"none", "unacknowledged", "ready"}
          /\ subtype # NoResult => out.result.category \in Sensitive /\ SubScored(subtype)
        BY <1>1 DEF AssetInv, SubtypeInv, WellTyped, Setups
    <2>3. safety.label = IF out.result.category \in SafetyLabels THEN out.result.category ELSE "unknown"
        BY DEF Safety
    <2>4. safety.label \in Sensitive <=> out.result.category \in Sensitive
        BY <2>3 DEF Sensitive, SafetyLabels
    <2>5. /\ safety.review => "review_needed" \in analysis.queues
          /\ subtypes.review => "review_needed" \in analysis.queues
          /\ safety.label \in Sensitive => "nsfw" \in analysis.queues
          /\ subtypes.status \in {"available", "review_needed", "failed_closed"} =>
               "adult_subtypes" \in analysis.queues
        BY <2>1 DEF ReviewQueues
    <2>6. safety.review <=> \/ out.result.category \notin SafetyLabels
                            \/ Less(Confidence(out.result), <<Threshold, 1>>)
        BY DEF Safety
    <2> HIDE DEF safety
    <2>7. ASSUME foreign, Len(frames) = 1
          PROVE  /\ analysis.subtypes = {}
                 /\ setup.subtype = "ready" =>
                      IF subtype = NoResult THEN "adult_subtypes" \notin analysis.queues
                      ELSE {"review_needed", "adult_subtypes"} \subseteq analysis.queues
        <3>1. CASE subtype = NoResult \/ setup.subtype # "ready"
            <4>1. subtypes.labels = {} /\ subtypes.status \in {"not_applicable", "unavailable"}
                BY <3>1 DEF Subtypes, Unavailable
            <4> HIDE DEF subtypes
            <4>2. "adult_subtypes" \notin analysis.queues
                BY <2>1, <4>1 DEF ReviewQueues
            <4> QED BY <2>1, <3>1, <4>1, <4>2
        <3>2. CASE subtype # NoResult /\ setup.subtype = "ready"
            <4>1. Alien \in DOMAIN subtype.scores
                BY <1>1, <2>7, <3>2 DEF AssetInv, SubtypeInv
            <4>2. Alien \in Foreign(SubLabels, subtype)
                BY <4>1, ConstantsOK DEF Foreign
            <4>3. subtypes = [status |-> "failed_closed", labels |-> {}, review |-> TRUE]
                BY <2>2, <2>4, <3>2, <4>2 DEF Subtypes
            <4> HIDE DEF subtypes
            <4> QED BY <2>1, <2>5, <3>2, <4>3
        <3> QED BY <3>1, <3>2
    <2>8. ASSUME analysis.subtypes # {}
          PROVE  /\ {"nsfw", "adult_subtypes"} \subseteq analysis.queues
                 /\ setup.subtype = "ready" /\ out.result.category \in Sensitive
                 /\ \/ "review_needed" \in analysis.queues
                    \/ \E l \in analysis.subtypes : ~ Less(subtype.scores[l], <<Threshold, 1>>)
        <3> DEFINE doubtful == Less(Highest([l \in known |-> subtype.scores[l]]), <<Threshold, 1>>)
        <3>1. safety.label \in Sensitive /\ setup.subtype = "ready" /\ subtype # NoResult
            BY <2>1, <2>8 DEF Subtypes, Unavailable
        <3>2. known # {} /\ Foreign(SubLabels, subtype) = {}
            BY <2>1, <2>8, <3>1 DEF Subtypes
        <3>3. subtypes = [status |-> IF doubtful THEN "review_needed" ELSE "available",
                          labels |-> known, review |-> doubtful]
            BY <3>1, <3>2 DEF Subtypes
        <3>4. ~ doubtful => \E l \in known : ~ Less(subtype.scores[l], <<Threshold, 1>>)
            BY <2>2, <3>1, <3>2, Undoubted
        <3> HIDE DEF doubtful, known, subtypes
        <3>5. subtypes.labels = known /\ subtypes.review = doubtful
              /\ subtypes.status \in {"available", "review_needed", "failed_closed"}
            BY <3>3
        <3> QED BY <2>1, <2>4, <2>5, <3>1, <3>4, <3>5
    <2>9. ASSUME Less(Score(out.result.label), <<Threshold, 1>>), Uncrossed
          PROVE  "review_needed" \in analysis.queues
        <3>1. Follows(out.result, frames, setup) /\ setup.profile \in Profiles
            BY <1>1 DEF AssetInv, ResultInv, Results, WellTyped, Setups
        <3>2. setup.profile.category[out.result.label] \in Mapped(setup.profile) \cup {Alien} =>
                 setup.profile.category[out.result.label] = out.result.label
            BY <2>9, <3>1 DEF Uncrossed, Follows
        <3>3. Confidence(out.result) = Score(out.result.label)
            BY <3>1, <3>2, ConfidenceIs, ScoreIsOver
        <3> QED BY <2>5, <2>6, <2>9, <3>3
    <2> HIDE DEF subtypes, facets, custom, known
    <2> QED BY <2>7, <2>8, <2>9 DEF DoubtIsReviewed
<1> QED BY <1>1, AssetInvariant, PTL

=============================================================================
