------------------------- MODULE CoverageScoreProofs -------------------------
(* The score of CoverageEvaluator for every number of safeguards, keys and  *)
(* levels: what the loop multiplies is the product over the set of layers.  *)
(* Inductions are made over finite sets: a set for which a statement fails  *)
(* has a smallest subset for which it does.                                 *)
EXTENDS CoverageEvaluatorProofs, FiniteSetTheorems

\* Among subsets of a finite set there is one that contains no other.
LEMMA SmallestSubset ==
  ASSUME NEW S, IsFiniteSet(S), NEW Bad \in SUBSET (SUBSET S), Bad # {}
  PROVE  \E T \in Bad : \A U \in Bad : U \subseteq T => U = T
<1>. DEFINE R == StrictSubsetOrdering(S)
<1>1. IsWellFoundedOn(R, SUBSET S)
  BY FS_StrictSubsetOrderingWellFounded, FS_FiniteSubsetsOfFinite
<1>. HIDE DEF R
<1>2. \E T \in Bad : \A U \in Bad : ~ (<<U, T>> \in R)
  BY <1>1, WFMin
<1>3. PICK T \in Bad : \A U \in Bad : ~ (<<U, T>> \in R)
  BY <1>2
<1>4. ASSUME NEW U \in Bad, U \subseteq T PROVE U = T
  BY <1>3, <1>4 DEF R, StrictSubsetOrdering
<1>. QED BY <1>4

\* The element a fold takes out of a set.
Pick(T) == CHOOSE x \in T : TRUE

\* One step of the product over T, given it for smaller sets.
Unfolded(factor, it, T) ==
  IF T = {} THEN 1 ELSE factor[Pick(T).level] * it[T \ {Pick(T)}]

\* The function on the subsets of S by which the fold is defined.
Folding(factor, S) ==
  CHOOSE it : it = [T \in SUBSET S |->
    IF T = {} THEN 1 ELSE factor[(CHOOSE x \in T : TRUE).level]
                            * it[T \ {CHOOSE x \in T : TRUE}]]

\* The fold, as the value of that function.
LEMMA ProductIsFolding ==
  ASSUME NEW factor, NEW S
  PROVE  Product(factor, S) = Folding(factor, S)[S]
BY DEF Product, FoldSet, MapThenFoldSet, Folding

\* A set of layers: each has a level.
IsLayers(S) == IsFiniteSet(S) /\ \A s \in S : s.level \in Levels

\* Subsets up to n elements.
UpTo(S, n) == {T \in SUBSET S : Cardinality(T) <= n}

\* Functions that multiply correctly on the subsets up to n elements.
Multiplies(factor, S, n, it) ==
  /\ it \in [UpTo(S, n) -> Nat]
  /\ \A T \in UpTo(S, n) : it[T] = Unfolded(factor, it, T)

\* Natural numbers are closed under multiplication.
LEMMA TimesNat ==
  ASSUME NEW a \in Nat, NEW b \in Nat
  PROVE  a * b \in Nat
OBVIOUS

\* A function that multiplies up to n elements gives one for n + 1.
LEMMA MultipliesMore ==
  ASSUME NEW factor \in [Levels -> Nat], NEW S, IsLayers(S), NEW n \in Nat,
         NEW it, Multiplies(factor, S, n, it)
  PROVE  \E more : Multiplies(factor, S, n + 1, more)
<1>. DEFINE more == [T \in UpTo(S, n + 1) |-> Unfolded(factor, it, T)]
<1>1. ASSUME NEW T \in UpTo(S, n + 1), T # {}
      PROVE  /\ Pick(T) \in T
             /\ T \ {Pick(T)} \in UpTo(S, n)
             /\ factor[Pick(T).level] \in Nat
  <2>1. Pick(T) \in T
    BY <1>1 DEF Pick
  <2>2. IsFiniteSet(T) /\ Cardinality(T) \in Nat /\ Cardinality(T) <= n + 1
    BY FS_Subset, FS_CardinalityType DEF UpTo, IsLayers
  <2>3. Cardinality(T \ {Pick(T)}) = Cardinality(T) - 1
    BY <2>1, <2>2, FS_RemoveElement
  <2>4. factor[Pick(T).level] \in Nat
    BY <2>1 DEF UpTo, IsLayers
  <2>. QED BY <2>1, <2>2, <2>3, <2>4 DEF UpTo
<1>2. more \in [UpTo(S, n + 1) -> Nat]
  <2>. SUFFICES ASSUME NEW T \in UpTo(S, n + 1) PROVE Unfolded(factor, it, T) \in Nat
    OBVIOUS
  <2>1. CASE T = {}
    BY <2>1 DEF Unfolded
  <2>2. CASE T # {}
    <3>1. it[T \ {Pick(T)}] \in Nat
      BY <1>1, <2>2 DEF Multiplies
    <3>. QED BY <1>1, <2>2, <3>1, TimesNat DEF Unfolded
  <2>. QED BY <2>1, <2>2
<1>3. ASSUME NEW T \in UpTo(S, n) PROVE T \in UpTo(S, n + 1) /\ more[T] = it[T]
  <2>1. Cardinality(T) \in Nat
    BY FS_Subset, FS_CardinalityType DEF UpTo, IsLayers
  <2>2. T \in UpTo(S, n + 1)
    BY <2>1 DEF UpTo
  <2>. QED BY <2>2 DEF Multiplies
<1>4. ASSUME NEW T \in UpTo(S, n + 1) PROVE more[T] = Unfolded(factor, more, T)
  <2>1. CASE T = {}
    BY <2>1 DEF Unfolded
  <2>2. CASE T # {}
    <3>1. more[T \ {Pick(T)}] = it[T \ {Pick(T)}]
      BY <1>1, <1>3, <2>2
    <3>2. more[T] = Unfolded(factor, it, T)
      OBVIOUS
    <3>. HIDE DEF more
    <3>. QED BY <3>1, <3>2, <2>2 DEF Unfolded
  <2>. QED BY <2>1, <2>2
<1>. HIDE DEF more
<1>5. Multiplies(factor, S, n + 1, more)
  BY <1>2, <1>4 DEF Multiplies
<1>. QED BY <1>5

\* The fold's equation has a solution up to any number of elements.
LEMMA MultipliesUpTo ==
  ASSUME NEW factor \in [Levels -> Nat], NEW S, IsLayers(S), NEW n \in Nat
  PROVE  \E it : Multiplies(factor, S, n, it)
<1>. DEFINE Bad == {k \in Nat : ~ \E it : Multiplies(factor, S, k, it)}
<1>1. 0 \notin Bad
  <2>. DEFINE it == [T \in UpTo(S, 0) |-> 1]
  <2>1. ASSUME NEW T \in UpTo(S, 0) PROVE T = {}
    <3>1. IsFiniteSet(T) /\ Cardinality(T) \in Nat /\ Cardinality(T) <= 0
      BY FS_Subset, FS_CardinalityType DEF UpTo, IsLayers
    <3>. QED BY <3>1, FS_EmptySet
  <2>2. it \in [UpTo(S, 0) -> Nat]
    OBVIOUS
  <2>3. \A T \in UpTo(S, 0) : it[T] = Unfolded(factor, it, T)
    BY <2>1 DEF Unfolded
  <2>. HIDE DEF it
  <2>. QED BY <2>2, <2>3 DEF Multiplies
<1>2. ASSUME NEW k \in Nat, k \notin Bad PROVE k + 1 \notin Bad
  BY <1>2, MultipliesMore
<1>3. ASSUME Bad # {} PROVE FALSE
  <2>1. Bad \in SUBSET Nat
    OBVIOUS
  <2>. HIDE DEF Bad
  <2>2. Min(Bad) \in Bad /\ \A k \in Bad : Min(Bad) <= k
    BY <1>3, <2>1, MinExists
  <2>3. PICK m \in Bad : \A k \in Bad : m <= k
    BY <2>2
  <2>4. m \in Nat /\ m # 0
    BY <1>1, <2>1, <2>3
  <2>5. m - 1 \in Nat /\ m - 1 \notin Bad /\ (m - 1) + 1 = m
    BY <2>1, <2>3, <2>4
  <2>. QED BY <1>2, <2>3, <2>5
<1>. QED BY <1>3

\* The function a fold is defined by multiplies correctly on all subsets.
LEMMA FoldingEquation ==
  ASSUME NEW factor \in [Levels -> Nat], NEW S, IsLayers(S)
  PROVE  /\ Folding(factor, S) \in [SUBSET S -> Nat]
         /\ \A T \in SUBSET S :
              Folding(factor, S)[T] = Unfolded(factor, Folding(factor, S), T)
<1>. DEFINE n == Cardinality(S)
            f == Folding(factor, S)
<1>1. n \in Nat /\ UpTo(S, n) = SUBSET S
  BY FS_CardinalityType, FS_Subset DEF IsLayers, UpTo
<1>. HIDE DEF n
<1>2. PICK it : Multiplies(factor, S, n, it)
  BY <1>1, MultipliesUpTo
<1>3. it = [T \in SUBSET S |-> Unfolded(factor, it, T)]
  BY <1>1, <1>2 DEF Multiplies
<1>4. f = [T \in SUBSET S |-> Unfolded(factor, f, T)]
  BY <1>3 DEF Folding, Unfolded, Pick
<1>. HIDE DEF f
<1>5. ASSUME NEW T \in SUBSET S PROVE f[T] = Unfolded(factor, f, T)
  BY <1>4
<1>6. \A T \in SUBSET S : f[T] \in Nat
  <2>. DEFINE Bad == {T \in SUBSET S : f[T] \notin Nat}
  <2>1. ASSUME Bad # {} PROVE FALSE
    <3>1. PICK T \in Bad : \A U \in Bad : U \subseteq T => U = T
      <4>. HIDE DEF f
      <4>1. Bad \in SUBSET (SUBSET S)
        OBVIOUS
      <4>. HIDE DEF Bad
      <4>. QED BY <2>1, <4>1, SmallestSubset DEF IsLayers
    <3>2. T # {}
      <4>1. T \in SUBSET S /\ f[T] \notin Nat
        BY <3>1
      <4>2. f[T] = Unfolded(factor, f, T)
        BY <1>5, <4>1
      <4>. QED BY <4>1, <4>2 DEF Unfolded
    <3>3. Pick(T) \in T
      BY <3>2 DEF Pick
    <3>4. factor[Pick(T).level] \in Nat
      BY <3>3 DEF IsLayers
    <3>5. f[T \ {Pick(T)}] \in Nat
      BY <3>1, <3>3
    <3>. QED BY <1>5, <3>1, <3>2, <3>4, <3>5, TimesNat DEF Unfolded
  <2>. QED BY <2>1
<1>7. DOMAIN f = SUBSET S
  BY <1>4
<1>8. f \in [SUBSET S -> Nat]
  BY <1>4, <1>6, <1>7
<1>. QED BY <1>5, <1>8 DEF f

\* The fold over a part of S is the value of the fold of S for that part.
LEMMA FoldingOfPart ==
  ASSUME NEW factor \in [Levels -> Nat], NEW S, IsLayers(S), NEW P \in SUBSET S
  PROVE  Product(factor, P) = Folding(factor, S)[P]
<1>. DEFINE f == Folding(factor, S)
            g == Folding(factor, P)
            Bad == {T \in SUBSET P : f[T] # g[T]}
<1>1. IsLayers(P)
  BY FS_Subset DEF IsLayers
<1>2. \A T \in SUBSET S : f[T] = Unfolded(factor, f, T)
  BY FoldingEquation
<1>3. \A T \in SUBSET P : g[T] = Unfolded(factor, g, T)
  BY <1>1, FoldingEquation
<1>. HIDE DEF f, g
<1>4. ASSUME Bad # {} PROVE FALSE
  <2>1. Bad \in SUBSET (SUBSET P)
    OBVIOUS
  <2>. HIDE DEF Bad
  <2>2. PICK T \in Bad : \A U \in Bad : U \subseteq T => U = T
    BY <1>1, <1>4, <2>1, SmallestSubset DEF IsLayers
  <2>. USE DEF Bad
  <2>3. T \in SUBSET P /\ T \in SUBSET S /\ f[T] # g[T]
    BY <2>2
  <2>4. f[T] = Unfolded(factor, f, T) /\ g[T] = Unfolded(factor, g, T)
    BY <1>2, <1>3, <2>3
  <2>5. T # {}
    BY <2>3, <2>4 DEF Unfolded
  <2>6. f[T \ {Pick(T)}] = g[T \ {Pick(T)}]
    BY <2>2, <2>3, <2>5 DEF Pick
  <2>. QED BY <2>3, <2>4, <2>5, <2>6 DEF Unfolded
<1>5. f[P] = g[P]
  BY <1>4
<1>. QED BY <1>5, ProductIsFolding DEF f, g

\* The product over no layers is one, and every product is a number.
LEMMA ProductType ==
  ASSUME NEW factor \in [Levels -> Nat], NEW S, IsLayers(S)
  PROVE  Product(factor, S) \in Nat /\ Product(factor, {}) = 1
<1>1. Product(factor, S) \in Nat
  BY FoldingEquation, ProductIsFolding
<1>2. Product(factor, {}) = Folding(factor, S)[{}]
  BY FoldingOfPart
<1>3. Folding(factor, S)[{}] = 1
  BY FoldingEquation DEF Unfolded
<1>. QED BY <1>1, <1>2, <1>3

\* A product over some layers has the factor of one of them.
LEMMA ProductOfPick ==
  ASSUME NEW factor \in [Levels -> Nat], NEW S, IsLayers(S), S # {}
  PROVE  Product(factor, S) = factor[Pick(S).level] * Product(factor, S \ {Pick(S)})
<1>1. Folding(factor, S)[S] = Unfolded(factor, Folding(factor, S), S)
  BY FoldingEquation
<1>2. Product(factor, S \ {Pick(S)}) = Folding(factor, S)[S \ {Pick(S)}]
  BY FoldingOfPart
<1>. QED BY <1>1, <1>2, ProductIsFolding DEF Unfolded

\* The order in which two numbers multiply a third does not matter.
LEMMA TimesSwap ==
  ASSUME NEW a \in Nat, NEW b \in Nat, NEW c \in Nat
  PROVE  a * (b * c) = b * (a * c)
OBVIOUS

\* It has the factor of every one of them, whichever the fold takes first.
LEMMA ProductOfAny ==
  ASSUME NEW factor \in [Levels -> Nat], NEW S, IsLayers(S), NEW x \in S
  PROVE  Product(factor, S) = factor[x.level] * Product(factor, S \ {x})
<1>. DEFINE P(T) == Product(factor, T)
            Bad == {T \in SUBSET S : \E y \in T : P(T) # factor[y.level] * P(T \ {y})}
<1>0. \A T \in SUBSET S : IsLayers(T)
  BY FS_Subset DEF IsLayers
<1>1. \A T \in SUBSET S : P(T) \in Nat
  BY <1>0, ProductType
<1>2. \A T \in SUBSET S : T # {} => P(T) = factor[Pick(T).level] * P(T \ {Pick(T)})
  BY <1>0, ProductOfPick
<1>3. \A s \in S : factor[s.level] \in Nat
  BY DEF IsLayers
<1>. HIDE DEF P
<1>4. ASSUME Bad # {} PROVE FALSE
  <2>1. Bad \in SUBSET (SUBSET S)
    OBVIOUS
  <2>. HIDE DEF Bad
  <2>2. PICK T \in Bad : \A U \in Bad : U \subseteq T => U = T
    BY <1>4, <2>1, SmallestSubset DEF IsLayers
  <2>. USE DEF Bad
  <2>3. PICK y \in T : P(T) # factor[y.level] * P(T \ {y})
    BY <2>2
  <2>4. T \in SUBSET S /\ Pick(T) \in T
    BY <2>2, <2>3 DEF Pick
  <2>. DEFINE z == Pick(T)
              rest == (T \ {z}) \ {y}
              a == factor[y.level]
              b == factor[z.level]
  <2>5. P(T) = b * P(T \ {z})
    BY <1>2, <2>3, <2>4
  <2>. HIDE DEF z
  <2>6. z # y
    BY <2>3, <2>5
  <2>7. z \in T /\ z \in S /\ y \in S
    BY <2>3, <2>4 DEF z
  <2>8. P(T \ {z}) = a * P(rest)
    <3>1. T \ {z} \notin Bad /\ y \in T \ {z} /\ T \ {z} \in SUBSET S
      BY <2>2, <2>3, <2>4, <2>6, <2>7
    <3>. QED BY <3>1
  <2>9. P(T \ {y}) = b * P(rest)
    <3>1. T \ {y} \notin Bad /\ z \in T \ {y} /\ T \ {y} \in SUBSET S
      BY <2>2, <2>3, <2>4, <2>6, <2>7
    <3>2. (T \ {y}) \ {z} = rest
      OBVIOUS
    <3>. QED BY <3>1, <3>2
  <2>10. a \in Nat /\ b \in Nat /\ P(rest) \in Nat
    BY <1>1, <1>3, <2>4, <2>7
  <2>. HIDE DEF a, b, rest
  <2>11. P(T) = a * P(T \ {y})
    <3>1. b * (a * P(rest)) = a * (b * P(rest))
      BY <2>10, TimesSwap
    <3>. QED BY <2>5, <2>8, <2>9, <3>1
  <2>. QED BY <2>3, <2>11 DEF a
<1>5. P(S) = factor[x.level] * P(S \ {x})
  BY <1>4
<1>. QED BY <1>5 DEF P

\* One layer more brings its factor.
LEMMA ProductOfMore ==
  ASSUME NEW factor \in [Levels -> Nat], NEW S, IsLayers(S),
         NEW x, x \notin S, x.level \in Levels
  PROVE  /\ IsLayers(S \cup {x})
         /\ Product(factor, S \cup {x}) = Product(factor, S) * factor[x.level]
<1>1. IsLayers(S \cup {x})
  BY FS_AddElement DEF IsLayers
<1>2. (S \cup {x}) \ {x} = S
  OBVIOUS
<1>3. Product(factor, S \cup {x}) = factor[x.level] * Product(factor, S)
  BY <1>1, <1>2, ProductOfAny
<1>4. Product(factor, S) \in Nat /\ factor[x.level] \in Nat
  BY ProductType
<1>. QED BY <1>1, <1>3, <1>4
----------------------------------------------------------------------------
(* The loop of CalculateScore.                                              *)
\* The first n layers of a sequence.
Taken(layers, n) == {layers[j] : j \in 1 .. n}

\* The fraction p is the product over a set of layers.
IsScoreOf(p, layers) ==
  /\ IsLayers(layers)
  /\ p.remaining = Remaining(layers)
  /\ p.whole = Whole(layers)

Score ==
  /\ Len(steps) <= Len(retained)
  /\ pc \in {"score", "done"} => IsScoreOf(Combined, Taken(retained, Len(steps)))
  /\ pc \notin {"score", "done"} => steps = <<>>
  /\ pc = "done" =>
       /\ Len(steps) = Len(retained)
       /\ result.remaining = Combined.remaining
       /\ result.whole = Combined.whole

\* The factors of the two products.
LEMMA FactorTypes ==
  /\ [l \in Levels |-> Scale - l] \in [Levels -> Nat]
  /\ [l \in Levels |-> Scale] \in [Levels -> Nat]
BY ScaleAssumption

\* Before the first iteration everything gets through.
LEMMA NothingTaken ==
  ASSUME NEW layers
  PROVE  IsScoreOf(Unprotected, Taken(layers, 0))
<1>1. Taken(layers, 0) = {} /\ IsLayers({})
  BY FS_EmptySet DEF Taken, IsLayers
<1>2. Remaining({}) = 1 /\ Whole({}) = 1
  BY <1>1, FactorTypes, ProductType DEF Remaining, Whole
<1>. QED BY <1>1, <1>2 DEF IsScoreOf, Unprotected

\* One layer more multiplies the score by its factor.
LEMMA OneMoreTaken ==
  ASSUME NEW p, NEW taken, IsScoreOf(p, taken),
         NEW s, s \notin taken, s.level \in Levels
  PROVE  IsScoreOf(Through(p, s), taken \cup {s})
<1>. DEFINE open == [l \in Levels |-> Scale - l]
            all == [l \in Levels |-> Scale]
<1>1. open[s.level] = Scale - s.level /\ all[s.level] = Scale
  OBVIOUS
<1>2. open \in [Levels -> Nat] /\ all \in [Levels -> Nat]
  BY FactorTypes
<1>3. /\ p.remaining = Product(open, taken)
      /\ p.whole = Product(all, taken)
      /\ Remaining(taken \cup {s}) = Product(open, taken \cup {s})
      /\ Whole(taken \cup {s}) = Product(all, taken \cup {s})
  BY DEF IsScoreOf, Remaining, Whole
<1>. HIDE DEF open, all
<1>4. /\ IsLayers(taken \cup {s})
      /\ Product(open, taken \cup {s}) = Product(open, taken) * open[s.level]
      /\ Product(all, taken \cup {s}) = Product(all, taken) * all[s.level]
  BY <1>2, ProductOfMore DEF IsScoreOf
<1>. QED BY <1>1, <1>3, <1>4 DEF IsScoreOf, Through

\* One iteration of the loop.
LEMMA ScoreCombine == Inv /\ Score /\ Combine => Score'
<1>. SUFFICES ASSUME Inv, Score, Combine PROVE Score'
  OBVIOUS
<1>0. steps \in Seq(Fraction) /\ retained \in Seq(Entry)
  BY DEF Inv, TypeOK
<1>. DEFINE s == retained[Len(steps) + 1]
            taken == Taken(retained, Len(steps))
<1>1. /\ pc = "score" /\ Len(steps) < Len(retained)
      /\ steps' = Append(steps, Through(Combined, s))
      /\ pc' = pc /\ retained' = retained
  BY DEF Combine
<1>2. s \in Entry /\ Len(steps) \in Nat
  BY <1>0, <1>1
<1>3. s.level \in Levels /\ s \notin taken
  <2>1. s.level \in Levels
    BY <1>2 DEF Entry
  <2>2. ASSUME NEW j \in 1 .. Len(steps) PROVE retained[j] # s
    <3>1. j \in DOMAIN retained /\ j < Len(steps) + 1 /\ Len(steps) + 1 \in DOMAIN retained
      BY <1>0, <1>1, <1>2
    <3>2. retained[j].key < s.key
      BY <3>1 DEF Inv, OneLayerPerKey
    <3>3. s.key \in Nat
      BY <1>2, KeyAssumption DEF Entry
    <3>. QED BY <3>2, <3>3
  <2>. QED BY <2>1, <2>2 DEF Taken
<1>4. IsScoreOf(Through(Combined, s), taken \cup {s})
  BY <1>1, <1>3, OneMoreTaken DEF Score
<1>5. Taken(retained', Len(steps')) = taken \cup {s} /\ Len(steps') = Len(steps) + 1
  <2>1. Len(steps') = Len(steps) + 1
    BY <1>0, <1>1
  <2>2. Taken(retained, Len(steps) + 1) = taken \cup {s}
    BY <1>2 DEF Taken
  <2>. QED BY <1>1, <2>1, <2>2
<1>6. Combined' = Through(Combined, s)
  <2>1. Through(Combined, s) \in Fraction
    BY <1>2, CombinedType, ThroughType
  <2>2. steps' # <<>> /\ steps'[Len(steps')] = Through(Combined, s)
    BY <1>0, <1>1, <2>1
  <2>. QED BY <2>2 DEF Combined
<1>. QED BY <1>0, <1>1, <1>2, <1>4, <1>5, <1>6 DEF Score

\* At the start nothing is scored.
LEMMA ScoreInit == Init => Score
BY DEF Init, Score

\* No other action touches the score, but for handing it over.
LEMMA ScoreNext == Inv /\ Score /\ [Next]_vars => Score'
<1>. SUFFICES ASSUME Inv, Score, [Next]_vars PROVE Score'
  OBVIOUS
<1>1. ASSUME UNCHANGED <<pc, retained, steps, result>> PROVE Score'
  <2>1. Combined' = Combined
    BY <1>1 DEF Combined
  <2>. QED BY <1>1, <2>1 DEF Score
<1>2. ASSUME pc' \notin {"score", "done"}, steps = <<>>, UNCHANGED steps, retained' \in Seq(Entry)
      PROVE  Score'
  BY <1>2 DEF Score
<1>3. CASE Freeze
  BY <1>2, <1>3 DEF Freeze, Score, Inv, TypeOK
<1>4. CASE Filter
  BY <1>1, <1>4 DEF Filter
<1>5. CASE CollectKeys
  BY <1>2, <1>5 DEF CollectKeys, Score, Inv, TypeOK
<1>6. CASE Resolve
  <2>1. retained' \in Seq(Entry)
    BY <1>6, InvResolve DEF Inv, TypeOK
  <2>. QED BY <1>2, <1>6, <2>1 DEF Resolve, Score
<1>7. CASE StartScore
  <2>1. steps = <<>> /\ steps' = <<>> /\ pc' = "score" /\ retained' = retained
    BY <1>7 DEF StartScore, Score
  <2>2. Combined' = Unprotected /\ Len(steps') = 0
    BY <2>1 DEF Combined
  <2>3. IsScoreOf(Combined', Taken(retained', Len(steps')))
    BY <2>2, NothingTaken
  <2>. QED BY <2>1, <2>2, <2>3 DEF Score, Inv, TypeOK
<1>8. CASE Combine
  BY <1>8, ScoreCombine
<1>9. CASE Conclude
  <2>1. /\ pc = "score" /\ pc' = "done" /\ Len(steps) = Len(retained)
        /\ UNCHANGED <<retained, steps>>
        /\ result'.remaining = Combined.remaining /\ result'.whole = Combined.whole
    BY <1>9 DEF Conclude
  <2>2. Combined' = Combined
    BY <2>1 DEF Combined
  <2>. QED BY <2>1, <2>2 DEF Score
<1>10. CASE UNCHANGED vars
  BY <1>1, <1>10 DEF vars
<1>11. CASE Done
  BY <1>10, <1>11 DEF Done
<1>. QED BY <1>3, <1>4, <1>5, <1>6, <1>7, <1>8, <1>9, <1>10, <1>11 DEF Next

\* The score is the product over the best effective layer of each key, and
\* over nothing else, however the rows, the map and the sorts are walked.
THEOREM ScoreCorrect == Spec => []ScoreOfBestLayers
<1>1. Inv /\ Score /\ LayersAreBest => ScoreOfBestLayers
  <2>. SUFFICES ASSUME Inv, Score, pc = "done", Retained = Counting(Stored)
                PROVE  /\ result.remaining = Remaining(Retained)
                       /\ result.whole = Whole(Retained)
    BY DEF LayersAreBest, ScoreOfBestLayers
  <2>1. retained \in Seq(Entry)
    BY DEF Inv, TypeOK
  <2>2. Taken(retained, Len(retained)) = Retained
    BY <2>1 DEF Taken, Retained, Range
  <2>. QED BY <2>2 DEF Score, IsScoreOf
<1>. QED BY <1>1, InvInit, InvNext, ScoreInit, ScoreNext, BestLayersCount, PTL DEF Spec
----------------------------------------------------------------------------
(* The lists of the result.  A set of entries with one key each has one     *)
(* order by key, so what the loops leave behind is a function of the rows   *)
(* and the clock: the ground on which Replay compares hashes.               *)
InKeyOrder(list) == \A i, j \in DOMAIN list : i < j => list[i].key < list[j].key

Ranking(entries) ==
  CHOOSE list \in Seq(entries) : InKeyOrder(list) /\ Range(list) = entries

\* Entries with numbers for keys.
IsList(list) ==
  /\ \E entries : list \in Seq(entries)
  /\ InKeyOrder(list)
  /\ \A i \in DOMAIN list : list[i].key \in Nat

\* A list in key order begins like any other with the same entries.
LEMMA SameStart ==
  ASSUME NEW a, NEW b, IsList(a), IsList(b), Range(a) = Range(b)
  PROVE  \A i \in 1 .. Len(a) : i \in 1 .. Len(b) /\ a[i] = b[i]
<1>. DEFINE Bad == {i \in 1 .. Len(a) : i \notin 1 .. Len(b) \/ a[i] # b[i]}
<1>1. /\ DOMAIN a = 1 .. Len(a) /\ Len(a) \in Nat
      /\ DOMAIN b = 1 .. Len(b) /\ Len(b) \in Nat
  BY DEF IsList
<1>2. /\ \A i \in 1 .. Len(a) : \E n \in 1 .. Len(b) : a[i] = b[n]
      /\ \A i \in 1 .. Len(b) : \E n \in 1 .. Len(a) : b[i] = a[n]
  BY <1>1 DEF IsList, Range
<1>5. /\ \A i \in 1 .. Len(a) : a[i].key \in Nat
      /\ \A i \in 1 .. Len(b) : b[i].key \in Nat
  BY <1>1 DEF IsList
<1>3. /\ \A i, j \in 1 .. Len(a) : i < j => a[i].key < a[j].key
      /\ \A i, j \in 1 .. Len(b) : i < j => b[i].key < b[j].key
  BY <1>1 DEF IsList, InKeyOrder
<1>4. ASSUME Bad # {} PROVE FALSE
  <2>1. Bad \in SUBSET Nat
    OBVIOUS
  <2>. HIDE DEF Bad
  <2>2. Min(Bad) \in Bad /\ \A i \in Bad : Min(Bad) <= i
    BY <1>4, <2>1, MinExists
  <2>3. PICK m \in Bad : \A i \in Bad : m <= i
    BY <2>2
  <2>. USE DEF Bad
  <2>4. m \in 1 .. Len(a) /\ \A i \in 1 .. Len(a) : i < m => i \in 1 .. Len(b) /\ a[i] = b[i]
    BY <1>1, <2>3
  <2>5. PICK n \in 1 .. Len(b) : a[m] = b[n]
    BY <1>2, <2>4
  <2>6. ~ (n < m)
    <3>. SUFFICES ASSUME n < m PROVE FALSE
      OBVIOUS
    <3>1. n \in 1 .. Len(a) /\ a[n] = b[n] /\ a[n].key < a[m].key
      BY <1>1, <1>3, <2>4
    <3>2. a[n].key = a[m].key /\ a[m].key \in Nat
      BY <1>5, <2>4, <2>5, <3>1
    <3>. QED BY <3>1, <3>2
  <2>7. m \in 1 .. Len(b) /\ m < n
    BY <1>1, <2>3, <2>4, <2>5, <2>6
  <2>8. b[m].key < a[m].key
    BY <1>3, <2>5, <2>7
  <2>9. PICK k \in 1 .. Len(a) : b[m] = a[k]
    BY <1>2, <2>7
  <2>10. CASE k < m
    <3>1. b[k] = b[m] /\ k \in 1 .. Len(b)
      BY <2>4, <2>9, <2>10
    <3>2. b[k].key < b[m].key
      BY <1>3, <2>7, <2>10, <3>1
    <3>3. b[k].key = b[m].key /\ b[m].key \in Nat
      BY <1>5, <2>7, <3>1
    <3>. QED BY <3>2, <3>3
  <2>11. CASE m < k
    <3>1. a[m].key < a[k].key
      BY <1>3, <2>4, <2>11
    <3>2. a[k].key = b[m].key /\ a[m].key \in Nat /\ b[m].key \in Nat
      BY <1>5, <2>4, <2>7, <2>9
    <3>. QED BY <2>8, <3>1, <3>2
  <2>12. CASE k = m
    <3>1. b[m].key = a[m].key /\ a[m].key \in Nat
      BY <1>5, <2>4, <2>9, <2>12
    <3>. QED BY <2>8, <3>1
  <2>. QED BY <1>1, <2>4, <2>10, <2>11, <2>12
<1>. QED BY <1>4

\* Lists in key order with the same entries are the same list.
LEMMA SameList ==
  ASSUME NEW a, NEW b, IsList(a), IsList(b), Range(a) = Range(b)
  PROVE  a = b
<1>1. /\ DOMAIN a = 1 .. Len(a) /\ Len(a) \in Nat /\ a = [i \in DOMAIN a |-> a[i]]
      /\ DOMAIN b = 1 .. Len(b) /\ Len(b) \in Nat /\ b = [i \in DOMAIN b |-> b[i]]
  BY DEF IsList
<1>2. \A i \in 1 .. Len(a) : i \in 1 .. Len(b) /\ a[i] = b[i]
  BY SameStart
<1>3. \A i \in 1 .. Len(b) : i \in 1 .. Len(a)
  BY SameStart
<1>4. Len(a) = Len(b)
  <2>1. Len(a) > Len(b) => Len(a) \in 1 .. Len(a)
    BY <1>1
  <2>2. Len(b) > Len(a) => Len(b) \in 1 .. Len(b)
    BY <1>1
  <2>. QED BY <1>1, <1>2, <1>3, <2>1, <2>2
<1>. QED BY <1>1, <1>2, <1>4

\* The order of its entries is the list.
LEMMA RankingOfList ==
  ASSUME NEW list, IsList(list)
  PROVE  list = Ranking(Range(list))
<1>. DEFINE entries == Range(list)
            other == Ranking(entries)
<1>1. list \in Seq(entries)
  BY DEF IsList, Range
<1>2. other \in Seq(entries) /\ InKeyOrder(other) /\ Range(other) = entries
  BY <1>1 DEF IsList, Ranking
<1>3. IsList(other)
  <2>1. \A i \in DOMAIN other : other[i] \in entries
    BY <1>2
  <2>2. \A e \in entries : e.key \in Nat
    BY DEF IsList, Range
  <2>. QED BY <1>2, <2>1, <2>2 DEF IsList
<1>. HIDE DEF other
<1>4. list = other
  BY <1>2, <1>3, SameList
<1>. QED BY <1>4 DEF other

\* What is listed of a group of more than one.
Listing(items, k) ==
  [key |-> k, kept |-> Best(items), ignored |-> Others(items, Best(items))]

\* The keys of groups of more than one.
Crowded(ks, of) == {k \in ks : Others(of[k], Best(of[k])) # {}}

\* The second loop lists the groups it has resolved and that had more than one.
Listed ==
  Range(deduplicated) = {Listing(groups[k], k) : k \in Crowded(Resolved, groups)}

\* One iteration lists its group.
LEMMA ListedResolve == Inv /\ Listed /\ Resolve => Listed'
<1>. SUFFICES ASSUME Inv, Listed, Resolve PROVE Listed'
  OBVIOUS
<1>. DEFINE Entries == [key : Keys, kept : Entry, ignored : SUBSET Entry]
            k == NextKey
            d == Listing(groups[k], k)
            ignored == Others(groups[k], Best(groups[k]))
<1>1. /\ UNCHANGED <<pc, groups>> /\ pc = "resolve" /\ keys # {} /\ keys' = keys \ {k}
      /\ deduplicated' = IF ignored = {} THEN deduplicated ELSE Append(deduplicated, d)
  BY DEF Resolve, Listing
<1>2. k \in keys /\ k \in Keys /\ groups[k] # {}
  <2>1. keys \in SUBSET Nat /\ keys \subseteq Keys
    BY KeyAssumption DEF Inv, TypeOK
  <2>2. Min(keys) \in keys
    BY <1>1, <2>1, MinExists
  <2>. QED BY <2>1, <2>2 DEF NextKey, Inv, Chosen
<1>3. d \in Entries
  <2>1. Best(groups[k]) \in Entry /\ groups[k] \subseteq Entry
    BY <1>2, GroupBest
  <2>. QED BY <1>2, <2>1 DEF Listing, Others
<1>4. Resolved' = Resolved \cup {k}
  BY <1>1, <1>2 DEF Resolved
<1>5. deduplicated \in Seq(Entries)
  BY DEF Inv, TypeOK
<1>. HIDE DEF k, d, Entries, ignored
<1>6. Range(deduplicated')
        = Range(deduplicated) \cup (IF ignored = {} THEN {} ELSE {d})
  <2>1. CASE ignored = {}
    BY <1>1, <2>1
  <2>2. CASE ignored # {}
    BY <1>1, <1>3, <1>5, <2>2, AppendRange
  <2>. QED BY <2>1, <2>2
<1>7. Crowded(Resolved', groups')
        = Crowded(Resolved, groups) \cup (IF ignored = {} THEN {} ELSE {k})
  BY <1>1, <1>4 DEF Crowded, ignored
<1>8. \A x : x \in Range(deduplicated)
               <=> \E j \in Crowded(Resolved, groups) : x = Listing(groups[j], j)
  BY DEF Listed
<1>9. \A x : x \in Range(deduplicated')
               <=> \E j \in Crowded(Resolved', groups') : x = Listing(groups[j], j)
  BY <1>6, <1>7, <1>8 DEF d
<1>10. Range(deduplicated') = {Listing(groups[j], j) : j \in Crowded(Resolved', groups')}
  BY <1>9, Zenon
<1>. QED BY <1>1, <1>10 DEF Listed

\* Before the second loop there is nothing to list, after it nothing changes.
LEMMA ListedNext == Inv /\ Listed /\ [Next]_vars => Listed'
<1>. SUFFICES ASSUME Inv, Listed, [Next]_vars PROVE Listed'
  OBVIOUS
<1>1. ASSUME UNCHANGED deduplicated, deduplicated = <<>>, Resolved' = {}
      PROVE  Listed'
  BY <1>1 DEF Listed, Crowded, Range
<1>2. ASSUME UNCHANGED <<deduplicated, groups>>, Resolved' = Resolved
      PROVE  Listed'
  BY <1>2 DEF Listed
<1>3. CASE Freeze \/ Filter \/ CollectKeys
  <2>1. deduplicated = <<>> /\ UNCHANGED deduplicated
    BY <1>3 DEF Freeze, Filter, CollectKeys, Inv, Phase
  <2>2. Resolved' = {}
    BY <1>3 DEF Freeze, Filter, CollectKeys, Resolved
  <2>. QED BY <1>1, <2>1, <2>2
<1>4. CASE StartScore \/ Combine \/ Conclude \/ UNCHANGED vars \/ Done
  <2>1. UNCHANGED <<deduplicated, groups, keys>>
    BY <1>4 DEF StartScore, Combine, Conclude, Done, vars
  <2>2. (pc \in {"freeze", "filter"}) <=> (pc' \in {"freeze", "filter"})
    BY <1>4 DEF StartScore, Combine, Conclude, Done, vars
  <2>3. Resolved' = Resolved
    BY <2>1, <2>2 DEF Resolved
  <2>. QED BY <1>2, <2>1, <2>3
<1>. QED BY <1>3, <1>4, ListedResolve DEF Next

\* The groups of an input, by its rows and its clock.
GroupOf(k) == {s \in Snapshot : s.key = k /\ Accepted(s, ReferenceTime)}

\* The lists of a result, told from the rows and the clock of its input.
ListsOfInput ==
  pc = "done" =>
    /\ rejected = {s \in Snapshot : ~ Accepted(s, ReferenceTime)}
    /\ retained = Ranking(Counting(Stored))
    /\ deduplicated =
         Ranking({Listing(GroupOf(k), k) : k \in Crowded(Keys, [k \in Keys |-> GroupOf(k)])})

\* When all is filtered each group is what the input makes of it.
LEMMA FilteredGroups ==
  ASSUME Inv, pc = "done"
  PROVE  /\ groups = [k \in Keys |-> GroupOf(k)]
         /\ rejected = {s \in Snapshot : ~ Accepted(s, ReferenceTime)}
<1>1. \A s : s \in Snapshot <=> s \in rejected \/ \E k \in Keys : s \in groups[k]
  <2>1. Snapshot = rejected \cup UNION {groups[k] : k \in Keys}
    BY DEF Inv, Phase, Placed
  <2>. QED BY <2>1, Zenon
<1>2. ASSUME NEW k \in Keys PROVE groups[k] = GroupOf(k)
  <2>1. \A s \in groups[k] : s \in GroupOf(k)
    BY <1>1 DEF Inv, Filtered, GroupOf
  <2>2. \A s \in GroupOf(k) : s \in groups[k]
    BY <1>1 DEF Inv, Filtered, GroupOf
  <2>. QED BY <2>1, <2>2
<1>3. rejected = {s \in Snapshot : ~ Accepted(s, ReferenceTime)}
  BY <1>1 DEF Inv, Filtered
<1>4. groups = [k \in Keys |-> groups[k]]
  BY DEF Inv, TypeOK
<1>. QED BY <1>2, <1>3, <1>4

\* However the rows and the map are walked, what is rejected, kept and listed,
\* and the order of it, depend on the rows and the clock alone: a replay of
\* the snapshot gives the lists that were stored.
THEOREM ResultDetermined == Spec => []ListsOfInput
<1>1. Init => Listed
  BY DEF Init, Listed, Crowded, Resolved, Range
<1>2. Inv /\ Listed /\ LayersAreBest => ListsOfInput
  <2>. SUFFICES ASSUME Inv, Listed, LayersAreBest, pc = "done"
                PROVE  /\ retained = Ranking(Counting(Stored))
                       /\ deduplicated = Ranking({Listing(GroupOf(k), k) :
                            k \in Crowded(Keys, [k \in Keys |-> GroupOf(k)])})
    BY FilteredGroups DEF ListsOfInput
  <2>1. IsList(retained) /\ IsList(deduplicated)
    <3>. DEFINE Entries == [key : Keys, kept : Entry, ignored : SUBSET Entry]
    <3>1. \A i \in DOMAIN retained : retained[i].key \in Nat
      <4>1. \A i \in DOMAIN retained : retained[i] \in Entry
        BY DEF Inv, TypeOK
      <4>. QED BY <4>1, KeyAssumption DEF Entry
    <3>2. \A i \in DOMAIN deduplicated : deduplicated[i].key \in Nat
      <4>1. deduplicated \in Seq(Entries) /\ \A e \in Entries : e.key \in Nat
        BY KeyAssumption DEF Inv, TypeOK
      <4>. HIDE DEF Entries
      <4>. QED BY <4>1
    <3>. QED BY <3>1, <3>2 DEF IsList, InKeyOrder, Inv, TypeOK, OneLayerPerKey
  <2>2. Range(retained) = Counting(Stored)
    BY DEF LayersAreBest, Retained
  <2>3. Range(deduplicated) = {Listing(GroupOf(k), k) :
                                 k \in Crowded(Keys, [k \in Keys |-> GroupOf(k)])}
    <3>1. groups = [k \in Keys |-> GroupOf(k)]
      BY FilteredGroups
    <3>. HIDE DEF GroupOf
    <3>2. Crowded(Resolved, groups) = Crowded(Keys, groups)
      BY DEF Inv, Phase, Resolved, Crowded, Others
    <3>3. \A k \in Crowded(Keys, groups) : groups[k] = GroupOf(k)
      BY <3>1 DEF Crowded
    <3>. QED BY <3>1, <3>2, <3>3 DEF Listed
  <2>4. retained = Ranking(Range(retained)) /\ deduplicated = Ranking(Range(deduplicated))
    BY <2>1, RankingOfList
  <2>. QED BY <2>2, <2>3, <2>4
<1>. QED BY <1>1, <1>2, InvInit, InvNext, ListedNext, BestLayersCount, PTL DEF Spec
----------------------------------------------------------------------------
(* More safeguards never make a scenario look worse.                        *)
\* Every layer of one set is matched in another by one of its key that is at
\* least as effective.
Covers(better, layers) ==
  \A s \in layers : \E t \in better : t.key = s.key /\ t.level >= s.level

\* At most one layer per key.
OneEach(layers) == \A s, t \in layers : s.key = t.key => s = t

\* Multiplying two inequalities.
LEMMA TimesBoth ==
  ASSUME NEW a \in Nat, NEW b \in Nat, NEW x \in Nat, NEW y \in Nat, a <= b, x <= y
  PROVE  a * x <= b * y
<1>1. a * x <= b * x
  BY Times
<1>2. x * b <= y * b
  BY Times
<1>3. x * b = b * x /\ y * b = b * y /\ a * x \in Nat /\ b * x \in Nat /\ b * y \in Nat
  OBVIOUS
<1>. QED BY <1>1, <1>2, <1>3

\* The level of a layer is a part of a perfect one.
LEMMA LevelType ==
  ASSUME NEW S, IsLayers(S), NEW x \in S
  PROVE  /\ x.level \in Levels /\ x.level \in Nat
         /\ Scale \in Nat /\ Scale - x.level \in Nat
<1>1. x.level \in Levels
  BY DEF IsLayers
<1>2. x.level \in 1 .. Scale /\ Scale \in Nat
  BY <1>1, ScaleAssumption
<1>. QED BY <1>1, <1>2

\* The two products of a set of layers, and what one of them adds.
LEMMA ProductsOfAny ==
  ASSUME NEW S, IsLayers(S)
  PROVE  /\ Remaining(S) \in Nat /\ Whole(S) \in Nat
         /\ Remaining({}) = 1 /\ Whole({}) = 1
         /\ \A x \in S : /\ IsLayers(S \ {x}) /\ Scale - x.level \in Nat /\ Scale \in Nat
                         /\ Remaining(S) = (Scale - x.level) * Remaining(S \ {x})
                         /\ Whole(S) = Scale * Whole(S \ {x})
<1>. DEFINE open == [l \in Levels |-> Scale - l]
            all == [l \in Levels |-> Scale]
<1>1. open \in [Levels -> Nat] /\ all \in [Levels -> Nat]
  BY FactorTypes
<1>2. \A T : Remaining(T) = Product(open, T) /\ Whole(T) = Product(all, T)
  BY DEF Remaining, Whole
<1>3. ASSUME NEW x \in S
      PROVE  /\ IsLayers(S \ {x}) /\ Scale - x.level \in Nat /\ Scale \in Nat
             /\ open[x.level] = Scale - x.level /\ all[x.level] = Scale
  <2>1. IsLayers(S \ {x})
    BY FS_Subset DEF IsLayers
  <2>. QED BY <2>1, LevelType
<1>. HIDE DEF open, all
<1>4. /\ Product(open, S) \in Nat /\ Product(open, {}) = 1
      /\ Product(all, S) \in Nat /\ Product(all, {}) = 1
  BY <1>1, ProductType
<1>5. ASSUME NEW x \in S
      PROVE  /\ Product(open, S) = open[x.level] * Product(open, S \ {x})
             /\ Product(all, S) = all[x.level] * Product(all, S \ {x})
  <2>1. ASSUME NEW factor \in [Levels -> Nat]
        PROVE  Product(factor, S) = factor[x.level] * Product(factor, S \ {x})
    BY ProductOfAny
  <2>2. Product(open, S) = open[x.level] * Product(open, S \ {x})
    BY <1>1, <2>1
  <2>3. Product(all, S) = all[x.level] * Product(all, S \ {x})
    BY <1>1, <2>1
  <2>. QED BY <2>2, <2>3
<1>. QED BY <1>2, <1>3, <1>4, <1>5

\* What gets through is at most all.
LEMMA RemainingAtMostWhole ==
  ASSUME NEW S, IsLayers(S)
  PROVE  Remaining(S) <= Whole(S)
<1>. DEFINE Bad == {T \in SUBSET S : ~ (Remaining(T) <= Whole(T))}
<1>1. ASSUME Bad # {} PROVE FALSE
  <2>1. Bad \in SUBSET (SUBSET S)
    OBVIOUS
  <2>. HIDE DEF Bad
  <2>2. PICK T \in Bad : \A U \in Bad : U \subseteq T => U = T
    BY <1>1, <2>1, SmallestSubset DEF IsLayers
  <2>. USE DEF Bad
  <2>3. T \in SUBSET S /\ ~ (Remaining(T) <= Whole(T)) /\ IsLayers(T)
    BY <2>2, FS_Subset DEF IsLayers
  <2>4. CASE T = {}
    BY <2>3, <2>4, ProductsOfAny
  <2>5. CASE T # {}
    <3>1. PICK x \in T : TRUE
      BY <2>5
    <3>2. Remaining(T \ {x}) <= Whole(T \ {x})
      BY <2>2, <2>3, <3>1
    <3>3. /\ IsLayers(T \ {x}) /\ Scale - x.level \in Nat /\ Scale \in Nat
          /\ Remaining(T) = (Scale - x.level) * Remaining(T \ {x})
          /\ Whole(T) = Scale * Whole(T \ {x})
      BY <2>3, ProductsOfAny
    <3>4. Scale - x.level <= Scale
      BY <2>3, <3>1, LevelType
    <3>5. Remaining(T \ {x}) \in Nat /\ Whole(T \ {x}) \in Nat
      BY <3>3, ProductsOfAny
    <3>. QED BY <2>3, <3>2, <3>3, <3>4, <3>5, TimesBoth
  <2>. QED BY <2>4, <2>5
<1>2. S \notin Bad
  BY <1>1
<1>. QED BY <1>2

\* Comparing two fractions after a factor has been added to each.
LEMMA TimesFractions ==
  ASSUME NEW a \in Nat, NEW b \in Nat, NEW c \in Nat,
         NEW r \in Nat, NEW w \in Nat, NEW x \in Nat, NEW y \in Nat,
         a <= b, r * w <= x * y
  PROVE  (a * r) * (c * w) <= (b * x) * (c * y)
<1>1. (a * c) * (r * w) <= (b * c) * (x * y)
  <2>1. a * c <= b * c
    BY Times
  <2>. QED BY <2>1, TimesBoth
<1>2. (a * c) * (r * w) = (a * r) * (c * w)
  OBVIOUS
<1>3. (b * c) * (x * y) = (b * x) * (c * y)
  OBVIOUS
<1>. QED BY <1>1, <1>2, <1>3

\* A set of layers that covers another lets no more through.
LEMMA CoveringIsBetter ==
  ASSUME NEW A, NEW B, IsLayers(A), IsLayers(B), OneEach(A), OneEach(B), Covers(B, A)
  PROVE  Remaining(B) * Whole(A) <= Remaining(A) * Whole(B)
<1>. DEFINE Worse(S, T) == ~ (Remaining(T) * Whole(S) <= Remaining(S) * Whole(T))
            Bad == {S \in SUBSET A : \E T \in SUBSET B : Covers(T, S) /\ Worse(S, T)}
<1>1. ASSUME Bad # {} PROVE FALSE
  <2>1. Bad \in SUBSET (SUBSET A)
    OBVIOUS
  <2>. HIDE DEF Bad
  <2>2. PICK S \in Bad : \A U \in Bad : U \subseteq S => U = S
    BY <1>1, <2>1, SmallestSubset DEF IsLayers
  <2>. USE DEF Bad
  <2>3. PICK T \in SUBSET B : Covers(T, S) /\ Worse(S, T)
    BY <2>2
  <2>4. S \in SUBSET A /\ IsLayers(S) /\ IsLayers(T)
    BY <2>2, <2>3, FS_Subset DEF IsLayers
  <2>5. CASE S = {}
    <3>1. Remaining(T) <= Whole(T) /\ Remaining(T) \in Nat /\ Whole(T) \in Nat
      BY <2>4, RemainingAtMostWhole, ProductsOfAny
    <3>2. Remaining(S) = 1 /\ Whole(S) = 1
      BY <2>4, <2>5, ProductsOfAny
    <3>. QED BY <2>3, <3>1, <3>2
  <2>6. CASE S # {}
    <3>1. PICK s \in S : TRUE
      BY <2>6
    <3>2. PICK t \in T : t.key = s.key /\ t.level >= s.level
      BY <2>3, <3>1 DEF Covers
    <3>. DEFINE S1 == S \ {s}
                T1 == T \ {t}
    <3>3. Covers(T1, S1)
      <4>. SUFFICES ASSUME NEW u \in S1
                    PROVE  \E v \in T1 : v.key = u.key /\ v.level >= u.level
        BY DEF Covers
      <4>1. PICK v \in T : v.key = u.key /\ v.level >= u.level
        BY <2>3 DEF Covers
      <4>2. v # t
        BY <2>4, <3>1, <3>2, <4>1 DEF OneEach
      <4>. QED BY <4>1, <4>2
    <3>4. Remaining(T1) * Whole(S1) <= Remaining(S1) * Whole(T1)
      <4>1. S1 \in SUBSET A /\ T1 \in SUBSET B /\ S1 # S /\ S1 \subseteq S
        BY <2>3, <2>4, <3>1
      <4>. HIDE DEF S1, T1
      <4>2. S1 \notin Bad
        BY <2>2, <4>1
      <4>. QED BY <3>3, <4>1, <4>2
    <3>5. /\ IsLayers(S1) /\ Scale - s.level \in Nat /\ Scale \in Nat
          /\ Remaining(S) = (Scale - s.level) * Remaining(S1)
          /\ Whole(S) = Scale * Whole(S1)
          /\ IsLayers(T1) /\ Scale - t.level \in Nat
          /\ Remaining(T) = (Scale - t.level) * Remaining(T1)
          /\ Whole(T) = Scale * Whole(T1)
      BY <2>4, <3>1, <3>2, ProductsOfAny
    <3>. HIDE DEF S1, T1
    <3>6. /\ Remaining(S1) \in Nat /\ Whole(S1) \in Nat
          /\ Remaining(T1) \in Nat /\ Whole(T1) \in Nat
      BY <3>5, ProductsOfAny
    <3>7. Scale - t.level <= Scale - s.level
      <4>1. t.level \in Nat /\ s.level \in Nat /\ Scale \in Nat
        BY <2>4, <3>1, <3>2, LevelType
      <4>. QED BY <3>2, <4>1
    <3>8. Remaining(T) * Whole(S) <= Remaining(S) * Whole(T)
      <4>. DEFINE a == Scale - t.level
                  b == Scale - s.level
      <4>1. a \in Nat /\ b \in Nat /\ a <= b /\ Scale \in Nat
        BY <3>5, <3>7
      <4>. HIDE DEF a, b
      <4>2. (a * Remaining(T1)) * (Scale * Whole(S1))
              <= (b * Remaining(S1)) * (Scale * Whole(T1))
        BY <3>4, <3>6, <4>1, TimesFractions
      <4>3. /\ Remaining(S) = b * Remaining(S1) /\ Whole(S) = Scale * Whole(S1)
            /\ Remaining(T) = a * Remaining(T1) /\ Whole(T) = Scale * Whole(T1)
        BY <3>5 DEF a, b
      <4>. QED BY <4>2, <4>3
    <3>. QED BY <2>3, <3>8
  <2>. QED BY <2>5, <2>6
<1>2. A \notin Bad
  BY <1>1
<1>. QED BY <1>2

\* The entries of some safeguards that are eligible.
EligibleOf(safeguards) ==
  {s \in {Frozen(row) : row \in safeguards} :
     s.key # Blank /\ IsEffectiveAt(s, ReferenceTime)}

\* Safeguards of a table: finitely many, told apart by their ids.
IsTable(safeguards) ==
  /\ safeguards \subseteq Safeguard /\ IsFiniteSet(safeguards)
  /\ \A s, t \in safeguards : s.id = t.id => s = t

\* The layers of a table that count: one of each key, no less effective than
\* any eligible one of that key.
LEMMA CountingLayers ==
  ASSUME NEW safeguards, IsTable(safeguards)
  PROVE  /\ IsLayers(Counting(safeguards)) /\ OneEach(Counting(safeguards))
         /\ Counting(safeguards) \subseteq EligibleOf(safeguards)
         /\ Covers(Counting(safeguards), EligibleOf(safeguards))
<1>. DEFINE frozen == {Frozen(row) : row \in safeguards}
            eligible == EligibleOf(safeguards)
            counting == Counting(safeguards)
            Beats(t, s) == t.level > s.level \/ (t.level = s.level /\ t.id < s.id)
<1>1. /\ eligible \subseteq frozen
      /\ counting = {s \in eligible : ~ \E t \in eligible : t.key = s.key /\ Beats(t, s)}
  BY DEF Counting, EligibleOf
<1>2. /\ IsFiniteSet(frozen) /\ frozen \subseteq Entry
      /\ \A s, t \in frozen : s.id = t.id => s = t
  <2>1. IsFiniteSet(frozen)
    <3>. DEFINE freeze == [row \in safeguards |-> Frozen(row)]
    <3>1. freeze \in Surjection(safeguards, frozen)
      BY DEF Surjection
    <3>2. IsFiniteSet(safeguards)
      BY DEF IsTable
    <3>. HIDE DEF freeze, frozen
    <3>. QED BY <3>1, <3>2, FS_Surjection
  <2>2. \A s \in frozen : \E row \in safeguards :
          s = Frozen(row) /\ s \in Entry /\ s.id = row.id
    BY FrozenSafeguard DEF IsTable
  <2>. QED BY <2>1, <2>2 DEF IsTable
<1>3. \A s \in eligible : /\ s \in Entry /\ s.level \in Levels /\ s.level \in Nat
                          /\ s.id \in Nat
  <2>1. \A s \in Entry : s.level \in Levels /\ s.id \in Nat
    BY KeyAssumption DEF Entry
  <2>2. \A l \in Levels : l \in Nat
    BY ScaleAssumption
  <2>. QED BY <1>1, <1>2, <2>1, <2>2
<1>. HIDE DEF eligible, counting, frozen
<1>4. IsLayers(counting)
  <2>1. IsFiniteSet(counting)
    BY <1>1, <1>2, FS_Subset
  <2>. QED BY <1>1, <1>3, <2>1 DEF IsLayers
<1>5. OneEach(counting)
  <2>. SUFFICES ASSUME NEW s \in counting, NEW t \in counting, s.key = t.key
                PROVE  s = t
    BY DEF OneEach
  <2>1. s \in eligible /\ t \in eligible /\ ~ Beats(t, s) /\ ~ Beats(s, t)
    BY <1>1
  <2>2. s.level \in Nat /\ t.level \in Nat /\ s.id \in Nat /\ t.id \in Nat
    BY <1>3, <2>1
  <2>3. s.id = t.id
    BY <2>1, <2>2
  <2>. QED BY <1>1, <1>2, <2>1, <2>3
<1>6. ASSUME NEW s \in eligible
      PROVE  \E t \in counting : t.key = s.key /\ t.level >= s.level
  <2>. DEFINE items == {t \in eligible : t.key = s.key}
              b == Best(items)
  <2>1. items \in SUBSET Entry /\ items # {} /\ \A t, u \in items : t.id = u.id => t = u
    BY <1>1, <1>2, <1>3
  <2>. HIDE DEF items
  <2>2. b \in items /\ \A t \in items \ {b} : Better(b, t)
    BY <2>1, BestExists
  <2>. HIDE DEF b
  <2>3. b \in eligible /\ b.key = s.key /\ \A t \in eligible : t.key = s.key => t \in items
    BY <2>2 DEF items
  <2>4. ASSUME NEW t \in eligible, t.key = b.key, Beats(t, b) PROVE FALSE
    <3>1. /\ t.level \in Nat /\ b.level \in Nat /\ t.id \in Nat /\ b.id \in Nat
          /\ t # b => Better(b, t)
      BY <1>3, <2>2, <2>3, <2>4
    <3>. QED BY <2>4, <3>1 DEF Better
  <2>5. b \in counting
    BY <1>1, <2>3, <2>4
  <2>6. b.level >= s.level
    <3>1. b.level \in Nat /\ s.level \in Nat /\ (s # b => Better(b, s))
      BY <1>3, <2>2, <2>3
    <3>. QED BY <3>1 DEF Better
  <2>. QED BY <2>3, <2>5, <2>6
<1>. QED BY <1>1, <1>4, <1>5, <1>6 DEF Covers, eligible, counting

\* One safeguard more, whatever its key, state and effectiveness, never lets
\* more through: the share that gets through with all of them is at most the
\* share with some (ResolveIndependence and CalculateScore together).
THEOREM MoreSafeguardsNeverHurt ==
  ASSUME NEW all, IsTable(all), NEW some \in SUBSET all
  PROVE  Remaining(Counting(all)) * Whole(Counting(some))
           <= Remaining(Counting(some)) * Whole(Counting(all))
<1>1. IsTable(some)
  BY FS_Subset DEF IsTable
<1>2. EligibleOf(some) \subseteq EligibleOf(all)
  BY DEF EligibleOf
<1>3. Covers(Counting(all), Counting(some))
  BY <1>1, <1>2, CountingLayers DEF Covers
<1>. QED BY <1>1, <1>3, CountingLayers, CoveringIsBetter
==============================================================================
