------------------------ MODULE LeakageCampaign_proofs ------------------------
(***************************************************************************)
(* Proofs about LeakageCampaign for all plans, datasets, streams, records, *)
(* scores, chunks, thresholds and numbers of changed entries.              *)
(*                                                                         *)
(* First facts about the operators of TraceViews and of the schedule: a    *)
(* sum over rows splits, a spread is not negative, fractions are ordered,  *)
(* a curve has a peak, a block is half fixed, a chunk of labels adds what  *)
(* its rows say.  Then the inductive invariant CampaignInv and, step by    *)
(* step, that it is kept; last, what follows from it for labels,           *)
(* statistics and verdicts.                                                *)
(*                                                                         *)
(* Induction is over sets of numbers (SetInduction): a recursive function  *)
(* is unfolded by showing that the function it chooses exists.             *)
(***************************************************************************)
EXTENDS LeakageCampaign, SequenceTheorems, FiniteSetTheorems, FunctionTheorems, TLAPS

\* Induction, with the set of the numbers for which a fact holds.
LEMMA SetInduction ==
  ASSUME NEW S, 0 \in S, \A n \in Nat : n \in S => n + 1 \in S
  PROVE  Nat \subseteq S
  <1> SUFFICES ASSUME NEW n \in Nat, n \notin S PROVE FALSE
    OBVIOUS
  <1> DEFINE T == S \cap (0 .. n)
             f == [k \in T |-> k + 1]
  <1>1. IsFiniteSet(T) /\ IsFiniteSet(T \ {0}) /\ Cardinality(T \ {0}) = Cardinality(T) - 1
        /\ Cardinality(T) \in Nat
    <2>1. IsFiniteSet(0 .. n)
      BY FS_Interval
    <2>2. IsFiniteSet(T)
      BY <2>1, FS_Subset
    <2>3. 0 \in T
      OBVIOUS
    <2>4. QED
      BY <2>2, <2>3, FS_RemoveElement, FS_CardinalityType
  <1>2. f \in Injection(T, T \ {0})
    <2>1. \A k \in T : k + 1 \in T \ {0}
      OBVIOUS
    <2>2. f \in [T -> T \ {0}]
      BY <2>1
    <2>3. \A j, k \in T : f[j] = f[k] => j = k
      OBVIOUS
    <2>4. QED
      BY <2>2, <2>3, Zenon DEF Injection, IsInjective
  <1>3. Cardinality(T) <= Cardinality(T \ {0})
    BY <1>1, <1>2, FS_Injection
  <1>4. QED
    BY <1>1, <1>3

\* Parts of a finite set that have no element in common.
LEMMA CountParts ==
  ASSUME NEW S, NEW T, IsFiniteSet(S), IsFiniteSet(T), S \cap T = {}
  PROVE  /\ IsFiniteSet(S \cup T)
         /\ Cardinality(S \cup T) = Cardinality(S) + Cardinality(T)
         /\ Cardinality(S) \in Nat /\ Cardinality(T) \in Nat
  <1>1. Cardinality(S \cap T) = 0
    BY FS_EmptySet
  <1>2. Cardinality(S) \in Nat /\ Cardinality(T) \in Nat
    BY FS_CardinalityType
  <1>3. /\ IsFiniteSet(S \cup T)
        /\ Cardinality(S \cup T) = Cardinality(S) + Cardinality(T) - Cardinality(S \cap T)
    BY FS_Union, Zenon
  <1>4. QED
    BY <1>1, <1>2, <1>3

\* The partial sums of f, rows below n.
SumsOf(f, n, g) ==
  g = [k \in 0 .. n |->
         IF k = 0 THEN 0 ELSE g[k - 1] + IF k - 1 \in DOMAIN f THEN f[k - 1] ELSE 0]
SumTo(f, n) == CHOOSE g : SumsOf(f, n, g)

LEMMA SumsUnfold ==
  ASSUME NEW f, NEW n \in Nat, NEW g, SumsOf(f, n, g)
  PROVE  /\ DOMAIN g = 0 .. n /\ g[0] = 0
         /\ \A k \in 0 .. n : k # 0 =>
              g[k] = g[k - 1] + IF k - 1 \in DOMAIN f THEN f[k - 1] ELSE 0
  <1>1. DOMAIN g = 0 .. n
    BY DEF SumsOf
  <1>2. \A k \in 0 .. n :
          g[k] = IF k = 0 THEN 0 ELSE g[k - 1] + IF k - 1 \in DOMAIN f THEN f[k - 1] ELSE 0
    BY DEF SumsOf
  <1>3. QED
    BY <1>1, <1>2

LEMMA SumsExist ==
  ASSUME NEW f PROVE \A n \in Nat : \E g : SumsOf(f, n, g)
  <1> DEFINE Known == {n \in Nat : \E g : SumsOf(f, n, g)}
             Term(k) == IF k - 1 \in DOMAIN f THEN f[k - 1] ELSE 0
  <1>1. 0 \in Known
    <2> DEFINE g == [k \in 0 .. 0 |-> 0]
    <2>1. g = [k \in 0 .. 0 |-> IF k = 0 THEN 0 ELSE g[k - 1] + Term(k)]
      OBVIOUS
    <2>2. SumsOf(f, 0, g)
      BY <2>1 DEF SumsOf
    <2>3. QED
      BY <2>2
  <1>2. ASSUME NEW n \in Nat, n \in Known PROVE n + 1 \in Known
    <2>1. PICK g : SumsOf(f, n, g)
      BY <1>2
    <2> DEFINE h == [k \in 0 .. n + 1 |-> IF k = n + 1 THEN g[n] + Term(n + 1) ELSE g[k]]
    <2>2. /\ DOMAIN g = 0 .. n /\ g[0] = 0
          /\ \A k \in 0 .. n : k # 0 => g[k] = g[k - 1] + Term(k)
      BY ZenonT(60), <2>1, SumsUnfold
    <2>3. \A k \in 0 .. n + 1 : h[k] = IF k = 0 THEN 0 ELSE h[k - 1] + Term(k)
      <3>1. h[0] = 0
        BY <2>2
      <3>2. ASSUME NEW k \in 0 .. n + 1, k # 0 PROVE h[k] = h[k - 1] + Term(k)
        <4> k - 1 \in 0 .. n + 1 /\ k - 1 # n + 1
          BY <3>2
        <4>1. h[k - 1] = g[k - 1]
          OBVIOUS
        <4> HIDE DEF Term
        <4>2. CASE k = n + 1
          BY <4>1, <4>2
        <4>3. CASE k # n + 1
          BY <4>1, <4>3, <2>2, <3>2
        <4>4. QED
          BY <4>2, <4>3
      <3>3. QED
        BY <3>1, <3>2
    <2>4. h = [k \in 0 .. n + 1 |-> IF k = 0 THEN 0 ELSE h[k - 1] + Term(k)]
      <3>1. h = [k \in 0 .. n + 1 |-> h[k]]
        OBVIOUS
      <3> HIDE DEF h, Term
      <3>2. QED
        BY <2>3, <3>1
    <2>5. SumsOf(f, n + 1, h)
      BY <2>4 DEF SumsOf
    <2>6. QED
      BY <2>5
  <1>3. Nat \subseteq Known
    <2> HIDE DEF Known
    <2>1. QED
      BY <1>1, <1>2, SetInduction
  <1>4. QED
    BY <1>3

\* Partial sums do not depend on where they end.
LEMMA SumsAgree ==
  ASSUME NEW f, NEW n \in Nat, NEW m \in Nat, n <= m, NEW g, NEW h,
         SumsOf(f, n, g), SumsOf(f, m, h)
  PROVE  g[n] = h[n]
  <1> DEFINE Known == {k \in Nat : k <= n => g[k] = h[k]}
  <1>1. 0 \in Known
    BY SumsUnfold
  <1>2. ASSUME NEW k \in Nat, k \in Known PROVE k + 1 \in Known
    <2>1. SUFFICES ASSUME k + 1 <= n PROVE g[k + 1] = h[k + 1]
      OBVIOUS
    <2>2. g[k] = h[k] /\ k + 1 \in 0 .. n /\ k + 1 \in 0 .. m /\ k + 1 # 0 /\ (k + 1) - 1 = k
      BY <1>2, <2>1
    <2>3. g[k + 1] = g[(k + 1) - 1] + IF (k + 1) - 1 \in DOMAIN f THEN f[(k + 1) - 1] ELSE 0
      BY <2>2, SumsUnfold
    <2>4. h[k + 1] = h[(k + 1) - 1] + IF (k + 1) - 1 \in DOMAIN f THEN f[(k + 1) - 1] ELSE 0
      BY <2>2, SumsUnfold
    <2>5. QED
      BY <2>2, <2>3, <2>4
  <1>3. Nat \subseteq Known
    <2> HIDE DEF Known
    <2>1. QED
      BY <1>1, <1>2, SetInduction
  <1>4. QED
    BY <1>3

\* What SumOver adds up, row after row.
LEMMA SumOverStep ==
  ASSUME NEW f
  PROVE  /\ SumOver(f, 0) = 0
         /\ \A n \in Nat :
              SumOver(f, n + 1) = SumOver(f, n) + IF n \in DOMAIN f THEN f[n] ELSE 0
  <1>1. \A n \in Nat : SumsOf(f, n, SumTo(f, n))
    BY SumsExist DEF SumTo
  <1>2. \A n : SumOver(f, n) = SumTo(f, n)[n]
    BY DEF SumOver, SumTo, SumsOf
  <1>3. SumOver(f, 0) = 0
    BY <1>1, <1>2, SumsUnfold
  <1>4. ASSUME NEW n \in Nat
        PROVE  SumOver(f, n + 1) = SumOver(f, n) + IF n \in DOMAIN f THEN f[n] ELSE 0
    <2> DEFINE g == SumTo(f, n)
               h == SumTo(f, n + 1)
    <2>1. SumsOf(f, n, g) /\ SumsOf(f, n + 1, h) /\ n + 1 \in Nat /\ n <= n + 1
      BY <1>1
    <2>2. SumOver(f, n) = g[n] /\ SumOver(f, n + 1) = h[n + 1]
      BY <1>2
    <2> HIDE DEF g, h
    <2>3. g[n] = h[n]
      BY <2>1, SumsAgree
    <2>4. n + 1 \in 0 .. n + 1 /\ n + 1 # 0 /\ (n + 1) - 1 = n
      OBVIOUS
    <2>5. h[n + 1] = h[(n + 1) - 1] + IF (n + 1) - 1 \in DOMAIN f THEN f[(n + 1) - 1] ELSE 0
      BY <2>1, <2>4, SumsUnfold
    <2>6. QED
      BY <2>2, <2>3, <2>4, <2>5
  <1>5. QED
    BY <1>3, <1>4

\* A sum of integers is one.
LEMMA SumOverType ==
  ASSUME NEW f, \A i \in DOMAIN f : f[i] \in Int
  PROVE  \A n \in Nat : SumOver(f, n) \in Int
  <1> DEFINE Known == {n \in Nat : SumOver(f, n) \in Int}
  <1>1. 0 \in Known
    BY SumOverStep
  <1>2. ASSUME NEW n \in Nat, n \in Known PROVE n + 1 \in Known
    <2>1. SumOver(f, n + 1) = SumOver(f, n) + IF n \in DOMAIN f THEN f[n] ELSE 0
      BY SumOverStep
    <2>2. SumOver(f, n) \in Int
      BY <1>2
    <2>3. QED
      BY <2>1, <2>2
  <1>3. Nat \subseteq Known
    <2> HIDE DEF Known
    <2>1. QED
      BY <1>1, <1>2, SetInduction
  <1>4. QED
    BY <1>3

\* The sum over nothing.
LEMMA SumOverNothing ==
  ASSUME NEW f, DOMAIN f = {}
  PROVE  \A n \in Nat : SumOver(f, n) = 0
  <1> DEFINE Known == {n \in Nat : SumOver(f, n) = 0}
  <1>1. 0 \in Known
    BY SumOverStep
  <1>2. ASSUME NEW n \in Nat, n \in Known PROVE n + 1 \in Known
    <2>1. SumOver(f, n + 1) = SumOver(f, n) + 0
      BY SumOverStep
    <2>2. QED
      BY <1>2, <2>1
  <1>3. Nat \subseteq Known
    <2> HIDE DEF Known
    <2>1. QED
      BY <1>1, <1>2, SetInduction
  <1>4. QED
    BY <1>3

\* The values h are those of f and those of g, over domains that have nothing in common.
Splits(h, f, g) ==
  /\ DOMAIN f \cap DOMAIN g = {} /\ DOMAIN h = DOMAIN f \cup DOMAIN g
  /\ \A i \in DOMAIN f : f[i] \in Int /\ h[i] = f[i]
  /\ \A i \in DOMAIN g : g[i] \in Int /\ h[i] = g[i]

\* A sum is the sum of its parts.
LEMMA SumOverParts ==
  ASSUME NEW f, NEW g, NEW h, NEW m \in Nat, Splits(h, f, g)
  PROVE  SumOver(h, m) = SumOver(f, m) + SumOver(g, m)
  <1> /\ DOMAIN f \cap DOMAIN g = {} /\ DOMAIN h = DOMAIN f \cup DOMAIN g
      /\ \A i \in DOMAIN f : f[i] \in Int /\ h[i] = f[i]
      /\ \A i \in DOMAIN g : g[i] \in Int /\ h[i] = g[i]
    BY DEF Splits
  <1> DEFINE Known == {n \in Nat : SumOver(h, n) = SumOver(f, n) + SumOver(g, n)}
  <1>1. 0 \in Known
    BY SumOverStep
  <1>2. ASSUME NEW n \in Nat, n \in Known PROVE n + 1 \in Known
    <2>1. /\ SumOver(f, n + 1) = SumOver(f, n) + IF n \in DOMAIN f THEN f[n] ELSE 0
          /\ SumOver(g, n + 1) = SumOver(g, n) + IF n \in DOMAIN g THEN g[n] ELSE 0
          /\ SumOver(h, n + 1) = SumOver(h, n) + IF n \in DOMAIN h THEN h[n] ELSE 0
      BY SumOverStep
    <2>2. SumOver(f, n) \in Int /\ SumOver(g, n) \in Int /\ SumOver(h, n) \in Int
      BY SumOverType
    <2>3. SumOver(h, n) = SumOver(f, n) + SumOver(g, n)
      BY <1>2
    <2>4. CASE n \in DOMAIN f
      <3>1. n \notin DOMAIN g /\ n \in DOMAIN h /\ h[n] = f[n] /\ f[n] \in Int
        BY <2>4
      <3>2. QED
        BY <2>1, <2>2, <2>3, <2>4, <3>1
    <2>5. CASE n \in DOMAIN g
      <3>1. n \notin DOMAIN f /\ n \in DOMAIN h /\ h[n] = g[n] /\ g[n] \in Int
        BY <2>5
      <3>2. QED
        BY <2>1, <2>2, <2>3, <2>5, <3>1
    <2>6. CASE n \notin DOMAIN f /\ n \notin DOMAIN g
      BY <2>1, <2>2, <2>3, <2>6
    <2>7. QED
      BY <2>4, <2>5, <2>6
  <1>3. Nat \subseteq Known
    <2> HIDE DEF Known
    <2>1. QED
      BY <1>1, <1>2, SetInduction
  <1>4. QED
    BY <1>3

\* Rows are finitely many.
LEMMA RowsFinite ==
  ASSUME NEW n \in Nat, NEW S \in SUBSET (0 .. n - 1)
  PROVE  IsFiniteSet(S) /\ Cardinality(S) \in Nat
  <1>1. IsFiniteSet(0 .. n - 1)
    BY FS_Interval
  <1>2. IsFiniteSet(S)
    BY <1>1, FS_Subset
  <1>3. QED
    BY <1>2, FS_CardinalityType

\* The squares of the distances of the values from b / a, added up, are not negative.
LEMMA DistancesAddUp ==
  ASSUME NEW n \in Nat, NEW S \in SUBSET (0 .. n - 1), NEW f \in [S -> Int],
         NEW q \in [S -> Int], \A i \in S : q[i] = f[i] * f[i], NEW a \in Int, NEW b \in Int
  PROVE  a * a * SumOver(q, n) - 2 * a * b * SumOver(f, n) + b * b * Cardinality(S) >= 0
  <1> DEFINE Below(k) == S \cap (0 .. k - 1)
             Known == {k \in Nat : a * a * SumOver(q, k) - 2 * a * b * SumOver(f, k)
                                     + b * b * Cardinality(Below(k)) >= 0}
  <1>1. DOMAIN f = S /\ DOMAIN q = S
    OBVIOUS
  <1>2. \A k \in Nat : SumOver(q, k) \in Int /\ SumOver(f, k) \in Int
    BY SumOverType
  <1>3. \A k \in Nat : IsFiniteSet(Below(k)) /\ Cardinality(Below(k)) \in Nat
    BY RowsFinite
  <1>4. 0 \in Known
    <2>1. Below(0) = {}
      OBVIOUS
    <2>2. Cardinality(Below(0)) = 0
      BY <2>1, FS_EmptySet
    <2>3. SumOver(q, 0) = 0 /\ SumOver(f, 0) = 0
      BY SumOverStep
    <2> HIDE DEF Below
    <2>4. QED
      BY <2>2, <2>3
  <1>5. ASSUME NEW k \in Nat, k \in Known PROVE k + 1 \in Known
    <2>1. SumOver(q, k + 1) = SumOver(q, k) + IF k \in S THEN q[k] ELSE 0
      BY <1>1, SumOverStep
    <2>2. SumOver(f, k + 1) = SumOver(f, k) + IF k \in S THEN f[k] ELSE 0
      BY <1>1, SumOverStep
    <2>3. CASE k \notin S
      <3>1. Below(k + 1) = Below(k)
        BY SMTT(30), <2>3
      <3>2. SumOver(q, k + 1) = SumOver(q, k) /\ SumOver(f, k + 1) = SumOver(f, k)
        BY <2>1, <2>2, <2>3, <1>2
      <3> HIDE DEF Below
      <3>3. QED
        BY <3>1, <3>2, <1>5
    <2>4. CASE k \in S
      <3>1. Below(k + 1) = Below(k) \cup {k} /\ k \notin Below(k)
        <4>1. 0 .. (k + 1) - 1 = (0 .. k - 1) \cup {k} /\ k \notin 0 .. k - 1
          OBVIOUS
        <4>2. QED
          BY <2>4, <4>1
      <3>2. Cardinality(Below(k + 1)) = Cardinality(Below(k)) + 1
        BY <3>1, <1>3, FS_AddElement
      <3> DEFINE x == f[k]
                 Q == SumOver(q, k)
                 F == SumOver(f, k)
                 c == Cardinality(Below(k))
      <3>3. x \in Int /\ Q \in Int /\ F \in Int /\ c \in Nat
        BY <2>4, <1>2, <1>3
      <3>4. SumOver(q, k + 1) = Q + x * x /\ SumOver(f, k + 1) = F + x
        BY <2>1, <2>2, <2>4
      <3>5. a * a * Q - 2 * a * b * F + b * b * c >= 0
        BY <1>5
      <3> HIDE DEF x, Q, F, c
      <3>6. (a * x - b) * (a * x - b) >= 0
        <4> DEFINE d == a * x - b
        <4>1. d \in Int
          BY <3>3
        <4> HIDE DEF d
        <4>2. d * d >= 0
          BY <4>1
        <4>3. QED
          BY <4>2 DEF d
      <3>7. (a * x - b) * (a * x - b) = a * a * (x * x) - 2 * a * b * x + b * b
        BY <3>3
      <3>8. a * a * (Q + x * x) - 2 * a * b * (F + x) + b * b * (c + 1)
              = (a * a * Q - 2 * a * b * F + b * b * c)
                  + (a * a * (x * x) - 2 * a * b * x + b * b)
        BY <3>3
      <3>9. a * a * (Q + x * x) - 2 * a * b * (F + x) + b * b * (c + 1) >= 0
        <4> DEFINE l == a * a * Q - 2 * a * b * F + b * b * c
                   r == a * a * (x * x) - 2 * a * b * x + b * b
        <4>1. l \in Int /\ r \in Int /\ l >= 0 /\ r >= 0
          BY <3>3, <3>5, <3>6, <3>7
        <4>2. a * a * (Q + x * x) - 2 * a * b * (F + x) + b * b * (c + 1) = l + r
          BY <3>8
        <4> HIDE DEF l, r
        <4>3. QED
          BY <4>1, <4>2
      <3>10. Cardinality(Below(k + 1)) = c + 1
        BY <3>2 DEF c
      <3> HIDE DEF Below
      <3>11. QED
        BY <3>4, <3>9, <3>10
    <2>5. QED
      BY <2>3, <2>4
  <1>6. Nat \subseteq Known
    <2> HIDE DEF Known
    <2>1. QED
      BY <1>4, <1>5, SetInduction
  <1>7. Below(n) = S
    OBVIOUS
  <1>8. n \in Known
    BY <1>6
  <1>9. QED
    BY <1>7, <1>8

\* The spread of the values of a set: the count times the squares is no less than the
\* square of the sum.
LEMMA SpreadNotNegative ==
  ASSUME NEW n \in Nat, NEW S \in SUBSET (0 .. n - 1), NEW f \in [S -> Int],
         NEW q \in [S -> Int], \A i \in S : q[i] = f[i] * f[i]
  PROVE  Cardinality(S) * SumOver(q, n) - SumOver(f, n) * SumOver(f, n) >= 0
  <1> DEFINE c == Cardinality(S)
             Q == SumOver(q, n)
             F == SumOver(f, n)
  <1>1. c \in Nat /\ Q \in Int /\ F \in Int
    <2>1. DOMAIN f = S /\ DOMAIN q = S
      OBVIOUS
    <2>2. QED
      BY <2>1, SumOverType, RowsFinite
  <1>2. CASE c = 0
    <2>1. S = {}
      <3>1. IsFiniteSet(S)
        BY RowsFinite
      <3>2. QED
        BY <1>2, <3>1, FS_EmptySet
    <2>2. F = 0 /\ Q = 0
      BY <2>1, SumOverNothing
    <2>3. QED
      BY <1>2, <2>2
  <1>3. CASE c > 0
    <2>1. c * c * Q - 2 * c * F * F + F * F * c >= 0
      <3>1. \A a, b \in Int : a * a * SumOver(q, n) - 2 * a * b * SumOver(f, n)
                              + b * b * Cardinality(S) >= 0
        <4> HIDE DEF c, Q, F
        <4>1. QED
          BY DistancesAddUp, Zenon
      <3>2. c \in Int /\ F \in Int
        BY <1>1
      <3>3. c * c * SumOver(q, n) - 2 * c * F * SumOver(f, n) + F * F * Cardinality(S) >= 0
        <4> HIDE DEF c, F
        <4>1. QED
          BY <3>1, <3>2, Zenon
      <3>4. QED
        BY <3>3
    <2> HIDE DEF c, Q, F
    <2>2. c * c * Q - 2 * c * F * F + F * F * c = c * (c * Q - F * F)
      BY <1>1
    <2> DEFINE d == c * Q - F * F
    <2>3. d \in Int
      BY <1>1
    <2>4. c * d >= 0
      BY <2>1, <2>2
    <2> HIDE DEF d
    <2>5. d >= 0
      BY <2>3, <2>4, <1>1, <1>3
    <2>6. QED
      BY <2>5 DEF d, c, Q, F
  <1>4. QED
    BY <1>1, <1>2, <1>3

\* Fractions are ordered, as long as no denominator is negative.
LEMMA LessOrder ==
  ASSUME NEW f \in Int \X (Nat \ {0}), NEW g \in Int \X (Nat \ {0}), NEW h \in Int \X (Nat \ {0})
  PROVE  /\ Less(f, g) => ~Less(g, f)
         /\ ~Less(f, g) /\ ~Less(g, h) => ~Less(f, h)
  <1> DEFINE a == f[1]
             b == f[2]
             c == g[1]
             d == g[2]
             e == h[1]
             k == h[2]
  <1>1. a \in Int /\ c \in Int /\ e \in Int /\ b \in Nat \ {0} /\ d \in Nat \ {0} /\ k \in Nat \ {0}
    OBVIOUS
  <1>2. Less(f, g) <=> a * d < c * b
    BY DEF Less
  <1>3. Less(g, f) <=> c * b < a * d
    BY DEF Less
  <1>4. Less(g, h) <=> c * k < e * d
    BY DEF Less
  <1>5. Less(f, h) <=> a * k < e * b
    BY DEF Less
  <1> HIDE DEF a, b, c, d, e, k
  <1>6. Less(f, g) => ~Less(g, f)
    <2>1. a * d \in Int /\ c * b \in Int
      BY <1>1
    <2>2. QED
      BY <1>2, <1>3, <2>1
  <1>7. ASSUME a * d >= c * b, c * k >= e * d PROVE a * k >= e * b
    <2>1. (a * d) * k >= (c * b) * k
      <3> DEFINE u == a * d
                 v == c * b
      <3>1. u \in Int /\ v \in Int /\ u >= v
        BY <1>1, <1>7
      <3> HIDE DEF u, v
      <3>2. u * k >= v * k
        BY <1>1, <3>1
      <3>3. QED
        BY <3>2 DEF u, v
    <2>2. (c * k) * b >= (e * d) * b
      <3> DEFINE u == c * k
                 v == e * d
      <3>1. u \in Int /\ v \in Int /\ u >= v
        BY <1>1, <1>7
      <3> HIDE DEF u, v
      <3>2. u * b >= v * b
        BY <1>1, <3>1
      <3>3. QED
        BY <3>2 DEF u, v
    <2>3. (a * k) * d >= (e * b) * d
      <3>1. (a * d) * k = (a * k) * d /\ (c * b) * k = (c * k) * b /\ (e * d) * b = (e * b) * d
        BY <1>1
      <3> DEFINE u == (a * k) * d
                 v == (c * k) * b
                 w == (e * b) * d
      <3>2. u \in Int /\ v \in Int /\ w \in Int
        BY <1>1
      <3>3. u >= v /\ v >= w
        BY <2>1, <2>2, <3>1
      <3> HIDE DEF u, v, w
      <3>4. u >= w
        BY <3>2, <3>3
      <3>5. QED
        BY <3>4 DEF u, w
    <2> DEFINE u == a * k
               v == e * b
    <2>4. u \in Int /\ v \in Int /\ u * d >= v * d
      BY <1>1, <2>3
    <2> HIDE DEF u, v
    <2>5. u >= v
      BY <1>1, <2>4
    <2>6. QED
      BY <2>5 DEF u, v
  <1>8. ASSUME ~Less(f, g), ~Less(g, h) PROVE ~Less(f, h)
    <2>1. a * d \in Int /\ c * b \in Int /\ c * k \in Int /\ e * d \in Int
          /\ a * k \in Int /\ e * b \in Int
      BY <1>1
    <2>2. a * d >= c * b /\ c * k >= e * d
      BY <1>2, <1>4, <1>8, <2>1
    <2>3. QED
      BY <1>5, <1>7, <2>1, <2>2
  <1>9. QED
    BY <1>6, <1>8

\* The values of a statistic: fractions that are not negative, or infinite.
Statistic == {t \in Nat \X Nat : t # <<0, 0>>}

LEMMA LargerOrder ==
  ASSUME NEW f \in Statistic, NEW g \in Statistic, NEW h \in Statistic
  PROVE  /\ Larger(f, g) => ~Larger(g, f)
         /\ ~Larger(f, g) /\ ~Larger(g, h) => ~Larger(f, h)
  <1> USE DEF Larger
  <1>1. \A t \in Statistic : /\ t[2] \in Nat
                             /\ t[2] # 0 => t \in Int \X (Nat \ {0})
    BY DEF Statistic
  <1>2. CASE f[2] = 0
    BY <1>1, <1>2
  <1>3. CASE g[2] = 0
    BY <1>1, <1>3
  <1>4. CASE h[2] = 0
    <2>1. ~Larger(f, h)
      BY <1>4
    <2>2. Larger(f, g) => ~Larger(g, f)
      BY <1>1, <1>2, <1>3, LessOrder
    <2>3. QED
      BY <2>1, <2>2
  <1>5. CASE f[2] # 0 /\ g[2] # 0 /\ h[2] # 0
    BY <1>1, <1>5, LessOrder
  <1>6. QED
    BY <1>2, <1>3, <1>4, <1>5

\* The first of the samples in D up to k whose statistic no other one exceeds.
FirstPeak(curve, D, k, s) ==
  /\ s \in D /\ s <= k
  /\ \A r \in D : r <= k => ~Larger(curve[r], curve[s]) /\ (r < s => Larger(curve[s], curve[r]))

LEMMA FirstPeakExists ==
  ASSUME NEW curve, NEW D \in SUBSET Nat, 0 \notin D, \A s \in D : curve[s] \in Statistic
  PROVE  \A k \in Nat : (\E s \in D : s <= k) => \E s \in Nat : FirstPeak(curve, D, k, s)
  <1> DEFINE Known == {k \in Nat : (\E s \in D : s <= k) => \E s \in Nat : FirstPeak(curve, D, k, s)}
  <1>1. 0 \in Known
    <2>1. \A s \in D : ~(s <= 0)
      OBVIOUS
    <2>2. QED
      BY <2>1
  <1>2. ASSUME NEW k \in Nat, k \in Known PROVE k + 1 \in Known
    <2>1. SUFFICES ASSUME \E s \in D : s <= k + 1
                   PROVE  \E s \in Nat : FirstPeak(curve, D, k + 1, s)
      OBVIOUS
    <2>2. \A s \in D : s <= k + 1 <=> s <= k \/ s = k + 1
      OBVIOUS
    <2>3. CASE k + 1 \notin D
      <3>1. PICK s \in Nat : FirstPeak(curve, D, k, s)
        BY <1>2, <2>1, <2>2, <2>3
      <3>2. FirstPeak(curve, D, k + 1, s)
        BY <2>2, <2>3, <3>1 DEF FirstPeak
      <3>3. QED
        BY <3>2
    <2>4. CASE k + 1 \in D /\ \A s \in D : ~(s <= k)
      <3>1. \A r \in D : r <= k + 1 => r = k + 1
        BY <2>2, <2>4
      <3>2. ~Larger(curve[k + 1], curve[k + 1])
        BY <2>4, LargerOrder
      <3>3. FirstPeak(curve, D, k + 1, k + 1)
        BY <2>4, <3>1, <3>2 DEF FirstPeak
      <3>4. QED
        BY <3>3
    <2>5. CASE k + 1 \in D /\ \E s \in D : s <= k
      <3>1. PICK s \in Nat : FirstPeak(curve, D, k, s)
        BY <1>2, <2>5
      <3>2. /\ s \in D /\ s <= k
            /\ \A r \in D : r <= k => /\ ~Larger(curve[r], curve[s])
                                      /\ r < s => Larger(curve[s], curve[r])
        BY <3>1 DEF FirstPeak
      <3>3. CASE Larger(curve[k + 1], curve[s])
        <4>1. ASSUME NEW r \in D, r <= k
              PROVE  Larger(curve[k + 1], curve[r]) /\ ~Larger(curve[r], curve[k + 1])
          <5>1. ~Larger(curve[r], curve[s])
            BY <3>2, <4>1
          <5>2. Larger(curve[k + 1], curve[r])
            BY <2>5, <3>2, <3>3, <5>1, LargerOrder
          <5>3. QED
            BY <2>5, <5>2, LargerOrder
        <4>2. ~Larger(curve[k + 1], curve[k + 1])
          BY <2>5, LargerOrder
        <4>3. FirstPeak(curve, D, k + 1, k + 1)
          BY <2>2, <2>5, <4>1, <4>2 DEF FirstPeak
        <4>4. QED
          BY <4>3
      <3>4. CASE ~Larger(curve[k + 1], curve[s])
        <4>1. FirstPeak(curve, D, k + 1, s)
          BY <2>2, <3>2, <3>4 DEF FirstPeak
        <4>2. QED
          BY <4>1
      <3>5. QED
        BY <3>3, <3>4
    <2>6. QED
      BY <2>3, <2>4, <2>5
  <1>3. Nat \subseteq Known
    <2> HIDE DEF Known
    <2>1. QED
      BY <1>1, <1>2, SetInduction
  <1>4. QED
    BY <1>3

\* The peak of a curve whose defined values are a statistic.
LEMMA PeakFacts ==
  ASSUME NEW n \in Nat, NEW curve, DOMAIN curve = 1 .. n,
         \A s \in 1 .. n : Undefined(curve[s]) \/ curve[s] \in Statistic,
         \E s \in 1 .. n : ~Undefined(curve[s])
  PROVE  /\ PeakOf(curve) \in 1 .. n /\ ~Undefined(curve[PeakOf(curve)])
         /\ \A s \in 1 .. n : ~Undefined(curve[s]) => ~Larger(curve[s], curve[PeakOf(curve)])
  <1> DEFINE D == {s \in DOMAIN curve : ~Undefined(curve[s])}
             IsPeak(s) == \A r \in D : /\ ~Larger(curve[r], curve[s])
                                       /\ r < s => Larger(curve[s], curve[r])
  <1>1. D \in SUBSET Nat /\ 0 \notin D /\ (\A s \in D : curve[s] \in Statistic)
        /\ (\A s \in D : s <= n) /\ \E s \in D : s <= n
    OBVIOUS
  <1>2. PICK s \in Nat : FirstPeak(curve, D, n, s)
    <2> HIDE DEF D
    <2>1. QED
      BY <1>1, FirstPeakExists
  <1>3. s \in D /\ IsPeak(s)
    <2> HIDE DEF D
    <2>1. QED
      BY <1>1, <1>2 DEF FirstPeak
  <1>4. PeakOf(curve) = CHOOSE t \in D : IsPeak(t)
    BY DEF PeakOf
  <1>5. PeakOf(curve) \in D /\ IsPeak(PeakOf(curve))
    <2> HIDE DEF D, IsPeak
    <2>1. QED
      BY <1>3, <1>4
  <1>6. QED
    BY <1>5

\* The first of the best scores up to k.
FirstBest(scores, k, h) ==
  /\ h \in 0 .. k
  /\ \A o \in 0 .. k : scores[o] <= scores[h] /\ (o < h => scores[o] < scores[h])

LEMMA GuessFacts ==
  ASSUME NEW n \in Nat, NEW scores, DOMAIN scores = 0 .. n, \A h \in 0 .. n : scores[h] \in Int
  PROVE  GuessOf(scores) \in 0 .. n /\ \A o \in 0 .. n : scores[o] <= scores[GuessOf(scores)]
  <1> DEFINE Known == {k \in Nat : k <= n => \E h \in Nat : FirstBest(scores, k, h)}
             IsBest(h) == \A o \in DOMAIN scores :
                            scores[o] <= scores[h] /\ (o < h => scores[o] < scores[h])
  <1>1. 0 \in Known
    <2>1. FirstBest(scores, 0, 0)
      BY DEF FirstBest
    <2>2. QED
      BY <2>1
  <1>2. ASSUME NEW k \in Nat, k \in Known PROVE k + 1 \in Known
    <2>1. SUFFICES ASSUME k + 1 <= n PROVE \E h \in Nat : FirstBest(scores, k + 1, h)
      OBVIOUS
    <2>2. PICK h \in Nat : FirstBest(scores, k, h)
      BY <1>2, <2>1
    <2>3. /\ h \in 0 .. k
          /\ \A o \in 0 .. k : scores[o] <= scores[h] /\ (o < h => scores[o] < scores[h])
      BY <2>2 DEF FirstBest
    <2>4. (\A o \in 0 .. k + 1 : o \in 0 .. k \/ o = k + 1) /\ k + 1 \in 0 .. n
          /\ \A o \in 0 .. k : o \in 0 .. n
      BY <2>1
    <2>5. scores[h] \in Int /\ scores[k + 1] \in Int /\ \A o \in 0 .. k : scores[o] \in Int
      BY <2>3, <2>4
    <2>6. CASE scores[k + 1] > scores[h]
      <3>1. \A o \in 0 .. k : scores[o] < scores[k + 1]
        BY <2>3, <2>5, <2>6
      <3>2. \A o \in 0 .. k + 1 : scores[o] <= scores[k + 1]
                                  /\ (o < k + 1 => scores[o] < scores[k + 1])
        BY <2>4, <2>5, <3>1
      <3>3. FirstBest(scores, k + 1, k + 1)
        BY <3>2 DEF FirstBest
      <3>4. QED
        BY <3>3
    <2>7. CASE ~(scores[k + 1] > scores[h])
      <3>1. \A o \in 0 .. k + 1 : scores[o] <= scores[h] /\ (o < h => scores[o] < scores[h])
        BY <2>3, <2>4, <2>5, <2>7
      <3>2. FirstBest(scores, k + 1, h)
        BY <2>3, <3>1 DEF FirstBest
      <3>3. QED
        BY <3>2
    <2>8. QED
      BY <2>6, <2>7
  <1>3. Nat \subseteq Known
    <2> HIDE DEF Known
    <2>1. QED
      BY <1>1, <1>2, SetInduction
  <1>4. PICK h \in Nat : FirstBest(scores, n, h)
    BY <1>3
  <1>5. h \in DOMAIN scores /\ IsBest(h)
    BY <1>4 DEF FirstBest
  <1>6. GuessOf(scores) = CHOOSE t \in DOMAIN scores : IsBest(t)
    BY DEF GuessOf
  <1>7. GuessOf(scores) \in DOMAIN scores /\ IsBest(GuessOf(scores))
    <2> HIDE DEF IsBest
    <2>1. QED
      BY <1>5, <1>6
  <1>8. QED
    BY <1>7

\* Division of row numbers.
LEMMA Division ==
  ASSUME NEW a \in Nat, NEW w \in Nat \ {0}
  PROVE  /\ a \div w \in Nat /\ a % w \in 0 .. w - 1 /\ a = w * (a \div w) + (a % w)
         /\ \A b \in Nat : (a \div w = b) <=> (w * b <= a /\ a < w * b + w)
  <1>1. a \div w \in Int /\ a % w \in 0 .. w - 1 /\ a = w * (a \div w) + (a % w)
    OBVIOUS
  <1> DEFINE q == a \div w
             r == a % w
  <1>2. q \in Int /\ r \in 0 .. w - 1 /\ a = w * q + r
    BY <1>1
  <1> HIDE DEF q, r
  <1>3. q \in Nat
    <2>1. SUFFICES ASSUME q < 0 PROVE FALSE
      BY <1>2
    <2>2. w * q <= -w
      BY <1>2, <2>1
    <2>3. QED
      BY <1>2, <2>2
  <1>4. ASSUME NEW b \in Nat PROVE (q = b) <=> (w * b <= a /\ a < w * b + w)
    <2>1. q = b => w * b <= a /\ a < w * b + w
      BY <1>2
    <2>2. ASSUME w * b <= a, a < w * b + w PROVE q = b
      <3>1. CASE q < b
        <4>1. w * (q + 1) <= w * b
          BY <1>2, <3>1
        <4>2. w * (q + 1) = w * q + w
          BY <1>2
        <4>3. QED
          BY <1>2, <2>2, <4>1, <4>2
      <3>2. CASE b < q
        <4>1. w * (b + 1) <= w * q
          BY <1>2, <3>2
        <4>2. w * (b + 1) = w * b + w
          OBVIOUS
        <4>3. QED
          BY <1>2, <2>2, <4>1, <4>2
      <3>3. QED
        BY <1>2, <3>1, <3>2
    <2>3. QED
      BY <2>1, <2>2
  <1>5. QED
    BY <1>1, <1>3, <1>4 DEF q, r

\* An even number is twice its half.
LEMMA Halves ==
  ASSUME NEW n \in Nat, n % 2 = 0
  PROVE  n \div 2 \in Nat /\ n = 2 * (n \div 2) /\ n - n \div 2 = n \div 2
  OBVIOUS

-----------------------------------------------------------------------------
(* The schedule.                                                           *)

\* What Init fixes for the whole campaign.
Planned ==
  /\ <<plan, dataset>> \in Campaigns /\ Validated(plan)
  /\ \A b \in 0 .. BlockCount(plan) - 1 : stream[b] \in BalancedLabels(BlockLength(plan, b))

\* Rows of a block that is not cut off by the end of the campaign.
Width == IF plan.order = "alternate" THEN 2 ELSE plan.size

LEMMA PlanFacts ==
  ASSUME Planned
  PROVE  /\ N = plan.traces /\ N \in Nat \ {0} /\ plan.size \in Nat \ {0, 1} /\ plan.size % 2 = 0
         /\ plan.order \in {"block", "alternate"} /\ plan.tvla \in BOOLEAN
         /\ plan.tvla => N % 2 = 0
         /\ Width \in Nat \ {0, 1} /\ Width % 2 = 0
         /\ BlockCount(plan) \in Nat \ {0}
  <1> DEFINE c == <<plan, dataset>>
  <1>1. c \in Campaigns /\ c[1] = plan
    BY DEF Planned
  <1>2. plan \in [traces : Nat, size : Nat, order : {"block", "alternate"}, tvla : BOOLEAN,
                  fixedInput : BOOLEAN]
    <2> HIDE DEF c
    <2>1. QED
      BY <1>1, CampaignAssumption
  <1>3. Validated(plan)
    BY DEF Planned
  <1>4. N = plan.traces /\ N \in Nat \ {0} /\ plan.size \in Nat \ {0, 1} /\ plan.size % 2 = 0
        /\ plan.order \in {"block", "alternate"} /\ plan.tvla \in BOOLEAN
        /\ (plan.tvla => N % 2 = 0)
    BY <1>2, <1>3 DEF Validated, N
  <1>5. Width \in Nat \ {0, 1} /\ Width % 2 = 0
    BY <1>4 DEF Width
  <1>6. BlockCount(plan) \in Nat \ {0}
    <2> DEFINE a == N + plan.size - 1
               s == plan.size
    <2>1. a \in Nat /\ s \in Nat \ {0} /\ a >= s
      BY <1>4
    <2>2. BlockCount(plan) = a \div s
      BY <1>4 DEF BlockCount
    <2> HIDE DEF a, s
    <2>3. a \div s \in Nat /\ (a \div s = 0 <=> (s * 0 <= a /\ a < s * 0 + s))
      BY <2>1, Division
    <2>4. QED
      BY <2>1, <2>2, <2>3
  <1>7. QED
    BY <1>4, <1>5, <1>6

LEMMA DatasetFacts ==
  ASSUME Planned
  PROVE  /\ dataset.backend \in {"husky", "scope"} /\ dataset.offset \in Nat
         /\ dataset.observedOffset \in Nat /\ dataset.readback \in BOOLEAN
         /\ dataset.adcMul \in Nat \ {0}
         /\ dataset.readback => dataset.observedOffset = dataset.offset
  <1> DEFINE c == <<plan, dataset>>
  <1>1. c \in Campaigns /\ c[2] = dataset
    BY DEF Planned
  <1> HIDE DEF c
  <1>2. QED
    BY <1>1, CampaignAssumption

\* Every record has Samples samples.
LEMMA RecordFacts ==
  ASSUME Planned
  PROVE  /\ Samples \in Nat
         /\ \A i \in 0 .. N - 1 : \A r \in Records(plan, i) :
              r.wave \in Seq(Int) /\ Len(r.wave) = Samples /\ r.trigger \in Int
  <1> DEFINE c == <<plan, dataset>>
             waves == {r.wave : r \in Records(plan, 0)}
  <1>1. c \in Campaigns /\ c[1] = plan
    BY DEF Planned
  <1>2. N = plan.traces /\ N \in Nat \ {0} /\ 0 \in 0 .. N - 1
    BY PlanFacts
  <1>3. ASSUME NEW i \in 0 .. N - 1
        PROVE /\ Records(plan, i) # {}
              /\ \A r \in Records(plan, i) : r.wave \in Seq(Int) /\ r.trigger \in Int
              /\ \A r \in Records(plan, i), q \in Records(plan, 0) : Len(r.wave) = Len(q.wave)
    <2>1. i \in 0 .. c[1].traces - 1
      BY <1>1, <1>2
    <2> HIDE DEF c
    <2>2. QED
      BY <1>1, <2>1, RecordAssumption
  <1>4. PICK q \in Records(plan, 0) : q.wave = CHOOSE w \in waves : TRUE
    <2>1. waves # {}
      BY <1>2, <1>3
    <2>2. (CHOOSE w \in waves : TRUE) \in waves
      BY <2>1
    <2>3. QED
      BY <2>2
  <1>5. Samples = Len(q.wave)
    BY <1>4 DEF Samples
  <1>6. QED
    BY <1>2, <1>3, <1>5

\* What the generator says of a row is what the plan and the random stream say.
LEMMA GeneratorFacts ==
  ASSUME Planned, NEW i \in 0 .. N - 1
  PROVE  /\ TvlaGroup(i) = ScheduledLabel(i) /\ BlockOf(i) = ScheduledBlock(i)
         /\ ScheduledBlock(i) = i \div Width /\ ScheduledBlock(i) \in Nat
         /\ ScheduledLabel(i) \in Group
         /\ i \div plan.size \in 0 .. BlockCount(plan) - 1
         /\ CacheAfter(i) \in {cache, i \div plan.size}
  <1> DEFINE s == plan.size
             q == i \div s
             r == i % s
  <1>1. i \in Nat /\ s \in Nat \ {0, 1} /\ N \in Nat \ {0} /\ plan.order \in {"block", "alternate"}
        /\ Width \in Nat \ {0, 1} /\ N = plan.traces
    BY PlanFacts
  <1>2. q \in Nat /\ r \in 0 .. s - 1 /\ i = s * q + r
    BY <1>1, Division
  <1>3. TvlaGroup(i) = ScheduledLabel(i)
    BY DEF TvlaGroup, ScheduledLabel, Labels
  <1>4. BlockOf(i) = ScheduledBlock(i)
    BY DEF BlockOf, ScheduledBlock
  <1>5. ScheduledBlock(i) = i \div Width
    BY DEF ScheduledBlock, Width
  <1>6. ScheduledBlock(i) \in Nat
    <2> DEFINE w == Width
    <2>1. w \in Nat \ {0}
      BY <1>1
    <2> HIDE DEF w
    <2>2. i \div w \in Nat
      BY <1>1, <2>1, Division
    <2>3. QED
      BY <1>5, <2>2 DEF w
  <1>7. q \in 0 .. BlockCount(plan) - 1
    <2> DEFINE a == N + s - 1
    <2>1. a \in Nat /\ BlockCount(plan) = a \div s
      BY <1>1 DEF BlockCount
    <2>2. a \div s \in Nat /\ a % s \in 0 .. s - 1 /\ a = s * (a \div s) + (a % s)
      BY <1>1, <2>1, Division
    <2> DEFINE n == a \div s
               t == a % s
    <2>3. n \in Nat /\ t \in 0 .. s - 1 /\ N + s - 1 = s * n + t
      BY <2>2
    <2>4. s * q < N
      BY <1>1, <1>2
    <2>5. BlockCount(plan) = n
      BY <2>1
    <2> HIDE DEF n, t, q, r, s, a
    <2>6. s * q < s * n
      BY <1>1, <1>2, <2>3, <2>4
    <2>7. q < n
      BY <1>1, <1>2, <2>3, <2>6
    <2>8. QED
      BY <1>2, <2>3, <2>5, <2>7
  <1>8. ScheduledLabel(i) \in Group
    <2>1. CASE plan.order = "alternate"
      BY <1>1, <2>1 DEF ScheduledLabel, Group
    <2>2. CASE plan.order # "alternate"
      <3>1. stream[q] \in BalancedLabels(BlockLength(plan, q))
        BY <1>7 DEF Planned
      <3>2. stream[q] \in [0 .. BlockLength(plan, q) - 1 -> Group]
        BY <3>1 DEF BalancedLabels
      <3>3. BlockLength(plan, q) = AtMost(s, N - q * s)
        BY <1>1 DEF BlockLength
      <3>4. r \in 0 .. BlockLength(plan, q) - 1
        <4>1. q * s = s * q
          BY <1>1, <1>2
        <4> HIDE DEF q, r, s
        <4>2. r < N - q * s
          BY <1>1, <1>2, <4>1
        <4>3. QED
          BY <1>1, <1>2, <3>3, <4>1, <4>2 DEF AtMost
      <3>5. stream[q][r] \in Group
        BY <3>2, <3>4
      <3>6. QED
        BY <2>2, <3>5 DEF ScheduledLabel
    <2>3. QED
      BY <2>1, <2>2
  <1>9. QED
    BY <1>3, <1>4, <1>5, <1>6, <1>7, <1>8 DEF CacheAfter

\* The rows from lo up to, and without, hi that the schedule gives the fixed input.
FixedRows(lo, hi) == {i \in lo .. hi - 1 : ScheduledLabel(i) = 0}

\* The end of block b, whole or cut off.
BlockEnd(b) == AtMost(Width * b + Width, N)

\* A block is an interval of rows.
LEMMA BlockIsInterval ==
  ASSUME Planned, NEW b \in Nat, Width * b < N
  PROVE  /\ Width * b \in Nat /\ BlockEnd(b) \in Nat /\ Width * b < BlockEnd(b) /\ BlockEnd(b) <= N
         /\ {i \in 0 .. N - 1 : ScheduledBlock(i) = b} = Width * b .. BlockEnd(b) - 1
  <1> DEFINE w == Width
             lo == w * b
             hi == BlockEnd(b)
  <1>1. w \in Nat \ {0} /\ N \in Nat \ {0} /\ lo \in Nat
    BY PlanFacts
  <1>2. hi = IF lo + w < N THEN lo + w ELSE N
    BY DEF BlockEnd, AtMost
  <1>3. lo < N
    OBVIOUS
  <1>4. ASSUME NEW i \in 0 .. N - 1 PROVE ScheduledBlock(i) = b <=> (lo <= i /\ i < lo + w)
    <2>1. ScheduledBlock(i) = i \div w
      BY GeneratorFacts
    <2> HIDE DEF w
    <2>2. i \in Nat
      BY <1>1
    <2>3. \A c \in Nat : (i \div w = c) <=> (w * c <= i /\ i < w * c + w)
      BY <1>1, <2>2, Division, Zenon
    <2>4. (i \div w = b) <=> (w * b <= i /\ i < w * b + w)
      BY <2>3, Zenon
    <2>5. QED
      BY <2>1, <2>4
  <1> HIDE DEF w, lo, hi
  <1>5. hi \in Nat /\ lo < hi /\ hi <= N
    BY <1>1, <1>2, <1>3
  <1>6. \A i \in Int : (i \in 0 .. N - 1 /\ lo <= i /\ i < lo + w) <=> i \in lo .. hi - 1
    BY <1>1, <1>2, <1>3
  <1>7. {i \in 0 .. N - 1 : ScheduledBlock(i) = b} = lo .. hi - 1
    BY <1>1, <1>4, <1>5, <1>6
  <1>8. QED
    BY <1>1, <1>5, <1>7 DEF w, lo, hi

\* Half of the rows of a block are captured with the fixed input.
LEMMA HalfOfBlock ==
  ASSUME Planned, plan.tvla, NEW b \in Nat, Width * b < N
  PROVE  2 * Cardinality(FixedRows(Width * b, BlockEnd(b))) = BlockEnd(b) - Width * b
  <1> DEFINE w == Width
             lo == w * b
             hi == BlockEnd(b)
             len == hi - lo
  <1>1. w \in Nat \ {0, 1} /\ w % 2 = 0 /\ N \in Nat \ {0} /\ N % 2 = 0
    BY PlanFacts
  <1>2. lo \in Nat /\ lo < N /\ hi \in Nat /\ lo < hi /\ hi <= N
    BY BlockIsInterval
  <1>3. hi = IF lo + w < N THEN lo + w ELSE N
    BY DEF BlockEnd, AtMost
  <1>4. plan.size = w \/ plan.order = "alternate"
    BY DEF Width
  <1>5. PICK v \in Nat : w = 2 * v
    BY <1>1, Halves
  <1>6. PICK m \in Nat : N = 2 * m
    BY <1>1, Halves
  <1>7. lo = 2 * (v * b)
    BY <1>5
  <1>8. \A i \in lo .. hi - 1 : i \in Nat /\ i \in 0 .. N - 1
    <2> HIDE DEF w, lo, hi
    <2>1. QED
      BY <1>1, <1>2
  <1>9. CASE plan.order = "alternate"
    <2>1. w = 2
      BY <1>9 DEF Width
    <2>2. lo = 2 * b
      BY <2>1
    <2> HIDE DEF w, lo, hi
    <2>3. hi = lo + 2
      BY <1>1, <1>2, <1>3, <1>6, <2>1, <2>2
    <2>4. \A i \in lo .. hi - 1 : i % 2 = 0 <=> i = lo
      BY <1>2, <2>2, <2>3
    <2>5. \A i \in lo .. hi - 1 : ScheduledLabel(i) = i % 2
      BY <1>9 DEF ScheduledLabel
    <2>6. FixedRows(lo, hi) = {lo}
      BY <1>2, <2>3, <2>4, <2>5 DEF FixedRows
    <2>7. Cardinality(FixedRows(lo, hi)) = 1
      BY <2>6, FS_Singleton
    <2>8. QED
      BY <2>3, <2>7, <1>2 DEF w, lo, hi
  <1>10. CASE plan.order # "alternate"
    <2>1. plan.size = w
      BY <1>4, <1>10
    <2> DEFINE st == stream[b]
               ones == {k \in 0 .. len - 1 : st[k] = 1}
               zeros == (0 .. len - 1) \ ones
               f == [k \in zeros |-> lo + k]
    <2>2. \A i \in lo .. hi - 1 : i \div w = b /\ i % w = i - lo
      <3> HIDE DEF w, hi
      <3>1. TAKE i \in lo .. hi - 1
      <3>2. i \in Nat /\ w * b <= i /\ i < w * b + w
        BY <1>1, <1>2, <1>3
      <3>3. i \div w = b
        <4>1. w \in Nat \ {0}
          BY <1>1
        <4>2. \A c \in Nat : (i \div w = c) <=> (w * c <= i /\ i < w * c + w)
          BY <3>2, <4>1, Division, Zenon
        <4>3. QED
          BY <3>2, <4>2, Zenon
      <3>4. i = w * (i \div w) + (i % w) /\ i % w \in 0 .. w - 1
        BY <1>1, <3>2, Division
      <3>5. i = w * b + (i % w)
        BY <3>3, <3>4
      <3> DEFINE r == i % w
      <3>6. r \in Int /\ i = w * b + r
        BY <1>1, <3>4, <3>5
      <3> HIDE DEF r
      <3>7. r = i - w * b
        BY <1>1, <3>2, <3>6
      <3>8. QED
        BY <3>3, <3>7 DEF r
    <2>3. b \in 0 .. BlockCount(plan) - 1
      <3>1. lo \in 0 .. N - 1 /\ lo \in lo .. hi - 1
        <4> HIDE DEF w, lo, hi
        <4>1. QED
          BY <1>1, <1>2
      <3>2. lo \div plan.size \in 0 .. BlockCount(plan) - 1
        BY <3>1, GeneratorFacts
      <3>3. QED
        BY <2>1, <2>2, <3>1, <3>2
    <2>4. BlockLength(plan, b) = len
      <3>1. N = plan.traces
        BY PlanFacts
      <3>2. b * w = w * b
        BY <1>1
      <3>3. BlockLength(plan, b) = IF w < N - b * w THEN w ELSE N - b * w
        BY <2>1, <3>1 DEF BlockLength, AtMost
      <3>4. b * w = lo
        BY <3>2
      <3>5. BlockLength(plan, b) = IF w < N - lo THEN w ELSE N - lo
        BY <3>3, <3>4
      <3> HIDE DEF w, lo, hi
      <3>6. QED
        BY <1>1, <1>2, <1>3, <3>5
    <2>5. st \in [0 .. len - 1 -> Group] /\ Cardinality(ones) = len - len \div 2
      <3>1. st \in BalancedLabels(len)
        BY <2>3, <2>4 DEF Planned
      <3> HIDE DEF st, len
      <3>2. QED
        BY <3>1 DEF BalancedLabels
    <2>6. PICK h \in Nat : len = 2 * h
      <3>1. CASE lo + w < N
        <4>1. len = 2 * v
          <5> HIDE DEF w, lo, hi
          <5>1. QED
            BY <1>2, <1>3, <1>5, <3>1, <1>1
        <4>2. QED
          BY <4>1
      <3>2. CASE ~(lo + w < N)
        <4>1. len = 2 * (m - v * b)
          <5> DEFINE u == v * b
          <5>1. u \in Int /\ lo = 2 * u
            BY <1>7
          <5> HIDE DEF w, lo, hi, u
          <5>2. len = 2 * (m - u)
            BY <1>2, <1>3, <1>6, <3>2, <1>1, <5>1
          <5>3. QED
            BY <5>2 DEF u
        <4>2. m - v * b \in Nat
          <5> DEFINE u == v * b
          <5>1. u \in Int /\ lo = 2 * u
            BY <1>7
          <5> HIDE DEF w, lo, hi, u
          <5>2. m - u \in Nat
            BY <1>2, <1>6, <5>1
          <5>3. QED
            BY <5>2 DEF u
        <4>3. QED
          BY <4>1, <4>2
      <3>3. QED
        BY <3>1, <3>2
    <2>7. Cardinality(zeros) = h /\ IsFiniteSet(zeros)
      <3>1. len \in Nat
        BY <1>2
      <3>2. Cardinality(0 .. len - 1) = len /\ IsFiniteSet(0 .. len - 1)
        <4> HIDE DEF len
        <4>1. 0 \in Int /\ len - 1 \in Int
          BY <3>1
        <4>2. IsFiniteSet(0 .. len - 1)
              /\ Cardinality(0 .. len - 1) = IF 0 > len - 1 THEN 0 ELSE (len - 1) - 0 + 1
          BY <4>1, FS_Interval
        <4>3. QED
          BY <3>1, <4>2
      <3>3. ones \in SUBSET (0 .. len - 1) /\ (0 .. len - 1) \cap ones = ones
        OBVIOUS
      <3>4. Cardinality(ones) = h
        <4> HIDE DEF len, ones
        <4>1. len \div 2 = h
          BY <2>6
        <4>2. QED
          BY <2>5, <2>6, <4>1
      <3> HIDE DEF len, ones
      <3>5. IsFiniteSet(zeros)
            /\ Cardinality(zeros) = Cardinality(0 .. len - 1) - Cardinality((0 .. len - 1) \cap ones)
        BY <3>2, FS_Difference
      <3> HIDE DEF zeros
      <3>6. Cardinality(zeros) = len - h
        BY <3>2, <3>3, <3>4, <3>5
      <3>7. QED
        BY <2>6, <3>5, <3>6
    <2>8. \A k \in 0 .. len - 1 : lo + k \in lo .. hi - 1
                                  /\ (ScheduledLabel(lo + k) = 0 <=> k \in zeros)
      <3>1. TAKE k \in 0 .. len - 1
      <3>2. lo + k \in lo .. hi - 1 /\ (lo + k) - lo = k
        <4> HIDE DEF w, lo, hi
        <4>1. QED
          BY <1>2
      <3>3. ScheduledLabel(lo + k) = st[k]
        <4>1. (lo + k) \div w = b /\ (lo + k) % w = k
          BY <2>2, <3>2
        <4> HIDE DEF lo
        <4>2. QED
          BY <1>10, <2>1, <4>1 DEF ScheduledLabel
      <3>4. st[k] \in {0, 1}
        <4> HIDE DEF st, len
        <4>1. QED
          BY <2>5 DEF Group
      <3>5. st[k] = 0 <=> k \in zeros
        <4> HIDE DEF st, len
        <4>1. QED
          BY <3>4
      <3>6. QED
        BY <3>2, <3>3, <3>5
    <2>9. f \in Bijection(zeros, FixedRows(lo, hi))
      <3> HIDE DEF w, lo, hi, st, ones
      <3> lo \in Nat /\ hi \in Nat
        BY <1>2
      <3>1. \A k \in zeros : k \in 0 .. len - 1 /\ k \in Int
        OBVIOUS
      <3> HIDE DEF zeros
      <3>2. \A k \in zeros : lo + k \in FixedRows(lo, hi)
        BY <2>8, <3>1 DEF FixedRows
      <3>3. f \in [zeros -> FixedRows(lo, hi)]
        BY <3>2
      <3>4. \A j, k \in zeros : f[j] = f[k] => j = k
        BY <3>1
      <3>5. \A i \in FixedRows(lo, hi) : i - lo \in zeros /\ f[i - lo] = i
        <4>1. TAKE i \in FixedRows(lo, hi)
        <4>2. i \in lo .. hi - 1 /\ ScheduledLabel(i) = 0
          BY DEF FixedRows
        <4>3. i - lo \in 0 .. len - 1 /\ lo + (i - lo) = i
          BY <4>2
        <4>4. i - lo \in zeros
          BY <2>8, <4>2, <4>3
        <4>5. QED
          BY <4>3, <4>4
      <3> HIDE DEF f
      <3>6. \A i \in FixedRows(lo, hi) : \E k \in zeros : f[k] = i
        BY <3>5
      <3>7. QED
        BY <3>3, <3>4, <3>6, Zenon DEF Bijection, Injection, Surjection, IsInjective
    <2>10. Cardinality(FixedRows(lo, hi)) = h
      <3> HIDE DEF w, lo, hi, st, ones, zeros, f
      <3>1. ExistsBijection(zeros, FixedRows(lo, hi))
        BY <2>9 DEF ExistsBijection
      <3>2. QED
        BY <2>7, <3>1, FS_Bijection
    <2>11. QED
      <3> HIDE DEF w, lo, hi
      <3>1. 2 * Cardinality(FixedRows(lo, hi)) = hi - lo
        BY <2>6, <2>10
      <3>2. QED
        BY <3>1 DEF w, lo, hi
  <1>11. QED
    BY <1>9, <1>10

\* Half of the rows of a campaign are captured with the fixed input.
LEMMA HalfOfCampaign ==
  ASSUME Planned, plan.tvla
  PROVE  2 * Cardinality(FixedRows(0, N)) = N
  <1> DEFINE w == Width
             end(b) == AtMost(w * b, N)
             Known == {b \in Nat : 2 * Cardinality(FixedRows(0, end(b))) = end(b)}
  <1>1. w \in Nat \ {0, 1} /\ N \in Nat \ {0}
    BY PlanFacts
  <1>2. 0 \in Known
    <2>1. end(0) = 0
      BY <1>1 DEF AtMost
    <2>2. FixedRows(0, 0) = {}
      BY DEF FixedRows
    <2>3. Cardinality(FixedRows(0, 0)) = 0
      BY <2>2, FS_EmptySet
    <2> HIDE DEF end
    <2>4. QED
      BY <2>1, <2>3
  <1>3. ASSUME NEW b \in Nat, b \in Known PROVE b + 1 \in Known
    <2> DEFINE lo == w * b
               hi == BlockEnd(b)
    <2>1. lo \in Nat /\ w * (b + 1) = lo + w
      BY <1>1
    <2>2. CASE lo >= N
      <3>1. end(b) = N /\ end(b + 1) = N
        <4> HIDE DEF lo
        <4>1. AtMost(lo, N) = N /\ AtMost(lo + w, N) = N
          BY <1>1, <2>1, <2>2 DEF AtMost
        <4>2. QED
          BY <2>1, <4>1 DEF lo
      <3> HIDE DEF end
      <3>2. QED
        BY <1>3, <3>1
    <2>3. CASE lo < N
      <3>1. end(b) = lo /\ end(b + 1) = hi
        BY <2>1, <2>3 DEF AtMost, BlockEnd
      <3>2. lo \in Nat /\ hi \in Nat /\ lo < hi
        BY <2>3, BlockIsInterval
      <3>3. 2 * Cardinality(FixedRows(lo, hi)) = hi - lo
        BY <2>3, HalfOfBlock
      <3>4. 2 * Cardinality(FixedRows(0, lo)) = lo
        <4> HIDE DEF lo, hi, end
        <4>1. QED
          BY <1>3, <3>1
      <3> HIDE DEF lo, hi, end, w
      <3>5. /\ 0 .. hi - 1 = (0 .. lo - 1) \cup (lo .. hi - 1)
            /\ (0 .. lo - 1) \cap (lo .. hi - 1) = {}
        BY <3>2
      <3>6. FixedRows(0, hi) = FixedRows(0, lo) \cup FixedRows(lo, hi)
            /\ FixedRows(0, lo) \cap FixedRows(lo, hi) = {}
        BY <3>5 DEF FixedRows
      <3>7. FixedRows(0, lo) \in SUBSET (0 .. hi - 1) /\ FixedRows(lo, hi) \in SUBSET (0 .. hi - 1)
        BY <3>5 DEF FixedRows
      <3>8. IsFiniteSet(FixedRows(0, lo)) /\ IsFiniteSet(FixedRows(lo, hi))
        BY <3>2, <3>7, RowsFinite
      <3>9. /\ Cardinality(FixedRows(0, hi))
                 = Cardinality(FixedRows(0, lo)) + Cardinality(FixedRows(lo, hi))
            /\ Cardinality(FixedRows(0, lo)) \in Nat /\ Cardinality(FixedRows(lo, hi)) \in Nat
        BY <3>6, <3>8, CountParts
      <3>10. 2 * Cardinality(FixedRows(0, hi)) = hi
        BY <3>2, <3>3, <3>4, <3>9
      <3>11. QED
        BY <3>1, <3>10
    <2>4. QED
      BY <1>1, <2>1, <2>2, <2>3
  <1>4. Nat \subseteq Known
    <2> HIDE DEF Known
    <2>1. QED
      BY <1>2, <1>3, SetInduction
  <1>5. end(N) = N
    <2>1. w * N >= N
      BY <1>1
    <2>2. QED
      BY <1>1, <2>1 DEF AtMost
  <1>6. N \in Known
    BY <1>1, <1>4
  <1> HIDE DEF end
  <1>7. QED
    BY <1>5, <1>6

\* A later row is in no earlier block.
LEMMA BlocksOrdered ==
  ASSUME NEW i \in Nat, NEW w \in Nat \ {0} PROVE i \div w <= (i + 1) \div w
  <1> DEFINE q == i \div w
             r == i % w
             s == (i + 1) \div w
             t == (i + 1) % w
  <1>1. q \in Nat /\ r \in 0 .. w - 1 /\ i = w * q + r
    BY Division
  <1>2. s \in Nat /\ t \in 0 .. w - 1 /\ i + 1 = w * s + t
    <2> DEFINE j == i + 1
    <2>1. j \in Nat
      OBVIOUS
    <2> HIDE DEF j
    <2>2. j \div w \in Nat /\ j % w \in 0 .. w - 1 /\ j = w * (j \div w) + (j % w)
      BY <2>1, Division
    <2>3. QED
      BY <2>2 DEF j
  <1> HIDE DEF q, r, s, t
  <1>3. SUFFICES ASSUME s < q PROVE FALSE
    BY <1>1, <1>2 DEF q, s
  <1>4. w * (s + 1) <= w * q /\ w * (s + 1) = w * s + w
    BY <1>1, <1>2, <1>3
  <1>5. QED
    BY <1>1, <1>2, <1>4

\* The rows that a resume looks at: the first, the last, and all of a few.
LEMMA SampledFacts ==
  ASSUME NEW done \in Nat \ {0}
  PROVE  /\ Sampled(done, NCheck) \subseteq 0 .. done - 1
         /\ 0 \in Sampled(done, NCheck) /\ done - 1 \in Sampled(done, NCheck)
         /\ done <= NCheck => \A i \in 0 .. done - 1 : i \in Sampled(done, NCheck)
  <1> DEFINE n == AtMost(NCheck, done)
             last == done - 1
             gaps == n - 1
  <1>1. NCheck \in Nat \ {0, 1} /\ n \in Nat \ {0} /\ n <= done /\ (done <= NCheck => n = done)
        /\ (n = 1 => done = 1) /\ last \in Nat
    BY BoundAssumption DEF AtMost
  <1>2. CASE n = 1
    <2>1. Sampled(done, NCheck) = {0} /\ done = 1
      BY <1>1, <1>2 DEF Sampled
    <2>2. QED
      BY <2>1
  <1>3. CASE n # 1
    <2>1. Sampled(done, NCheck) = {(k * last) \div gaps : k \in 0 .. n - 1}
      BY <1>3 DEF Sampled
    <2> HIDE DEF n, last
    <2>2. gaps \in Nat \ {0}
      BY <1>1, <1>3
    <2> HIDE DEF gaps
    <2>3. n - 1 = gaps /\ done - 1 = last
      BY <1>1, <2>2 DEF gaps, last
    <2>4. \A a \in Nat, b \in Nat : (a \div gaps = b) <=> (gaps * b <= a /\ a < gaps * b + gaps)
      BY <2>2, Division, Zenon
    <2>5. ASSUME NEW k \in 0 .. gaps PROVE (k * last) \div gaps \in 0 .. last
      <3> DEFINE a == k * last
      <3>1. a \in Nat /\ a <= gaps * last
        BY <1>1, <2>2
      <3> HIDE DEF a
      <3>2. a \div gaps \in Nat /\ a % gaps \in 0 .. gaps - 1 /\ a = gaps * (a \div gaps) + (a % gaps)
        BY <2>2, <3>1, Division
      <3> DEFINE q == a \div gaps
                 r == a % gaps
      <3>3. q \in Nat /\ r \in Nat /\ a = gaps * q + r
        BY <3>2, <2>2
      <3> HIDE DEF q, r
      <3>4. gaps * q <= gaps * last
        BY <3>1, <3>3, <2>2, <1>1
      <3>5. q <= last
        BY <3>3, <3>4, <2>2, <1>1
      <3>6. QED
        BY <3>3, <3>5, <1>1 DEF q, a
    <2>6. Sampled(done, NCheck) \subseteq 0 .. done - 1
      BY <2>1, <2>3, <2>5
    <2>7. 0 \in Sampled(done, NCheck)
      <3>1. 0 * last = 0 /\ gaps * 0 <= 0 /\ 0 < gaps * 0 + gaps
        BY <1>1, <2>2
      <3>2. 0 \div gaps = 0
        BY <2>4, <3>1
      <3>3. 0 \in 0 .. n - 1 /\ (0 * last) \div gaps = 0
        BY <1>1, <3>1, <3>2
      <3>4. QED
        BY <2>1, <3>3
    <2>8. done - 1 \in Sampled(done, NCheck)
      <3> DEFINE a == gaps * last
      <3>1. a \in Nat /\ gaps * last <= a /\ a < gaps * last + gaps
        BY <1>1, <2>2
      <3>2. a \div gaps = last
        <4> HIDE DEF a
        <4>1. QED
          BY <1>1, <2>4, <3>1
      <3>3. gaps \in 0 .. n - 1 /\ (gaps * last) \div gaps = last
        BY <1>1, <2>2, <2>3, <3>2
      <3>4. QED
        BY <2>1, <2>3, <3>3
    <2>9. ASSUME done <= NCheck, NEW i \in 0 .. done - 1 PROVE i \in Sampled(done, NCheck)
      <3>1. gaps = last /\ i \in Nat /\ i \in 0 .. n - 1
        BY <1>1, <2>3, <2>9
      <3> DEFINE a == i * last
      <3>2. a \in Nat /\ gaps * i <= a /\ a < gaps * i + gaps
        BY <1>1, <2>2, <3>1
      <3>3. a \div gaps = i
        <4> HIDE DEF a
        <4>1. QED
          BY <2>4, <3>1, <3>2
      <3>4. QED
        BY <2>1, <3>1, <3>3
    <2>10. QED
      BY <2>6, <2>7, <2>8, <2>9
  <1>4. QED
    BY <1>2, <1>3

-----------------------------------------------------------------------------
(* The label pass.                                                         *)

\* The first n rows: those with a label, those of them with an even number, those of a
\* block, the fixed ones of a block, and the blocks.
Labelled(n, g) == {i \in 0 .. n - 1 : Row(i).label = g}
EvenLabelled(n, g) == {i \in 0 .. n - 1 : Row(i).label = g /\ i % 2 = 0}
InBlock(n, b) == {i \in 0 .. n - 1 : Row(i).block = b}
FixedInBlock(n, b) == {i \in 0 .. n - 1 : Row(i).block = b /\ Row(i).label = 0}
BlocksOf(n) == {Row(i).block : i \in 0 .. n - 1}
Share(n, b) == <<Cardinality(FixedInBlock(n, b)), Cardinality(InBlock(n, b))>>

\* A share of a block that has rows is a fraction from 0 to 1.
LEMMA ShareFacts ==
  ASSUME NEW n \in Nat, NEW b \in BlocksOf(n)
  PROVE  /\ Share(n, b) \in Int \X (Nat \ {0}) /\ Share(n, b)[1] \in Nat
         /\ Share(n, b)[1] <= Share(n, b)[2]
  <1>1. InBlock(n, b) \in SUBSET (0 .. n - 1) /\ FixedInBlock(n, b) \in SUBSET InBlock(n, b)
    BY DEF InBlock, FixedInBlock
  <1>2. IsFiniteSet(InBlock(n, b)) /\ Cardinality(InBlock(n, b)) \in Nat
    BY <1>1, RowsFinite
  <1>3. IsFiniteSet(FixedInBlock(n, b))
        /\ Cardinality(FixedInBlock(n, b)) <= Cardinality(InBlock(n, b))
    BY <1>1, <1>2, FS_Subset
  <1>4. Cardinality(FixedInBlock(n, b)) \in Nat
    BY <1>3, FS_CardinalityType
  <1>5. InBlock(n, b) # {}
    BY DEF BlocksOf, InBlock
  <1>6. Cardinality(InBlock(n, b)) # 0
    BY <1>2, <1>5, FS_EmptySet
  <1>7. QED
    BY <1>2, <1>3, <1>4, <1>6 DEF Share

\* Blocks are finitely many.
LEMMA BlocksFinite ==
  ASSUME NEW n \in Nat PROVE IsFiniteSet(BlocksOf(n)) /\ Cardinality(BlocksOf(n)) \in Nat
  <1> DEFINE f == [i \in 0 .. n - 1 |-> Row(i).block]
  <1>1. f \in Surjection(0 .. n - 1, BlocksOf(n))
    <2>1. f \in [0 .. n - 1 -> BlocksOf(n)]
      BY DEF BlocksOf
    <2>2. \A b \in BlocksOf(n) : \E i \in 0 .. n - 1 : f[i] = b
      BY DEF BlocksOf
    <2>3. QED
      BY <2>1, <2>2, Zenon DEF Surjection
  <1>2. IsFiniteSet(0 .. n - 1)
    BY FS_Interval
  <1>3. IsFiniteSet(BlocksOf(n))
    BY <1>1, <1>2, FS_Surjection
  <1>4. QED
    BY <1>3, FS_CardinalityType

\* What the label pass keeps of the blocks B: how many they are, and the least and the
\* largest of their shares.
Extremes(blocks, least, most, n, B) ==
  /\ blocks = Cardinality(B)
  /\ least \in Int \X (Nat \ {0}) /\ most \in Int \X (Nat \ {0})
  /\ B = {} => least = <<1, 1>> /\ most = <<0, 1>>
  /\ \A b \in B : ~Less(Share(n, b), least) /\ ~Less(most, Share(n, b))
  /\ B # {} => (\E b \in B : ~Less(least, Share(n, b))) /\ (\E b \in B : ~Less(Share(n, b), most))

\* A block that ends is one of them.
LEMMA ExtremesGrow ==
  ASSUME NEW n \in Nat, NEW B \in SUBSET BlocksOf(n), NEW c \in BlocksOf(n), c \notin B,
         NEW blocks, NEW least, NEW most, Extremes(blocks, least, most, n, B)
  PROVE  Extremes(blocks + 1,
                  IF Less(Share(n, c), least) THEN Share(n, c) ELSE least,
                  IF Less(most, Share(n, c)) THEN Share(n, c) ELSE most, n, B \cup {c})
  <1> DEFINE sh == Share(n, c)
             low == IF Less(sh, least) THEN sh ELSE least
             high == IF Less(most, sh) THEN sh ELSE most
             Fraction == Int \X (Nat \ {0})
  <1>1. sh \in Fraction /\ sh[1] \in Nat /\ sh[1] <= sh[2]
    BY ShareFacts
  <1>2. \A b \in B : Share(n, b) \in Fraction
    BY ShareFacts
  <1>3. /\ blocks = Cardinality(B) /\ least \in Fraction /\ most \in Fraction
        /\ B = {} => least = <<1, 1>> /\ most = <<0, 1>>
        /\ \A b \in B : ~Less(Share(n, b), least) /\ ~Less(most, Share(n, b))
        /\ B # {} => /\ \E b \in B : ~Less(least, Share(n, b))
                     /\ \E b \in B : ~Less(Share(n, b), most)
    BY DEF Extremes
  <1>4. blocks + 1 = Cardinality(B \cup {c})
    <2>1. IsFiniteSet(B)
      BY BlocksFinite, FS_Subset
    <2>2. QED
      BY <1>3, <2>1, FS_AddElement
  <1>5. Less(sh, <<1, 1>>) \/ sh[1] = sh[2]
    <2>1. sh[1] \in Int /\ sh[2] \in Int
      BY <1>1
    <2> HIDE DEF sh
    <2>2. QED
      BY <1>1, <2>1 DEF Less
  <1>6. Less(<<0, 1>>, sh) \/ sh[1] = 0
    <2>1. sh[1] \in Int /\ sh[2] \in Int
      BY <1>1
    <2> HIDE DEF sh
    <2>2. QED
      BY <1>1, <2>1 DEF Less
  <1> HIDE DEF sh, Fraction
  <1>7. low \in Fraction /\ high \in Fraction
    BY <1>1, <1>3
  <1>8. \A f \in Fraction, g \in Fraction : Less(f, g) => ~Less(g, f)
    BY LessOrder DEF Fraction
  <1>9. \A f \in Fraction, g \in Fraction, h \in Fraction : ~Less(f, g) /\ ~Less(g, h) => ~Less(f, h)
    BY LessOrder DEF Fraction
  <1>10. ~Less(sh, sh)
    BY <1>1, <1>8
  <1>11. ~Less(sh, low) /\ ~Less(least, low)
    BY <1>1, <1>3, <1>8, <1>10
  <1>12. ~Less(high, sh) /\ ~Less(high, most)
    BY <1>1, <1>3, <1>8, <1>10
  <1>13. \A b \in B \cup {c} : ~Less(Share(n, b), low) /\ ~Less(high, Share(n, b))
    <2>1. ASSUME NEW b \in B PROVE ~Less(Share(n, b), low) /\ ~Less(high, Share(n, b))
      <3>1. ~Less(Share(n, b), least) /\ ~Less(most, Share(n, b)) /\ Share(n, b) \in Fraction
        BY <1>2, <1>3
      <3> HIDE DEF low, high
      <3>2. QED
        BY <1>3, <1>7, <1>9, <1>11, <1>12, <3>1
    <2>2. ~Less(Share(n, c), low) /\ ~Less(high, Share(n, c))
      BY <1>11, <1>12 DEF sh
    <2> HIDE DEF low, high
    <2>3. QED
      BY <2>1, <2>2
  <1>14. \E b \in B \cup {c} : ~Less(low, Share(n, b))
    <2>1. CASE Less(sh, least) \/ B = {}
      <3>1. ~Less(low, sh)
        <4>1. CASE Less(sh, least)
          BY <1>10, <4>1
        <4>2. CASE B = {} /\ ~Less(sh, least)
          <5>1. low = <<1, 1>> /\ sh[1] = sh[2]
            BY <1>3, <1>5, <4>2
          <5>2. sh[1] \in Int /\ sh[2] \in Int
            BY <1>1 DEF Fraction
          <5>3. QED
            BY <5>1, <5>2 DEF Less
        <4>3. QED
          BY <2>1, <4>1, <4>2
      <3>2. QED
        BY <3>1 DEF sh
    <2>2. CASE ~Less(sh, least) /\ B # {}
      <3>1. PICK b \in B : ~Less(least, Share(n, b))
        BY <1>3, <2>2
      <3>2. low = least
        BY <2>2
      <3> HIDE DEF low
      <3>3. QED
        BY <3>1, <3>2
    <2>3. QED
      BY <2>1, <2>2
  <1>15. \E b \in B \cup {c} : ~Less(Share(n, b), high)
    <2>1. CASE Less(most, sh) \/ B = {}
      <3>1. ~Less(sh, high)
        <4>1. CASE Less(most, sh)
          BY <1>10, <4>1
        <4>2. CASE B = {} /\ ~Less(most, sh)
          <5>1. high = <<0, 1>> /\ sh[1] = 0
            BY <1>3, <1>6, <4>2
          <5>2. sh[1] \in Int /\ sh[2] \in Int
            BY <1>1 DEF Fraction
          <5>3. QED
            BY <5>1, <5>2 DEF Less
        <4>3. QED
          BY <2>1, <4>1, <4>2
      <3>2. QED
        BY <3>1 DEF sh
    <2>2. CASE ~Less(most, sh) /\ B # {}
      <3>1. PICK b \in B : ~Less(Share(n, b), most)
        BY <1>3, <2>2
      <3>2. high = most
        BY <2>2
      <3> HIDE DEF high
      <3>3. QED
        BY <3>1, <3>2
    <2>3. QED
      BY <2>1, <2>2
  <1>16. Extremes(blocks + 1, low, high, n, B \cup {c})
    <2> HIDE DEF low, high
    <2>1. B \cup {c} # {}
      OBVIOUS
    <2>2. QED
      BY <1>4, <1>7, <1>13, <1>14, <1>15, <2>1 DEF Extremes, Fraction
  <1>17. QED
    BY <1>16 DEF sh

\* Rows that the label pass accepts.
Usable(n) == \A i \in 0 .. n - 1 : Row(i).label \in Group /\ Row(i).block \in Nat

\* What the label pass knows of the first n rows.
Summary(p, n) ==
  /\ p.bad \in BOOLEAN
  /\ p.bad => \E i \in 1 .. n - 1 : Row(i).block < Row(i - 1).block
  /\ ~p.bad => /\ p.count \in [Group -> Nat] /\ p.even \in [Group -> Nat] /\ p.blocks \in Nat
               /\ \A g \in Group : /\ p.count[g] = Cardinality(Labelled(n, g))
                                   /\ p.even[g] = Cardinality(EvenLabelled(n, g))
               /\ p.current = IF n = 0 THEN -1 ELSE Row(n - 1).block
               /\ \A i \in 0 .. n - 1 : Row(i).block <= p.current
               /\ p.total = Cardinality(InBlock(n, p.current))
               /\ p.fixed = Cardinality(FixedInBlock(n, p.current))
               /\ Extremes(p.blocks, p.least, p.most, n, BlocksOf(n) \ {p.current})

LEMMA NothingRead ==
  Summary(NoProtocol, 0)
  <1>1. 0 .. 0 - 1 = {}
    OBVIOUS
  <1>2. /\ \A g \in Group : Labelled(0, g) = {} /\ EvenLabelled(0, g) = {}
        /\ InBlock(0, -1) = {} /\ FixedInBlock(0, -1) = {} /\ BlocksOf(0) \ {-1} = {}
    BY <1>1 DEF Labelled, EvenLabelled, InBlock, FixedInBlock, BlocksOf
  <1>3. Cardinality({}) = 0
    BY FS_EmptySet
  <1>4. Extremes(0, <<1, 1>>, <<0, 1>>, 0, {})
    BY <1>3 DEF Extremes
  <1>5. QED
    BY <1>1, <1>2, <1>3, <1>4 DEF Summary, NoProtocol

\* One more row that belongs to a set, or does not.
LEMMA CountNext ==
  ASSUME NEW n \in Nat, NEW S \in SUBSET (0 .. n - 1), NEW T, T = S \/ T = S \cup {n}
  PROVE  Cardinality(T) = Cardinality(S) + IF n \in T THEN 1 ELSE 0
  <1>1. n \notin S
    OBVIOUS
  <1>2. IsFiniteSet(S) /\ Cardinality(S) \in Nat
    BY RowsFinite
  <1>3. Cardinality(S \cup {n}) = Cardinality(S) + 1
    BY <1>1, <1>2, FS_AddElement
  <1>4. QED
    BY <1>1, <1>2, <1>3

LEMMA CountsNext ==
  ASSUME NEW n \in Nat
  PROVE  /\ \A g : /\ Cardinality(Labelled(n + 1, g))
                        = Cardinality(Labelled(n, g)) + IF Row(n).label = g THEN 1 ELSE 0
                   /\ Cardinality(EvenLabelled(n + 1, g))
                        = Cardinality(EvenLabelled(n, g))
                            + IF Row(n).label = g /\ n % 2 = 0 THEN 1 ELSE 0
         /\ \A b : /\ Cardinality(InBlock(n + 1, b))
                        = Cardinality(InBlock(n, b)) + IF Row(n).block = b THEN 1 ELSE 0
                   /\ Cardinality(FixedInBlock(n + 1, b))
                        = Cardinality(FixedInBlock(n, b))
                            + IF Row(n).block = b /\ Row(n).label = 0 THEN 1 ELSE 0
         /\ BlocksOf(n + 1) = BlocksOf(n) \cup {Row(n).block}
  <1>1. 0 .. (n + 1) - 1 = (0 .. n - 1) \cup {n} /\ n \notin 0 .. n - 1
    OBVIOUS
  <1>2. ASSUME NEW g
        PROVE  /\ Cardinality(Labelled(n + 1, g))
                    = Cardinality(Labelled(n, g)) + IF Row(n).label = g THEN 1 ELSE 0
               /\ Cardinality(EvenLabelled(n + 1, g))
                    = Cardinality(EvenLabelled(n, g)) + IF Row(n).label = g /\ n % 2 = 0 THEN 1 ELSE 0
    <2>1. /\ Labelled(n, g) \in SUBSET (0 .. n - 1)
          /\ Labelled(n + 1, g) = Labelled(n, g) \/ Labelled(n + 1, g) = Labelled(n, g) \cup {n}
          /\ n \in Labelled(n + 1, g) <=> Row(n).label = g
      BY <1>1 DEF Labelled
    <2>2. /\ EvenLabelled(n, g) \in SUBSET (0 .. n - 1)
          /\ EvenLabelled(n + 1, g) = EvenLabelled(n, g)
               \/ EvenLabelled(n + 1, g) = EvenLabelled(n, g) \cup {n}
          /\ n \in EvenLabelled(n + 1, g) <=> Row(n).label = g /\ n % 2 = 0
      BY <1>1 DEF EvenLabelled
    <2>3. Cardinality(Labelled(n + 1, g))
            = Cardinality(Labelled(n, g)) + IF n \in Labelled(n + 1, g) THEN 1 ELSE 0
      BY <2>1, CountNext
    <2>4. Cardinality(EvenLabelled(n + 1, g))
            = Cardinality(EvenLabelled(n, g)) + IF n \in EvenLabelled(n + 1, g) THEN 1 ELSE 0
      BY <2>2, CountNext
    <2>5. QED
      BY <2>1, <2>2, <2>3, <2>4
  <1>3. ASSUME NEW b
        PROVE  /\ Cardinality(InBlock(n + 1, b))
                    = Cardinality(InBlock(n, b)) + IF Row(n).block = b THEN 1 ELSE 0
               /\ Cardinality(FixedInBlock(n + 1, b))
                    = Cardinality(FixedInBlock(n, b))
                        + IF Row(n).block = b /\ Row(n).label = 0 THEN 1 ELSE 0
    <2>1. /\ InBlock(n, b) \in SUBSET (0 .. n - 1)
          /\ InBlock(n + 1, b) = InBlock(n, b) \/ InBlock(n + 1, b) = InBlock(n, b) \cup {n}
          /\ n \in InBlock(n + 1, b) <=> Row(n).block = b
      BY <1>1 DEF InBlock
    <2>2. /\ FixedInBlock(n, b) \in SUBSET (0 .. n - 1)
          /\ FixedInBlock(n + 1, b) = FixedInBlock(n, b)
               \/ FixedInBlock(n + 1, b) = FixedInBlock(n, b) \cup {n}
          /\ n \in FixedInBlock(n + 1, b) <=> Row(n).block = b /\ Row(n).label = 0
      BY <1>1 DEF FixedInBlock
    <2>3. Cardinality(InBlock(n + 1, b))
            = Cardinality(InBlock(n, b)) + IF n \in InBlock(n + 1, b) THEN 1 ELSE 0
      BY <2>1, CountNext
    <2>4. Cardinality(FixedInBlock(n + 1, b))
            = Cardinality(FixedInBlock(n, b)) + IF n \in FixedInBlock(n + 1, b) THEN 1 ELSE 0
      BY <2>2, CountNext
    <2>5. QED
      BY <2>1, <2>2, <2>3, <2>4
  <1>4. BlocksOf(n + 1) = BlocksOf(n) \cup {Row(n).block}
    BY <1>1 DEF BlocksOf
  <1>5. QED
    BY <1>2, <1>3, <1>4

\* The extremes are those of more rows, when none of these is in one of the blocks.
LEMMA ExtremesStay ==
  ASSUME NEW n \in Nat, NEW B, NEW blocks, NEW least, NEW most,
         Extremes(blocks, least, most, n, B), Row(n).block \notin B
  PROVE  Extremes(blocks, least, most, n + 1, B)
  <1>1. \A b \in B : Share(n + 1, b) = Share(n, b)
    <2>1. TAKE b \in B
    <2>2. Row(n).block # b
      OBVIOUS
    <2>3. Cardinality(InBlock(n + 1, b)) = Cardinality(InBlock(n, b))
          /\ Cardinality(FixedInBlock(n + 1, b)) = Cardinality(FixedInBlock(n, b))
      <3>1. InBlock(n + 1, b) = InBlock(n, b) /\ FixedInBlock(n + 1, b) = FixedInBlock(n, b)
        <4>1. 0 .. (n + 1) - 1 = (0 .. n - 1) \cup {n}
          OBVIOUS
        <4>2. QED
          BY <2>2, <4>1 DEF InBlock, FixedInBlock
      <3>2. QED
        BY <3>1
    <2>4. QED
      BY <2>3 DEF Share
  <1>2. QED
    BY <1>1 DEF Extremes

\* When the block ends, its share is among them.
LEMMA FinishBlockFacts ==
  ASSUME NEW n \in Nat, NEW p, Summary(p, n), ~p.bad, Usable(n)
  PROVE  LET q == FinishBlock(p)
         IN  /\ Extremes(q.blocks, q.least, q.most, n, BlocksOf(n))
             /\ q.count = p.count /\ q.even = p.even /\ q.bad = FALSE
             /\ q.blocks \in Nat
  <1> DEFINE q == FinishBlock(p)
             B == BlocksOf(n) \ {p.current}
             sh == Share(n, p.current)
  <1>1. Extremes(p.blocks, p.least, p.most, n, B) /\ p.blocks \in Nat /\ p.bad = FALSE
    BY DEF Summary
  <1>2. CASE n = 0
    <2>1. p.current = -1 /\ BlocksOf(n) = {}
      BY <1>2 DEF Summary, BlocksOf
    <2>2. q = p
      BY <2>1 DEF FinishBlock
    <2>3. B = BlocksOf(n)
      BY <2>1
    <2> HIDE DEF q, B
    <2>4. QED
      BY <1>1, <2>2, <2>3 DEF q
  <1>3. CASE n # 0
    <2>1. n - 1 \in 0 .. n - 1 /\ p.current = Row(n - 1).block
      BY <1>3 DEF Summary
    <2>2. p.current \in Nat /\ p.current # -1 /\ p.current \in BlocksOf(n)
      BY <2>1 DEF Usable, BlocksOf
    <2>3. <<p.fixed, p.total>> = sh
      BY DEF Summary, Share
    <2> DEFINE low == IF Less(sh, p.least) THEN sh ELSE p.least
               high == IF Less(p.most, sh) THEN sh ELSE p.most
    <2>4. /\ q.blocks = p.blocks + 1 /\ q.least = low /\ q.most = high
          /\ q.count = p.count /\ q.even = p.even /\ q.bad = p.bad
      <3> HIDE DEF sh
      <3>1. QED
        BY <2>2, <2>3 DEF FinishBlock
    <2>5. B \in SUBSET BlocksOf(n) /\ p.current \notin B /\ B \cup {p.current} = BlocksOf(n)
      BY <2>2
    <2>6. Extremes(p.blocks + 1, low, high, n, B \cup {p.current})
      <3> HIDE DEF B
      <3>1. QED
        BY <1>1, <2>2, <2>5, ExtremesGrow
    <2> HIDE DEF q, low, high, B
    <2>7. QED
      BY <1>1, <2>4, <2>5, <2>6 DEF q
  <1>4. QED
    BY <1>2, <1>3

\* One row more.
LEMMA LabelRowFacts ==
  ASSUME NEW n \in Nat, NEW p, Summary(p, n), Usable(n + 1)
  PROVE  Summary(LabelRow(p, n), n + 1)
  <1> DEFINE row == Row(n)
             enters == row.block # p.current
             before == IF enters THEN FinishBlock(p) ELSE p
             q == LabelRow(p, n)
  <1>1. row.label \in Group /\ row.block \in Nat /\ Usable(n)
    BY DEF Usable
  <1>2. /\ q.count = [p.count EXCEPT ![row.label] = @ + 1]
        /\ q.even = [p.even EXCEPT ![row.label] = @ + IF n % 2 = 0 THEN 1 ELSE 0]
        /\ q.current = row.block
        /\ q.total = (IF enters THEN 0 ELSE p.total) + 1
        /\ q.fixed = (IF enters THEN 0 ELSE p.fixed) + IF row.label = 0 THEN 1 ELSE 0
        /\ q.blocks = before.blocks /\ q.least = before.least /\ q.most = before.most
        /\ q.bad = (p.bad \/ (enters /\ row.block <= p.current))
    BY DEF LabelRow
  <1>3. \A i \in 1 .. n - 1 : i \in 1 .. (n + 1) - 1
    OBVIOUS
  <1>4. CASE p.bad
    <2>1. q.bad = TRUE
      BY <1>2, <1>4
    <2>2. PICK i \in 1 .. n - 1 : Row(i).block < Row(i - 1).block
      BY <1>4 DEF Summary
    <2>3. \E k \in 1 .. (n + 1) - 1 : Row(k).block < Row(k - 1).block
      BY <1>3, <2>2
    <2> HIDE DEF q
    <2>4. q.bad \in BOOLEAN /\ ~(~q.bad)
      BY <2>1
    <2>5. Summary(q, n + 1)
      BY <2>3, <2>4, Zenon DEF Summary
    <2>6. QED
      BY <2>5 DEF q
  <1>5. CASE ~p.bad
    <2>1. /\ p.count \in [Group -> Nat] /\ p.even \in [Group -> Nat] /\ p.blocks \in Nat
          /\ \A g \in Group : /\ p.count[g] = Cardinality(Labelled(n, g))
                              /\ p.even[g] = Cardinality(EvenLabelled(n, g))
          /\ p.current = IF n = 0 THEN -1 ELSE Row(n - 1).block
          /\ \A i \in 0 .. n - 1 : Row(i).block <= p.current
          /\ p.total = Cardinality(InBlock(n, p.current))
          /\ p.fixed = Cardinality(FixedInBlock(n, p.current))
          /\ Extremes(p.blocks, p.least, p.most, n, BlocksOf(n) \ {p.current})
      BY <1>5 DEF Summary
    <2>2. p.current \in Int /\ (n # 0 => p.current \in Nat /\ n - 1 \in 0 .. n - 1)
      BY <1>1, <2>1 DEF Usable
    <2>3. CASE enters /\ row.block <= p.current
      <3>1. n # 0
        BY <1>1, <2>1, <2>3
      <3>2. n \in 1 .. (n + 1) - 1 /\ row.block < Row(n - 1).block
        BY <1>1, <2>1, <2>2, <2>3, <3>1
      <3>3. q.bad = TRUE
        BY <1>2, <2>3
      <3>4. \E k \in 1 .. (n + 1) - 1 : Row(k).block < Row(k - 1).block
        BY <3>2
      <3> HIDE DEF q
      <3>5. q.bad \in BOOLEAN /\ ~(~q.bad)
        BY <3>3
      <3>6. Summary(q, n + 1)
        BY <3>4, <3>5, Zenon DEF Summary
      <3>7. QED
        BY <3>6 DEF q
    <2>4. CASE ~(enters /\ row.block <= p.current)
      <3>1. q.bad = FALSE
        BY <1>2, <1>5, <2>4
      <3>2. q.count \in [Group -> Nat] /\ q.even \in [Group -> Nat]
        BY <1>1, <1>2, <2>1
      <3>3. ASSUME NEW g \in Group
            PROVE  /\ q.count[g] = Cardinality(Labelled(n + 1, g))
                   /\ q.even[g] = Cardinality(EvenLabelled(n + 1, g))
        <4>1. /\ q.count[g] = p.count[g] + IF row.label = g THEN 1 ELSE 0
              /\ q.even[g] = p.even[g] + IF row.label = g /\ n % 2 = 0 THEN 1 ELSE 0
          <5> HIDE DEF q, row
          <5>1. QED
            BY <1>1, <1>2, <2>1
        <4>2. QED
          BY <2>1, <4>1, CountsNext
      <3>4. q.current = IF n + 1 = 0 THEN -1 ELSE Row((n + 1) - 1).block
        BY <1>2
      <3>5. \A i \in 0 .. n - 1 : Row(i).block \in Nat
        BY <1>1 DEF Usable
      <3>6. \A i \in 0 .. (n + 1) - 1 : Row(i).block <= q.current
        <4>1. p.current <= row.block
          BY <1>1, <2>2, <2>4
        <4>2. \A i \in 0 .. (n + 1) - 1 : i \in 0 .. n - 1 \/ i = n
          OBVIOUS
        <4> HIDE DEF q
        <4>3. ASSUME NEW i \in 0 .. (n + 1) - 1 PROVE Row(i).block <= q.current
          BY <1>1, <1>2, <2>1, <2>2, <3>5, <4>1, <4>2
        <4>4. QED
          BY <4>3
      <3>7. /\ q.total = Cardinality(InBlock(n + 1, q.current))
            /\ q.fixed = Cardinality(FixedInBlock(n + 1, q.current))
            /\ q.blocks \in Nat
            /\ Extremes(q.blocks, q.least, q.most, n + 1, BlocksOf(n + 1) \ {q.current})
        <4>1. q.current = row.block
          BY <1>2
        <4>2. /\ Cardinality(InBlock(n + 1, row.block)) = Cardinality(InBlock(n, row.block)) + 1
              /\ Cardinality(FixedInBlock(n + 1, row.block))
                   = Cardinality(FixedInBlock(n, row.block)) + IF row.label = 0 THEN 1 ELSE 0
              /\ BlocksOf(n + 1) = BlocksOf(n) \cup {row.block}
          BY CountsNext
        <4>3. CASE enters
          <5>1. /\ q.total = 1 /\ q.fixed = IF row.label = 0 THEN 1 ELSE 0
                /\ q.blocks = FinishBlock(p).blocks /\ q.least = FinishBlock(p).least
                /\ q.most = FinishBlock(p).most
            BY <1>2, <4>3
          <5>2. p.current < row.block
            BY <1>1, <2>2, <2>4, <4>3
          <5>3. \A i \in 0 .. n - 1 : Row(i).block # row.block
            BY <1>1, <2>1, <2>2, <3>5, <5>2
          <5>4. InBlock(n, row.block) = {} /\ FixedInBlock(n, row.block) = {}
                /\ row.block \notin BlocksOf(n)
            BY <5>3 DEF InBlock, FixedInBlock, BlocksOf
          <5>5. Cardinality(InBlock(n, row.block)) = 0 /\ Cardinality(FixedInBlock(n, row.block)) = 0
            BY <5>4, FS_EmptySet
          <5>6. /\ Extremes(q.blocks, q.least, q.most, n, BlocksOf(n)) /\ q.blocks \in Nat
            <6> HIDE DEF q
            <6>1. QED
              BY <1>1, <1>5, <5>1, FinishBlockFacts
          <5>7. Extremes(q.blocks, q.least, q.most, n + 1, BlocksOf(n))
            <6> HIDE DEF q
            <6>1. QED
              BY <5>4, <5>6, ExtremesStay
          <5>8. BlocksOf(n + 1) \ {q.current} = BlocksOf(n)
            BY <4>1, <4>2, <5>4
          <5> HIDE DEF q
          <5>9. QED
            BY <4>1, <4>2, <5>1, <5>5, <5>6, <5>7, <5>8
        <4>4. CASE ~enters
          <5>1. /\ q.total = p.total + 1 /\ q.fixed = p.fixed + IF row.label = 0 THEN 1 ELSE 0
                /\ q.blocks = p.blocks /\ q.least = p.least /\ q.most = p.most
            BY <1>2, <4>4
          <5>2. row.block = p.current
            BY <4>4
          <5>3. BlocksOf(n + 1) \ {q.current} = BlocksOf(n) \ {p.current}
            BY <4>1, <4>2, <5>2
          <5>4. Extremes(p.blocks, p.least, p.most, n + 1, BlocksOf(n) \ {p.current})
            BY <2>1, <5>2, ExtremesStay
          <5> HIDE DEF q
          <5>5. QED
            BY <2>1, <4>1, <4>2, <5>1, <5>2, <5>3, <5>4
        <4>5. QED
          BY <4>3, <4>4
      <3> HIDE DEF q
      <3>8. q.bad \in BOOLEAN /\ ~q.bad
        BY <3>1
      <3>9. Summary(q, n + 1)
        BY <3>2, <3>3, <3>4, <3>6, <3>7, <3>8, Zenon DEF Summary
      <3>10. QED
        BY <3>9 DEF q
    <2>5. QED
      BY <2>3, <2>4
  <1>6. QED
    BY <1>4, <1>5 DEF Summary

\* The state of the label pass after k rows of the chunk.
RowsRead(p, m, f) ==
  f = [k \in 0 .. m |-> IF k = 0 THEN p ELSE LabelRow(f[k - 1], pos + k - 1)]

LEMMA RowsReadExist ==
  ASSUME NEW p PROVE \A m \in Nat : \E f : RowsRead(p, m, f)
  <1> DEFINE Known == {m \in Nat : \E f : RowsRead(p, m, f)}
             NextRow(q, k) == LabelRow(q, pos + k - 1)
  <1>1. 0 \in Known
    <2> DEFINE f == [k \in 0 .. 0 |-> p]
    <2>1. f = [k \in 0 .. 0 |-> IF k = 0 THEN p ELSE NextRow(f[k - 1], k)]
      OBVIOUS
    <2> HIDE DEF f
    <2>2. RowsRead(p, 0, f)
      BY <2>1 DEF RowsRead
    <2>3. QED
      BY <2>2
  <1>2. ASSUME NEW m \in Nat, m \in Known PROVE m + 1 \in Known
    <2>1. PICK f : RowsRead(p, m, f)
      BY <1>2
    <2>2. DOMAIN f = 0 .. m /\ \A k \in 0 .. m : f[k] = IF k = 0 THEN p ELSE NextRow(f[k - 1], k)
      <3>1. f = [k \in 0 .. m |-> IF k = 0 THEN p ELSE NextRow(f[k - 1], k)]
        BY <2>1 DEF RowsRead
      <3> HIDE DEF NextRow
      <3>2. QED
        BY <3>1
    <2> DEFINE h == [k \in 0 .. m + 1 |-> IF k = m + 1 THEN NextRow(f[m], m + 1) ELSE f[k]]
    <2> HIDE DEF NextRow
    <2>3. ASSUME NEW k \in 0 .. m + 1
          PROVE  h[k] = IF k = 0 THEN p ELSE NextRow(h[k - 1], k)
      <3>1. CASE k = 0
        BY <2>2, <3>1
      <3>2. CASE k # 0
        <4>1. k - 1 \in 0 .. m + 1 /\ k - 1 # m + 1 /\ (k = m + 1 => k - 1 = m)
          BY <3>2
        <4>2. h[k - 1] = f[k - 1]
          BY <4>1
        <4>3. CASE k = m + 1
          BY <4>1, <4>2, <4>3, <3>2
        <4>4. CASE k # m + 1
          <5>1. k \in 0 .. m /\ h[k] = f[k]
            BY <4>4
          <5>2. QED
            BY <2>2, <3>2, <4>2, <5>1
        <4>5. QED
          BY <4>3, <4>4
      <3>3. QED
        BY <3>1, <3>2
    <2>4. h = [k \in 0 .. m + 1 |-> IF k = 0 THEN p ELSE NextRow(h[k - 1], k)]
      <3>1. h = [k \in 0 .. m + 1 |-> h[k]]
        OBVIOUS
      <3> HIDE DEF h
      <3>2. QED
        BY <2>3, <3>1
    <2>5. RowsRead(p, m + 1, h)
      BY <2>4 DEF RowsRead, NextRow
    <2>6. QED
      BY <2>5
  <1>3. Nat \subseteq Known
    <2> HIDE DEF Known
    <2>1. QED
      BY <1>1, <1>2, SetInduction
  <1>4. QED
    BY <1>3

\* A whole chunk.
LEMMA LabelChunkFacts ==
  ASSUME NEW p, pos \in Nat, Stop \in Nat, pos <= Stop, Summary(p, pos), Usable(Stop)
  PROVE  Summary(LabelChunk(p), Stop)
  <1> DEFINE m == Stop - pos
             f == CHOOSE f : RowsRead(p, m, f)
             Known == {k \in Nat : k <= m => Summary(f[k], pos + k)}
  <1>1. m \in Nat
    OBVIOUS
  <1>2. RowsRead(p, m, f)
    <2> HIDE DEF m
    <2>1. QED
      BY <1>1, RowsReadExist
  <1>3. LabelChunk(p) = f[m]
    BY DEF LabelChunk, RowsRead
  <1> HIDE DEF f, m
  <1>4. \A k \in 0 .. m : f[k] = IF k = 0 THEN p ELSE LabelRow(f[k - 1], pos + k - 1)
    <2> DEFINE g == [k \in 0 .. m |-> IF k = 0 THEN p ELSE LabelRow(f[k - 1], pos + k - 1)]
    <2>1. f = g
      BY <1>2 DEF RowsRead
    <2>2. \A k \in 0 .. m : g[k] = IF k = 0 THEN p ELSE LabelRow(f[k - 1], pos + k - 1)
      OBVIOUS
    <2> HIDE DEF g
    <2>3. QED
      BY <2>1, <2>2
  <1>5. 0 \in Known
    BY <1>1, <1>4
  <1>6. ASSUME NEW k \in Nat, k \in Known PROVE k + 1 \in Known
    <2>1. SUFFICES ASSUME k + 1 <= m PROVE Summary(f[k + 1], pos + (k + 1))
      OBVIOUS
    <2>2. Summary(f[k], pos + k) /\ pos + k \in Nat /\ (pos + k) + 1 = pos + (k + 1)
      BY <1>6, <1>1, <2>1
    <2>3. k + 1 \in 0 .. m /\ k + 1 # 0 /\ (k + 1) - 1 = k /\ pos + (k + 1) - 1 = pos + k
      BY <1>1, <2>1
    <2>4. f[k + 1] = LabelRow(f[k], pos + k)
      BY <1>4, <2>3
    <2>5. Usable((pos + k) + 1)
      <3>1. (pos + k) + 1 <= Stop
        BY <2>1 DEF m
      <3>2. QED
        BY <3>1 DEF Usable
    <2>6. Summary(LabelRow(f[k], pos + k), (pos + k) + 1)
      BY <2>2, <2>5, LabelRowFacts
    <2>7. QED
      BY <2>2, <2>4, <2>6
  <1>7. Nat \subseteq Known
    <2> HIDE DEF Known
    <2>1. QED
      BY <1>5, <1>6, SetInduction
  <1>8. Summary(f[m], pos + m)
    BY <1>1, <1>7
  <1>9. pos + m = Stop
    BY DEF m
  <1>10. QED
    BY <1>3, <1>8, <1>9

-----------------------------------------------------------------------------
(* The streamed sums.                                                      *)

\* Stored rows hold complete records.
Recorded ==
  \A i \in 0 .. Done - 1 :
    Row(i).wave \in Seq(Int) /\ Len(Row(i).wave) = Samples /\ Row(i).trigger \in Int

LEMMA ViewFacts ==
  ASSUME Recorded, Samples \in Nat, NEW i \in 0 .. Done - 1, NEW s \in 1 .. Samples
  PROVE  ViewOf(Row(i), job.variant)[s] \in Int
  <1> DEFINE w == Row(i).wave
             d == Row(i).trigger
  <1>1. w \in Seq(Int) /\ Len(w) = Samples /\ d \in Int
    BY DEF Recorded
  <1>2. DOMAIN w = 1 .. Samples /\ \A k \in 1 .. Samples : w[k] \in Int
    <2> HIDE DEF w
    <2>1. QED
      BY <1>1
  <1>3. CASE job.variant = "raw"
    <2>1. ViewOf(Row(i), job.variant)[s] = 2 * w[s]
      BY <1>2, <1>3 DEF ViewOf
    <2>2. QED
      BY <1>2, <2>1
  <1>4. CASE job.variant # "raw"
    <2>1. ViewOf(Row(i), job.variant) = FractionalAlign(w, d)
      BY <1>4 DEF ViewOf
    <2> HIDE DEF w, d
    <2>2. FractionalAlign(w, d)[s] =
            CASE d > 0 /\ s < Len(w) -> (2 - d) * w[s] + d * w[s + 1]
              [] d < 0 /\ s > 1      -> (2 + d) * w[s] - d * w[s - 1]
              [] OTHER               -> 2 * w[s]
      BY <1>2 DEF FractionalAlign
    <2>3. CASE d > 0 /\ s < Len(w)
      <3>1. FractionalAlign(w, d)[s] = (2 - d) * w[s] + d * w[s + 1] /\ s + 1 \in 1 .. Samples
        BY <1>1, <2>2, <2>3
      <3>2. QED
        BY <1>1, <1>2, <2>1, <3>1
    <2>4. CASE d < 0 /\ s > 1
      <3>1. FractionalAlign(w, d)[s] = (2 + d) * w[s] - d * w[s - 1] /\ s - 1 \in 1 .. Samples
        BY <1>1, <2>2, <2>4
      <3>2. QED
        BY <1>1, <1>2, <2>1, <3>1
    <2>5. CASE ~(d > 0 /\ s < Len(w)) /\ ~(d < 0 /\ s > 1)
      <3>1. FractionalAlign(w, d)[s] = 2 * w[s]
        BY <1>1, <2>2, <2>5
      <3>2. QED
        BY <1>1, <1>2, <2>1, <3>1
    <2>6. QED
      BY <2>3, <2>4, <2>5
  <1>5. QED
    BY <1>3, <1>4

\* The sums over two sets of rows that have none in common.
LEMMA ValuesParts ==
  ASSUME Recorded, Samples \in Nat, Done \in Nat, NEW s \in 1 .. Samples,
         NEW S \in SUBSET (0 .. Done - 1), NEW T \in SUBSET (0 .. Done - 1), S \cap T = {}
  PROVE  /\ Values(S, s) \in [S -> Int] /\ Squares(S, s) \in [S -> Int]
         /\ \A i \in S : Squares(S, s)[i] = Values(S, s)[i] * Values(S, s)[i]
         /\ SumOver(Values(S, s), Done) \in Int /\ SumOver(Squares(S, s), Done) \in Int
         /\ SumOver(Values(S \cup T, s), Done)
              = SumOver(Values(S, s), Done) + SumOver(Values(T, s), Done)
         /\ SumOver(Squares(S \cup T, s), Done)
              = SumOver(Squares(S, s), Done) + SumOver(Squares(T, s), Done)
  <1>1. ASSUME NEW R \in SUBSET (0 .. Done - 1)
        PROVE  /\ Values(R, s) \in [R -> Int] /\ Squares(R, s) \in [R -> Int]
               /\ \A i \in R : /\ Squares(R, s)[i] = Values(R, s)[i] * Values(R, s)[i]
                               /\ Values(R, s)[i] = ViewOf(Row(i), job.variant)[s]
               /\ SumOver(Values(R, s), Done) \in Int /\ SumOver(Squares(R, s), Done) \in Int
    <2>1. \A i \in R : ViewOf(Row(i), job.variant)[s] \in Int
      BY ViewFacts
    <2>2. Values(R, s) \in [R -> Int] /\ \A i \in R : Values(R, s)[i] = ViewOf(Row(i), job.variant)[s]
      BY <2>1 DEF Values
    <2>3. \A i \in R : Values(R, s)[i] * Values(R, s)[i] \in Int
      BY <2>2
    <2>4. Squares(R, s) \in [R -> Int]
          /\ \A i \in R : Squares(R, s)[i] = Values(R, s)[i] * Values(R, s)[i]
      BY <2>3 DEF Squares
    <2>5. /\ DOMAIN Values(R, s) = R /\ \A i \in R : Values(R, s)[i] \in Int
          /\ DOMAIN Squares(R, s) = R /\ \A i \in R : Squares(R, s)[i] \in Int
      BY <2>2, <2>4
    <2>6. SumOver(Values(R, s), Done) \in Int /\ SumOver(Squares(R, s), Done) \in Int
      BY <2>5, SumOverType
    <2>7. QED
      BY <2>2, <2>4, <2>6
  <1>2. S \cup T \in SUBSET (0 .. Done - 1)
    OBVIOUS
  <1>3. /\ Values(S, s) \in [S -> Int] /\ Values(T, s) \in [T -> Int]
        /\ Values(S \cup T, s) \in [S \cup T -> Int]
        /\ \A i \in S : Values(S \cup T, s)[i] = Values(S, s)[i]
        /\ \A i \in T : Values(S \cup T, s)[i] = Values(T, s)[i]
    BY <1>1, <1>2
  <1>4. /\ Squares(S, s) \in [S -> Int] /\ Squares(T, s) \in [T -> Int]
        /\ Squares(S \cup T, s) \in [S \cup T -> Int]
        /\ \A i \in S : Squares(S \cup T, s)[i] = Squares(S, s)[i]
        /\ \A i \in T : Squares(S \cup T, s)[i] = Squares(T, s)[i]
    <2>1. \A i \in S : i \in S \cup T
      OBVIOUS
    <2>2. \A i \in T : i \in S \cup T
      OBVIOUS
    <2>3. QED
      BY <1>1, <1>2, <1>3, <2>1, <2>2
  <1>5. SumOver(Values(S \cup T, s), Done)
              = SumOver(Values(S, s), Done) + SumOver(Values(T, s), Done)
    <2> DEFINE f == Values(S, s)
               g == Values(T, s)
               h == Values(S \cup T, s)
    <2>1. /\ DOMAIN f = S /\ DOMAIN g = T /\ DOMAIN h = S \cup T
          /\ \A i \in S : f[i] \in Int /\ h[i] = f[i]
          /\ \A i \in T : g[i] \in Int /\ h[i] = g[i]
      BY <1>3
    <2> HIDE DEF f, g, h
    <2>2. Splits(h, f, g)
      BY <2>1 DEF Splits
    <2>3. SumOver(h, Done) = SumOver(f, Done) + SumOver(g, Done)
      BY <2>2, SumOverParts
    <2>4. QED
      BY <2>3 DEF f, g, h
  <1>6. SumOver(Squares(S \cup T, s), Done)
              = SumOver(Squares(S, s), Done) + SumOver(Squares(T, s), Done)
    <2> DEFINE f == Squares(S, s)
               g == Squares(T, s)
               h == Squares(S \cup T, s)
    <2>1. /\ DOMAIN f = S /\ DOMAIN g = T /\ DOMAIN h = S \cup T
          /\ \A i \in S : f[i] \in Int /\ h[i] = f[i]
          /\ \A i \in T : g[i] \in Int /\ h[i] = g[i]
      BY <1>4
    <2> HIDE DEF f, g, h
    <2>2. Splits(h, f, g)
      BY <2>1 DEF Splits
    <2>3. SumOver(h, Done) = SumOver(f, Done) + SumOver(g, Done)
      BY <2>2, SumOverParts
    <2>4. QED
      BY <2>3 DEF f, g, h
  <1>7. QED
    BY <1>1, <1>5, <1>6

\* The state u of a waveform pass.
SumsTyped(u) ==
  /\ u.count \in [Group -> Nat]
  /\ u.sum \in [Group -> [1 .. Samples -> Int]] /\ u.square \in [Group -> [1 .. Samples -> Int]]

\* It has of group g exactly the rows R, for the samples W.
DirectOver(u, g, R, W) ==
  /\ u.count[g] = Cardinality(R)
  /\ \A s \in W : /\ u.sum[g][s] = SumOver(Values(R, s), Done)
                  /\ u.square[g][s] = SumOver(Squares(R, s), Done)

\* Rows R that are counted, rows S that are new, and samples W that are read of them.
NewRows(R, S, W) ==
  /\ R \in SUBSET (0 .. Done - 1) /\ S \in SUBSET (0 .. Done - 1) /\ R \cap S = {}
  /\ W \in SUBSET (1 .. Samples)

\* The other groups of v are those of u.
OthersKept(u, v, g) ==
  \A h \in Group : h # g => /\ v.count[h] = u.count[h] /\ v.sum[h] = u.sum[h]
                            /\ v.square[h] = u.square[h]

LEMMA AddedFacts ==
  ASSUME Recorded, Samples \in Nat, Done \in Nat, NEW u, SumsTyped(u), NEW g \in Group,
         NEW R, NEW S, NEW W, NewRows(R, S, W), DirectOver(u, g, R, W)
  PROVE  /\ SumsTyped(Added(u, g, S)) /\ DirectOver(Added(u, g, S), g, R \cup S, W)
         /\ OthersKept(u, Added(u, g, S), g)
  <1> /\ R \in SUBSET (0 .. Done - 1) /\ S \in SUBSET (0 .. Done - 1) /\ R \cap S = {}
      /\ W \in SUBSET (1 .. Samples)
    BY DEF NewRows
  <1> DEFINE v == Added(u, g, S)
             more == [s \in 1 .. Samples |-> u.sum[g][s] + SumOver(Values(S, s), Done)]
             moreSquares == [s \in 1 .. Samples |-> u.square[g][s] + SumOver(Squares(S, s), Done)]
  <1>1. /\ v.count = [u.count EXCEPT ![g] = u.count[g] + Cardinality(S)]
        /\ v.sum = [u.sum EXCEPT ![g] = more]
        /\ v.square = [u.square EXCEPT ![g] = moreSquares]
    BY DEF Added
  <1>2. u.count \in [Group -> Nat] /\ u.sum \in [Group -> [1 .. Samples -> Int]]
        /\ u.square \in [Group -> [1 .. Samples -> Int]]
    BY DEF SumsTyped
  <1>3. IsFiniteSet(R) /\ IsFiniteSet(S) /\ Cardinality(S) \in Nat
    BY RowsFinite
  <1>4. Cardinality(R \cup S) = Cardinality(R) + Cardinality(S)
    BY <1>3, CountParts
  <1>5. ASSUME NEW s \in 1 .. Samples
        PROVE  /\ SumOver(Values(S, s), Done) \in Int /\ SumOver(Squares(S, s), Done) \in Int
               /\ SumOver(Values(R \cup S, s), Done)
                    = SumOver(Values(R, s), Done) + SumOver(Values(S, s), Done)
               /\ SumOver(Squares(R \cup S, s), Done)
                    = SumOver(Squares(R, s), Done) + SumOver(Squares(S, s), Done)
    <2>1. S \cap R = {}
      OBVIOUS
    <2>2. SumOver(Values(S, s), Done) \in Int /\ SumOver(Squares(S, s), Done) \in Int
      BY <2>1, ValuesParts
    <2>3. QED
      BY <2>2, ValuesParts
  <1>6. more \in [1 .. Samples -> Int] /\ moreSquares \in [1 .. Samples -> Int]
    <2>1. u.sum[g] \in [1 .. Samples -> Int] /\ u.square[g] \in [1 .. Samples -> Int]
      BY <1>2
    <2>2. \A s \in 1 .. Samples : u.sum[g][s] \in Int /\ u.square[g][s] \in Int
      BY <2>1
    <2>3. \A s \in 1 .. Samples : /\ u.sum[g][s] + SumOver(Values(S, s), Done) \in Int
                                 /\ u.square[g][s] + SumOver(Squares(S, s), Done) \in Int
      BY <1>5, <2>2
    <2>4. QED
      BY <2>3
  <1>7. \A s \in W : /\ more[s] = u.sum[g][s] + SumOver(Values(S, s), Done)
                     /\ moreSquares[s] = u.square[g][s] + SumOver(Squares(S, s), Done)
    OBVIOUS
  <1> HIDE DEF v, more, moreSquares
  <1>8. v.count[g] = u.count[g] + Cardinality(S) /\ v.sum[g] = more /\ v.square[g] = moreSquares
    BY <1>1, <1>2
  <1>9. SumsTyped(v)
    BY <1>1, <1>2, <1>3, <1>6 DEF SumsTyped
  <1>10. DirectOver(v, g, R \cup S, W)
    <2>1. v.count[g] = Cardinality(R \cup S)
      BY <1>4, <1>8 DEF DirectOver
    <2>2. ASSUME NEW s \in W
          PROVE  /\ v.sum[g][s] = SumOver(Values(R \cup S, s), Done)
                 /\ v.square[g][s] = SumOver(Squares(R \cup S, s), Done)
      <3>1. u.sum[g][s] = SumOver(Values(R, s), Done) /\ u.square[g][s] = SumOver(Squares(R, s), Done)
        BY DEF DirectOver
      <3>2. v.sum[g][s] = more[s] /\ v.square[g][s] = moreSquares[s]
        BY <1>8
      <3>3. s \in 1 .. Samples
        OBVIOUS
      <3>4. QED
        BY <1>5, <1>7, <3>1, <3>2, <3>3
    <2>3. QED
      BY <2>1, <2>2 DEF DirectOver
  <1>11. \A h \in Group : h # g => v.count[h] = u.count[h] /\ v.sum[h] = u.sum[h]
                                   /\ v.square[h] = u.square[h]
    BY <1>1, <1>2
  <1>12. QED
    BY <1>9, <1>10, <1>11 DEF v, OthersKept

-----------------------------------------------------------------------------
(* The inductive invariant.                                                *)

\* A row as it is stored, and what holds of row i: it was captured with the input of the
\* schedule, and its label and block are those of the schedule unless an entry changed.
StoredRow == [input : Nat, label : Int, block : Int, wave : Seq(Int), trigger : Int]
Captured(i) ==
  IF IF plan.tvla THEN ScheduledLabel(i) = 0 ELSE plan.fixedInput
  THEN FixedInput ELSE RandomInput(i)
RowSound(i) ==
  /\ Len(Row(i).wave) = Samples
  /\ Row(i).input = Captured(i)
  /\ (plan.tvla /\ damage = 0) => /\ Row(i).label = ScheduledLabel(i)
                                  /\ Row(i).block = ScheduledBlock(i)
StoreInv ==
  /\ Planned /\ rows \in Seq(StoredRow) /\ Done <= N
  /\ damage \in 0 .. MaxDamage /\ cache \in -1 .. BlockCount(plan) - 1
  /\ \A i \in 0 .. Done - 1 : RowSound(i)

\* The phases, and the analysis that each of them belongs to.
JobInv ==
  /\ phase \in {"idle", "session", "labels", "welch", "correlate", "refused", "reported"}
  /\ job \in [kind : {"none", "tvla", "aes", "aead"}, variant : {"raw", "aligned"},
              chunk : Nat \ {0}]
  /\ pos \in 0 .. Done
  /\ phase \in {"idle", "session"} =>
       job = NoJob /\ pos = 0 /\ protocol = NoProtocol /\ sums = NoSums /\ report = NoReport
  /\ phase \in {"labels", "welch"} => job.kind = "tvla"
  /\ phase = "correlate" => job.kind \in {"aes", "aead"}
  /\ phase = "reported" => job.kind # "none" /\ pos = Done
  /\ job.kind = "none" => job = NoJob
  /\ job.kind # "none" => Startable(job.kind, job.variant) /\ Done > 0
  /\ job.kind = "tvla" => plan.tvla

\* The first n rows that an analysis counts for group g, and the samples it reads of them.
Read(n, g) ==
  {i \in 0 .. n - 1 : IF job.kind = "tvla" THEN Row(i).label = g
                      ELSE g = 1 /\ (plan.tvla => Row(i).label = 1)}
Inside == {s \in 1 .. Samples : job.kind = "aead" => s - 1 \in ModelWindow(dataset, Samples)}
Direct(u, n) ==
  /\ SumsTyped(u)
  /\ \A g \in Group : /\ DirectOver(u, g, Read(n, g), Inside)
                      /\ \A s \in 1 .. Samples : s \notin Inside => u.sum[g][s] = 0
                                                                    /\ u.square[g][s] = 0

\* What the label pass leaves behind.
LabelsRead(p) ==
  /\ Usable(Done)
  /\ p.count \in [Group -> Nat] /\ p.even \in [Group -> Nat] /\ p.blocks \in Nat
  /\ \A g \in Group : /\ p.count[g] = Cardinality(Labelled(Done, g))
                      /\ p.even[g] = Cardinality(EvenLabelled(Done, g))
  /\ Extremes(p.blocks, p.least, p.most, Done, BlocksOf(Done))
PassInv ==
  /\ phase = "labels" => Summary(protocol, pos) /\ ~protocol.bad /\ Usable(pos) /\ sums = NoSums
  /\ (phase \in {"welch", "reported"} /\ job.kind = "tvla") => LabelsRead(protocol)
  /\ phase \in {"welch", "correlate", "reported"} => Direct(sums, pos)

\* The reports.
TvlaReport ==
  /\ \A g \in Group : sums.count[g] >= 2
  /\ Done = N => CompleteAsRequested
  /\ \E s \in 1 .. Samples : ~Undefined(Curve[s])
  /\ report = [verdict |-> Interpretation(Curve[PeakOf(Curve)]),
               peak |-> PeakOf(Curve),
               at |-> CoordinateOf(dataset, Samples, PeakOf(Curve) - 1)]
CpaReport ==
  \E scores \in Scores, verdict \in {"recovered", "ranked"} :
    /\ report = [verdict |-> verdict, rank |-> RankOf(scores, Truth), scores |-> scores]
    /\ verdict = "recovered" => Informative(scores) /\ GuessOf(scores) = Truth
ReportInv ==
  /\ (phase = "reported" /\ job.kind = "tvla") => TvlaReport
  /\ (phase = "reported" /\ job.kind # "tvla") => CpaReport
  /\ OwnCampaignAccepted

CampaignInv == StoreInv /\ JobInv /\ PassInv /\ ReportInv

-----------------------------------------------------------------------------
(* What does not change while the campaign and the rows do not.            *)

LEMMA CampaignFrame ==
  ASSUME UNCHANGED campaign
  PROVE  /\ N' = N /\ Samples' = Samples /\ Width' = Width
         /\ \A i : ScheduledLabel(i)' = ScheduledLabel(i) /\ ScheduledBlock(i)' = ScheduledBlock(i)
         /\ Planned' <=> Planned
  <1> plan' = plan /\ dataset' = dataset /\ stream' = stream
    BY DEF campaign
  <1>1. N' = N /\ Width' = Width
    BY DEF N, Width
  <1>2. Samples' = Samples
    BY DEF Samples
  <1>3. \A i : ScheduledLabel(i)' = ScheduledLabel(i) /\ ScheduledBlock(i)' = ScheduledBlock(i)
    BY DEF ScheduledLabel, ScheduledBlock
  <1>4. Planned' <=> Planned
    BY DEF Planned
  <1>5. QED
    BY <1>1, <1>2, <1>3, <1>4

LEMMA RowFrame ==
  ASSUME UNCHANGED rows
  PROVE  /\ Done' = Done /\ \A i : Row(i)' = Row(i)
         /\ \A n : Usable(n)' <=> Usable(n)
  <1>1. Done' = Done /\ \A i : Row(i)' = Row(i)
    BY DEF Done, Row
  <1>2. \A n : Usable(n)' <=> Usable(n)
    BY <1>1 DEF Usable
  <1>3. QED
    BY <1>1, <1>2

LEMMA LabelFrame ==
  ASSUME UNCHANGED rows
  PROVE  /\ \A n, g : Labelled(n, g)' = Labelled(n, g) /\ EvenLabelled(n, g)' = EvenLabelled(n, g)
         /\ \A n : BlocksOf(n)' = BlocksOf(n)
         /\ \A p, n : Summary(p, n)' <=> Summary(p, n)
         /\ \A p : LabelsRead(p)' <=> LabelsRead(p)
  <1>1. Done' = Done /\ \A i : Row(i)' = Row(i)
    BY RowFrame
  <1>2. \A n : Usable(n)' <=> Usable(n)
    BY RowFrame
  <1>3. \A n, g : Labelled(n, g)' = Labelled(n, g) /\ EvenLabelled(n, g)' = EvenLabelled(n, g)
    BY <1>1 DEF Labelled, EvenLabelled
  <1>4. \A n, b : InBlock(n, b)' = InBlock(n, b) /\ FixedInBlock(n, b)' = FixedInBlock(n, b)
    BY <1>1 DEF InBlock, FixedInBlock
  <1>5. \A n : BlocksOf(n)' = BlocksOf(n)
    BY <1>1 DEF BlocksOf
  <1>6. \A n, b : Share(n, b)' = Share(n, b)
    BY <1>4 DEF Share
  <1>7. \A blocks, least, most, n, B :
          Extremes(blocks, least, most, n, B)' <=> Extremes(blocks, least, most, n, B)
    BY <1>6 DEF Extremes
  <1>8. \A p, n : Summary(p, n)' <=> Summary(p, n)
    BY ZenonT(60), <1>1, <1>3, <1>4, <1>5, <1>7 DEF Summary
  <1>9. \A p : LabelsRead(p)' <=> LabelsRead(p)
    BY <1>1, <1>2, <1>3, <1>5, <1>7 DEF LabelsRead
  <1>10. QED
    BY <1>3, <1>5, <1>8, <1>9

\* The sums an analysis keeps say the same of rows and a job that stay.
LEMMA SumsFrame ==
  ASSUME UNCHANGED <<campaign, rows, job>>
  PROVE  \A u, n : Direct(u, n)' <=> Direct(u, n)
  <1> rows' = rows /\ job' = job /\ plan' = plan /\ dataset' = dataset /\ UNCHANGED campaign
    BY DEF campaign
  <1>1. Done' = Done /\ (\A i : Row(i)' = Row(i)) /\ Samples' = Samples
    BY RowFrame, CampaignFrame
  <1>2. \A S, s : Values(S, s)' = Values(S, s)
    BY <1>1 DEF Values
  <1>3. \A S, s : Squares(S, s)' = Squares(S, s)
    BY <1>2 DEF Squares
  <1>4. \A u, g, R, W : DirectOver(u, g, R, W)' <=> DirectOver(u, g, R, W)
    BY <1>1, <1>2, <1>3 DEF DirectOver
  <1>5. \A n, g : Read(n, g)' = Read(n, g)
    BY <1>1 DEF Read
  <1>6. Inside' = Inside
    BY <1>1 DEF Inside
  <1>7. \A u : SumsTyped(u)' <=> SumsTyped(u)
    BY <1>1 DEF SumsTyped
  <1>8. QED
    BY <1>1, <1>4, <1>5, <1>6, <1>7 DEF Direct

\* The store depends on nothing else.
LEMMA StoreFrame ==
  ASSUME StoreInv, UNCHANGED <<campaign, rows, damage>>, cache' \in -1 .. BlockCount(plan) - 1
  PROVE  StoreInv'
  <1> rows' = rows /\ plan' = plan /\ damage' = damage /\ UNCHANGED campaign
    BY DEF campaign
  <1>1. /\ Done' = Done /\ (\A i : Row(i)' = Row(i)) /\ Samples' = Samples /\ N' = N
        /\ (\A i : ScheduledLabel(i)' = ScheduledLabel(i) /\ ScheduledBlock(i)' = ScheduledBlock(i))
        /\ (Planned' <=> Planned)
    BY RowFrame, CampaignFrame
  <1>2. \A i : RowSound(i)' <=> RowSound(i)
    BY <1>1 DEF RowSound, Captured
  <1>3. QED
    BY <1>1, <1>2 DEF StoreInv

\* What may be started does not change either.
LEMMA StartFrame ==
  ASSUME UNCHANGED <<campaign, rows>>
  PROVE  \A kind, variant : Startable(kind, variant)' <=> Startable(kind, variant)
  <1> rows' = rows /\ plan' = plan /\ dataset' = dataset /\ UNCHANGED campaign
    BY DEF campaign
  <1>1. Done' = Done /\ (\A i : Row(i)' = Row(i)) /\ Samples' = Samples
    BY RowFrame, CampaignFrame
  <1>2. (Selectable' <=> Selectable) /\ (AeadUsable' <=> AeadUsable)
    BY <1>1 DEF Selectable, AeadUsable
  <1>3. {Row(i).trigger : i \in 0 .. Done - 1}' = {Row(i).trigger : i \in 0 .. Done - 1}
    BY <1>1
  <1>4. QED
    BY <1>1, <1>2, <1>3 DEF Startable

-----------------------------------------------------------------------------
(* Every step keeps the invariant.                                         *)

LEMMA StoreFacts ==
  ASSUME StoreInv
  PROVE  /\ Samples \in Nat /\ Done \in Nat /\ N \in Nat \ {0} /\ Recorded
         /\ \A i \in 0 .. Done - 1 : Row(i) \in StoredRow /\ i \in 0 .. N - 1
         /\ plan.tvla \in BOOLEAN /\ damage \in Nat
  <1>1. Planned /\ rows \in Seq(StoredRow) /\ Done <= N /\ damage \in 0 .. MaxDamage
        /\ \A i \in 0 .. Done - 1 : RowSound(i)
    BY DEF StoreInv
  <1>2. Samples \in Nat /\ N \in Nat \ {0} /\ plan.tvla \in BOOLEAN
    BY <1>1, PlanFacts, RecordFacts
  <1>3. Done \in Nat /\ \A i \in 0 .. Done - 1 : Row(i) \in StoredRow
    BY <1>1 DEF Done, Row
  <1>4. Recorded
    BY <1>1, <1>3 DEF Recorded, RowSound, StoredRow
  <1>5. QED
    BY <1>1, <1>2, <1>3, <1>4, BoundAssumption

LEMMA InputFacts ==
  ASSUME StoreInv, NEW i \in 0 .. Done - 1
  PROVE  /\ Row(i).input = Captured(i) /\ Row(i).input \in {FixedInput, RandomInput(i)}
         /\ plan.tvla => (Row(i).input = FixedInput <=> ScheduledLabel(i) = 0)
         /\ (plan.tvla /\ damage = 0) =>
              /\ Row(i).label = ScheduledLabel(i) /\ Row(i).block = ScheduledBlock(i)
              /\ Row(i).label \in Group /\ Row(i).block \in Nat
              /\ Row(i).input = FixedInput <=> Row(i).label = 0
  <1>1. RowSound(i) /\ Planned
    BY DEF StoreInv
  <1>2. i \in 0 .. N - 1 /\ i \in Nat
    BY StoreFacts
  <1>3. ScheduledLabel(i) \in Group /\ ScheduledBlock(i) \in Nat
    BY <1>1, <1>2, GeneratorFacts
  <1>4. RandomInput(i) # FixedInput
    BY <1>2 DEF RandomInput, FixedInput
  <1>5. QED
    BY <1>1, <1>3, <1>4 DEF RowSound, Captured

LEMMA NothingCounted ==
  ASSUME StoreInv PROVE Direct(NoSums, 0)
  <1>1. Samples \in Nat /\ Done \in Nat
    BY StoreFacts
  <1>2. SumsTyped(NoSums)
    BY <1>1 DEF SumsTyped, NoSums, ZeroCurve
  <1>3. ASSUME NEW g \in Group PROVE DirectOver(NoSums, g, Read(0, g), Inside)
    <2>1. Read(0, g) = {}
      BY DEF Read
    <2>2. NoSums.count[g] = Cardinality(Read(0, g))
      BY <2>1, FS_EmptySet DEF NoSums
    <2>3. ASSUME NEW s \in Inside
          PROVE  /\ NoSums.sum[g][s] = 0 /\ SumOver(Values(Read(0, g), s), Done) = 0
                 /\ NoSums.square[g][s] = 0 /\ SumOver(Squares(Read(0, g), s), Done) = 0
      <3>1. s \in 1 .. Samples
        BY DEF Inside
      <3>2. NoSums.sum[g][s] = 0 /\ NoSums.square[g][s] = 0
        BY <3>1 DEF NoSums, ZeroCurve
      <3>3. DOMAIN Values(Read(0, g), s) = {} /\ DOMAIN Squares(Read(0, g), s) = {}
        BY <2>1 DEF Values, Squares
      <3>4. QED
        BY <1>1, <3>2, <3>3, SumOverNothing
    <2>4. QED
      BY <2>2, <2>3 DEF DirectOver
  <1>4. \A g \in Group : \A s \in 1 .. Samples : NoSums.sum[g][s] = 0 /\ NoSums.square[g][s] = 0
    BY DEF NoSums, ZeroCurve
  <1>5. QED
    BY <1>2, <1>3, <1>4 DEF Direct

LEMMA InitKeeps ==
  Init => CampaignInv
  <1> SUFFICES ASSUME Init PROVE CampaignInv
    OBVIOUS
  <1>1. PICK c \in Campaigns : Validated(c[1]) /\ plan = c[1] /\ dataset = c[2]
    BY DEF Init
  <1>2. c = <<c[1], c[2]>>
    BY CampaignAssumption
  <1>3. Planned
    <2>1. <<plan, dataset>> \in Campaigns /\ Validated(plan)
      BY <1>1, <1>2
    <2>2. \A b \in 0 .. BlockCount(plan) - 1 : stream[b] \in BalancedLabels(BlockLength(plan, b))
      BY DEF Init
    <2>3. QED
      BY <2>1, <2>2 DEF Planned
  <1>4. N \in Nat \ {0} /\ BlockCount(plan) \in Nat \ {0}
    BY <1>3, PlanFacts
  <1>5. /\ rows = <<>> /\ damage = 0 /\ cache = -1 /\ phase = "idle"
        /\ job = NoJob /\ pos = 0 /\ protocol = NoProtocol /\ sums = NoSums /\ report = NoReport
    BY DEF Init
  <1>6. Done = 0
    BY <1>5 DEF Done
  <1>7. StoreInv
    <2>1. rows \in Seq(StoredRow)
      BY <1>5
    <2>2. QED
      BY <1>3, <1>4, <1>5, <1>6, <2>1, BoundAssumption DEF StoreInv
  <1>8. JobInv
    BY <1>5, <1>6 DEF JobInv, NoJob
  <1>9. PassInv
    BY <1>5 DEF PassInv
  <1>10. ReportInv
    BY <1>5 DEF ReportInv, OwnCampaignAccepted, NoReport
  <1>11. QED
    BY <1>7, <1>8, <1>9, <1>10 DEF CampaignInv

\* A refusal keeps everything, if an untouched dataset is not refused for what it is.
LEMMA RefuseKeeps ==
  ASSUME CampaignInv, NEW why, Refuse(why),
         damage = 0 => why \notin {"schedule", "labels", "request"}
  PROVE  CampaignInv'
  <1>1. /\ phase' = "refused" /\ report' = [verdict |-> why] /\ rows' = rows /\ damage' = damage
        /\ cache' = cache /\ job' = job /\ pos' = pos /\ protocol' = protocol /\ sums' = sums
        /\ UNCHANGED campaign
    BY DEF Refuse
  <1>2. StoreInv'
    BY <1>1, StoreFrame DEF CampaignInv, StoreInv
  <1>3. JobInv'
    <2>1. Done' = Done /\ plan' = plan
      BY <1>1, RowFrame DEF campaign
    <2>2. \A kind, variant : Startable(kind, variant)' <=> Startable(kind, variant)
      BY <1>1, StartFrame
    <2>3. JobInv
      BY DEF CampaignInv
    <2>4. QED
      BY <1>1, <2>1, <2>2, <2>3 DEF JobInv, NoJob
  <1>4. PassInv'
    BY <1>1 DEF PassInv
  <1>5. ReportInv'
    <2>1. OwnCampaignAccepted'
      BY <1>1 DEF OwnCampaignAccepted
    <2>2. QED
      BY <1>1, <2>1 DEF ReportInv
  <1>6. QED
    BY <1>2, <1>3, <1>4, <1>5 DEF CampaignInv

\* The generator holds a block of the campaign.
LEMMA CacheKept ==
  ASSUME StoreInv, NEW i \in 0 .. N - 1
  PROVE  CacheAfter(i) \in -1 .. BlockCount(plan) - 1
  <1>1. Planned /\ cache \in -1 .. BlockCount(plan) - 1
    BY DEF StoreInv
  <1>2. CacheAfter(i) \in {cache, i \div plan.size} /\ i \div plan.size \in 0 .. BlockCount(plan) - 1
        /\ BlockCount(plan) \in Nat
    BY <1>1, GeneratorFacts, PlanFacts
  <1> DEFINE b == i \div plan.size
  <1>3. b \in -1 .. BlockCount(plan) - 1
    <2> HIDE DEF b
    <2>1. b \in 0 .. BlockCount(plan) - 1
      BY <1>2 DEF b
    <2>2. QED
      BY <1>2, <2>1
  <1>4. QED
    BY <1>1, <1>2, <1>3

\* An untouched dataset meets its own schedule.
LEMMA OwnResume ==
  ASSUME StoreInv, damage = 0, Done > 0 PROVE ResumeAccepts
  <1>1. Done \in Nat \ {0} /\ \A i \in 0 .. Done - 1 : i \in 0 .. N - 1
    BY StoreFacts
  <1>2. ASSUME NEW i \in 0 .. Done - 1
        PROVE  /\ plan.tvla => Row(i).label \in Group /\ Row(i).block >= 0
               /\ Row(i).input = InputOf(i)
               /\ plan.tvla => Row(i).label = TvlaGroup(i) /\ Row(i).block = BlockOf(i)
    <2>1. TvlaGroup(i) = ScheduledLabel(i) /\ BlockOf(i) = ScheduledBlock(i)
      BY <1>1, GeneratorFacts DEF StoreInv
    <2>2. Row(i).input = Captured(i)
          /\ (plan.tvla => Row(i).label = ScheduledLabel(i) /\ Row(i).block = ScheduledBlock(i)
                           /\ Row(i).label \in Group /\ Row(i).block \in Nat)
      BY InputFacts
    <2>3. InputOf(i) = Captured(i)
      BY <2>1 DEF InputOf, Captured
    <2>4. QED
      BY <2>1, <2>2, <2>3
  <1>3. Sampled(Done, NCheck) \subseteq 0 .. Done - 1
    BY <1>1, SampledFacts
  <1>4. QED
    BY <1>2, <1>3 DEF ResumeAccepts

\* A step of a session leaves an analysis that has not begun.
LEMMA SessionFrame ==
  ASSUME CampaignInv, UNCHANGED <<campaign, analysis>>, StoreInv', Done <= Done',
         phase \in {"idle", "session"}, phase' \in {"idle", "session"}
  PROVE  CampaignInv'
  <1>1. /\ job' = job /\ pos' = pos /\ protocol' = protocol /\ sums' = sums /\ report' = report
        /\ plan' = plan
    BY DEF analysis, campaign
  <1>2. JobInv /\ StoreInv
    BY DEF CampaignInv
  <1>3. job = NoJob /\ pos = 0 /\ protocol = NoProtocol /\ sums = NoSums /\ report = NoReport
    BY <1>2 DEF JobInv
  <1>4. NoProtocol' = NoProtocol /\ NoJob' = NoJob /\ NoReport' = NoReport
    BY DEF NoProtocol, NoJob, NoReport
  <1>5. NoSums' = NoSums
    <2>1. Samples' = Samples
      BY CampaignFrame
    <2>2. QED
      BY <2>1 DEF NoSums, ZeroCurve
  <1>6. JobInv'
    <2>1. Done \in Nat /\ Done' \in Nat
      <3>1. Done \in Nat
        BY <1>2, StoreFacts
      <3>2. rows' \in Seq(StoredRow)
        BY DEF StoreInv, StoredRow
      <3>3. QED
        BY <3>1, <3>2 DEF Done
    <2>2. QED
      BY <1>1, <1>2, <1>3, <1>4, <1>5, <2>1 DEF JobInv, NoJob
  <1>7. PassInv'
    BY DEF PassInv
  <1>8. ReportInv'
    BY <1>1, <1>3 DEF ReportInv, OwnCampaignAccepted, NoReport
  <1>9. QED
    BY <1>6, <1>7, <1>8 DEF CampaignInv

LEMMA OpenSessionKeeps ==
  ASSUME CampaignInv, OpenSession PROVE CampaignInv'
  <1>1. StoreInv /\ JobInv
    BY DEF CampaignInv
  <1>2. Done \in Nat /\ N \in Nat \ {0} /\ Done < N /\ phase = "idle"
    BY <1>1, StoreFacts DEF OpenSession
  <1>3. CASE Done > 0 /\ ~ResumeAccepts
    <2>1. Refuse("schedule")
      BY <1>3 DEF OpenSession
    <2>2. damage # 0
      BY <1>1, <1>3, OwnResume
    <2>3. QED
      BY <2>1, <2>2, RefuseKeeps
  <1>4. CASE ~(Done > 0 /\ ~ResumeAccepts)
    <2>1. /\ phase' = "session" /\ cache' = IF Done = 0 THEN cache ELSE CacheAfter(Done - 1)
          /\ UNCHANGED <<campaign, rows, damage, analysis>>
      BY <1>4 DEF OpenSession
    <2>2. cache' \in -1 .. BlockCount(plan) - 1
      <3>1. cache \in -1 .. BlockCount(plan) - 1
        BY <1>1 DEF StoreInv
      <3>2. Done # 0 => Done - 1 \in 0 .. N - 1
        BY <1>2
      <3>3. QED
        BY <1>1, <2>1, <3>1, <3>2, CacheKept
    <2>3. StoreInv'
      BY <1>1, <2>1, <2>2, StoreFrame
    <2>4. Done' = Done
      BY <2>1, RowFrame
    <2>5. QED
      BY <1>2, <2>1, <2>3, <2>4, SessionFrame
  <1>5. QED
    BY <1>3, <1>4

LEMMA EndSessionKeeps ==
  ASSUME CampaignInv, EndSession PROVE CampaignInv'
  <1>1. StoreInv /\ JobInv
    BY DEF CampaignInv
  <1>2. /\ phase = "session" /\ phase' = "idle" /\ cache' = -1
        /\ UNCHANGED <<campaign, rows, damage, analysis>>
    BY DEF EndSession
  <1>3. BlockCount(plan) \in Nat /\ Done \in Nat
    BY <1>1, PlanFacts, StoreFacts DEF StoreInv
  <1>4. cache' \in -1 .. BlockCount(plan) - 1
    BY <1>2, <1>3
  <1>5. StoreInv'
    BY <1>1, <1>2, <1>4, StoreFrame
  <1>6. Done' = Done
    BY <1>2, RowFrame
  <1>7. QED
    BY <1>2, <1>3, <1>5, <1>6, SessionFrame

LEMMA AppendRowKeeps ==
  ASSUME CampaignInv, AppendRow PROVE CampaignInv'
  <1>1. StoreInv /\ JobInv /\ Planned /\ rows \in Seq(StoredRow)
    BY DEF CampaignInv, StoreInv
  <1>2. Done \in Nat /\ N \in Nat \ {0} /\ Done < N /\ phase = "session" /\ Done \in 0 .. N - 1
    <2>1. Done \in Nat /\ N \in Nat \ {0}
      BY <1>1, StoreFacts
    <2>2. QED
      BY <2>1 DEF AppendRow
  <1>3. PICK r \in Records(plan, Done) :
          rows' = Append(rows, [input |-> InputOf(Done),
                                label |-> IF plan.tvla THEN TvlaGroup(Done) ELSE 0,
                                block |-> IF plan.tvla THEN BlockOf(Done) ELSE 0,
                                wave |-> r.wave, trigger |-> r.trigger])
    BY DEF AppendRow
  <1> DEFINE new == [input |-> InputOf(Done),
                     label |-> IF plan.tvla THEN TvlaGroup(Done) ELSE 0,
                     block |-> IF plan.tvla THEN BlockOf(Done) ELSE 0,
                     wave |-> r.wave, trigger |-> r.trigger]
  <1>4. /\ cache' = CacheAfter(Done) /\ damage' = damage /\ phase' = phase
        /\ UNCHANGED campaign /\ UNCHANGED analysis
    BY DEF AppendRow
  <1>5. TvlaGroup(Done) = ScheduledLabel(Done) /\ BlockOf(Done) = ScheduledBlock(Done)
        /\ ScheduledLabel(Done) \in Group /\ ScheduledBlock(Done) \in Nat
    BY <1>1, <1>2, GeneratorFacts
  <1>6. r.wave \in Seq(Int) /\ Len(r.wave) = Samples /\ r.trigger \in Int
    BY <1>1, <1>2, RecordFacts
  <1>7. InputOf(Done) = Captured(Done) /\ InputOf(Done) \in Nat
    <2>1. InputOf(Done) = Captured(Done)
      BY <1>5 DEF InputOf, Captured
    <2>2. Captured(Done) \in Nat
      BY <1>2 DEF Captured, RandomInput, FixedInput
    <2>3. QED
      BY <2>1, <2>2
  <1>8. new \in StoredRow
    BY <1>5, <1>6, <1>7 DEF StoredRow, Group
  <1>9. /\ new.input = Captured(Done) /\ Len(new.wave) = Samples
        /\ plan.tvla => new.label = ScheduledLabel(Done) /\ new.block = ScheduledBlock(Done)
    BY <1>5, <1>6, <1>7
  <1>10. rows' = Append(rows, new)
    BY <1>3
  <1> HIDE DEF new
  <1>11. /\ rows' \in Seq(StoredRow) /\ Done' = Done + 1
         /\ \A i \in 0 .. Done : Row(i)' = IF i = Done THEN new ELSE Row(i)
    <2>1. rows' \in Seq(StoredRow) /\ Len(rows') = Len(rows) + 1 /\ rows'[Len(rows) + 1] = new
          /\ \A k \in 1 .. Len(rows) : rows'[k] = rows[k]
      BY <1>1, <1>8, <1>10, AppendProperties
    <2>2. \A i \in 0 .. Done : i # Done => i + 1 \in 1 .. Len(rows)
      BY <1>2 DEF Done
    <2>3. Done' = Done + 1
      BY <2>1 DEF Done
    <2>4. \A i \in 0 .. Done : i # Done => rows'[i + 1] = rows[i + 1]
      BY <2>1, <2>2
    <2>5. \A i \in 0 .. Done : i = Done => rows'[i + 1] = new
      BY <2>1 DEF Done
    <2>6. \A i \in 0 .. Done : rows'[i + 1] = IF i = Done THEN new ELSE rows[i + 1]
      BY <2>4, <2>5
    <2>7. \A i \in 0 .. Done : Row(i)' = IF i = Done THEN new ELSE Row(i)
      BY <2>6 DEF Row
    <2>8. QED
      BY <2>1, <2>3, <2>7
  <1>12. /\ N' = N /\ Samples' = Samples /\ (Planned' <=> Planned) /\ plan' = plan
         /\ \A i : ScheduledLabel(i)' = ScheduledLabel(i) /\ ScheduledBlock(i)' = ScheduledBlock(i)
    BY <1>4, CampaignFrame DEF campaign
  <1>13. \A i : Captured(i)' = Captured(i)
    BY <1>12 DEF Captured
  <1>14. ASSUME NEW i \in 0 .. Done PROVE RowSound(i)'
    <2>1. CASE i = Done
      <3>1. Row(i)' = new
        BY <1>11, <2>1
      <3>2. QED
        BY <1>4, <1>9, <1>12, <1>13, <2>1, <3>1 DEF RowSound
    <2>2. CASE i # Done
      <3>1. i \in 0 .. Done - 1
        BY <1>2, <2>2
      <3>2. RowSound(i)
        BY <1>1, <3>1 DEF StoreInv
      <3>3. Row(i)' = Row(i)
        BY <1>11, <2>2
      <3>4. QED
        BY <1>4, <1>12, <1>13, <3>2, <3>3 DEF RowSound
    <2>3. QED
      BY <2>1, <2>2
  <1>15. StoreInv'
    <2>1. cache' \in -1 .. BlockCount(plan) - 1
      BY <1>1, <1>2, <1>4, CacheKept
    <2>2. \A i \in 0 .. Done' - 1 : RowSound(i)'
      BY <1>2, <1>11, <1>14
    <2>3. Planned /\ damage \in 0 .. MaxDamage
      BY <1>1 DEF StoreInv
    <2>4. QED
      BY <1>2, <1>4, <1>11, <1>12, <2>1, <2>2, <2>3 DEF StoreInv
  <1>16. Done <= Done'
    BY <1>2, <1>11
  <1>17. QED
    BY <1>2, <1>4, <1>15, <1>16, SessionFrame

LEMMA DamageKeeps ==
  ASSUME CampaignInv, Damage PROVE CampaignInv'
  <1>1. StoreInv /\ JobInv /\ Planned /\ rows \in Seq(StoredRow) /\ damage \in 0 .. MaxDamage
    BY DEF CampaignInv, StoreInv
  <1>2. /\ phase = "idle" /\ plan.tvla /\ damage < MaxDamage /\ damage' = damage + 1
        /\ cache' = cache /\ phase' = phase /\ UNCHANGED campaign /\ UNCHANGED analysis
    BY DEF Damage
  <1>3. Done \in Nat /\ MaxDamage \in Nat /\ \A i \in 0 .. Done - 1 : Row(i) \in StoredRow
    BY <1>1, StoreFacts, BoundAssumption
  <1>4. PICK i \in 1 .. Done, new \in StoredRow :
          new.wave = rows[i].wave /\ new.input = rows[i].input /\ rows' = [rows EXCEPT ![i] = new]
    <2>1. PICK i \in 1 .. Done :
            \/ \E g \in 0 .. 2 : rows' = [rows EXCEPT ![i] = [@ EXCEPT !.label = g]]
            \/ \E b \in -1 .. 1 : rows' = [rows EXCEPT ![i] = [@ EXCEPT !.block = b]]
      BY DEF Damage
    <2>2. rows[i] \in StoredRow /\ i \in DOMAIN rows
      BY <1>1, <1>3 DEF Done
    <2>3. CASE \E g \in 0 .. 2 : rows' = [rows EXCEPT ![i] = [@ EXCEPT !.label = g]]
      <3>1. PICK g \in 0 .. 2 : rows' = [rows EXCEPT ![i] = [@ EXCEPT !.label = g]]
        BY <2>3
      <3> DEFINE new == [rows[i] EXCEPT !.label = g]
      <3>2. new \in StoredRow /\ new.wave = rows[i].wave /\ new.input = rows[i].input
        BY <2>2 DEF StoredRow
      <3>3. rows' = [rows EXCEPT ![i] = new]
        BY <2>2, <3>1
      <3> HIDE DEF new
      <3>4. QED
        BY <3>2, <3>3
    <2>4. CASE \E b \in -1 .. 1 : rows' = [rows EXCEPT ![i] = [@ EXCEPT !.block = b]]
      <3>1. PICK b \in -1 .. 1 : rows' = [rows EXCEPT ![i] = [@ EXCEPT !.block = b]]
        BY <2>4
      <3> DEFINE new == [rows[i] EXCEPT !.block = b]
      <3>2. new \in StoredRow /\ new.wave = rows[i].wave /\ new.input = rows[i].input
        BY <2>2 DEF StoredRow
      <3>3. rows' = [rows EXCEPT ![i] = new]
        BY <2>2, <3>1
      <3> HIDE DEF new
      <3>4. QED
        BY <3>2, <3>3
    <2>5. QED
      BY <2>1, <2>3, <2>4
  <1>5. /\ rows' \in Seq(StoredRow) /\ Done' = Done
        /\ \A k \in 0 .. Done - 1 : Row(k)'.wave = Row(k).wave /\ Row(k)'.input = Row(k).input
    <2>1. rows' \in Seq(StoredRow) /\ Len(rows') = Len(rows)
          /\ \A k \in 1 .. Len(rows) : rows'[k] = IF k = i THEN new ELSE rows[k]
      BY <1>1, <1>4 DEF Done
    <2>2. \A k \in 0 .. Done - 1 : k + 1 \in 1 .. Len(rows)
      BY <1>3 DEF Done
    <2>3. \A k \in 1 .. Len(rows) : rows'[k].wave = rows[k].wave /\ rows'[k].input = rows[k].input
      BY <1>4, <2>1
    <2>4. QED
      BY <2>1, <2>2, <2>3 DEF Done, Row
  <1>6. /\ N' = N /\ Samples' = Samples /\ (Planned' <=> Planned) /\ plan' = plan
        /\ \A k : ScheduledLabel(k)' = ScheduledLabel(k)
    BY <1>2, CampaignFrame DEF campaign
  <1>7. \A k : Captured(k)' = Captured(k)
    BY <1>6 DEF Captured
  <1>8. damage' \in 0 .. MaxDamage /\ damage' # 0
    BY <1>1, <1>2, <1>3
  <1>9. \A k \in 0 .. Done - 1 : RowSound(k)'
    <2>1. \A k \in 0 .. Done - 1 : RowSound(k)
      BY <1>1 DEF StoreInv
    <2>2. QED
      BY <1>5, <1>6, <1>7, <1>8, <2>1 DEF RowSound
  <1>10. StoreInv'
    BY <1>1, <1>2, <1>5, <1>6, <1>8, <1>9 DEF StoreInv
  <1>11. QED
    BY <1>2, <1>3, <1>5, <1>10, SessionFrame

-----------------------------------------------------------------------------
(* The analyses.                                                           *)

\* The same, of the next state.
LEMMA NothingCountedAfter ==
  StoreInv' => Direct(NoSums, 0)'
  <1>1. StoreInv => Direct(NoSums, 0)
    BY NothingCounted
  <1>2. QED
    BY <1>1, PTL

LEMMA NothingReadAfter ==
  Summary(NoProtocol, 0)'
  <1>1. Summary(NoProtocol, 0)
    BY NothingRead
  <1>2. QED
    BY <1>1, PTL

LEMMA StartKeeps ==
  ASSUME CampaignInv, Start PROVE CampaignInv'
  <1>1. StoreInv /\ JobInv /\ phase = "idle" /\ Done > 0 /\ Done \in Nat
    BY StoreFacts DEF CampaignInv, Start
  <1>2. PICK kind \in {"tvla", "aes", "aead"}, variant \in {"raw", "aligned"}, chunk \in Chunks :
          /\ kind = "tvla" => plan.tvla
          /\ IF ~Startable(kind, variant) THEN Refuse("unusable")
             ELSE /\ job' = [kind |-> kind, variant |-> variant, chunk |-> chunk]
                  /\ phase' = IF kind = "tvla" THEN "labels" ELSE "correlate"
                  /\ UNCHANGED <<campaign, rows, damage, cache, pos, protocol, sums, report>>
    BY DEF Start
  <1>3. CASE ~Startable(kind, variant)
    <2>1. Refuse("unusable")
      BY <1>2, <1>3
    <2>2. QED
      BY <2>1, RefuseKeeps
  <1>4. CASE Startable(kind, variant)
    <2>1. /\ job' = [kind |-> kind, variant |-> variant, chunk |-> chunk]
          /\ phase' = IF kind = "tvla" THEN "labels" ELSE "correlate"
          /\ rows' = rows /\ damage' = damage /\ cache' = cache /\ pos' = pos
          /\ protocol' = protocol /\ sums' = sums /\ report' = report
          /\ UNCHANGED campaign /\ plan' = plan
      BY <1>2, <1>4 DEF campaign
    <2>2. pos = 0 /\ protocol = NoProtocol /\ sums = NoSums /\ report = NoReport
      BY <1>1 DEF JobInv
    <2>3. chunk \in Nat \ {0}
      BY BoundAssumption
    <2>4. StoreInv'
      BY <1>1, <2>1, StoreFrame DEF StoreInv
    <2>5. JobInv'
      <3>1. Startable(kind, variant)' /\ Done' = Done
        BY <1>4, <2>1, StartFrame, RowFrame
      <3>2. /\ job'.kind = kind /\ job'.variant = variant
            /\ job' \in [kind : {"none", "tvla", "aes", "aead"}, variant : {"raw", "aligned"},
                         chunk : Nat \ {0}]
        BY <2>1, <2>3
      <3>3. QED
        BY <1>1, <1>2, <2>1, <2>2, <3>1, <3>2 DEF JobInv
    <2>6. PassInv'
      <3>1. NoSums' = NoSums
        BY <2>1, CampaignFrame DEF NoSums, ZeroCurve
      <3>2. Direct(sums, pos)'
        BY <2>1, <2>2, <2>4, <3>1, NothingCountedAfter
      <3>3. Summary(protocol, pos)'
        BY <2>1, <2>2, NothingReadAfter DEF NoProtocol
      <3>4. ~protocol'.bad
        BY <2>1, <2>2 DEF NoProtocol
      <3>5. Usable(pos)'
        BY <2>1, <2>2 DEF Usable
      <3>6. QED
        BY <1>2, <2>1, <2>2, <3>1, <3>2, <3>3, <3>4, <3>5 DEF PassInv
    <2>7. ReportInv'
      BY <2>1, <2>2 DEF ReportInv, OwnCampaignAccepted, NoReport
    <2>8. QED
      BY <2>4, <2>5, <2>6, <2>7 DEF CampaignInv
  <1>5. QED
    BY <1>3, <1>4

\* A step of an analysis leaves the store and the job.
LEMMA JobFrame ==
  ASSUME CampaignInv, UNCHANGED <<campaign, rows, damage, cache, job>>, pos' \in 0 .. Done,
         \/ phase' \in {"labels", "welch"} /\ job.kind = "tvla"
         \/ phase' = "correlate" /\ job.kind \in {"aes", "aead"}
         \/ phase' = "reported" /\ job.kind # "none" /\ pos' = Done
  PROVE  StoreInv' /\ JobInv'
  <1>1. StoreInv /\ JobInv
    BY DEF CampaignInv
  <1>2. StoreInv'
    BY <1>1, StoreFrame DEF StoreInv
  <1>3. /\ \A kind, variant : Startable(kind, variant)' <=> Startable(kind, variant)
        /\ Done' = Done /\ plan' = plan
    BY StartFrame, RowFrame DEF campaign
  <1>4. JobInv'
    BY <1>1, <1>3 DEF JobInv
  <1>5. QED
    BY <1>2, <1>4

\* A chunk has a row.
LEMMA StopFacts ==
  ASSUME StoreInv, JobInv, pos < Done
  PROVE  pos \in Nat /\ Stop \in Nat /\ pos < Stop /\ Stop <= Done /\ Done \in Nat
  <1>1. Done \in Nat /\ pos \in 0 .. Done /\ job.chunk \in Nat \ {0}
    BY StoreFacts DEF JobInv
  <1>2. Stop = IF Done < pos + job.chunk THEN Done ELSE pos + job.chunk
    BY DEF Stop, AtMost
  <1>3. QED
    BY <1>1, <1>2

\* In an untouched campaign no block comes before an earlier one.
LEMMA OwnBlocks ==
  ASSUME StoreInv, damage = 0, plan.tvla, NEW i \in 1 .. Done - 1
  PROVE  ~(Row(i).block < Row(i - 1).block)
  <1>1. Done \in Nat /\ Planned
    BY StoreFacts DEF StoreInv
  <1>2. i \in 0 .. Done - 1 /\ i - 1 \in 0 .. Done - 1
    BY <1>1
  <1>3. Row(i).block = ScheduledBlock(i) /\ Row(i - 1).block = ScheduledBlock(i - 1)
    BY <1>2, InputFacts
  <1>4. i \in 0 .. N - 1 /\ i - 1 \in 0 .. N - 1
    BY <1>2, StoreFacts
  <1> DEFINE w == Width
             j == i - 1
  <1>5. ScheduledBlock(i) = i \div w /\ ScheduledBlock(j) = j \div w
        /\ ScheduledBlock(i) \in Nat /\ ScheduledBlock(j) \in Nat
    BY <1>1, <1>4, GeneratorFacts
  <1>6. w \in Nat \ {0} /\ j \in Nat /\ j + 1 = i
    BY <1>1, <1>4, PlanFacts
  <1> HIDE DEF w, j
  <1>7. j \div w <= (j + 1) \div w
    BY <1>6, BlocksOrdered
  <1>8. ScheduledBlock(j) <= ScheduledBlock(i)
    BY <1>5, <1>6, <1>7
  <1>9. Row(i - 1).block = ScheduledBlock(j)
    BY <1>3 DEF j
  <1>10. QED
    BY <1>3, <1>5, <1>8, <1>9

LEMMA ReadLabelsKeeps ==
  ASSUME CampaignInv, ReadLabels PROVE CampaignInv'
  <1>1. StoreInv /\ JobInv /\ PassInv /\ ReportInv /\ phase = "labels" /\ pos < Done
    BY DEF CampaignInv, ReadLabels
  <1>2. job.kind = "tvla" /\ plan.tvla
    BY <1>1 DEF JobInv
  <1>3. pos \in Nat /\ Stop \in Nat /\ pos < Stop /\ Stop <= Done /\ Done \in Nat
    BY <1>1, StopFacts
  <1>4. Summary(protocol, pos) /\ ~protocol.bad /\ Usable(pos) /\ sums = NoSums
    BY <1>1 DEF PassInv
  <1>5. CASE \E i \in pos .. Stop - 1 : Row(i).label \notin Group \/ Row(i).block < 0
    <2>1. Refuse("labels")
      BY <1>5 DEF ReadLabels
    <2>2. damage # 0
      <3>1. PICK i \in pos .. Stop - 1 : Row(i).label \notin Group \/ Row(i).block < 0
        BY <1>5
      <3>2. i \in 0 .. Done - 1
        BY <1>3
      <3>3. damage = 0 => Row(i).label \in Group /\ Row(i).block \in Nat
        BY <1>1, <1>2, <3>2, InputFacts
      <3>4. QED
        BY <3>1, <3>3
    <2>3. QED
      BY <2>1, <2>2, RefuseKeeps
  <1>6. CASE ~\E i \in pos .. Stop - 1 : Row(i).label \notin Group \/ Row(i).block < 0
    <2> DEFINE p == LabelChunk(protocol)
    <2>1. Usable(Stop)
      <3>1. SUFFICES ASSUME NEW i \in 0 .. Stop - 1
                     PROVE  Row(i).label \in Group /\ Row(i).block \in Nat
        BY DEF Usable
      <3>2. CASE i \in 0 .. pos - 1
        BY <1>4, <3>2 DEF Usable
      <3>3. CASE i \in pos .. Stop - 1
        <4>1. i \in 0 .. Done - 1
          BY <1>3
        <4>2. Row(i).block \in Int
          BY <1>1, <4>1, StoreFacts DEF StoredRow
        <4>3. QED
          BY <1>6, <3>3, <4>2
      <3>4. QED
        BY <1>3, <3>2, <3>3
    <2>2. Summary(p, Stop)
      BY <1>3, <1>4, <2>1, LabelChunkFacts
    <2>3. IF p.bad THEN Refuse("labels")
          ELSE /\ protocol' = IF Stop = Done THEN FinishBlock(p) ELSE p
               /\ pos' = IF Stop = Done THEN 0 ELSE Stop
               /\ phase' = IF Stop = Done THEN "welch" ELSE phase
               /\ UNCHANGED <<campaign, rows, damage, cache, job, sums, report>>
      BY <1>6 DEF ReadLabels
    <2> HIDE DEF p
    <2>4. CASE p.bad
      <3>1. PICK i \in 1 .. Stop - 1 : Row(i).block < Row(i - 1).block
        BY <2>2, <2>4 DEF Summary
      <3>2. i \in 1 .. Done - 1
        BY <1>3
      <3>3. damage # 0
        BY <1>1, <1>2, <3>1, <3>2, OwnBlocks
      <3>4. QED
        BY <2>3, <2>4, <3>3, RefuseKeeps
    <2>5. CASE ~p.bad
      <3>1. /\ protocol' = IF Stop = Done THEN FinishBlock(p) ELSE p
            /\ pos' = IF Stop = Done THEN 0 ELSE Stop
            /\ phase' = IF Stop = Done THEN "welch" ELSE "labels"
            /\ rows' = rows /\ damage' = damage /\ cache' = cache /\ job' = job /\ sums' = sums
            /\ report' = report /\ UNCHANGED campaign
        BY <1>1, <2>3, <2>5
      <3>2. StoreInv' /\ JobInv'
        <4>1. pos' \in 0 .. Done
          BY <1>3, <3>1
        <4>2. phase' \in {"labels", "welch"}
          BY <3>1
        <4>3. QED
          BY <1>2, <3>1, <4>1, <4>2, JobFrame
      <3>3. NoSums' = NoSums
        BY <3>1, CampaignFrame DEF NoSums, ZeroCurve
      <3>4. PassInv'
        <4>1. CASE Stop = Done
          <5>1. LabelsRead(FinishBlock(p))
            <6> DEFINE q == FinishBlock(p)
            <6>1. /\ Extremes(q.blocks, q.least, q.most, Done, BlocksOf(Done))
                  /\ q.count = p.count /\ q.even = p.even /\ q.blocks \in Nat
              BY <1>3, <2>1, <2>2, <2>5, <4>1, FinishBlockFacts
            <6>2. /\ p.count \in [Group -> Nat] /\ p.even \in [Group -> Nat]
                  /\ \A g \in Group : /\ p.count[g] = Cardinality(Labelled(Done, g))
                                      /\ p.even[g] = Cardinality(EvenLabelled(Done, g))
              BY <2>2, <2>5, <4>1 DEF Summary
            <6> HIDE DEF q
            <6>3. LabelsRead(q)
              BY <2>1, <4>1, <6>1, <6>2 DEF LabelsRead
            <6>4. QED
              BY <6>3 DEF q
          <5>2. LabelsRead(protocol)'
            BY <3>1, <4>1, <5>1, LabelFrame
          <5>3. Direct(sums, pos)'
            BY <1>4, <3>1, <3>2, <3>3, <4>1, NothingCountedAfter
          <5>4. QED
            BY <3>1, <4>1, <5>2, <5>3 DEF PassInv
        <4>2. CASE Stop # Done
          <5>1. Summary(protocol, pos)'
            BY <2>2, <3>1, <4>2, LabelFrame
          <5>2. Usable(pos)'
            BY <2>1, <3>1, <4>2, RowFrame
          <5>3. QED
            BY <1>4, <2>5, <3>1, <3>3, <4>2, <5>1, <5>2 DEF PassInv
        <4>3. QED
          BY <4>1, <4>2
      <3>5. ReportInv'
        BY <1>1, <3>1 DEF ReportInv, OwnCampaignAccepted
      <3>6. QED
        BY <3>2, <3>4, <3>5 DEF CampaignInv
    <2>6. QED
      BY <2>4, <2>5
  <1>7. QED
    BY <1>5, <1>6

\* The rows an analysis has read after a chunk are those before it and those of the chunk.
LEMMA ReadGrows ==
  ASSUME StoreInv, JobInv, pos < Done, NEW g \in Group
  PROVE  /\ Read(pos, g) \in SUBSET (0 .. Done - 1)
         /\ Of(g) \in SUBSET (0 .. Done - 1) /\ Selected \in SUBSET (0 .. Done - 1)
         /\ job.kind = "tvla" => /\ Read(pos, g) \cap Of(g) = {}
                                 /\ Read(Stop, g) = Read(pos, g) \cup Of(g)
         /\ (job.kind # "tvla" /\ g = 1) => /\ Read(pos, g) \cap Selected = {}
                                            /\ Read(Stop, g) = Read(pos, g) \cup Selected
         /\ (job.kind # "tvla" /\ g # 1) => Read(Stop, g) = Read(pos, g)
  <1>1. pos \in Nat /\ Stop \in Nat /\ pos < Stop /\ Stop <= Done /\ Done \in Nat
    BY StopFacts
  <1>2. /\ 0 .. Stop - 1 = (0 .. pos - 1) \cup (pos .. Stop - 1)
        /\ (0 .. pos - 1) \cap (pos .. Stop - 1) = {}
        /\ (0 .. pos - 1) \subseteq 0 .. Done - 1 /\ (pos .. Stop - 1) \subseteq 0 .. Done - 1
    BY <1>1
  <1>3. /\ Read(pos, g) \subseteq 0 .. pos - 1 /\ Of(g) \subseteq pos .. Stop - 1
        /\ Selected \subseteq pos .. Stop - 1
    BY DEF Read, Of, Selected
  <1>4. ASSUME job.kind = "tvla" PROVE Read(Stop, g) = Read(pos, g) \cup Of(g)
    BY <1>2, <1>4 DEF Read, Of
  <1>5. ASSUME job.kind # "tvla", g = 1 PROVE Read(Stop, g) = Read(pos, g) \cup Selected
    <2>1. CASE plan.tvla
      <3>1. Selected = {i \in pos .. Stop - 1 : Row(i).label = 1}
        BY <2>1 DEF Selected, Of
      <3>2. Read(Stop, g) = {i \in 0 .. Stop - 1 : Row(i).label = 1}
            /\ Read(pos, g) = {i \in 0 .. pos - 1 : Row(i).label = 1}
        BY <1>5, <2>1 DEF Read
      <3>3. QED
        BY <1>2, <3>1, <3>2
    <2>2. CASE ~plan.tvla
      <3>1. Selected = pos .. Stop - 1
        BY <2>2 DEF Selected
      <3>2. Read(Stop, g) = 0 .. Stop - 1 /\ Read(pos, g) = 0 .. pos - 1
        BY <1>5, <2>2 DEF Read
      <3>3. QED
        BY <1>2, <3>1, <3>2
    <2>3. QED
      BY <2>1, <2>2
  <1>6. ASSUME job.kind # "tvla", g # 1 PROVE Read(Stop, g) = Read(pos, g)
    BY <1>6 DEF Read
  <1>7. QED
    BY <1>2, <1>3, <1>4, <1>5, <1>6

\* Nothing is added to the other group.
LEMMA OtherGroup ==
  ASSUME NEW u, NEW v, NEW h, NEW R, NEW W, DirectOver(u, h, R, W),
         v.count[h] = u.count[h], v.sum[h] = u.sum[h], v.square[h] = u.square[h]
  PROVE  DirectOver(v, h, R, W)
  BY DEF DirectOver

LEMMA ReadWaveformsKeeps ==
  ASSUME CampaignInv, ReadWaveforms PROVE CampaignInv'
  <1>1. StoreInv /\ JobInv /\ PassInv /\ ReportInv /\ phase = "welch" /\ pos < Done
    BY DEF CampaignInv, ReadWaveforms
  <1>2. job.kind = "tvla" /\ 0 \in Group /\ 1 \in Group /\ \A g \in Group : g = 0 \/ g = 1
    BY <1>1 DEF JobInv, Group
  <1>3. pos \in Nat /\ Stop \in Nat /\ pos < Stop /\ Stop <= Done /\ Done \in Nat
    BY <1>1, StopFacts
  <1>4. Direct(sums, pos) /\ LabelsRead(protocol)
    BY <1>1, <1>2 DEF PassInv
  <1>5. Recorded /\ Samples \in Nat
    BY <1>1, StoreFacts
  <1>6. Inside = 1 .. Samples
    BY <1>2 DEF Inside
  <1> DEFINE u == Added(sums, 0, Of(0))
             v == Added(u, 1, Of(1))
  <1>7. SumsTyped(sums) /\ DirectOver(sums, 0, Read(pos, 0), Inside)
        /\ DirectOver(sums, 1, Read(pos, 1), Inside)
    BY <1>2, <1>4 DEF Direct
  <1>8. /\ Read(pos, 0) \in SUBSET (0 .. Done - 1) /\ Of(0) \in SUBSET (0 .. Done - 1)
        /\ Read(pos, 0) \cap Of(0) = {} /\ Read(Stop, 0) = Read(pos, 0) \cup Of(0)
    BY <1>1, <1>2, ReadGrows
  <1>9. /\ Read(pos, 1) \in SUBSET (0 .. Done - 1) /\ Of(1) \in SUBSET (0 .. Done - 1)
        /\ Read(pos, 1) \cap Of(1) = {} /\ Read(Stop, 1) = Read(pos, 1) \cup Of(1)
    BY <1>1, <1>2, ReadGrows
  <1>10. /\ SumsTyped(u) /\ DirectOver(u, 0, Read(Stop, 0), Inside)
         /\ u.count[1] = sums.count[1] /\ u.sum[1] = sums.sum[1] /\ u.square[1] = sums.square[1]
    <2>1. NewRows(Read(pos, 0), Of(0), Inside)
      BY <1>6, <1>8 DEF NewRows
    <2>2. /\ SumsTyped(u) /\ DirectOver(u, 0, Read(pos, 0) \cup Of(0), Inside)
          /\ OthersKept(sums, u, 0)
      BY <1>2, <1>3, <1>5, <1>7, <2>1, AddedFacts
    <2> HIDE DEF u
    <2>3. DirectOver(u, 0, Read(Stop, 0), Inside)
      BY <1>8, <2>2
    <2>4. u.count[1] = sums.count[1] /\ u.sum[1] = sums.sum[1] /\ u.square[1] = sums.square[1]
      <3>1. OthersKept(sums, u, 0) /\ 1 \in Group /\ 1 # 0
        BY <1>2, <2>2
      <3>2. QED
        BY <3>1 DEF OthersKept
    <2>5. QED
      BY <2>2, <2>3, <2>4
  <1> HIDE DEF u
  <1>11. DirectOver(u, 1, Read(pos, 1), Inside)
    BY <1>7, <1>10, OtherGroup
  <1>12. /\ SumsTyped(v) /\ DirectOver(v, 1, Read(Stop, 1), Inside)
         /\ v.count[0] = u.count[0] /\ v.sum[0] = u.sum[0] /\ v.square[0] = u.square[0]
    <2>1. NewRows(Read(pos, 1), Of(1), Inside)
      BY <1>6, <1>9 DEF NewRows
    <2>2. /\ SumsTyped(v) /\ DirectOver(v, 1, Read(pos, 1) \cup Of(1), Inside)
          /\ OthersKept(u, v, 1)
      BY <1>2, <1>3, <1>5, <1>10, <1>11, <2>1, AddedFacts
    <2> HIDE DEF v
    <2>3. DirectOver(v, 1, Read(Stop, 1), Inside)
      BY <1>9, <2>2
    <2>4. v.count[0] = u.count[0] /\ v.sum[0] = u.sum[0] /\ v.square[0] = u.square[0]
      <3>1. OthersKept(u, v, 1) /\ 0 \in Group /\ 0 # 1
        BY <1>2, <2>2
      <3>2. QED
        BY <3>1 DEF OthersKept
    <2>5. QED
      BY <2>2, <2>3, <2>4
  <1> HIDE DEF v
  <1>13. DirectOver(v, 0, Read(Stop, 0), Inside)
    BY <1>10, <1>12, OtherGroup
  <1>14. Direct(v, Stop)
    BY <1>2, <1>6, <1>12, <1>13 DEF Direct
  <1>15. /\ pos' = Stop /\ sums' = v /\ phase' = "welch" /\ rows' = rows /\ damage' = damage
         /\ cache' = cache /\ job' = job /\ protocol' = protocol /\ report' = report
         /\ UNCHANGED campaign
    BY <1>1 DEF ReadWaveforms, u, v
  <1>16. StoreInv' /\ JobInv'
    BY <1>2, <1>3, <1>15, JobFrame
  <1>17. PassInv'
    <2>1. Direct(sums, pos)'
      BY <1>14, <1>15, SumsFrame
    <2>2. LabelsRead(protocol)'
      BY <1>4, <1>15, LabelFrame
    <2>3. QED
      BY <1>15, <2>1, <2>2 DEF PassInv
  <1>18. ReportInv'
    BY <1>1, <1>15 DEF ReportInv, OwnCampaignAccepted
  <1>19. QED
    BY <1>16, <1>17, <1>18 DEF CampaignInv

\* A chunk of a CPA adds the selected rows to group 1.
LEMMA CpaAdded ==
  ASSUME StoreInv, JobInv, pos < Done, job.kind # "tvla", Direct(sums, pos), NEW u,
         u = Added(sums, 1, Selected)
  PROVE  /\ SumsTyped(u) /\ DirectOver(u, 1, Read(Stop, 1), Inside)
         /\ DirectOver(u, 0, Read(Stop, 0), Inside)
         /\ u.sum[0] = sums.sum[0] /\ u.square[0] = sums.square[0]
  <1>1. pos \in Nat /\ Stop \in Nat /\ pos < Stop /\ Stop <= Done /\ Done \in Nat
    BY StopFacts
  <1>2. Recorded /\ Samples \in Nat /\ 0 \in Group /\ 1 \in Group /\ 0 # 1
    BY StoreFacts DEF Group
  <1>3. SumsTyped(sums) /\ DirectOver(sums, 0, Read(pos, 0), Inside)
        /\ DirectOver(sums, 1, Read(pos, 1), Inside)
    BY <1>2 DEF Direct
  <1>4. /\ Read(pos, 1) \in SUBSET (0 .. Done - 1) /\ Selected \in SUBSET (0 .. Done - 1)
        /\ Read(pos, 1) \cap Selected = {} /\ Read(Stop, 1) = Read(pos, 1) \cup Selected
    BY <1>2, ReadGrows
  <1>5. Read(Stop, 0) = Read(pos, 0)
    BY <1>2, ReadGrows
  <1>6. NewRows(Read(pos, 1), Selected, Inside)
    BY <1>4 DEF NewRows, Inside
  <1>7. /\ SumsTyped(u) /\ DirectOver(u, 1, Read(pos, 1) \cup Selected, Inside)
        /\ OthersKept(sums, u, 1)
    BY <1>1, <1>2, <1>3, <1>6, AddedFacts
  <1>8. DirectOver(u, 1, Read(Stop, 1), Inside)
    BY <1>4, <1>7
  <1>9. u.count[0] = sums.count[0] /\ u.sum[0] = sums.sum[0] /\ u.square[0] = sums.square[0]
    BY <1>2, <1>7 DEF OthersKept
  <1>10. DirectOver(u, 0, Read(pos, 0), Inside)
    BY <1>3, <1>9, OtherGroup
  <1>11. QED
    BY <1>5, <1>7, <1>8, <1>9, <1>10

\* What a pass of a CPA does to the invariant.
LEMMA CpaKeeps ==
  ASSUME CampaignInv, phase = "correlate", pos < Done, NEW u, Direct(u, Stop),
         pos' = Stop, sums' = u,
         UNCHANGED <<campaign, rows, damage, cache, phase, job, protocol, report>>
  PROVE  CampaignInv'
  <1>1. StoreInv /\ JobInv /\ PassInv /\ ReportInv
    BY DEF CampaignInv
  <1>2. job.kind \in {"aes", "aead"}
    BY <1>1 DEF JobInv
  <1>3. pos \in Nat /\ Stop \in Nat /\ pos < Stop /\ Stop <= Done /\ Done \in Nat
    BY <1>1, StopFacts
  <1>4. StoreInv' /\ JobInv'
    BY <1>2, <1>3, JobFrame
  <1>5. PassInv'
    <2>1. Direct(sums, pos)'
      BY SumsFrame
    <2>2. QED
      BY <2>1 DEF PassInv
  <1>6. ReportInv'
    BY <1>1 DEF ReportInv, OwnCampaignAccepted
  <1>7. QED
    BY <1>4, <1>5, <1>6 DEF CampaignInv

LEMMA CorrelateAesKeeps ==
  ASSUME CampaignInv, CorrelateAes PROVE CampaignInv'
  <1> DEFINE u == Added(sums, 1, Selected)
  <1>1. /\ StoreInv /\ JobInv /\ PassInv /\ phase = "correlate" /\ job.kind = "aes" /\ pos < Done
        /\ pos' = Stop /\ sums' = u
        /\ UNCHANGED <<campaign, rows, damage, cache, phase, job, protocol, report>>
    BY DEF CampaignInv, CorrelateAes
  <1>2. Direct(sums, pos)
    BY <1>1 DEF PassInv
  <1> HIDE DEF u
  <1>3. SumsTyped(u) /\ DirectOver(u, 1, Read(Stop, 1), Inside)
        /\ DirectOver(u, 0, Read(Stop, 0), Inside)
    BY <1>1, <1>2, CpaAdded DEF u
  <1>4. Inside = 1 .. Samples /\ \A g \in Group : g = 0 \/ g = 1
    BY <1>1 DEF Inside, Group
  <1>5. Direct(u, Stop)
    BY <1>3, <1>4 DEF Direct
  <1>6. QED
    BY <1>1, <1>5, CpaKeeps

LEMMA CorrelateAeadKeeps ==
  ASSUME CampaignInv, CorrelateAead PROVE CampaignInv'
  <1> DEFINE u == Added(sums, 1, Selected)
             low == Windowed(u.sum[1])
             lowSquare == Windowed(u.square[1])
             v == [count |-> u.count, sum |-> [u.sum EXCEPT ![1] = low],
                   square |-> [u.square EXCEPT ![1] = lowSquare]]
  <1>1. /\ StoreInv /\ JobInv /\ PassInv /\ phase = "correlate" /\ job.kind = "aead" /\ pos < Done
        /\ pos' = Stop
        /\ UNCHANGED <<campaign, rows, damage, cache, phase, job, protocol, report>>
    BY DEF CampaignInv, CorrelateAead
  <1>2. Direct(sums, pos)
    BY <1>1 DEF PassInv
  <1>3. SumsTyped(u) /\ DirectOver(u, 1, Read(Stop, 1), Inside)
        /\ DirectOver(u, 0, Read(Stop, 0), Inside)
        /\ u.sum[0] = sums.sum[0] /\ u.square[0] = sums.square[0]
    <2> HIDE DEF u
    <2>1. QED
      BY <1>1, <1>2, CpaAdded DEF u
  <1>4. sums' = v
    <2>1. sums' = [count |-> u.count, sum |-> [u.sum EXCEPT ![1] = Windowed(@)],
                   square |-> [u.square EXCEPT ![1] = Windowed(@)]]
      BY DEF CorrelateAead
    <2>2. u.sum \in [Group -> [1 .. Samples -> Int]] /\ u.square \in [Group -> [1 .. Samples -> Int]]
          /\ 1 \in Group
      BY <1>3 DEF SumsTyped, Group
    <2> HIDE DEF u
    <2>3. [u.sum EXCEPT ![1] = Windowed(@)] = [u.sum EXCEPT ![1] = low]
          /\ [u.square EXCEPT ![1] = Windowed(@)] = [u.square EXCEPT ![1] = lowSquare]
      BY <2>2
    <2>4. QED
      BY <2>1, <2>3
  <1> HIDE DEF u
  <1>5. \A g \in Group : g = 0 \/ g = 1
    BY DEF Group
  <1>6. /\ u.count \in [Group -> Nat] /\ u.sum \in [Group -> [1 .. Samples -> Int]]
        /\ u.square \in [Group -> [1 .. Samples -> Int]] /\ 0 \in Group /\ 1 \in Group
    BY <1>3 DEF SumsTyped, Group
  <1>7. /\ \A s \in 1 .. Samples : low[s] = IF s \in Inside THEN u.sum[1][s] ELSE 0
        /\ \A s \in 1 .. Samples : lowSquare[s] = IF s \in Inside THEN u.square[1][s] ELSE 0
        /\ low \in [1 .. Samples -> Int] /\ lowSquare \in [1 .. Samples -> Int]
    <2>1. \A s \in 1 .. Samples : s \in Inside <=> s - 1 \in ModelWindow(dataset, Samples)
      BY <1>1 DEF Inside
    <2>2. \A s \in 1 .. Samples : u.sum[1][s] \in Int /\ u.square[1][s] \in Int
      BY <1>6
    <2>3. /\ low = [s \in 1 .. Samples |->
                      IF s - 1 \in ModelWindow(dataset, Samples) THEN u.sum[1][s] ELSE 0]
          /\ lowSquare = [s \in 1 .. Samples |->
                            IF s - 1 \in ModelWindow(dataset, Samples) THEN u.square[1][s] ELSE 0]
      BY DEF Windowed
    <2> HIDE DEF low, lowSquare
    <2>4. QED
      BY <2>1, <2>2, <2>3
  <1> HIDE DEF low, lowSquare
  <1>8. /\ v.count = u.count /\ v.sum[0] = u.sum[0] /\ v.square[0] = u.square[0]
        /\ v.sum[1] = low /\ v.square[1] = lowSquare /\ SumsTyped(v)
    BY <1>6, <1>7 DEF SumsTyped
  <1> HIDE DEF v
  <1>9. DirectOver(v, 0, Read(Stop, 0), Inside)
    BY <1>3, <1>8, OtherGroup
  <1>10. DirectOver(v, 1, Read(Stop, 1), Inside)
    <2>1. \A s \in Inside : s \in 1 .. Samples
      BY DEF Inside
    <2>2. QED
      BY <1>3, <1>7, <1>8, <2>1 DEF DirectOver
  <1>11. \A s \in 1 .. Samples : s \notin Inside => v.sum[0][s] = 0 /\ v.square[0][s] = 0
    BY <1>2, <1>3, <1>6, <1>8 DEF Direct
  <1>12. \A s \in 1 .. Samples : s \notin Inside => v.sum[1][s] = 0 /\ v.square[1][s] = 0
    BY <1>7, <1>8
  <1>13. Direct(v, Stop)
    <2>1. ASSUME NEW g \in Group
          PROVE  /\ DirectOver(v, g, Read(Stop, g), Inside)
                 /\ \A s \in 1 .. Samples : s \notin Inside => v.sum[g][s] = 0 /\ v.square[g][s] = 0
      <3>1. CASE g = 0
        BY <1>9, <1>11, <3>1
      <3>2. CASE g = 1
        BY <1>10, <1>12, <3>2
      <3>3. QED
        BY <1>5, <3>1, <3>2
    <2>2. QED
      BY <1>8, <2>1 DEF Direct
  <1>14. QED
    BY <1>1, <1>4, <1>13, CpaKeeps

\* Of a finished campaign that nobody touched, every block is half fixed.
LEMMA HalfShare ==
  ASSUME StoreInv, damage = 0, plan.tvla, Done = N, NEW b \in BlocksOf(N)
  PROVE  /\ Share(N, b)[1] \in Nat \ {0} /\ Share(N, b)[2] = 2 * Share(N, b)[1]
         /\ Share(N, b) \in Int \X (Nat \ {0})
  <1>1. N \in Nat \ {0} /\ Planned /\ Width \in Nat \ {0, 1}
    BY StoreFacts, PlanFacts DEF StoreInv
  <1>2. \A i \in 0 .. N - 1 : /\ Row(i).block = ScheduledBlock(i)
                              /\ Row(i).label = ScheduledLabel(i)
    BY InputFacts
  <1>3. PICK i \in 0 .. N - 1 : b = ScheduledBlock(i)
    BY <1>2 DEF BlocksOf
  <1> DEFINE w == Width
  <1>4. b \in Nat /\ w * b < N
    <2>1. b = i \div w /\ b \in Nat /\ i \in Nat /\ w \in Nat \ {0}
      BY <1>1, <1>3, GeneratorFacts
    <2> HIDE DEF w
    <2>2. \A c \in Nat : (i \div w = c) <=> (w * c <= i /\ i < w * c + w)
      BY <2>1, Division, Zenon
    <2>3. w * b <= i
      BY <2>1, <2>2, Zenon
    <2>4. w * b \in Int
      BY <2>1
    <2>5. QED
      BY <1>1, <2>1, <2>3, <2>4
  <1> DEFINE lo == w * b
             hi == BlockEnd(b)
  <1>5. /\ lo \in Nat /\ hi \in Nat /\ lo < hi /\ hi <= N
        /\ {j \in 0 .. N - 1 : ScheduledBlock(j) = b} = lo .. hi - 1
    BY <1>1, <1>4, BlockIsInterval
  <1>6. 2 * Cardinality(FixedRows(lo, hi)) = hi - lo
    BY <1>1, <1>4, HalfOfBlock
  <1> HIDE DEF w, lo, hi
  <1>7. InBlock(N, b) = lo .. hi - 1
    BY <1>2, <1>5 DEF InBlock
  <1>8. FixedInBlock(N, b) = FixedRows(lo, hi)
    <2>1. FixedInBlock(N, b) = {j \in InBlock(N, b) : Row(j).label = 0}
      BY DEF FixedInBlock, InBlock
    <2>2. \A j \in lo .. hi - 1 : j \in 0 .. N - 1
      BY <1>1, <1>5
    <2>3. QED
      BY <1>2, <1>7, <2>1, <2>2 DEF FixedRows
  <1>9. Cardinality(lo .. hi - 1) = hi - lo
    <2>1. lo \in Int /\ hi - 1 \in Int
      BY <1>5
    <2>2. Cardinality(lo .. hi - 1) = IF lo > hi - 1 THEN 0 ELSE (hi - 1) - lo + 1
      BY <2>1, FS_Interval
    <2>3. QED
      BY <1>5, <2>2
  <1>10. Share(N, b)[1] = Cardinality(FixedRows(lo, hi)) /\ Share(N, b)[2] = hi - lo
    BY <1>7, <1>8, <1>9 DEF Share
  <1>11. Share(N, b) \in Int \X (Nat \ {0}) /\ Share(N, b)[1] \in Nat
    BY <1>1, ShareFacts
  <1> DEFINE h == Share(N, b)[1]
  <1>12. 2 * h = hi - lo /\ h \in Nat
    BY <1>6, <1>10, <1>11
  <1> HIDE DEF h
  <1>13. h # 0
    BY <1>5, <1>12
  <1>14. QED
    BY <1>6, <1>10, <1>11, <1>13 DEF h

\* An untouched finished campaign is what was requested.
LEMMA OwnRequest ==
  ASSUME StoreInv, JobInv, job.kind = "tvla", LabelsRead(protocol), Direct(sums, Done),
         damage = 0, Done = N
  PROVE  CompleteAsRequested
  <1>1. N \in Nat \ {0} /\ Planned /\ plan.tvla
    BY StoreFacts DEF StoreInv, JobInv
  <1>2. \A i \in 0 .. N - 1 : /\ Row(i).label = ScheduledLabel(i) /\ Row(i).label \in Group
                              /\ Row(i).input = FixedInput <=> Row(i).label = 0
    BY <1>1, InputFacts
  <1>3. /\ sums.count[0] = Cardinality(Read(N, 0)) /\ sums.count[1] = Cardinality(Read(N, 1))
    BY DEF Direct, DirectOver, Group
  <1>4. \A g : Read(N, g) = {i \in 0 .. N - 1 : Row(i).label = g}
    BY DEF Read
  <1>5. Read(N, 0) = FixedRows(0, N)
    BY <1>2, <1>4 DEF FixedRows
  <1>6. 2 * sums.count[0] = N
    BY <1>1, <1>3, <1>5, HalfOfCampaign
  <1>7. Read(N, 0) \cup Read(N, 1) = 0 .. N - 1 /\ Read(N, 0) \cap Read(N, 1) = {}
    BY <1>2, <1>4 DEF Group
  <1>8. sums.count[0] + sums.count[1] = N /\ sums.count[0] \in Nat /\ sums.count[1] \in Nat
    <2>1. IsFiniteSet(Read(N, 0)) /\ IsFiniteSet(Read(N, 1))
      BY <1>1, <1>7, RowsFinite
    <2>2. /\ Cardinality(Read(N, 0) \cup Read(N, 1))
               = Cardinality(Read(N, 0)) + Cardinality(Read(N, 1))
          /\ Cardinality(Read(N, 0)) \in Nat /\ Cardinality(Read(N, 1)) \in Nat
      BY <1>7, <2>1, CountParts
    <2>3. Cardinality(0 .. N - 1) = N
      <3>1. 0 \in Int /\ N - 1 \in Int
        BY <1>1
      <3>2. Cardinality(0 .. N - 1) = IF 0 > N - 1 THEN 0 ELSE (N - 1) - 0 + 1
        BY <3>1, FS_Interval
      <3>3. QED
        BY <1>1, <3>2
    <2>4. QED
      BY <1>3, <1>7, <2>2, <2>3
  <1>9. \A g \in Group : sums.count[g] = N \div 2
    <2>1. sums.count[0] = N \div 2 /\ sums.count[1] = N \div 2
      BY <1>1, <1>6, <1>8
    <2>2. QED
      BY <2>1 DEF Group
  <1>10. /\ protocol.least \in Int \X (Nat \ {0}) /\ protocol.most \in Int \X (Nat \ {0})
         /\ \A b \in BlocksOf(N) : ~Less(Share(N, b), protocol.least)
                                   /\ ~Less(protocol.most, Share(N, b))
         /\ BlocksOf(N) # {} => /\ \E b \in BlocksOf(N) : ~Less(protocol.least, Share(N, b))
                                /\ \E b \in BlocksOf(N) : ~Less(Share(N, b), protocol.most)
    BY DEF LabelsRead, Extremes
  <1>11. BlocksOf(N) # {}
    <2>1. 0 \in 0 .. N - 1
      BY <1>1
    <2>2. QED
      BY <2>1 DEF BlocksOf
  <1>12. ASSUME NEW f \in Int \X (Nat \ {0}), NEW g \in Int \X (Nat \ {0}),
                ~Less(f, g), ~Less(g, f), g[1] \in Nat \ {0}, g[2] = 2 * g[1]
         PROVE  f[1] * 2 = f[2]
    <2> DEFINE x == f[1]
               y == f[2]
               h == g[1]
    <2>1. x \in Int /\ y \in Nat \ {0} /\ h \in Nat \ {0} /\ g[2] = 2 * h
      BY <1>12
    <2>2. ~(x * (2 * h) < h * y) /\ ~(h * y < x * (2 * h))
      BY <1>12 DEF Less
    <2> HIDE DEF x, y, h
    <2>3. x * (2 * h) = h * y
      BY <2>1, <2>2
    <2>4. h * (2 * x - y) = 0
      BY <2>1, <2>3
    <2>5. 2 * x - y = 0
      <3> DEFINE d == 2 * x - y
      <3>1. d \in Int /\ h * d = 0
        BY <2>1, <2>4
      <3> HIDE DEF d
      <3>2. d = 0
        BY <2>1, <3>1
      <3>3. QED
        BY <3>2 DEF d
    <2>6. x * 2 = y
      BY <2>1, <2>5
    <2>7. QED
      BY <2>6 DEF x, y
  <1>13. \A b \in BlocksOf(N) : /\ Share(N, b)[1] \in Nat \ {0} /\ Share(N, b)[2] = 2 * Share(N, b)[1]
                                /\ Share(N, b) \in Int \X (Nat \ {0})
    BY <1>1, HalfShare
  <1>14. protocol.least[1] * 2 = protocol.least[2]
    <2>1. PICK b \in BlocksOf(N) : ~Less(protocol.least, Share(N, b))
      BY <1>10, <1>11
    <2> DEFINE f == protocol.least
               g == Share(N, b)
    <2>2. f \in Int \X (Nat \ {0}) /\ g \in Int \X (Nat \ {0}) /\ ~Less(f, g) /\ ~Less(g, f)
          /\ g[1] \in Nat \ {0} /\ g[2] = 2 * g[1]
      BY <1>10, <1>13, <2>1
    <2> HIDE DEF f, g
    <2>3. f[1] * 2 = f[2]
      BY <1>12, <2>2
    <2>4. QED
      BY <2>3 DEF f
  <1>15. protocol.most[1] * 2 = protocol.most[2]
    <2>1. PICK b \in BlocksOf(N) : ~Less(Share(N, b), protocol.most)
      BY <1>10, <1>11
    <2> DEFINE f == protocol.most
               g == Share(N, b)
    <2>2. f \in Int \X (Nat \ {0}) /\ g \in Int \X (Nat \ {0}) /\ ~Less(f, g) /\ ~Less(g, f)
          /\ g[1] \in Nat \ {0} /\ g[2] = 2 * g[1]
      BY <1>10, <1>13, <2>1
    <2> HIDE DEF f, g
    <2>3. f[1] * 2 = f[2]
      BY <1>12, <2>2
    <2>4. QED
      BY <2>3 DEF f
  <1>16. QED
    BY <1>2, <1>9, <1>14, <1>15 DEF CompleteAsRequested

\* What is reported does not depend on the step that reports it.
LEMMA VerdictFrame ==
  ASSUME UNCHANGED <<campaign, rows, protocol, sums>>
  PROVE  /\ Curve' = Curve /\ (CompleteAsRequested' <=> CompleteAsRequested)
         /\ (Confounded' <=> Confounded)
         /\ \A peak : Interpretation(peak)' = Interpretation(peak)
  <1> rows' = rows /\ plan' = plan /\ sums' = sums /\ protocol' = protocol /\ UNCHANGED campaign
    BY DEF campaign
  <1>1. Done' = Done /\ (\A i : Row(i)' = Row(i)) /\ Samples' = Samples /\ N' = N
    BY RowFrame, CampaignFrame
  <1>2. Curve' = Curve
    BY <1>1 DEF Curve
  <1>3. CompleteAsRequested' <=> CompleteAsRequested
    BY <1>1 DEF CompleteAsRequested
  <1>4. Confounded' <=> Confounded
    BY DEF Confounded
  <1>5. \A peak : Interpretation(peak)' = Interpretation(peak)
    BY <1>4 DEF Interpretation
  <1>6. QED
    BY <1>2, <1>3, <1>4, <1>5

\* A report that says nothing of the schedule.
LEMMA ReportKeeps ==
  ASSUME CampaignInv, phase' = "reported", pos = Done, job.kind # "none",
         phase \in {"welch", "correlate"},
         UNCHANGED <<campaign, rows, damage, cache, job, pos, protocol, sums>>
  PROVE  StoreInv' /\ JobInv' /\ PassInv'
  <1>1. StoreInv /\ JobInv /\ PassInv
    BY DEF CampaignInv
  <1>2. Done \in Nat
    BY <1>1, StoreFacts
  <1>3. StoreInv' /\ JobInv'
    BY <1>2, JobFrame
  <1>4. phase = "welch" <=> job.kind = "tvla"
    BY <1>1 DEF JobInv
  <1>5. PassInv'
    <2>1. Direct(sums, pos)'
      <3>1. Direct(sums, pos)
        BY <1>1 DEF PassInv
      <3>2. QED
        BY <3>1, SumsFrame
    <2>2. job.kind = "tvla" => LabelsRead(protocol)'
      <3>1. job.kind = "tvla" => LabelsRead(protocol)
        BY <1>1, <1>4 DEF PassInv
      <3>2. QED
        BY <3>1, LabelFrame
    <2>3. QED
      BY <2>1, <2>2 DEF PassInv
  <1>6. QED
    BY <1>3, <1>5

LEMMA VerdictKeeps ==
  ASSUME CampaignInv, Verdict PROVE CampaignInv'
  <1>1. StoreInv /\ JobInv /\ PassInv /\ ReportInv /\ phase = "welch" /\ pos = Done
    BY DEF CampaignInv, Verdict
  <1>2. job.kind = "tvla" /\ LabelsRead(protocol) /\ Direct(sums, Done)
    BY <1>1 DEF JobInv, PassInv
  <1>3. CASE \E g \in Group : sums.count[g] < 2
    <2>1. Refuse("rows")
      BY <1>3 DEF Verdict
    <2>2. QED
      BY <2>1, RefuseKeeps
  <1>4. CASE ~(\E g \in Group : sums.count[g] < 2) /\ Done = N /\ ~CompleteAsRequested
    <2>1. Refuse("request")
      BY <1>4 DEF Verdict
    <2>2. damage # 0
      BY <1>1, <1>2, <1>4, OwnRequest
    <2>3. QED
      BY <2>1, <2>2, RefuseKeeps
  <1>5. CASE /\ ~(\E g \in Group : sums.count[g] < 2) /\ ~(Done = N /\ ~CompleteAsRequested)
             /\ \A s \in 1 .. Samples : Undefined(Curve[s])
    <2>1. Refuse("statistic")
      BY <1>5 DEF Verdict
    <2>2. QED
      BY <2>1, RefuseKeeps
  <1>6. CASE /\ ~(\E g \in Group : sums.count[g] < 2) /\ ~(Done = N /\ ~CompleteAsRequested)
             /\ ~(\A s \in 1 .. Samples : Undefined(Curve[s]))
    <2>1. /\ report' = [verdict |-> Interpretation(Curve[PeakOf(Curve)]),
                        peak |-> PeakOf(Curve),
                        at |-> CoordinateOf(dataset, Samples, PeakOf(Curve) - 1)]
          /\ phase' = "reported"
          /\ UNCHANGED <<campaign, rows, damage, cache, job, pos, protocol, sums>>
      BY <1>6 DEF Verdict
    <2>2. StoreInv' /\ JobInv' /\ PassInv'
      BY <1>1, <1>2, <2>1, ReportKeeps
    <2>3. /\ Done' = Done /\ N' = N /\ Samples' = Samples /\ Curve' = Curve
          /\ (CompleteAsRequested' <=> CompleteAsRequested) /\ dataset' = dataset
          /\ sums' = sums /\ damage' = damage
          /\ \A peak : Interpretation(peak)' = Interpretation(peak)
      BY <2>1, RowFrame, CampaignFrame, VerdictFrame DEF campaign
    <2>4. \A g \in Group : sums.count[g] >= 2
      <3>1. \A g \in Group : sums.count[g] \in Nat
        BY <1>2 DEF Direct, SumsTyped
      <3>2. QED
        BY <1>6, <3>1
    <2>5. TvlaReport'
      <3>1. \A g \in Group : sums'.count[g] >= 2
        BY <2>3, <2>4
      <3>2. Done' = N' => CompleteAsRequested'
        BY <1>6, <2>3
      <3>3. \E s \in 1 .. Samples' : ~Undefined(Curve'[s])
        BY <1>6, <2>3
      <3>4. report' = [verdict |-> Interpretation(Curve[PeakOf(Curve)])',
                       peak |-> PeakOf(Curve'),
                       at |-> CoordinateOf(dataset', Samples', PeakOf(Curve') - 1)]
        BY <2>1, <2>3
      <3>5. QED
        BY <3>1, <3>2, <3>3, <3>4 DEF TvlaReport
    <2>6. OwnCampaignAccepted'
      <3>1. report'.verdict \in {"confounded", "detected", "quiet"}
        BY <2>1 DEF Interpretation
      <3>2. QED
        BY <3>1 DEF OwnCampaignAccepted
    <2>7. ReportInv'
      BY <1>2, <2>1, <2>5, <2>6 DEF ReportInv
    <2>8. QED
      BY <2>2, <2>7 DEF CampaignInv
  <1>7. QED
    BY <1>3, <1>4, <1>5, <1>6

\* Scores that are reported.
LEMMA ScoredKeeps ==
  ASSUME CampaignInv, phase = "correlate", pos = Done, NEW scores \in Scores,
         NEW verdict \in {"recovered", "ranked"}, Scored(scores, verdict),
         verdict = "recovered" => Informative(scores) /\ GuessOf(scores) = Truth
  PROVE  CampaignInv'
  <1>1. StoreInv /\ JobInv /\ job.kind \in {"aes", "aead"}
    BY DEF CampaignInv, JobInv
  <1>2. /\ phase' = "reported"
        /\ report' = [verdict |-> verdict, rank |-> RankOf(scores, Truth), scores |-> scores]
        /\ UNCHANGED <<campaign, rows, damage, cache, job, pos, protocol, sums>>
    BY DEF Scored
  <1>3. StoreInv' /\ JobInv' /\ PassInv'
    BY <1>1, <1>2, ReportKeeps
  <1>4. CpaReport'
    BY <1>2 DEF CpaReport
  <1>5. OwnCampaignAccepted'
    BY <1>2 DEF OwnCampaignAccepted
  <1>6. ReportInv'
    BY <1>1, <1>2, <1>4, <1>5 DEF ReportInv
  <1>7. QED
    BY <1>3, <1>6 DEF CampaignInv

LEMMA ScoreKeeps ==
  ASSUME CampaignInv, ScoreAes \/ ScoreAead PROVE CampaignInv'
  <1>1. phase = "correlate" /\ pos = Done
    BY DEF ScoreAes, ScoreAead
  <1>2. CASE ~Scorable
    <2>1. Refuse("variation")
      BY <1>2 DEF ScoreAes, ScoreAead
    <2>2. QED
      BY <2>1, RefuseKeeps
  <1>3. CASE Scorable
    <2>1. PICK scores \in Scores, verdict \in {"recovered", "ranked"} :
            /\ Scored(scores, verdict)
            /\ verdict = "recovered" => Informative(scores) /\ GuessOf(scores) = Truth
      <3>1. CASE ScoreAes
        <4>1. PICK scores \in Scores :
                Scored(scores, IF Informative(scores) /\ GuessOf(scores) = Truth
                               THEN "recovered" ELSE "ranked")
          BY <1>3, <3>1 DEF ScoreAes
        <4>2. CASE Informative(scores) /\ GuessOf(scores) = Truth
          <5>1. Scored(scores, "recovered")
            BY <4>1, <4>2
          <5>2. QED
            BY <4>2, <5>1
        <4>3. CASE ~(Informative(scores) /\ GuessOf(scores) = Truth)
          <5>1. Scored(scores, "ranked")
            BY <4>1, <4>3
          <5>2. QED
            BY <5>1
        <4>4. QED
          BY <4>2, <4>3
      <3>2. CASE ScoreAead
        <4>1. PICK scores \in Scores : Scored(scores, "ranked")
          BY <1>3, <3>2 DEF ScoreAead
        <4>2. QED
          BY <4>1
      <3>3. QED
        BY <3>1, <3>2
    <2>2. QED
      BY <1>1, <2>1, ScoredKeeps
  <1>4. QED
    BY <1>2, <1>3

LEMMA NextKeeps ==
  CampaignInv /\ [Next]_vars => CampaignInv'
  <1> SUFFICES ASSUME CampaignInv, [Next]_vars PROVE CampaignInv'
    OBVIOUS
  <1>1. CASE Session
    BY <1>1, OpenSessionKeeps, AppendRowKeeps, EndSessionKeeps, DamageKeeps DEF Session
  <1>2. CASE Analyse
    BY <1>2, StartKeeps, ReadLabelsKeeps, ReadWaveformsKeeps, VerdictKeeps, CorrelateAesKeeps,
       CorrelateAeadKeeps, ScoreKeeps DEF Analyse
  <1>3. CASE UNCHANGED vars
    <2>1. UNCHANGED <<campaign, rows, damage, cache, phase>> /\ UNCHANGED analysis
      BY <1>3 DEF vars
    <2>2. job' = job /\ pos' = pos /\ protocol' = protocol /\ sums' = sums /\ report' = report
      BY <2>1 DEF analysis
    <2>3. StoreInv /\ JobInv /\ PassInv /\ ReportInv
      BY DEF CampaignInv
    <2>4. StoreInv'
      BY <2>1, <2>3, StoreFrame DEF StoreInv
    <2>5. /\ Done' = Done /\ N' = N /\ Samples' = Samples /\ plan' = plan /\ dataset' = dataset
          /\ \A kind, variant : Startable(kind, variant)' <=> Startable(kind, variant)
      BY <2>1, RowFrame, CampaignFrame, StartFrame DEF campaign
    <2>6. NoSums' = NoSums /\ NoProtocol' = NoProtocol /\ NoJob' = NoJob /\ NoReport' = NoReport
      BY <2>5 DEF NoSums, ZeroCurve, NoProtocol, NoJob, NoReport
    <2>7. JobInv'
      BY <2>1, <2>2, <2>3, <2>5, <2>6 DEF JobInv
    <2>8. /\ \A u, n : Direct(u, n)' <=> Direct(u, n)
          /\ \A p, n : Summary(p, n)' <=> Summary(p, n)
          /\ \A p : LabelsRead(p)' <=> LabelsRead(p)
          /\ \A n : Usable(n)' <=> Usable(n)
      BY <2>1, <2>2, SumsFrame, LabelFrame, RowFrame
    <2>9. PassInv'
      BY <2>1, <2>2, <2>3, <2>6, <2>8 DEF PassInv
    <2>10. ReportInv'
      <3>1. /\ Curve' = Curve /\ (CompleteAsRequested' <=> CompleteAsRequested)
            /\ \A peak : Interpretation(peak)' = Interpretation(peak)
        BY <2>1, <2>2, VerdictFrame
      <3>2. TvlaReport' <=> TvlaReport
        BY <2>2, <2>5, <3>1 DEF TvlaReport
      <3>3. CpaReport' <=> CpaReport
        BY <2>2 DEF CpaReport
      <3>4. OwnCampaignAccepted' <=> OwnCampaignAccepted
        BY <2>1, <2>2 DEF OwnCampaignAccepted
      <3>5. QED
        BY <2>1, <2>2, <2>3, <3>2, <3>3, <3>4 DEF ReportInv
    <2>11. QED
      BY <2>4, <2>7, <2>9, <2>10 DEF CampaignInv
  <1>4. QED
    BY <1>1, <1>2, <1>3 DEF Next

\* The inductive invariant holds in every reachable state.
THEOREM CampaignInvariant ==
  Spec => []CampaignInv
  BY InitKeeps, NextKeeps, PTL DEF Spec

-----------------------------------------------------------------------------
(* Labels are true.                                                        *)

LEMMA InvTypes ==
  CampaignInv => TypeOK
  <1> SUFFICES ASSUME CampaignInv PROVE TypeOK
    OBVIOUS
  <1>1. StoreInv /\ JobInv
    BY DEF CampaignInv
  <1>2. \A i \in 0 .. Done - 1 : Row(i).input \in {FixedInput, RandomInput(i)}
    BY <1>1, InputFacts
  <1>3. QED
    BY <1>1, <1>2 DEF TypeOK, StoreInv, JobInv, Planned

LEMMA InvBalanced ==
  CampaignInv => BalancedCampaign
  <1> SUFFICES ASSUME CampaignInv, plan.tvla PROVE BalancedCampaign
    BY DEF BalancedCampaign
  <1>1. StoreInv /\ Planned /\ N \in Nat \ {0} /\ Done \in Nat
    BY StoreFacts DEF CampaignInv, StoreInv
  <1>2. \A i \in 0 .. Done - 1 : Row(i).input = FixedInput <=> ScheduledLabel(i) = 0
    BY <1>1, InputFacts
  <1>3. ASSUME NEW b \in {ScheduledBlock(i) : i \in 0 .. N - 1}, NEW members,
               members = {i \in 0 .. N - 1 : ScheduledBlock(i) = b}, \A i \in members : i < Done
        PROVE  2 * Cardinality({i \in members : Row(i).input = FixedInput}) = Cardinality(members)
    <2> DEFINE w == Width
               lo == w * b
               hi == BlockEnd(b)
    <2>1. PICK i \in 0 .. N - 1 : b = ScheduledBlock(i)
      BY <1>3
    <2>2. b \in Nat /\ lo < N
      <3>1. b = i \div w /\ b \in Nat /\ i \in Nat /\ w \in Nat \ {0}
        BY <1>1, <2>1, GeneratorFacts, PlanFacts
      <3> DEFINE v == w
      <3>2. v \in Nat \ {0} /\ b = i \div v
        BY <3>1
      <3> HIDE DEF v
      <3>3. \A c \in Nat : (i \div v = c) <=> (v * c <= i /\ i < v * c + v)
        BY <3>1, <3>2, Division, Zenon
      <3>4. v * b <= i
        BY <3>1, <3>2, <3>3, Zenon
      <3>5. v * b \in Int
        BY <3>1, <3>2
      <3>6. v * b < N
        BY <1>1, <3>1, <3>4, <3>5
      <3>7. QED
        BY <3>1, <3>6 DEF v
    <2>3. /\ lo \in Nat /\ hi \in Nat /\ lo < hi /\ hi <= N /\ members = lo .. hi - 1
      BY <1>1, <1>3, <2>2, BlockIsInterval
    <2>4. 2 * Cardinality(FixedRows(lo, hi)) = hi - lo
      BY <1>1, <2>2, HalfOfBlock
    <2> HIDE DEF w, lo, hi
    <2>5. \A k \in lo .. hi - 1 : k \in 0 .. Done - 1
      BY <1>1, <1>3, <2>3
    <2>6. {k \in members : Row(k).input = FixedInput} = FixedRows(lo, hi)
      BY <1>2, <2>3, <2>5 DEF FixedRows
    <2>7. Cardinality(lo .. hi - 1) = hi - lo
      <3>1. lo \in Int /\ hi - 1 \in Int
        BY <2>3
      <3>2. Cardinality(lo .. hi - 1) = IF lo > hi - 1 THEN 0 ELSE (hi - 1) - lo + 1
        BY <3>1, FS_Interval
      <3>3. QED
        BY <2>3, <3>2
    <2>8. QED
      BY <2>3, <2>4, <2>6, <2>7
  <1>4. QED
    BY <1>2, <1>3 DEF BalancedCampaign

LEMMA InvLabels ==
  CampaignInv => ReportedLabelsAreTrue
  <1> SUFFICES ASSUME CampaignInv, phase = "reported", job.kind = "tvla", Done = N
               PROVE  ReportedLabelsAreTrue
    BY DEF ReportedLabelsAreTrue
  <1>1. StoreInv /\ JobInv /\ PassInv /\ TvlaReport
    BY DEF CampaignInv, ReportInv
  <1>2. N \in Nat \ {0} /\ Planned /\ plan.tvla /\ pos = Done /\ Direct(sums, Done)
    BY <1>1, StoreFacts DEF StoreInv, JobInv, PassInv
  <1>3. CompleteAsRequested
    BY <1>1 DEF TvlaReport
  <1>4. /\ sums.count[0] = N \div 2
        /\ \A i \in 0 .. N - 1 : Row(i).label = 0 => Row(i).input = FixedInput
    BY <1>3 DEF CompleteAsRequested, Group
  <1>5. sums.count[0] = Cardinality(Read(N, 0)) /\ Read(N, 0) = {i \in 0 .. N - 1 : Row(i).label = 0}
    <2>1. sums.count[0] = Cardinality(Read(N, 0))
      BY <1>2 DEF Direct, DirectOver, Group
    <2>2. Read(N, 0) = {i \in 0 .. N - 1 : Row(i).label = 0}
      BY DEF Read
    <2>3. QED
      BY <2>1, <2>2
  <1>6. \A i \in 0 .. N - 1 : Row(i).input = FixedInput <=> ScheduledLabel(i) = 0
    BY <1>1, <1>2, InputFacts
  <1>7. FixedRows(0, N) = {i \in 0 .. N - 1 : Row(i).input = FixedInput}
    BY <1>6 DEF FixedRows
  <1>8. Read(N, 0) \in SUBSET FixedRows(0, N)
    BY <1>4, <1>5, <1>7
  <1>9. IsFiniteSet(FixedRows(0, N)) /\ Cardinality(FixedRows(0, N)) \in Nat
    BY <1>2, <1>7, RowsFinite
  <1>10. 2 * Cardinality(FixedRows(0, N)) = N
    BY <1>2, HalfOfCampaign
  <1>11. Cardinality(Read(N, 0)) = Cardinality(FixedRows(0, N))
    BY <1>2, <1>4, <1>5, <1>9, <1>10
  <1>12. Read(N, 0) = FixedRows(0, N)
    BY <1>8, <1>9, <1>11, FS_Subset
  <1>13. QED
    BY <1>5, <1>7, <1>12 DEF ReportedLabelsAreTrue

LEMMA ResumeIsSound ==
  CampaignInv /\ [Next]_vars => ResumeMeetsSchedule
  <1> SUFFICES ASSUME CampaignInv, [Next]_vars, phase = "idle", phase' = "session", plan.tvla
               PROVE  ResumeMeetsSchedule
    BY DEF ResumeMeetsSchedule
  <1>1. StoreInv /\ Planned /\ Done \in Nat
    BY StoreFacts DEF CampaignInv, StoreInv
  <1>2. OpenSession
    <2>1. phase' # phase
      OBVIOUS
    <2>2. ~UNCHANGED vars /\ ~AppendRow /\ ~EndSession /\ ~Damage
      BY <2>1 DEF vars, AppendRow, EndSession, Damage
    <2>3. \A why : ~Refuse(why)
      BY DEF Refuse
    <2>4. ~Start
      BY <2>3 DEF Start
    <2>5. ~ReadLabels /\ ~ReadWaveforms /\ ~Verdict /\ ~CorrelateAes /\ ~CorrelateAead
          /\ ~ScoreAes /\ ~ScoreAead
      BY DEF ReadLabels, ReadWaveforms, Verdict, CorrelateAes, CorrelateAead, ScoreAes, ScoreAead
    <2>6. QED
      BY <2>2, <2>4, <2>5 DEF Next, Session, Analyse
  <1>3. Done > 0 => ResumeAccepts
    BY <1>2 DEF OpenSession, Refuse
  <1>4. ASSUME NEW i \in 0 .. Done - 1, Done <= NCheck \/ i \in {0, Done - 1}
        PROVE  Row(i).label = ScheduledLabel(i) /\ Row(i).block = ScheduledBlock(i)
    <2>1. Done \in Nat \ {0}
      BY <1>1
    <2>2. i \in Sampled(Done, NCheck)
      BY <1>4, <2>1, SampledFacts
    <2>3. Row(i).label = TvlaGroup(i) /\ Row(i).block = BlockOf(i)
      BY <1>3, <2>1, <2>2 DEF ResumeAccepts
    <2>4. i \in 0 .. N - 1
      BY <1>1, StoreFacts
    <2>5. TvlaGroup(i) = ScheduledLabel(i) /\ BlockOf(i) = ScheduledBlock(i)
      BY <1>1, <2>4, GeneratorFacts
    <2>6. QED
      BY <2>3, <2>5
  <1>5. QED
    BY <1>4 DEF ResumeMeetsSchedule

LEMMA InvAccepted ==
  CampaignInv => OwnCampaignAccepted
  BY DEF CampaignInv, ReportInv

\* From the schedule to the report a label says with which input its row was captured, or
\* the campaign is refused: every row of a TVLA campaign has the input of its schedule and
\* every finished block is half fixed, whatever sessions it took; a resume accepts only rows
\* of its own schedule; a report on a finished campaign rests on true labels; and what the
\* tool has recorded itself it accepts.
THEOREM LabelsTrue ==
  Spec => LabelsAreTrue
  <1> DEFINE Good == TypeOK /\ BalancedCampaign /\ ReportedLabelsAreTrue /\ OwnCampaignAccepted
  <1>1. CampaignInv => Good
    BY InvTypes, InvBalanced, InvLabels, InvAccepted
  <1>2. CampaignInv' => Good'
    BY <1>1, PTL
  <1>3. CampaignInv /\ CampaignInv' /\ [Next]_vars => [ResumeMeetsSchedule /\ Good']_vars
    BY <1>2, ResumeIsSound
  <1>4. QED
    BY <1>3, CampaignInvariant, PTL DEF Spec, LabelsAreTrue

-----------------------------------------------------------------------------
(* Statistics are direct.                                                  *)

LEMMA InvStreamed ==
  CampaignInv => StreamedIsDirect
  <1> SUFFICES ASSUME CampaignInv PROVE StreamedIsDirect
    OBVIOUS
  <1>1. StoreInv /\ JobInv /\ PassInv
    BY DEF CampaignInv
  <1> DEFINE n == IF phase \in {"welch", "correlate", "reported"} THEN pos ELSE 0
             of(g) == {i \in 0 .. n - 1 : IF job.kind = "tvla" THEN Row(i).label = g
                                          ELSE g = 1 /\ (plan.tvla => Row(i).label = 1)}
  <1>2. phase # "refused" => Direct(sums, n)
    <2>1. CASE phase \in {"welch", "correlate", "reported"}
      BY <1>1, <2>1 DEF PassInv
    <2>2. CASE phase \in {"idle", "session", "labels"}
      <3>1. sums = NoSums
        BY <1>1, <2>2 DEF JobInv, PassInv
      <3>2. QED
        BY <1>1, <2>2, <3>1, NothingCounted
    <2>3. QED
      BY <1>1, <2>1, <2>2 DEF JobInv
  <1>3. \A g : of(g) = Read(n, g)
    BY DEF Read
  <1>4. ASSUME phase # "refused", NEW g \in Group
        PROVE  /\ sums.count[g] = Cardinality(of(g))
               /\ \A s \in 1 .. Samples :
                    sums.sum[g][s] =
                      IF job.kind = "aead" /\ s - 1 \notin ModelWindow(dataset, Samples) THEN 0
                      ELSE SumOver(Values(of(g), s), Done)
    <2>1. /\ DirectOver(sums, g, of(g), Inside)
          /\ \A s \in 1 .. Samples : s \notin Inside => sums.sum[g][s] = 0
      <3>1. Direct(sums, n) /\ of(g) = Read(n, g)
        BY <1>2, <1>3, <1>4
      <3> HIDE DEF n, of
      <3>2. QED
        BY <3>1 DEF Direct
    <2> HIDE DEF n, of
    <2>2. \A s \in 1 .. Samples :
            s \in Inside <=> ~(job.kind = "aead" /\ s - 1 \notin ModelWindow(dataset, Samples))
      BY DEF Inside
    <2>3. sums.count[g] = Cardinality(of(g))
          /\ \A s \in Inside : sums.sum[g][s] = SumOver(Values(of(g), s), Done)
      BY <2>1 DEF DirectOver
    <2>4. QED
      BY <2>1, <2>2, <2>3
  <1>5. ASSUME phase \in {"welch", "reported"}, job.kind = "tvla"
        PROVE  /\ protocol.blocks = Cardinality(BlocksOf(Done))
               /\ \A b \in BlocksOf(Done) : /\ ~Less(Share(Done, b), protocol.least)
                                            /\ ~Less(protocol.most, Share(Done, b))
               /\ \E b \in BlocksOf(Done) : ~Less(protocol.least, Share(Done, b))
               /\ \E b \in BlocksOf(Done) : ~Less(Share(Done, b), protocol.most)
    <2>1. LabelsRead(protocol)
      BY <1>1, <1>5 DEF PassInv
    <2>2. BlocksOf(Done) # {}
      <3>1. Done > 0 /\ Done \in Nat
        BY <1>1, <1>5, StoreFacts DEF JobInv
      <3>2. 0 \in 0 .. Done - 1
        BY <3>1
      <3>3. QED
        BY <3>2 DEF BlocksOf
    <2>3. QED
      BY <2>1, <2>2 DEF LabelsRead, Extremes
  <1>6. /\ \A b : InBlock(Done, b) = {i \in 0 .. Done - 1 : Row(i).block = b}
        /\ \A b : FixedInBlock(Done, b) = {i \in InBlock(Done, b) : Row(i).label = 0}
    BY DEF InBlock, FixedInBlock
  <1>7. \A b : Share(Done, b) = LET m == {i \in 0 .. Done - 1 : Row(i).block = b}
                                IN  <<Cardinality({i \in m : Row(i).label = 0}), Cardinality(m)>>
    BY <1>6 DEF Share
  <1>8. BlocksOf(Done) = {Row(i).block : i \in 0 .. Done - 1}
    BY DEF BlocksOf
  <1>9. phase # "refused" => \A g \in Group :
          /\ sums.count[g] = Cardinality(of(g))
          /\ \A s \in 1 .. Samples :
               sums.sum[g][s] =
                 IF job.kind = "aead" /\ s - 1 \notin ModelWindow(dataset, Samples) THEN 0
                 ELSE SumOver(Values(of(g), s), Done)
    BY <1>4
  <1>10. (phase \in {"welch", "reported"} /\ job.kind = "tvla") =>
           LET runs == {Row(i).block : i \in 0 .. Done - 1}
               share(b) == LET m == {i \in 0 .. Done - 1 : Row(i).block = b}
                           IN  <<Cardinality({i \in m : Row(i).label = 0}), Cardinality(m)>>
           IN  /\ protocol.blocks = Cardinality(runs)
               /\ \A b \in runs : ~Less(share(b), protocol.least) /\ ~Less(protocol.most, share(b))
               /\ \E b \in runs : ~Less(protocol.least, share(b))
               /\ \E b \in runs : ~Less(share(b), protocol.most)
    <2> DEFINE sh(b) == LET m == {i \in 0 .. Done - 1 : Row(i).block = b}
                        IN  <<Cardinality({i \in m : Row(i).label = 0}), Cardinality(m)>>
               runs == {Row(i).block : i \in 0 .. Done - 1}
    <2>1. \A b : Share(Done, b) = sh(b)
      BY <1>7
    <2>2. BlocksOf(Done) = runs
      BY <1>8
    <2> HIDE DEF sh, runs
    <2>3. (phase \in {"welch", "reported"} /\ job.kind = "tvla") =>
            /\ protocol.blocks = Cardinality(runs)
            /\ \A b \in runs : ~Less(sh(b), protocol.least) /\ ~Less(protocol.most, sh(b))
            /\ \E b \in runs : ~Less(protocol.least, sh(b))
            /\ \E b \in runs : ~Less(sh(b), protocol.most)
      BY <1>5, <2>1, <2>2
    <2>4. QED
      BY <2>3 DEF sh, runs
  <1>11. QED
    BY <1>9, <1>10 DEF StreamedIsDirect

LEMMA InvRandomRows ==
  CampaignInv => CpaUsesRandomRows
  <1> SUFFICES ASSUME CampaignInv, phase \in {"correlate", "reported"}, job.kind # "tvla",
                      plan.tvla, damage = 0
               PROVE  sums.count[1] = Cardinality({i \in 0 .. pos - 1 : Row(i).input # FixedInput})
    BY DEF CpaUsesRandomRows
  <1>1. StoreInv /\ JobInv /\ PassInv
    BY DEF CampaignInv
  <1>2. Direct(sums, pos) /\ pos \in 0 .. Done /\ Done \in Nat
    BY <1>1, StoreFacts DEF PassInv, JobInv
  <1>3. sums.count[1] = Cardinality(Read(pos, 1))
    BY <1>2 DEF Direct, DirectOver, Group
  <1>4. \A i \in 0 .. pos - 1 : i \in 0 .. Done - 1
    BY <1>2
  <1>5. \A i \in 0 .. pos - 1 : Row(i).label \in Group /\ (Row(i).input = FixedInput <=> Row(i).label = 0)
    BY <1>1, <1>4, InputFacts
  <1>6. Read(pos, 1) = {i \in 0 .. pos - 1 : Row(i).input # FixedInput}
    BY <1>5 DEF Read, Group
  <1>7. QED
    BY <1>3, <1>6

LEMMA Halved ==
  ASSUME NEW m \in Int PROVE (2 * m) \div 2 = m /\ (2 * m + 1) \div 2 = m
  OBVIOUS

\* The interpolation at sample k, of a trigger no more than one sample late or early.
LEMMA Interpolation ==
  ASSUME NEW w \in Seq(Int), NEW d \in -2 .. 2, NEW k \in 1 .. Len(w), NEW at,
         at = AtLeast(2, AtMost(2 * Len(w), 2 * k + d))
  PROVE  FractionalAlign(w, d)[k] = w[at \div 2] + w[(at + 1) \div 2]
  <1> DEFINE n == Len(w)
  <1>1. n \in Nat /\ DOMAIN w = 1 .. n /\ (\A j \in 1 .. n : w[j] \in Int) /\ k \in 1 .. n
    OBVIOUS
  <1>2. FractionalAlign(w, d)[k] =
          CASE d > 0 /\ k < n -> (2 - d) * w[k] + d * w[k + 1]
            [] d < 0 /\ k > 1 -> (2 + d) * w[k] - d * w[k - 1]
            [] OTHER          -> 2 * w[k]
    BY <1>1 DEF FractionalAlign
  <1>3. at = LET a == IF 2 * n < 2 * k + d THEN 2 * n ELSE 2 * k + d IN IF 2 > a THEN 2 ELSE a
    BY DEF AtLeast, AtMost
  <1> HIDE DEF n
  <1>4. CASE d > 0 /\ k < n
    <2>1. FractionalAlign(w, d)[k] = (2 - d) * w[k] + d * w[k + 1] /\ k + 1 \in 1 .. n
      BY <1>1, <1>2, <1>4
    <2>2. CASE d = 1
      <3>1. at = 2 * k + 1
        <4>1. k \in Nat \ {0} /\ k < n /\ d = 1
          BY <1>1, <1>4, <2>2
        <4>2. ~(2 * n < 2 * k + 1) /\ ~(2 > 2 * k + 1)
          BY <1>1, <4>1
        <4>3. QED
          BY <1>3, <4>1, <4>2
      <3>2. at \div 2 = k /\ (at + 1) \div 2 = k + 1
        <4>1. at + 1 = 2 * (k + 1) /\ k + 1 \in Int
          BY <1>1, <3>1
        <4>2. QED
          BY <1>1, <3>1, <4>1, Halved
      <3>3. QED
        BY <1>1, <2>1, <2>2, <3>2
    <2>3. CASE d = 2
      <3>1. at = 2 * k + 2
        BY <1>1, <1>3, <1>4, <2>3
      <3>2. at \div 2 = k + 1 /\ (at + 1) \div 2 = k + 1
        <4>1. at = 2 * (k + 1) /\ at + 1 = 2 * (k + 1) + 1 /\ k + 1 \in Int
          BY <1>1, <3>1
        <4>2. QED
          BY <4>1, Halved
      <3>3. QED
        BY <1>1, <2>1, <2>3, <3>2
    <2>4. QED
      BY <1>4, <2>2, <2>3
  <1>5. CASE d < 0 /\ k > 1
    <2>1. FractionalAlign(w, d)[k] = (2 + d) * w[k] - d * w[k - 1] /\ k - 1 \in 1 .. n
      BY <1>1, <1>2, <1>5
    <2>2. CASE d = -1
      <3>1. at = 2 * k - 1
        <4>1. k \in Nat /\ k > 1 /\ k <= n /\ d = -1
          BY <1>1, <1>5, <2>2
        <4>2. 2 * k + d = 2 * k - 1 /\ ~(2 * n < 2 * k - 1) /\ ~(2 > 2 * k - 1)
          BY <1>1, <4>1
        <4>3. QED
          BY <1>3, <4>2
      <3>2. at \div 2 = k - 1 /\ (at + 1) \div 2 = k
        <4>1. at = 2 * (k - 1) + 1 /\ at + 1 = 2 * k /\ k - 1 \in Int /\ k \in Int
          BY <1>1, <3>1
        <4>2. QED
          BY <4>1, Halved
      <3>3. QED
        BY <1>1, <2>1, <2>2, <3>2
    <2>3. CASE d = -2
      <3>1. at = 2 * k - 2
        BY <1>1, <1>3, <1>5, <2>3
      <3>2. at \div 2 = k - 1 /\ (at + 1) \div 2 = k - 1
        <4>1. at = 2 * (k - 1) /\ at + 1 = 2 * (k - 1) + 1 /\ k - 1 \in Int
          BY <1>1, <3>1
        <4>2. QED
          BY <4>1, Halved
      <3>3. QED
        BY <1>1, <2>1, <2>3, <3>2
    <2>4. QED
      BY <1>5, <2>2, <2>3
  <1>6. CASE ~(d > 0 /\ k < n) /\ ~(d < 0 /\ k > 1)
    <2>1. FractionalAlign(w, d)[k] = 2 * w[k]
      BY <1>2, <1>6
    <2>2. at = 2 * k
      BY <1>1, <1>3, <1>6
    <2>3. at \div 2 = k /\ (at + 1) \div 2 = k
      BY <1>1, <2>2
    <2>4. QED
      BY <1>1, <2>1, <2>3
  <1>7. QED
    BY <1>4, <1>5, <1>6

LEMMA InvAlignment ==
  CampaignInv => AlignmentInterpolates
  <1> SUFFICES ASSUME CampaignInv, job.variant = "aligned", NEW i \in 0 .. Done - 1
               PROVE  LET w == Row(i).wave
                          at(k) == AtLeast(2, AtMost(2 * Len(w), 2 * k + Row(i).trigger))
                      IN  ViewOf(Row(i), "aligned") =
                            [k \in DOMAIN w |-> w[at(k) \div 2] + w[(at(k) + 1) \div 2]]
    BY DEF AlignmentInterpolates
  <1>1. StoreInv /\ JobInv /\ Recorded
    BY StoreFacts DEF CampaignInv
  <1> DEFINE w == Row(i).wave
             d == Row(i).trigger
             at(k) == AtLeast(2, AtMost(2 * Len(w), 2 * k + d))
             triggers == {Row(k).trigger : k \in 0 .. Done - 1}
  <1>2. w \in Seq(Int) /\ d \in Int
    BY <1>1 DEF Recorded
  <1>3. Startable(job.kind, "aligned")
    <2>1. job.kind # "none"
      BY <1>1 DEF JobInv, NoJob
    <2>2. QED
      BY <1>1, <2>1 DEF JobInv
  <1>4. AlignmentContext(dataset, triggers) = "usable" /\ d \in triggers
    BY <1>3 DEF Startable, ViewExists
  <1>5. ~(Magnitude(d) > OneSample)
    <2> HIDE DEF d, triggers
    <2>1. QED
      BY <1>4 DEF AlignmentContext
  <1>6. d \in -2 .. 2
    <2> HIDE DEF d
    <2>1. QED
      BY <1>2, <1>5 DEF Magnitude, OneSample
  <1>7. ViewOf(Row(i), "aligned") = FractionalAlign(w, d)
    BY DEF ViewOf
  <1> HIDE DEF w, d
  <1>8. \A k \in DOMAIN w : FractionalAlign(w, d)[k] = w[at(k) \div 2] + w[(at(k) + 1) \div 2]
    <2>1. \A k \in DOMAIN w : k \in 1 .. Len(w)
      BY <1>2
    <2> HIDE DEF at
    <2>2. \A k \in DOMAIN w : at(k) = AtLeast(2, AtMost(2 * Len(w), 2 * k + d))
      BY DEF at
    <2>3. QED
      BY <1>2, <1>6, <2>1, <2>2, Interpolation
  <1>9. FractionalAlign(w, d) = [k \in DOMAIN w |-> FractionalAlign(w, d)[k]]
    BY DEF FractionalAlign
  <1>10. FractionalAlign(w, d) = [k \in DOMAIN w |-> w[at(k) \div 2] + w[(at(k) + 1) \div 2]]
    <2> HIDE DEF at
    <2>1. QED
      BY <1>8, <1>9
  <1>11. QED
    BY <1>7, <1>10 DEF w, d

\* What is streamed chunk by chunk is what the rows say: the counts and sums of every
\* analysis, in the view it names, whatever the chunks; CPA on an untouched TVLA campaign
\* uses exactly the rows with a random input; and the aligned view of a row is its linear
\* interpolation at the recorded trigger.
THEOREM StatisticsDirect ==
  Spec => []StatisticsAreDirect
  <1>1. CampaignInv => StatisticsAreDirect
    BY InvStreamed, InvRandomRows, InvAlignment DEF StatisticsAreDirect
  <1>2. QED
    BY <1>1, CampaignInvariant, PTL

-----------------------------------------------------------------------------
(* Verdicts are earned.                                                    *)

\* The verdict is about parity exactly when the groups are.
LEMMA VerdictIsOfGroups ==
  ASSUME CampaignInv, phase = "reported", job.kind = "tvla"
  PROVE  /\ report.verdict = "confounded" <=> Confounded
         /\ report.verdict \in {"confounded", "detected", "quiet"}
         /\ report.peak = PeakOf(Curve)
         /\ report.at = CoordinateOf(dataset, Samples, PeakOf(Curve) - 1)
  <1>1. report = [verdict |-> Interpretation(Curve[PeakOf(Curve)]),
                  peak |-> PeakOf(Curve),
                  at |-> CoordinateOf(dataset, Samples, PeakOf(Curve) - 1)]
    BY DEF CampaignInv, ReportInv, TvlaReport
  <1>2. QED
    BY <1>1 DEF Interpretation

LEMMA InvParity ==
  CampaignInv => DetectionIsNotParity
  <1> SUFFICES ASSUME CampaignInv, phase = "reported", job.kind = "tvla", damage = 0
               PROVE  DetectionIsNotParity
    BY DEF DetectionIsNotParity
  <1> DEFINE f == {i \in 0 .. Done - 1 : Row(i).input = FixedInput}
             r == {i \in 0 .. Done - 1 : Row(i).input # FixedInput}
             even(S) == Cardinality({i \in S : i % 2 = 0})
  <1>1. StoreInv /\ JobInv /\ PassInv /\ Done \in Nat /\ plan.tvla /\ 0 \in Group /\ 1 \in Group
    BY StoreFacts DEF CampaignInv, JobInv, Group
  <1>2. LabelsRead(protocol)
    BY <1>1 DEF PassInv
  <1>3. \A i \in 0 .. Done - 1 : /\ Row(i).label \in {0, 1}
                                 /\ Row(i).input = FixedInput <=> Row(i).label = 0
                                 /\ Row(i).label = ScheduledLabel(i)
    BY <1>1, InputFacts DEF Group
  <1>4. /\ Labelled(Done, 0) = f /\ Labelled(Done, 1) = r
        /\ EvenLabelled(Done, 0) = {i \in f : i % 2 = 0}
        /\ EvenLabelled(Done, 1) = {i \in r : i % 2 = 0}
    BY <1>3 DEF Labelled, EvenLabelled
  <1> DEFINE c0 == protocol.count[0]
             c1 == protocol.count[1]
             e0 == protocol.even[0]
             e1 == protocol.even[1]
  <1>5. /\ c0 \in Nat /\ c1 \in Nat /\ e0 \in Nat /\ e1 \in Nat
        /\ c0 = Cardinality(f) /\ c1 = Cardinality(r) /\ e0 = even(f) /\ e1 = even(r)
    BY <1>1, <1>2, <1>4 DEF LabelsRead
  <1>6. Confounded <=> 2 * Magnitude(e0 * c1 - e1 * c0) >= c0 * c1
    BY DEF Confounded
  <1>7. report.verdict = "confounded" <=> Confounded
    BY VerdictIsOfGroups
  <1>8. plan.order = "alternate" => report.verdict = "confounded"
    <2> SUFFICES ASSUME plan.order = "alternate" PROVE Confounded
      BY <1>7
    <2>1. \A i \in 0 .. Done - 1 : Row(i).label = i % 2
      BY <1>3 DEF ScheduledLabel
    <2>2. EvenLabelled(Done, 0) = Labelled(Done, 0) /\ EvenLabelled(Done, 1) = {}
      BY <2>1 DEF EvenLabelled, Labelled
    <2>3. e0 = c0 /\ e1 = 0
      BY <1>1, <1>2, <2>2, FS_EmptySet DEF LabelsRead
    <2> HIDE DEF c0, c1, e0, e1
    <2>4. c0 * c1 \in Nat /\ e0 * c1 - e1 * c0 = c0 * c1
      BY <1>5, <2>3
    <2> DEFINE m == c0 * c1
    <2>5. m \in Nat /\ (Confounded <=> 2 * Magnitude(m) >= m)
      BY <1>6, <2>4
    <2> HIDE DEF m
    <2>6. QED
      BY <2>5 DEF Magnitude
  <1>9. report.verdict = "detected" =>
          2 * Magnitude(even(f) * Cardinality(r) - even(r) * Cardinality(f))
            < Cardinality(f) * Cardinality(r)
    <2> SUFFICES ASSUME report.verdict = "detected"
                 PROVE  2 * Magnitude(e0 * c1 - e1 * c0) < c0 * c1
      BY <1>5
    <2>1. ~(2 * Magnitude(e0 * c1 - e1 * c0) >= c0 * c1)
      BY <1>6, <1>7
    <2> HIDE DEF c0, c1, e0, e1
    <2> DEFINE d == e0 * c1 - e1 * c0
               m == c0 * c1
    <2>2. d \in Int /\ m \in Int
      BY <1>5
    <2> HIDE DEF d, m
    <2>3. ~(2 * Magnitude(d) >= m)
      BY <2>1 DEF d, m
    <2>4. 2 * Magnitude(d) < m
      BY <2>2, <2>3 DEF Magnitude
    <2>5. QED
      BY <2>4 DEF d, m
  <1>10. QED
    BY <1>8, <1>9 DEF DetectionIsNotParity

\* Welch's statistic is one when the spreads are not negative.
LEMMA SquaredFacts ==
  ASSUME NEW count, NEW sum, NEW square, count[0] \in Nat, count[1] \in Nat, count[0] >= 2,
         count[1] >= 2, sum[0] \in Int, sum[1] \in Int, square[0] \in Int, square[1] \in Int,
         Spread(count, sum, square, 0) >= 0, Spread(count, sum, square, 1) >= 0
  PROVE  Undefined(TSquared(count, sum, square)) \/ TSquared(count, sum, square) \in Statistic
  <1> DEFINE a == count[0]
             b == count[1]
             p == Spread(count, sum, square, 0)
             q == Spread(count, sum, square, 1)
             D == sum[0] * b - sum[1] * a
             x == b * b * (b - 1)
             y == a * a * (a - 1)
             E == p * b * b * (b - 1) + q * a * a * (a - 1)
  <1>1. p \in Int /\ q \in Int /\ p >= 0 /\ q >= 0 /\ D \in Int /\ a \in Nat /\ b \in Nat
        /\ a - 1 \in Nat /\ b - 1 \in Nat
    BY DEF Spread
  <1>2. TSquared(count, sum, square) =
          IF E # 0 THEN <<D * D * (a - 1) * (b - 1), E>>
          ELSE IF D # 0 THEN <<1, 0>> ELSE <<0, 0>>
    BY DEF TSquared
  <1> HIDE DEF a, b, p, q, D
  <1>3. x \in Nat /\ y \in Nat
    <2>1. b * b \in Nat /\ a * a \in Nat
      BY <1>1
    <2>2. \A m, n \in Nat : m * n \in Nat
      OBVIOUS
    <2>3. QED
      BY <1>1, <2>1, <2>2
  <1>4. E = p * x + q * y
    BY <1>1
  <1>5. E \in Nat
    <2> HIDE DEF x, y
    <2>1. p * x \in Nat /\ q * y \in Nat
      BY <1>1, <1>3
    <2>2. QED
      BY <1>4, <2>1
  <1>6. D * D * (a - 1) * (b - 1) \in Nat
    <2>1. D * D \in Nat
      BY <1>1
    <2> DEFINE m == D * D
    <2>2. m \in Nat
      BY <2>1
    <2> HIDE DEF m
    <2>3. m * (a - 1) \in Nat
      BY <1>1, <2>2
    <2> DEFINE k == m * (a - 1)
    <2>4. k \in Nat
      BY <2>3
    <2> HIDE DEF k
    <2>5. k * (b - 1) \in Nat
      BY <1>1, <2>4
    <2>6. QED
      BY <2>5 DEF k, m
  <1> HIDE DEF E
  <1>7. CASE E # 0
    BY <1>2, <1>5, <1>6, <1>7 DEF Statistic
  <1>8. CASE E = 0
    BY <1>2, <1>8 DEF Statistic, Undefined
  <1>9. QED
    BY <1>7, <1>8

LEMMA InvPeak ==
  CampaignInv => PeakIsLargest
  <1> SUFFICES ASSUME CampaignInv, phase = "reported", job.kind = "tvla" PROVE PeakIsLargest
    BY DEF PeakIsLargest
  <1>1. StoreInv /\ JobInv /\ PassInv /\ TvlaReport /\ Planned
    BY DEF CampaignInv, ReportInv, StoreInv
  <1>2. Recorded /\ Samples \in Nat /\ Done \in Nat /\ Direct(sums, Done) /\ Inside = 1 .. Samples
        /\ 0 \in Group /\ 1 \in Group
    BY <1>1, StoreFacts DEF JobInv, PassInv, Inside, Group
  <1>3. ASSUME NEW s \in 1 .. Samples, NEW g \in Group
        PROVE  /\ sums.count[g] \in Nat /\ sums.count[g] >= 2
               /\ sums.sum[g][s] \in Int /\ sums.square[g][s] \in Int
               /\ sums.count[g] * sums.square[g][s] - sums.sum[g][s] * sums.sum[g][s] >= 0
    <2> DEFINE S == Read(Done, g)
               F == Values(S, s)
               Q == Squares(S, s)
    <2>1. S \in SUBSET (0 .. Done - 1)
      BY DEF Read
    <2>2. /\ sums.count[g] = Cardinality(S) /\ sums.sum[g][s] = SumOver(F, Done)
          /\ sums.square[g][s] = SumOver(Q, Done)
      BY <1>2 DEF Direct, DirectOver
    <2>3. /\ F \in [S -> Int] /\ Q \in [S -> Int] /\ (\A i \in S : Q[i] = F[i] * F[i])
          /\ SumOver(F, Done) \in Int /\ SumOver(Q, Done) \in Int
      <3>1. {} \in SUBSET (0 .. Done - 1) /\ S \cap {} = {}
        OBVIOUS
      <3> HIDE DEF S
      <3>2. QED
        BY <1>2, <2>1, <3>1, ValuesParts
    <2>4. Cardinality(S) * SumOver(Q, Done) - SumOver(F, Done) * SumOver(F, Done) >= 0
      <3> HIDE DEF S, F, Q
      <3>1. QED
        BY <1>2, <2>1, <2>3, SpreadNotNegative
    <2>5. sums.count[g] \in Nat /\ sums.count[g] >= 2
      BY <1>1, <1>2 DEF TvlaReport, Direct, SumsTyped
    <2> HIDE DEF S, F, Q
    <2>6. QED
      BY <2>2, <2>3, <2>4, <2>5
  <1>4. ASSUME NEW s \in 1 .. Samples
        PROVE  Undefined(Curve[s]) \/ Curve[s] \in Statistic
    <2> DEFINE u == [g \in Group |-> sums.sum[g][s]]
               v == [g \in Group |-> sums.square[g][s]]
    <2>1. Curve[s] = TSquared(sums.count, u, v)
      BY DEF Curve
    <2>2. /\ u[0] = sums.sum[0][s] /\ u[1] = sums.sum[1][s]
          /\ v[0] = sums.square[0][s] /\ v[1] = sums.square[1][s]
      BY <1>2
    <2> HIDE DEF u, v
    <2>3. Spread(sums.count, u, v, 0) >= 0 /\ Spread(sums.count, u, v, 1) >= 0
      BY <1>2, <1>3, <2>2 DEF Spread
    <2>4. QED
      BY <1>2, <1>3, <2>1, <2>2, <2>3, SquaredFacts
  <1>5. DOMAIN Curve = 1 .. Samples /\ \E s \in 1 .. Samples : ~Undefined(Curve[s])
    BY <1>1 DEF Curve, TvlaReport
  <1>6. /\ PeakOf(Curve) \in 1 .. Samples /\ ~Undefined(Curve[PeakOf(Curve)])
        /\ \A s \in 1 .. Samples : ~Undefined(Curve[s]) => ~Larger(Curve[s], Curve[PeakOf(Curve)])
    <2> DEFINE c == Curve
    <2> HIDE DEF c
    <2>1. DOMAIN c = 1 .. Samples /\ (\E s \in 1 .. Samples : ~Undefined(c[s]))
          /\ \A s \in 1 .. Samples : Undefined(c[s]) \/ c[s] \in Statistic
      BY <1>4, <1>5 DEF c
    <2>2. /\ PeakOf(c) \in 1 .. Samples /\ ~Undefined(c[PeakOf(c)])
          /\ \A s \in 1 .. Samples : ~Undefined(c[s]) => ~Larger(c[s], c[PeakOf(c)])
      BY <1>2, <2>1, PeakFacts
    <2>3. QED
      BY <2>2 DEF c
  <1>7. report.peak = PeakOf(Curve) /\ report.at = CoordinateOf(dataset, Samples, PeakOf(Curve) - 1)
    BY VerdictIsOfGroups
  <1>8. report.at = NoCoordinate <=> dataset.backend = "scope"
    <2> DEFINE k == PeakOf(Curve) - 1
    <2>1. k \in 0 .. Samples - 1
      BY <1>2, <1>6
    <2>2. dataset.adcMul # 0
      BY <1>1, DatasetFacts
    <2> HIDE DEF k
    <2>3. CoordinateOf(dataset, Samples, k) = NoCoordinate <=> dataset.backend = "scope"
      BY <2>1, <2>2 DEF CoordinateOf, CyclesFromTrigger, NoCoordinate
    <2>4. QED
      BY <1>7, <2>3 DEF k
  <1>9. QED
    BY <1>6, <1>7, <1>8 DEF PeakIsLargest

\* The only member of a set.
LEMMA OnlyMember ==
  ASSUME NEW S, IsFiniteSet(S), Cardinality(S) = 1, NEW x \in S, NEW y \in S
  PROVE  x = y
  <1> SUFFICES ASSUME x # y PROVE FALSE
    OBVIOUS
  <1>1. IsFiniteSet(S \ {x}) /\ Cardinality(S \ {x}) = 0
    BY FS_RemoveElement
  <1>2. S \ {x} = {}
    BY <1>1, FS_EmptySet
  <1>3. QED
    BY <1>2

LEMMA InvRecovery ==
  CampaignInv => RecoveryIsEarned
  <1> SUFFICES ASSUME CampaignInv, phase = "reported", job.kind # "tvla",
                      report.verdict = "recovered" \/ report.rank = 1,
                      NEW h \in DOMAIN report.scores, h # Truth
               PROVE  report.scores[h] < report.scores[Truth]
    BY DEF RecoveryIsEarned
  <1>1. PICK scores \in Scores, verdict \in {"recovered", "ranked"} :
          /\ report = [verdict |-> verdict, rank |-> RankOf(scores, Truth), scores |-> scores]
          /\ verdict = "recovered" => Informative(scores) /\ GuessOf(scores) = Truth
    BY DEF CampaignInv, ReportInv, CpaReport
  <1>2. /\ report.scores = scores /\ report.verdict = verdict /\ report.rank = RankOf(scores, Truth)
        /\ h \in DOMAIN scores
    BY <1>1
  <1> DEFINE D == DOMAIN scores
             n == Cardinality(D) - 1
  <1>3. /\ IsFiniteSet(D) /\ Cardinality(D) \in Nat /\ D = 0 .. n /\ Truth \in D /\ n \in Int
        /\ scores \in [D -> Nat \cup {-1}]
    BY ScoreAssumption, FS_CardinalityType DEF NotFinite
  <1> HIDE DEF D
  <1>4. n \in Nat /\ \A o \in D : scores[o] \in Int /\ scores[o] >= -1
    BY <1>3
  <1>5. Finite(scores) = {o \in D : scores[o] # -1}
    BY DEF Finite, NotFinite, D
  <1>6. ASSUME NEW S, S \in SUBSET D PROVE IsFiniteSet(S)
    BY <1>3, <1>6, FS_Subset
  <1>7. CASE verdict = "recovered"
    <2> DEFINE S == {o \in Finite(scores) : scores[o] = scores[Truth]}
    <2>1. GuessOf(scores) = Truth /\ scores[Truth] > 0 /\ Cardinality(S) = 1
      BY <1>1, <1>7 DEF Informative, BestTies
    <2>2. \A o \in D : scores[o] <= scores[Truth]
      <3> HIDE DEF n
      <3>1. DOMAIN scores = 0 .. n /\ \A o \in 0 .. n : scores[o] \in Int
        BY <1>3, <1>4 DEF D
      <3>2. QED
        BY <1>3, <1>4, <2>1, <3>1, GuessFacts
    <2>3. Truth \in S /\ S \in SUBSET D
      BY <1>3, <1>4, <1>5, <2>1
    <2>4. h \notin S
      <3> HIDE DEF S
      <3>1. QED
        BY <1>6, <2>1, <2>3, OnlyMember
    <2>5. h \in D
      BY <1>2 DEF D
    <2>6. scores[h] # scores[Truth]
      BY <1>3, <1>4, <1>5, <2>1, <2>4, <2>5
    <2>7. QED
      BY <1>2, <1>3, <1>4, <2>2, <2>5, <2>6
  <1>8. CASE verdict # "recovered"
    <2>1. RankOf(scores, Truth) = 1
      BY <1>2, <1>8
    <2>2. Truth \in Finite(scores)
      <3> SUFFICES ASSUME Truth \notin Finite(scores) PROVE FALSE
        OBVIOUS
      <3>1. Cardinality(D) = 1
        BY <2>1 DEF RankOf, D
      <3>2. h \in D
        BY <1>2 DEF D
      <3>3. QED
        BY <1>3, <3>1, <3>2, OnlyMember
    <2> DEFINE S == {o \in Finite(scores) : scores[o] >= scores[Truth]}
    <2>3. Cardinality(S) = 1
      BY <2>1, <2>2 DEF RankOf
    <2>4. Truth \in S /\ S \in SUBSET D
      BY <1>3, <1>4, <1>5, <2>2
    <2>5. h \notin S
      <3> HIDE DEF S
      <3>1. QED
        BY <1>6, <2>3, <2>4, OnlyMember
    <2>6. h \in D
      BY <1>2 DEF D
    <2>7. scores[Truth] \in Int /\ scores[Truth] >= 0
      BY <1>3, <1>4, <1>5, <2>2
    <2>8. scores[h] < scores[Truth]
      <3>1. CASE scores[h] = -1
        BY <2>7, <3>1
      <3>2. CASE scores[h] # -1
        BY <1>4, <1>5, <2>5, <2>6, <2>7, <3>2
      <3>3. QED
        BY <3>1, <3>2
    <2>9. QED
      BY <1>2, <2>8
  <1>9. QED
    BY <1>7, <1>8

LEMMA InvWindow ==
  CampaignInv => WindowIsModelledCycles
  <1> SUFFICES ASSUME CampaignInv, job.kind = "aead" PROVE WindowIsModelledCycles
    BY DEF WindowIsModelledCycles
  <1> DEFINE offset == dataset.offset
             mul == dataset.adcMul
  <1>1. dataset.backend = "husky"
    BY DEF CampaignInv, JobInv, Startable, AeadUsable
  <1>2. /\ offset \in Nat /\ mul \in Nat /\ mul > 0 /\ Samples \in Nat
        /\ (IF dataset.readback THEN dataset.observedOffset ELSE dataset.offset) = offset
    <2>1. Planned
      BY DEF CampaignInv, StoreInv
    <2>2. QED
      BY <2>1, DatasetFacts, StoreFacts DEF CampaignInv
  <1>3. \A s : CyclesFromTrigger(dataset, s) = <<s + offset, mul>>
    BY <1>1, <1>2 DEF CyclesFromTrigger
  <1>4. ModelWindow(dataset, Samples) =
          AtLeast(0, 5 * mul - offset) .. AtMost(Samples, 16 * mul - offset) - 1
    BY DEF ModelWindow
  <1> HIDE DEF offset, mul
  <1>5. \A s : LET c == CyclesFromTrigger(dataset, s)
               IN  (~Less(c, <<5, 1>>) /\ Less(c, <<16, 1>>))
                     <=> (~((s + offset) * 1 < 5 * mul) /\ (s + offset) * 1 < 16 * mul)
    BY <1>3 DEF Less
  <1>6. \A s \in Int :
          s \in ModelWindow(dataset, Samples)
            <=> /\ s \in 0 .. Samples - 1
                /\ ~((s + offset) * 1 < 5 * mul) /\ (s + offset) * 1 < 16 * mul
    <2> DEFINE a == 5 * mul - offset
               b == 16 * mul - offset
    <2>1. a \in Int /\ b \in Int
      BY <1>2
    <2>2. \A s \in Int : /\ ~((s + offset) * 1 < 5 * mul) <=> a <= s
                         /\ (s + offset) * 1 < 16 * mul <=> s < b
      BY <1>2
    <2>3. ModelWindow(dataset, Samples) = AtLeast(0, a) .. AtMost(Samples, b) - 1
      BY <1>4
    <2> HIDE DEF a, b
    <2>4. \A s \in Int : s \in AtLeast(0, a) .. AtMost(Samples, b) - 1
                           <=> s \in 0 .. Samples - 1 /\ a <= s /\ s < b
      BY <1>2, <2>1 DEF AtLeast, AtMost
    <2>5. QED
      BY <2>2, <2>3, <2>4
  <1>7. ModelWindow(dataset, Samples) \subseteq Int
    BY <1>4
  <1>8. QED
    BY <1>5, <1>6, <1>7 DEF WindowIsModelledCycles

\* What a report calls a detection, a peak or a recovered key is one: a detection is never
\* one of groups that differ in the parity of their rows, the peak is the largest defined
\* statistic, only a hypothesis that beats all others is a recovered key or has rank one,
\* and the window of the AEAD model is the target cycles it names (analysis.py, the reports).
THEOREM VerdictEarned ==
  Spec => []VerdictIsEarned
  <1>1. CampaignInv => VerdictIsEarned
    BY InvParity, InvPeak, InvRecovery, InvWindow DEF VerdictIsEarned
  <1>2. QED
    BY <1>1, CampaignInvariant, PTL

=============================================================================
