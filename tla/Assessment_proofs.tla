------------------------- MODULE Assessment_proofs -------------------------
(***************************************************************************)
(* Proofs about Assessment, for any facts about any number of endpoints,   *)
(* any reports, dates and demands.                                         *)
(*                                                                         *)
(* The invariant says what the findings and the assets are at each stage   *)
(* (Placed, Ruled, Inventoried), that the result was made of them          *)
(* (Computed) and what its readers read (Gated, Extracted).  Beside it,    *)
(* the findings are finitely many (Countable) and the marks are theirs     *)
(* (Marked); both rest on a small theory of sums over finite sets.         *)
(***************************************************************************)
EXTENDS Assessment, FiniteSetTheorems, WellFoundedInduction, NaturalsInduction, TLAPS

Ratings == {"critical", "high", "medium", "low", "info"}
Stage   == {"endpoints", "dns", "licences", "inventory", "score", "scored", "extracted",
            "exited"}

-----------------------------------------------------------------------------
(* Severities and their ranks.                                             *)

LEMMA SeverityFacts ==
  /\ Severities[1] = "critical" /\ Severities[2] = "high" /\ Severities[3] = "medium"
  /\ Severities[4] = "low" /\ Severities[5] = "info"
  /\ \A s : (\E i \in 1 .. 5 : s = Severities[i]) <=> s \in Ratings
<1>1. /\ Severities[1] = "critical" /\ Severities[2] = "high" /\ Severities[3] = "medium"
      /\ Severities[4] = "low" /\ Severities[5] = "info"
  BY DEF Severities
<1>2. 1 .. 5 = {1, 2, 3, 4, 5}
  OBVIOUS
<1> QED
  BY <1>1, <1>2 DEF Ratings

LEMMA RankValue ==
  ASSUME NEW f, f.severity \in Ratings
  PROVE  /\ Rank(f) \in 0 .. 4
         /\ f.severity = "critical" <=> Rank(f) = 0
         /\ f.severity = "high" <=> Rank(f) = 1
         /\ f.severity = "medium" <=> Rank(f) = 2
         /\ f.severity = "low" <=> Rank(f) = 3
         /\ f.severity = "info" <=> Rank(f) = 4
<1> DEFINE k == CHOOSE i \in 1 .. 5 : Severities[i] = f.severity
<1>1. \E i \in 1 .. 5 : Severities[i] = f.severity
  BY SeverityFacts
<1>2. k \in 1 .. 5 /\ Severities[k] = f.severity
  BY <1>1
<1>3. Rank(f) = k - 1
  BY DEF Rank
<1> HIDE DEF k
<1>4. k \in {1, 2, 3, 4, 5}
  BY <1>2
<1> QED
  BY <1>2, <1>3, <1>4, SeverityFacts

\* A set of numbers has a least one.
LEMMA LeastNumber ==
  ASSUME NEW S \in SUBSET Nat, S # {}
  PROVE  Min(S) \in S /\ \A n \in S : Min(S) <= n
<1> DEFINE R == OpToRel(<, Nat)
<1>1. IsWellFoundedOn(R, Nat)
  BY NatLessThanWellFounded
<1>2. \A x, y \in Nat : <<x, y>> \in R <=> x < y
  BY DEF OpToRel
<1> HIDE DEF R
<1>3. PICK m \in S : \A n \in S : ~(<<n, m>> \in R)
  BY <1>1, WFMin
<1>4. ASSUME NEW n \in S PROVE m <= n
  <2>1. n \in Nat /\ m \in Nat
    OBVIOUS
  <2>2. ~(n < m)
    BY <1>2, <1>3, <2>1, Zenon
  <2> QED
    BY <2>1, <2>2
<1> QED
  BY <1>4 DEF Min

\* The worst of some findings is that of one of them, and no other is worse.
LEMMA WorstIsOne ==
  ASSUME NEW fs, fs # {}, \A f \in fs : f.severity \in Ratings
  PROVE  /\ \E f \in fs : Worst(fs) = Rank(f)
         /\ \A f \in fs : Worst(fs) <= Rank(f)
         /\ Worst(fs) \in 0 .. 4
<1> DEFINE ranks == {Rank(f) : f \in fs}
<1>1. ranks \in SUBSET (0 .. 4) /\ ranks # {}
  BY RankValue
<1>2. \A f \in fs : Rank(f) \in ranks
  OBVIOUS
<1>3. \A n \in ranks : \E f \in fs : n = Rank(f)
  OBVIOUS
<1>4. Worst(fs) = Min(ranks)
  BY DEF Worst
<1> HIDE DEF ranks
<1>5. ranks \in SUBSET Nat
  BY <1>1
<1>6. Min(ranks) \in ranks /\ \A n \in ranks : Min(ranks) <= n
  BY <1>1, <1>5, LeastNumber, Zenon
<1>7. Min(ranks) \in 0 .. 4
  BY <1>1, <1>6
<1> QED
  BY <1>2, <1>3, <1>4, <1>6, <1>7, Zenon

-----------------------------------------------------------------------------
(* Sums.  The library sums a function by a fold over the subsets of its    *)
(* domain, one element chosen and taken out at a time: Adds(g, w, S) says  *)
(* that g is that fold, Adding what it is at one subset.                   *)

Adding(g, w, s) == IF s = {} THEN 0 ELSE LET x == CHOOSE x \in s : TRUE IN w[x] + g[s \ {x}]
Adds(g, w, S) == g = [s \in SUBSET S |-> Adding(g, w, s)]

LEMMA SumIs ==
  ASSUME NEW w
  PROVE  SumFunction(w) = (CHOOSE g : Adds(g, w, DOMAIN w))[DOMAIN w]
BY DEF SumFunction, SumFunctionOnSet, FoldFunctionOnSet, MapThenFoldSet, Adds, Adding

\* The fold exists for a finite set: it does for its subsets of each size in turn.
UpTo(S, n) == {s \in SUBSET S : Cardinality(s) <= n}
AddsUpTo(g, w, S, n) == g = [s \in UpTo(S, n) |-> Adding(g, w, s)]

LEMMA FoldUpTo ==
  ASSUME NEW w, NEW S, IsFiniteSet(S), NEW n \in Nat
  PROVE  \E g : AddsUpTo(g, w, S, n)
<1> DEFINE Bad == {k \in Nat : ~\E g : AddsUpTo(g, w, S, k)}
<1>0. \A s \in SUBSET S : IsFiniteSet(s) /\ Cardinality(s) \in Nat
  BY FS_Subset, FS_CardinalityType
<1>1. SUFFICES ASSUME Bad # {} PROVE FALSE
  OBVIOUS
<1>2. PICK m \in Nat : m \in Bad /\ \A k \in Bad : m <= k
  BY <1>1, LeastNumber
<1>3. CASE m = 0
  <2>1. \A s \in UpTo(S, 0) : s = {}
    BY <1>0, FS_EmptySet DEF UpTo
  <2> DEFINE g == [s \in UpTo(S, 0) |-> 0]
  <2>2. \A s \in UpTo(S, 0) : Adding(g, w, s) = 0
    BY <2>1 DEF Adding
  <2>3. AddsUpTo(g, w, S, 0)
    BY <2>2 DEF AddsUpTo
  <2> QED
    BY <1>2, <1>3, <2>3
<1>4. CASE m # 0
  <2>1. m - 1 \in Nat /\ m - 1 \notin Bad
    BY <1>2, <1>4
  <2>2. PICK g : AddsUpTo(g, w, S, m - 1)
    BY <2>1
  <2> DEFINE h == [s \in UpTo(S, m) |-> Adding(g, w, s)]
  <2>3. ASSUME NEW s \in UpTo(S, m) PROVE Adding(h, w, s) = Adding(g, w, s)
    <3>1. CASE s = {}
      BY <3>1 DEF Adding
    <3>2. CASE s # {}
      <4> DEFINE x == CHOOSE x \in s : TRUE
      <4>1. x \in s
        BY <3>2
      <4> HIDE DEF x
      <4>2. s \ {x} \in SUBSET S /\ Cardinality(s \ {x}) = Cardinality(s) - 1
        BY <1>0, <4>1, FS_RemoveElement DEF UpTo
      <4>3. s \ {x} \in UpTo(S, m) /\ s \ {x} \in UpTo(S, m - 1)
        BY <1>0, <2>1, <4>2 DEF UpTo
      <4>4. h[s \ {x}] = Adding(g, w, s \ {x})
        BY <4>3
      <4>5. g[s \ {x}] = Adding(g, w, s \ {x})
        BY <2>2, <4>3 DEF AddsUpTo
      <4> HIDE DEF h
      <4> QED
        BY <3>2, <4>4, <4>5 DEF Adding, x
    <3> QED
      BY <3>1, <3>2
  <2>4. AddsUpTo(h, w, S, m)
    BY <2>3 DEF AddsUpTo
  <2> QED
    BY <1>2, <2>4
<1> QED
  BY <1>3, <1>4

LEMMA FoldExists ==
  ASSUME NEW w, NEW S, IsFiniteSet(S)
  PROVE  \E g : Adds(g, w, S)
<1>1. Cardinality(S) \in Nat
  BY FS_CardinalityType
<1>2. SUBSET S = UpTo(S, Cardinality(S))
  BY FS_Subset DEF UpTo
<1>3. PICK g : AddsUpTo(g, w, S, Cardinality(S))
  BY <1>1, FoldUpTo, Zenon
<1>4. g = [s \in SUBSET S |-> Adding(g, w, s)]
  BY <1>2, <1>3, Zenon DEF AddsUpTo
<1> QED
  BY <1>4, Zenon DEF Adds

\* A family of subsets of a finite set has a member with no member inside it.
LEMMA SmallestSet ==
  ASSUME NEW S, IsFiniteSet(S), NEW B \in SUBSET (SUBSET S), B # {}
  PROVE  \E s \in B : \A x \in s : s \ {x} \notin B
<1> DEFINE R == StrictSubsetOrdering(S)
<1>1. IsWellFoundedOn(R, SUBSET S)
  BY FS_StrictSubsetOrderingWellFounded, FS_FiniteSubsetsOfFinite
<1>2. PICK s \in B : \A t \in B : ~(<<t, s>> \in R)
  BY <1>1, WFMin
<1>3. ASSUME NEW x \in s, s \ {x} \in B PROVE FALSE
  <2>1. <<s \ {x}, s>> \in R
    BY <1>3 DEF StrictSubsetOrdering
  <2> QED
    BY <1>2, <1>3, <2>1
<1> QED
  BY <1>3

\* What the fold is worth does not depend on the element taken out.
Sums(g, w, S) ==
  /\ g[{}] = 0
  /\ \A s \in SUBSET S : g[s] \in Nat
  /\ \A s \in SUBSET S : \A y \in s : g[s] = w[y] + g[s \ {y}]

LEMMA FoldStep ==
  ASSUME NEW S, IsFiniteSet(S), NEW w, \A x \in S : w[x] \in Nat, NEW g, Adds(g, w, S)
  PROVE  Sums(g, w, S)
<1>1. g[{}] = 0
  BY DEF Adds, Adding
<1>2. \A s \in SUBSET S : s # {} => \E x \in s : g[s] = w[x] + g[s \ {x}]
  BY DEF Adds, Adding
<1>3. \A s \in SUBSET S : g[s] \in Nat
  <2> DEFINE B == {s \in SUBSET S : g[s] \notin Nat}
  <2>1. SUFFICES ASSUME B # {} PROVE FALSE
    OBVIOUS
  <2>2. PICK s \in B : \A x \in s : s \ {x} \notin B
    BY <2>1, SmallestSet
  <2>3. s # {}
    BY <1>1
  <2>4. PICK x \in s : g[s] = w[x] + g[s \ {x}]
    BY <1>2, <2>3
  <2>5. g[s \ {x}] \in Nat /\ w[x] \in Nat
    BY <2>2
  <2> QED
    BY <2>4, <2>5
<1>4. \A s \in SUBSET S : \A y \in s : g[s] = w[y] + g[s \ {y}]
  <2> DEFINE B == {s \in SUBSET S : \E y \in s : g[s] # w[y] + g[s \ {y}]}
  <2>1. SUFFICES ASSUME B # {} PROVE FALSE
    OBVIOUS
  <2>2. PICK s \in B : \A x \in s : s \ {x} \notin B
    BY <2>1, SmallestSet
  <2>3. PICK y \in s : g[s] # w[y] + g[s \ {y}]
    OBVIOUS
  <2>4. PICK x \in s : g[s] = w[x] + g[s \ {x}]
    BY <1>2
  <2>5. x # y /\ y \in s \ {x} /\ x \in s \ {y}
    BY <2>3, <2>4
  <2>6. (s \ {x}) \ {y} = (s \ {y}) \ {x}
    OBVIOUS
  <2>7. g[s \ {x}] = w[y] + g[(s \ {x}) \ {y}]
    BY <2>2, <2>5
  <2>8. g[s \ {y}] = w[x] + g[(s \ {y}) \ {x}]
    BY <2>2, <2>5
  <2>9. /\ w[x] \in Nat /\ w[y] \in Nat /\ (s \ {x}) \ {y} \in SUBSET S
        /\ g[(s \ {x}) \ {y}] \in Nat
    BY <1>3
  <2> DEFINE r == g[(s \ {x}) \ {y}]
  <2>10. g[s] = w[x] + (w[y] + r) /\ g[s \ {y}] = w[x] + r /\ r \in Nat
    BY <2>4, <2>6, <2>7, <2>8, <2>9
  <2> HIDE DEF r
  <2> QED
    BY <2>3, <2>9, <2>10
<1> QED
  BY <1>1, <1>3, <1>4 DEF Sums

LEMMA SumFold ==
  ASSUME NEW w, IsFiniteSet(DOMAIN w), \A x \in DOMAIN w : w[x] \in Nat
  PROVE  \E g : SumFunction(w) = g[DOMAIN w] /\ Sums(g, w, DOMAIN w)
<1> DEFINE g == CHOOSE g : Adds(g, w, DOMAIN w)
<1>1. Adds(g, w, DOMAIN w)
  BY FoldExists
<1>2. SumFunction(w) = g[DOMAIN w]
  BY SumIs
<1> HIDE DEF g
<1>3. Sums(g, w, DOMAIN w)
  BY <1>1, FoldStep
<1> QED
  BY <1>2, <1>3, Zenon

\* Fewer and smaller numbers add up to less.
LEMMA FoldBelow ==
  ASSUME NEW W, IsFiniteSet(W), NEW V \in SUBSET W, NEW v, NEW w, NEW g, NEW h,
         Sums(g, v, V), Sums(h, w, W),
         \A x \in W : w[x] \in Nat, \A x \in V : v[x] \in Nat /\ v[x] <= w[x]
  PROVE  g[V] <= h[W]
<1> DEFINE B == {s \in SUBSET W : ~(g[s \cap V] <= h[s])}
<1>1. ASSUME B # {} PROVE FALSE
  <2>1. PICK s \in B : \A x \in s : s \ {x} \notin B
    BY <1>1, SmallestSet
  <2>2. s # {}
    <3>1. {} \cap V = {}
      OBVIOUS
    <3>2. g[{}] = 0 /\ h[{}] = 0
      BY DEF Sums
    <3> QED
      BY <3>1, <3>2
  <2>3. PICK x \in s : TRUE
    BY <2>2
  <2>4. h[s] = w[x] + h[s \ {x}] /\ h[s \ {x}] \in Nat /\ w[x] \in Nat
    BY DEF Sums
  <2>5. g[(s \ {x}) \cap V] <= h[s \ {x}]
    BY <2>1
  <2>6. g[(s \ {x}) \cap V] \in Nat
    BY DEF Sums
  <2>7. ~(g[s \cap V] <= h[s])
    OBVIOUS
  <2>8. CASE x \in V
    <3>1. (s \cap V) \ {x} = (s \ {x}) \cap V /\ s \cap V \in SUBSET V /\ x \in s \cap V
      BY <2>8
    <3>2. g[s \cap V] = v[x] + g[(s \ {x}) \cap V]
      BY <3>1 DEF Sums
    <3>3. v[x] \in Nat /\ v[x] <= w[x]
      BY <2>8
    <3> HIDE DEF B
    <3> QED
      BY <2>4, <2>5, <2>6, <2>7, <3>2, <3>3
  <2>9. CASE x \notin V
    <3>1. s \cap V = (s \ {x}) \cap V
      BY <2>9
    <3>2. g[s \cap V] <= h[s \ {x}] /\ g[s \cap V] \in Nat
      BY <2>5, <2>6, <3>1
    <3> HIDE DEF B
    <3> QED
      BY <2>4, <2>7, <3>2
  <2> QED
    BY <2>8, <2>9
<1>2. g[W \cap V] <= h[W]
  BY <1>1
<1>3. W \cap V = V
  OBVIOUS
<1> QED
  BY <1>2, <1>3

LEMMA SumMonotone ==
  ASSUME NEW v, NEW w, IsFiniteSet(DOMAIN w), DOMAIN v \subseteq DOMAIN w,
         \A x \in DOMAIN w : w[x] \in Nat,
         \A x \in DOMAIN v : v[x] \in Nat /\ v[x] <= w[x]
  PROVE  /\ SumFunction(v) \in Nat /\ SumFunction(w) \in Nat
         /\ SumFunction(v) <= SumFunction(w)
<1>1. IsFiniteSet(DOMAIN v)
  BY FS_Subset
<1>2. PICK g : SumFunction(v) = g[DOMAIN v] /\ Sums(g, v, DOMAIN v)
  BY <1>1, SumFold
<1>3. PICK h : SumFunction(w) = h[DOMAIN w] /\ Sums(h, w, DOMAIN w)
  BY SumFold
<1>4. g[DOMAIN v] \in Nat /\ h[DOMAIN w] \in Nat
  BY <1>2, <1>3 DEF Sums
<1>5. g[DOMAIN v] <= h[DOMAIN w]
  BY <1>2, <1>3, FoldBelow
<1> QED
  BY <1>2, <1>3, <1>4, <1>5

\* Numbers of at most b add up to at most b times their number.
LEMMA SumAtMost ==
  ASSUME NEW w, NEW b \in Nat, IsFiniteSet(DOMAIN w), \A x \in DOMAIN w : w[x] \in 0 .. b
  PROVE  SumFunction(w) \in 0 .. b * Cardinality(DOMAIN w)
<1> DEFINE W == DOMAIN w
<1>1. PICK g : SumFunction(w) = g[W] /\ Sums(g, w, W)
  BY SumFold
<1> HIDE DEF W
<1> DEFINE B == {s \in SUBSET W : ~(g[s] <= b * Cardinality(s))}
<1>2. \A s \in SUBSET W : IsFiniteSet(s) /\ Cardinality(s) \in Nat
  BY FS_Subset, FS_CardinalityType DEF W
<1>3. ASSUME B # {} PROVE FALSE
  <2>1. PICK s \in B : \A x \in s : s \ {x} \notin B
    BY <1>3, SmallestSet DEF W
  <2>2. s # {}
    <3>1. g[{}] = 0 /\ Cardinality({}) = 0 /\ b * 0 = 0
      BY <1>1, FS_EmptySet DEF Sums
    <3>2. g[{}] <= b * Cardinality({})
      BY <3>1
    <3> QED
      BY <3>2
  <2>3. PICK x \in s : TRUE
    BY <2>2
  <2>4. g[s] = w[x] + g[s \ {x}] /\ g[s \ {x}] \in Nat
    BY <1>1 DEF Sums
  <2>5. g[s \ {x}] <= b * Cardinality(s \ {x}) /\ ~(g[s] <= b * Cardinality(s))
    BY <2>1
  <2>6. Cardinality(s \ {x}) = Cardinality(s) - 1 /\ Cardinality(s) \in Nat
    BY <1>2, FS_RemoveElement
  <2>7. w[x] \in 0 .. b
    BY DEF W
  <2> HIDE DEF B
  <2> DEFINE n == Cardinality(s)
  <2>8. b * (n - 1) = b * n - b /\ b * n \in Nat
    BY <2>6
  <2> QED
    BY <2>4, <2>5, <2>6, <2>7, <2>8
<1>4. g[W] <= b * Cardinality(W) /\ g[W] \in Nat
  BY <1>1, <1>3 DEF Sums
<1>5. b * Cardinality(W) \in Nat
  BY <1>2
<1> QED
  BY <1>1, <1>4, <1>5 DEF W

-----------------------------------------------------------------------------
(* The timeline.                                                           *)

LEMMA YearIsNumber == ASSUME NEW d \in Demands PROVE QuantumYear(d) \in Int
<1>1. d.given \in Int
  BY DemandsAssumption
<1> QED
  BY <1>1 DEF QuantumYear, Scenarios

\* The verdict and the formula around the deadline, in numbers: the deadline is
\* Q - req, and left is n / 365 years in tenths.
LEMMA Overrun ==
  ASSUME NEW Q \in Int, NEW req \in Int, NEW y \in Int, NEW day \in Int,
         NEW left \in Int, NEW n \in Int, NEW deadline \in Int,
         1 <= day, day <= 366, n = 365 * (Q - y) - (day - 1), deadline = Q - req,
         2 * (10 * n - 365 * left) <= 365, 2 * (365 * left - 10 * n) <= 365
  PROVE  /\ 365 * req > n <=> deadline < y \/ (deadline = y /\ day > 1)
         /\ ~(365 * req > n <=> 10 * req > left) <=> deadline = y /\ 2 <= day /\ day <= 19
<1>1. CASE deadline = y
  BY <1>1
<1>2. CASE deadline < y
  BY <1>2
<1>3. CASE deadline > y
  BY <1>3
<1> QED
  BY <1>1, <1>2, <1>3

LEMMA Timeline ==
  ASSUME NEW d \in Demands, NEW clock \in Clocks,
         NEW left \in Tenths(YearsToQuantum(d, clock), 365)
  PROVE  /\ AtRisk(d, clock) <=> \/ Deadline(d) < clock.year
                                 \/ Deadline(d) = clock.year /\ clock.day > 1
         /\ (AtRisk(d, clock) # (10 * (d.shelf + d.migration) > left)) <=>
              Deadline(d) = clock.year /\ clock.day \in 2 .. 19
<1> DEFINE Q == QuantumYear(d)
           n == YearsToQuantum(d, clock)
           req == d.shelf + d.migration
           y == clock.year
           day == clock.day
<1>1. /\ Q \in Int /\ d.shelf \in Int /\ d.migration \in Int
      /\ y \in Int /\ day \in 1 .. 366
  BY YearIsNumber, DemandsAssumption, ClocksAssumption
<1>2. n = 365 * (Q - y) - (day - 1) /\ n \in Int
  BY <1>1 DEF YearsToQuantum
<1>3. left \in Int /\ 2 * (10 * n - 365 * left) <= 365 /\ 2 * (365 * left - 10 * n) <= 365
  <2> DEFINE down == (10 * n) \div 365
  <2>1. down \in Int
    BY <1>2
  <2>2. left \in {t \in {down, down + 1} :
                   2 * (10 * n - t * 365) <= 365 /\ 2 * (t * 365 - 10 * n) <= 365}
    BY DEF Tenths
  <2> HIDE DEF down, n
  <2>3. left \in Int
    BY <2>1, <2>2
  <2> QED
    BY <1>2, <2>2, <2>3
<1>4. /\ AtRisk(d, clock) = (365 * req > n)
      /\ AtRisk(d, clock) <=> 365 * req > n
  BY Zenon DEF AtRisk
<1>5. Deadline(d) = Q - req /\ Deadline(d) \in Int
  BY <1>1 DEF Deadline
<1>6. req \in Int
  BY <1>1
<1>7. day \in Int /\ 1 <= day /\ day <= 366
  BY <1>1
<1> HIDE DEF Q, n, req, y, day
<1>8. /\ 365 * req > n <=> Deadline(d) < y \/ (Deadline(d) = y /\ day > 1)
      /\ ~(365 * req > n <=> 10 * req > left) <=> Deadline(d) = y /\ 2 <= day /\ day <= 19
  BY <1>1, <1>2, <1>3, <1>5, <1>6, <1>7, Overrun
<1>9. AtRisk(d, clock) <=> \/ Deadline(d) < y
                           \/ Deadline(d) = y /\ day > 1
  BY <1>4, <1>8, Zenon
<1>10. day \in 2 .. 19 <=> 2 <= day /\ day <= 19
  BY <1>7
<1>11. (AtRisk(d, clock) # (10 * req > left)) <=> ~(365 * req > n <=> 10 * req > left)
  BY <1>2, <1>3, <1>4, <1>6
<1>12. (AtRisk(d, clock) # (10 * req > left)) <=> Deadline(d) = y /\ day \in 2 .. 19
  BY <1>8, <1>10, <1>11, Zenon
<1> QED
  BY <1>9, <1>12, Zenon DEF y, day, req

-----------------------------------------------------------------------------
(* What is said of an endpoint.                                            *)

Governance == "governance.cryptographic-inventory"

\* The findings an endpoint's facts can lead to: rated, and of their own ids.
Own(fs) == \A f \in fs : f.id \in AboutEndpoints \ {Governance} /\ f.severity \in Ratings

LEMMA OwnWhen ==
  ASSUME NEW c, NEW id \in AboutEndpoints \ {Governance}, NEW s \in Ratings
  PROVE  Own(When(c, id, s))
BY DEF Own, When, Finding

LEMMA OwnUnion ==
  ASSUME NEW A, NEW B, Own(A), Own(B) PROVE Own(A \cup B)
BY DEF Own

LEMMA OwnUnions ==
  ASSUME NEW S, \A A \in S : Own(A) PROVE Own(UNION S)
BY DEF Own

LEMMA TlsOwn == ASSUME NEW e PROVE Own(EndpointFindings(e))
<1>1. Own(TlsFindings(e))
  <2> DEFINE old == {Finding("tls.deprecated-version", IF v = "SSLv3" THEN "critical" ELSE "high") :
                       v \in e.supported \cap Deprecated}
  <2>1. Own(old)
    BY DEF Own, Finding, AboutEndpoints, Governance, Ratings
  <2>2. Own({Finding("tls.unreachable", "info")})
    BY DEF Own, Finding, AboutEndpoints, Governance, Ratings
  <2>3. \A c : /\ Own(When(c, "tls.no-tls13", "medium"))
               /\ Own(When(c, "tls.broken-ciphers", "critical"))
               /\ Own(When(c, "pqc.no-forward-secrecy", "critical"))
               /\ Own(When(c, "tls.cbc-ciphers", "low"))
    BY DEF Own, When, Finding, AboutEndpoints, Governance, Ratings
  <2> HIDE DEF old
  <2>4. CASE ~e.reachable
    BY <2>2, <2>4 DEF TlsFindings
  <2>5. CASE e.reachable
    BY <2>1, <2>3, <2>5, OwnUnion DEF TlsFindings, old
  <2> QED
    BY <2>4, <2>5
<1>2. Own(PqcFindings(e))
  BY DEF Own, PqcFindings, When, Finding, AboutEndpoints, Governance, Ratings
<1> QED
  BY <1>1, <1>2, OwnUnion DEF EndpointFindings

CertificateIds == {
  "pqc.classical-certificate-key", "certificate.unreadable", "certificate.expired",
  "certificate.not-yet-valid", "certificate.expiring-soon", "certificate.excessive-lifetime",
  "certificate.self-signed", "certificate.untrusted", "certificate.hostname-mismatch",
  "certificate.incomplete-chain", "certificate.no-transparency", "certificate.weak-key",
  "certificate.weak-curve", "certificate.small-rsa-exponent",
  "certificate.broken-signature-hash", "certificate.broad-wildcard"}

OfCertificate(fs) == \A f \in fs : f.id \in CertificateIds /\ f.severity \in Ratings

LEMMA CertificateOf == ASSUME NEW e PROVE OfCertificate(CertificateFindings(e))
<1>1. ASSUME NEW c \in e.leaf PROVE OfCertificate(ValidityFindings(c))
  BY DEF OfCertificate, ValidityFindings, When, Finding, CertificateIds, Ratings
<1>2. ASSUME NEW c \in e.leaf PROVE OfCertificate(TrustFindings(e, c))
  BY DEF OfCertificate, TrustFindings, When, Finding, CertificateIds, Ratings
<1>3. ASSUME NEW k PROVE OfCertificate(KeyFindings(k))
  BY DEF OfCertificate, KeyFindings, When, Finding, CertificateIds, Ratings
<1>4. ASSUME NEW c \in e.leaf PROVE OfCertificate(StrengthFindings(c))
  <2>1. OfCertificate(UNION {KeyFindings(key) : key \in c.key})
    BY <1>3 DEF OfCertificate
  <2>2. /\ OfCertificate(When(c.hash \in BrokenHashes, "certificate.broken-signature-hash", "critical"))
        /\ OfCertificate(When(c.wildcard, "certificate.broad-wildcard", "medium"))
    BY DEF OfCertificate, When, Finding, CertificateIds, Ratings
  <2> QED
    BY <2>1, <2>2 DEF OfCertificate, StrengthFindings
<1>5. OfCertificate(When(e.reachable, "certificate.unreadable", "high"))
  BY DEF OfCertificate, When, Finding, CertificateIds, Ratings
<1>6. OfCertificate(UNION {ValidityFindings(c) \cup TrustFindings(e, c) \cup StrengthFindings(c) : c \in e.leaf})
  BY <1>1, <1>2, <1>4 DEF OfCertificate
<1> QED
  BY <1>5, <1>6 DEF CertificateFindings

LEMMA CertificateOwn == ASSUME NEW e PROVE Own(CertificateFindings(e))
BY CertificateOf DEF Own, OfCertificate, CertificateIds, AboutEndpoints, Governance

LEMMA EndpointOwn == ASSUME NEW e PROVE Own(AllEndpointFindings(e))
<1>1. Own(When(e.reachable /\ Intercepted(e), "tls.interception-detected", "info"))
  BY DEF Own, When, Finding, AboutEndpoints, Governance, Ratings
<1> QED
  BY <1>1, TlsOwn, CertificateOwn DEF Own, AllEndpointFindings

\* What holds of a set of findings holds of it with a target.
LEMMA Targeted ==
  ASSUME NEW fs, NEW t
  PROVE  /\ \A f \in At(fs, t) : \E g \in fs : f.id = g.id /\ f.severity = g.severity /\ f.target = t
         /\ \A g \in fs : \E f \in At(fs, t) : f.id = g.id /\ f.severity = g.severity /\ f.target = t
<1>1. ASSUME NEW f \in At(fs, t)
      PROVE  \E g \in fs : f.id = g.id /\ f.severity = g.severity /\ f.target = t
  <2>1. PICK g \in fs : f = [id |-> g.id, severity |-> g.severity, target |-> t]
    BY DEF At
  <2> QED
    BY <2>1
<1>2. ASSUME NEW g \in fs
      PROVE  \E f \in At(fs, t) : f.id = g.id /\ f.severity = g.severity /\ f.target = t
  <2> DEFINE f == [id |-> g.id, severity |-> g.severity, target |-> t]
  <2>1. f \in At(fs, t)
    BY DEF At
  <2>2. f.id = g.id /\ f.severity = g.severity /\ f.target = t
    OBVIOUS
  <2> QED
    BY <2>1, <2>2
<1> QED
  BY <1>1, <1>2

-----------------------------------------------------------------------------
(* The invariant.                                                          *)

Early == {"endpoints", "dns", "licences", "inventory"}
Rated(fs) == \A f \in fs : f.severity \in Ratings
Seen(i) == At(AllEndpointFindings(endpoints[i]), i)
Estate == UNION {{<<i, a>> : a \in Inventory(endpoints[i])} : i \in Labels}
Governed(known) == At(GovernanceFindings({a[2] : a \in known}), "domain")

Placed ==
  /\ stage \in Stage
  /\ \E n \in 0 .. MaxEndpoints : endpoints \in [1 .. n -> Facts]
  /\ done \in 0 .. Len(endpoints)
  /\ stage # "endpoints" => done = Len(endpoints)

\* Every finding about an endpoint is one its facts lead to, and none is missing.
Ruled ==
  /\ Rated(findings)
  /\ \A i \in 1 .. done : Seen(i) \subseteq findings
  /\ \A f \in findings : f.id \in AboutEndpoints \ {Governance} => \E i \in 1 .. done : f \in Seen(i)
  /\ \A f \in findings : f.id = "http.version-disclosure" => f.severity = "low"

Inventoried ==
  /\ stage \in Early => assets = {} /\ \A f \in findings : f.id # Governance
  /\ stage \notin Early =>
       /\ assets = Estate
       /\ Governed(assets) \subseteq findings
       /\ \A f \in findings : f.id = Governance => f \in Governed(assets)

MadeOf(r, fs) ==
  \E clock \in Clocks, d \in Demands :
    /\ r.clock = clock /\ r.required = d.shelf + d.migration
    /\ r.left \in Tenths(YearsToQuantum(d, clock), 365)
    /\ r.atRisk = AtRisk(d, clock) /\ r.deadline = Deadline(d)
    /\ r.status = [c \in Controls |-> Status(c, fs)]
    /\ r.plan = Plan(fs)

Computed ==
  /\ ~Scored => result = {}
  /\ \A r \in result : MadeOf(r, findings)

Gated ==
  /\ ~Scored => exit = {}
  /\ \A x \in exit : x.code = 0 => ~Blocked(x.failOn)

\* What study.py reads of endpoints es and findings fs.
RowOf(r, es, fs) ==
  LET live == {i \in DOMAIN es : es[i].reachable}
  IN /\ r.pqcReady <=> \E i \in live : es[i].pqc # {}
     /\ r.tls13 <=> \E i \in live : "TLS 1.3" \in es[i].supported
     /\ r.deprecated <=> \E i \in live : es[i].supported \cap OldVersions # {}
     /\ r.forwardSecrecy <=> \A i \in live : \A c \in es[i].suites : ForwardSecret(c)
     /\ r.weakCiphers <=> \E i \in live : \E c \in es[i].suites : WeakSuite(c)
     /\ r.ids = Ids(fs)

Extracted ==
  /\ ~Scored => row = {}
  /\ \A r \in row : RowOf(r, endpoints, findings)

IInv == Placed /\ Ruled /\ Inventoried /\ Computed /\ Gated /\ Extracted

LEMMA LengthIs ==
  ASSUME NEW n \in Nat, NEW s \in [1 .. n -> Facts]
  PROVE  Len(s) = n /\ DOMAIN s = 1 .. n
OBVIOUS

LEMMA InitInv == ASSUME Init PROVE IInv
<1>1. PICK n \in 0 .. MaxEndpoints : endpoints \in [1 .. n -> Facts]
  BY DEF Init
<1>2. Len(endpoints) = n /\ n \in Nat
  BY <1>1, BoundAssumption, LengthIs
<1>3. Placed
  BY <1>1, <1>2 DEF Init, Placed, Stage
<1>4. Ruled /\ Inventoried
  BY DEF Init, Ruled, Inventoried, Early, Rated
<1>5. Computed /\ Gated /\ Extracted
  BY DEF Init, Computed, Gated, Extracted, Scored
<1> QED
  BY <1>3, <1>4, <1>5 DEF IInv

LEMMA EndpointStep == ASSUME IInv, RuleOnEndpoint PROVE IInv'
<1> DEFINE e == endpoints[done + 1]
<1>1. /\ stage = "endpoints" /\ stage' = stage /\ endpoints' = endpoints
      /\ done < Len(endpoints) /\ done' = done + 1
      /\ findings' = findings \cup Seen(done + 1)
      /\ assets' = assets /\ result' = result /\ exit' = exit /\ row' = row
  BY DEF RuleOnEndpoint, Seen
<1>2. done \in Nat /\ done + 1 \in 1 .. Len(endpoints) /\ Len(endpoints) \in Nat
  <2>1. PICK n \in 0 .. MaxEndpoints : endpoints \in [1 .. n -> Facts]
    BY DEF IInv, Placed
  <2>2. Len(endpoints) = n /\ n \in Nat
    BY <2>1, BoundAssumption, LengthIs
  <2> QED
    BY <1>1, <2>2 DEF IInv, Placed
<1>3. \A f \in Seen(done + 1) : f.id \in AboutEndpoints \ {Governance} /\ f.severity \in Ratings
  BY EndpointOwn, Targeted DEF Seen, Own
<1>4. Placed'
  BY <1>1, <1>2 DEF IInv, Placed
<1>5. \A i : Seen(i)' = Seen(i)
  BY <1>1 DEF Seen
<1>6. Ruled'
  <2>1. Rated(findings')
    BY <1>1, <1>3 DEF IInv, Ruled, Rated
  <2>2. \A i \in 1 .. done' : i \in 1 .. done \/ i = done + 1
    BY <1>1, <1>2
  <2>3. done + 1 \in 1 .. done' /\ \A i \in 1 .. done : i \in 1 .. done'
    BY <1>1, <1>2
  <2>4. \A i \in 1 .. done' : Seen(i) \subseteq findings'
    BY <1>1, <2>2 DEF IInv, Ruled
  <2>5. ASSUME NEW f \in findings', f.id \in AboutEndpoints \ {Governance}
        PROVE  \E i \in 1 .. done' : f \in Seen(i)
    BY <1>1, <2>3, <2>5 DEF IInv, Ruled
  <2>6. ASSUME NEW f \in findings', f.id = "http.version-disclosure" PROVE f.severity = "low"
    BY <1>1, <1>3, <2>6 DEF IInv, Ruled, AboutEndpoints
  <2> QED
    BY <1>5, <2>1, <2>4, <2>5, <2>6 DEF Ruled, Rated
<1>7. Inventoried'
  BY <1>1, <1>3 DEF IInv, Inventoried, Early
<1>8. Computed' /\ Gated' /\ Extracted'
  BY <1>1 DEF IInv, Computed, Gated, Extracted, Scored
<1> QED
  BY <1>4, <1>6, <1>7, <1>8 DEF IInv

LEMMA ReportStep ==
  ASSUME IInv, NEW now, NEW next, NEW reports, RuleOn(now, next, reports),
         now \in Early, next \in Early \ {"endpoints"},
         now = "endpoints" => done = Len(endpoints),
         \A r \in reports : IsReport(r)
  PROVE  IInv'
<1>1. PICK report \in reports : findings' = findings \cup report
  BY DEF RuleOn
<1>2. /\ stage = now /\ stage' = next /\ endpoints' = endpoints /\ done' = done
      /\ assets' = assets /\ result' = result /\ exit' = exit /\ row' = row
  BY DEF RuleOn
<1>3. \A f \in report : /\ f.id \notin AboutEndpoints /\ f.severity \in Ratings
                        /\ f.id = "http.version-disclosure" => f.severity = "low"
  BY SeverityFacts DEF IsReport
<1>4. Governance \in AboutEndpoints
  BY DEF Governance, AboutEndpoints
<1>5. Placed'
  BY <1>2 DEF IInv, Placed, Stage, Early
<1>6. \A i : Seen(i)' = Seen(i)
  BY <1>2 DEF Seen
<1>7. Ruled'
  BY <1>1, <1>2, <1>3, <1>6 DEF IInv, Ruled, Rated
<1>8. Inventoried'
  BY <1>1, <1>2, <1>3, <1>4 DEF IInv, Inventoried
<1>9. Computed' /\ Gated' /\ Extracted'
  BY <1>2 DEF IInv, Computed, Gated, Extracted, Scored, Early
<1> QED
  BY <1>5, <1>7, <1>8, <1>9 DEF IInv

LEMMA InventoryStep == ASSUME IInv, BuildInventory PROVE IInv'
<1>1. /\ stage = "inventory" /\ stage' = "score" /\ endpoints' = endpoints /\ done' = done
      /\ assets' = Estate /\ findings' = findings \cup Governed(assets')
      /\ result' = result /\ exit' = exit /\ row' = row
  BY DEF BuildInventory, Estate, Governed
<1>2. \A f \in Governed(assets') : f.id = Governance /\ f.severity = "medium"
  BY DEF Governed, GovernanceFindings, At, When, Finding, Governance
<1>3. Placed'
  BY <1>1 DEF IInv, Placed, Stage
<1>4. \A i : Seen(i)' = Seen(i)
  BY <1>1 DEF Seen
<1>5. Ruled'
  BY <1>1, <1>2, <1>4 DEF IInv, Ruled, Rated, Ratings, Governance
<1>6. Inventoried'
  BY <1>1, <1>2 DEF IInv, Inventoried, Early, Estate, Governed, Labels
<1>7. Computed' /\ Gated' /\ Extracted'
  BY <1>1 DEF IInv, Computed, Gated, Extracted, Scored
<1> QED
  BY <1>3, <1>5, <1>6, <1>7 DEF IInv

\* What no step after the inventory touches.
LEMMA KeptParts ==
  ASSUME IInv, stage \notin Early, stage' \in Stage \ Early,
         endpoints' = endpoints, done' = done, findings' = findings, assets' = assets
  PROVE  Placed' /\ Ruled' /\ Inventoried'
<1>1. Placed'
  BY DEF IInv, Placed, Early
<1>2. \A i : Seen(i)' = Seen(i)
  BY DEF Seen
<1>3. Ruled'
  BY <1>2 DEF IInv, Ruled
<1>4. Inventoried'
  BY DEF IInv, Inventoried, Estate, Governed, Labels
<1> QED
  BY <1>1, <1>3, <1>4

LEMMA ScoreStep == ASSUME IInv, Score PROVE IInv'
<1>1. /\ stage = "score" /\ stage' = "scored" /\ endpoints' = endpoints /\ done' = done
      /\ findings' = findings /\ assets' = assets /\ exit' = exit /\ row' = row
  BY DEF Score
<1>2. Placed' /\ Ruled' /\ Inventoried'
  BY <1>1, KeptParts DEF Stage, Early
<1>3. Computed'
  <2>1. PICK clock \in Clocks, d \in Demands :
        \E risk \in SecurityScores(findings), ready \in ReadinessScores,
           left \in Tenths(YearsToQuantum(d, clock), 365) :
          result' = {[risk |-> risk, grade |-> Grade(risk),
                      readiness |-> ready, readinessGrade |-> Grade(ready),
                      clock |-> clock, required |-> d.shelf + d.migration, left |-> left,
                      atRisk |-> AtRisk(d, clock), deadline |-> Deadline(d),
                      status |-> [c \in Controls |-> Status(c, findings)],
                      plan |-> Plan(findings)]}
    BY DEF Score
  <2>2. \A r \in result' :
          /\ r.clock = clock /\ r.required = d.shelf + d.migration
          /\ r.left \in Tenths(YearsToQuantum(d, clock), 365)
          /\ r.atRisk = AtRisk(d, clock) /\ r.deadline = Deadline(d)
          /\ r.status = [c \in Controls |-> Status(c, findings)]
          /\ r.plan = Plan(findings)
    BY <2>1
  <2> QED
    BY <1>1, <2>2 DEF Computed, Scored, MadeOf
<1>4. Gated' /\ Extracted'
  BY <1>1 DEF IInv, Gated, Extracted, Scored
<1> QED
  BY <1>2, <1>3, <1>4 DEF IInv

LEMMA ExtractRow ==
  ASSUME Extract PROVE \A r \in row' : RowOf(r, endpoints, findings)
<1> DEFINE versions   == UNION {endpoints[i].supported : i \in Live}
           suites     == UNION {endpoints[i].suites : i \in Live}
           ready      == \E i \in Live : endpoints[i].pqc # {}
           tls13      == "TLS 1.3" \in versions
           deprecated == versions \cap OldVersions # {}
           secret     == \A c \in suites : ForwardSecret(c)
           weak       == \E c \in suites : WeakSuite(c)
           ids        == Ids(findings)
<1>1. PICK lifetime, exposed, intercepted :
        row' = {[pqcReady |-> ready, tls13 |-> tls13, deprecated |-> deprecated,
                 forwardSecrecy |-> secret, weakCiphers |-> weak, intercepted |-> intercepted,
                 lifetime |-> lifetime, exposed |-> exposed, ids |-> ids]}
  BY Zenon DEF Extract
<1>2. /\ \A v : v \in versions <=> \E i \in Live : v \in endpoints[i].supported
      /\ \A c : c \in suites <=> \E i \in Live : c \in endpoints[i].suites
  OBVIOUS
<1> HIDE DEF ready, tls13, deprecated, secret, weak, ids
<1>3. \A r \in row' :
        /\ r.pqcReady = ready /\ r.tls13 = tls13 /\ r.deprecated = deprecated
        /\ r.forwardSecrecy = secret /\ r.weakCiphers = weak /\ r.ids = ids
  BY <1>1
<1> HIDE DEF versions, suites
<1>4. ASSUME NEW r \in row'
      PROVE  /\ r.pqcReady <=> \E i \in Live : endpoints[i].pqc # {}
             /\ r.tls13 <=> "TLS 1.3" \in versions
             /\ r.deprecated <=> versions \cap OldVersions # {}
             /\ r.forwardSecrecy <=> \A c \in suites : ForwardSecret(c)
             /\ r.weakCiphers <=> \E c \in suites : WeakSuite(c)
             /\ r.ids = Ids(findings)
  BY <1>3, Zenon DEF ready, tls13, deprecated, secret, weak, ids
<1> QED
  BY <1>2, <1>4 DEF RowOf, Live, Labels

LEMMA ReaderStep == ASSUME IInv, Extract \/ Exit PROVE IInv'
<1>1. /\ stage = "scored" /\ stage' \in {"extracted", "exited"} /\ endpoints' = endpoints
      /\ done' = done /\ findings' = findings /\ assets' = assets /\ result' = result
  BY DEF Extract, Exit
<1>2. Placed' /\ Ruled' /\ Inventoried'
  BY <1>1, KeptParts DEF Stage, Early
<1>3. Computed'
  BY <1>1 DEF IInv, Computed, Scored
<1>4. \A b : Blocked(b)' = Blocked(b)
  BY <1>1 DEF Blocked
<1>5. Gated'
  <2>1. CASE Extract
    BY <1>1, <1>4, <2>1 DEF IInv, Gated, Scored, Extract
  <2>2. CASE Exit
    <3>1. PICK b : exit' = {[failOn |-> b, code |-> IF Blocked(b) THEN 1 ELSE 0]}
      BY <2>2 DEF Exit
    <3>2. \A x \in exit' : x.code = 0 => ~Blocked(x.failOn)
      BY <3>1
    <3> QED
      BY <1>1, <1>4, <3>2 DEF Gated, Scored
  <2> QED
    BY <2>1, <2>2
<1>6. Extracted'
  <2>1. CASE Exit
    BY <1>1, <2>1 DEF IInv, Extracted, Scored, Exit
  <2>2. CASE Extract
    <3>1. \A r \in row' : RowOf(r, endpoints, findings)
      BY <2>2, ExtractRow
    <3> QED
      BY <1>1, <3>1 DEF Extracted, Scored
  <2> QED
    BY <2>1, <2>2
<1> QED
  BY <1>2, <1>3, <1>5, <1>6 DEF IInv

LEMMA StutterStep == ASSUME IInv, UNCHANGED vars PROVE IInv'
<1>1. Placed' /\ Computed' /\ Gated' /\ Extracted'
  BY DEF vars, IInv, Placed, Computed, Gated, Extracted, Scored, Blocked
<1>2. \A i : Seen(i)' = Seen(i)
  BY DEF vars, Seen
<1>3. Ruled'
  BY <1>2 DEF vars, IInv, Ruled
<1>4. Inventoried'
  BY DEF vars, IInv, Inventoried, Estate, Governed, Labels
<1> QED
  BY <1>1, <1>3, <1>4 DEF IInv

LEMMA NextInv == ASSUME IInv, [Next]_vars PROVE IInv'
<1>1. CASE RuleOnEndpoint
  BY <1>1, EndpointStep
<1>2. CASE RuleOnHttp
  BY <1>2, ReportStep, ReportsAssumption DEF RuleOnHttp, Early
<1>3. CASE RuleOnDns
  BY <1>3, ReportStep, ReportsAssumption DEF RuleOnDns, Early
<1>4. CASE RuleOnLicences
  BY <1>4, ReportStep, ReportsAssumption DEF RuleOnLicences, Early
<1>5. CASE BuildInventory
  BY <1>5, InventoryStep
<1>6. CASE Score
  BY <1>6, ScoreStep
<1>7. CASE Extract \/ Exit
  BY <1>7, ReaderStep
<1>8. CASE Over \/ UNCHANGED vars
  BY <1>8, StutterStep DEF Over
<1> QED
  BY <1>1, <1>2, <1>3, <1>4, <1>5, <1>6, <1>7, <1>8 DEF Next

\* The findings at every stage are those the facts and the reports lead to, the
\* result is made of them, and an exit code of 0 stands for the gate's condition.
THEOREM AnalysisInvariant == Spec => []IInv
<1>1. Init => IInv
  BY InitInv
<1>2. IInv /\ [Next]_vars => IInv'
  BY NextInv
<1> QED
  BY <1>1, <1>2, PTL DEF Spec

\* The verdict of Mosca's inequality turns the day after the first of January of
\* the deadline year, for every date, every demand and every rounding.
THEOREM VerdictTurns == Spec => []MoscaDeadline
<1>1. ASSUME Computed PROVE MoscaDeadline
  <2> SUFFICES ASSUME NEW r \in result
               PROVE  /\ r.atRisk <=> \/ r.deadline < r.clock.year
                                      \/ r.deadline = r.clock.year /\ r.clock.day > 1
                      /\ (r.atRisk # (10 * r.required > r.left)) <=>
                           r.deadline = r.clock.year /\ r.clock.day \in 2 .. 19
    BY DEF MoscaDeadline
  <2>1. PICK clock \in Clocks, d \in Demands :
          /\ r.clock = clock /\ r.required = d.shelf + d.migration
          /\ r.left \in Tenths(YearsToQuantum(d, clock), 365)
          /\ r.atRisk = AtRisk(d, clock) /\ r.deadline = Deadline(d)
    BY <1>1 DEF Computed, MadeOf
  <2> QED
    BY <2>1, Timeline
<1>2. IInv => MoscaDeadline
  BY <1>1 DEF IInv
<1> QED
  BY <1>2, AnalysisInvariant, PTL

-----------------------------------------------------------------------------
(* Controls and the plan.                                                  *)

Templated == Templates.hours \cup Templates.days \cup Templates.weeks \cup Templates.months
Untemplated == {"http.version-disclosure", "certificate.weak-curve",
                "licence.commercial-restriction"}

\* What the controls name, save the three that have no template.
Named ==
  {"governance.cryptographic-inventory", "pqc.no-hybrid-key-exchange",
   "pqc.no-forward-secrecy", "pqc.classical-certificate-key", "tls.no-tls13",
   "certificate.weak-key", "certificate.broken-signature-hash", "tls.broken-ciphers",
   "pqc.symmetric-128-only", "tls.deprecated-version", "certificate.expired",
   "http.no-https-redirect", "http.insecure-cookies", "licence.end-of-life-component",
   "licence.undetermined", "licence.copyleft-obligation"}

LEMMA NamedTemplated == Named \subseteq Templated
<1>1. /\ Templates.hours = {"pqc.no-forward-secrecy", "tls.broken-ciphers",
                            "tls.deprecated-version", "certificate.expired",
                            "pqc.symmetric-128-only", "http.no-hsts",
                            "http.no-https-redirect", "http.insecure-cookies", "dns.no-caa",
                            "licence.exposed-manifest"}
      /\ Templates.days = {"certificate.weak-key", "certificate.broken-signature-hash",
                           "pqc.no-hybrid-key-exchange", "tls.no-tls13", "dns.no-dmarc",
                           "licence.undetermined"}
      /\ Templates.weeks = {"http.no-csp", "licence.copyleft-obligation",
                            "licence.end-of-life-component"}
      /\ Templates.months = {"pqc.classical-certificate-key",
                             "governance.cryptographic-inventory"}
  BY DEF Templates
<1>2. \A t : t \in Templates.hours \/ t \in Templates.days \/ t \in Templates.weeks
             \/ t \in Templates.months => t \in Templated
  BY DEF Templated
<1> QED
  BY <1>1, <1>2 DEF Named

Accounted(ids) == ids \subseteq Named \cup Untemplated

LEMMA ControlIds == \A c \in Controls : c.ids \subseteq Templated \cup Untemplated
<1>1. \A framework, reference, ids : Control(framework, reference, ids).ids = ids
  BY DEF Control
<1>2. /\ Accounted({"governance.cryptographic-inventory"})
      /\ Accounted({"pqc.no-hybrid-key-exchange", "pqc.no-forward-secrecy"})
      /\ Accounted({"pqc.no-hybrid-key-exchange", "pqc.classical-certificate-key",
                    "tls.no-tls13"})
      /\ Accounted({"pqc.no-hybrid-key-exchange"})
      /\ Accounted({"pqc.classical-certificate-key"})
      /\ Accounted({"certificate.weak-key", "certificate.broken-signature-hash",
                    "tls.broken-ciphers", "certificate.weak-curve"})
      /\ Accounted({"pqc.symmetric-128-only"})
  BY DEF Accounted, Named, Untemplated
<1>3. /\ Accounted({"tls.deprecated-version", "tls.broken-ciphers", "certificate.expired",
                    "certificate.weak-key", "certificate.broken-signature-hash", "http.no-https-redirect"})
      /\ Accounted({"governance.cryptographic-inventory"})
      /\ Accounted({"pqc.no-forward-secrecy", "tls.broken-ciphers",
                    "tls.deprecated-version", "http.no-https-redirect", "http.insecure-cookies"})
      /\ Accounted({"pqc.no-hybrid-key-exchange"})
      /\ Accounted({"tls.broken-ciphers", "tls.deprecated-version",
                    "governance.cryptographic-inventory"})
      /\ Accounted({"licence.end-of-life-component", "licence.undetermined"})
      /\ Accounted({"certificate.expired", "certificate.weak-key", "tls.broken-ciphers",
                    "governance.cryptographic-inventory"})
      /\ Accounted({"licence.copyleft-obligation", "licence.commercial-restriction"})
      /\ Accounted({"tls.deprecated-version", "tls.broken-ciphers", "http.version-disclosure"})
      /\ Accounted({"licence.end-of-life-component"})
  BY DEF Accounted, Named, Untemplated
<1>4. \A c \in PostQuantumControls :
        \E framework, reference, ids : c = Control(framework, reference, ids) /\ Accounted(ids)
  BY <1>2, Zenon DEF PostQuantumControls
<1>5. \A c \in RegimeControls :
        \E framework, reference, ids : c = Control(framework, reference, ids) /\ Accounted(ids)
  BY <1>3, Zenon DEF RegimeControls
<1>6. \A c \in Controls : Accounted(c.ids)
  BY <1>1, <1>4, <1>5 DEF Controls
<1> QED
  BY <1>6, NamedTemplated DEF Accounted

-----------------------------------------------------------------------------
(* The gate.                                                               *)

\* Whatever Shor breaks is not safe: nothing is left of it.
LEMMA ShorLeavesNothing ==
  ASSUME NEW k, AssessKey(k).by = "Shor" PROVE ~AssessKey(k).safe
<1>1. (\A c, q, b : Assessed(c, q, b).by = b) /\ (\A c, b : ~Assessed(c, 0, b).safe)
  <2>1. \A c, q, b : Assessed(c, q, b).by = b /\ (Assessed(c, q, b).safe <=> q >= 128)
    BY Zenon DEF Assessed
  <2>2. ~(0 >= 128)
    OBVIOUS
  <2> QED
    BY <2>1, <2>2, Zenon
<1>2. \/ \E c, b : b # "Shor" /\ AssessKey(k) = Assessed(c, 128, b)
      \/ \E c : AssessKey(k) = Assessed(c, 0, "Shor")
      \/ \E c : AssessKey(k) = Assessed(c, 0, "none")
  BY DEF AssessKey
<1>3. CASE \E c, b : b # "Shor" /\ AssessKey(k) = Assessed(c, 128, b)
  BY <1>1, <1>3
<1>4. CASE \E c, b : AssessKey(k) = Assessed(c, 0, b)
  BY <1>1, <1>4
<1> QED
  BY <1>2, <1>3, <1>4

\* An endpoint of which nothing severe is said, and what it must be.
LEMMA NothingSevere ==
  ASSUME NEW e, IsFact(e), e.reachable,
         \A f \in AllEndpointFindings(e) : f.severity \notin {"critical", "high"}
  PROVE  /\ e.pqc # {} \/ e.note
         /\ \A c \in e.suites : ForwardSecret(c) /\ ~BrokenSuite(c)
         /\ \A c \in e.leaf : \A k \in c.key : AssessKey(k).by # "Shor"
<1>1. \A c, id, s : c => \E f \in When(c, id, s) : f.severity = s
  BY DEF When, Finding
<1>2. e.pqc # {} \/ e.note
  <2> DEFINE lacks == e.pqc = {} /\ ~e.note
  <2>1. When(lacks, "pqc.no-hybrid-key-exchange", "high") \subseteq AllEndpointFindings(e)
    BY DEF AllEndpointFindings, EndpointFindings, PqcFindings
  <2> HIDE DEF lacks
  <2>2. ~lacks
    BY <1>1, <2>1
  <2> QED
    BY <2>2 DEF lacks
<1>3. \A c \in e.suites : ForwardSecret(c) /\ ~BrokenSuite(c)
  <2> DEFINE sound == {c \in e.suites : ~BrokenSuite(c)}
             broken == sound # e.suites
             static == \E c \in sound : ~ForwardSecret(c)
  <2>1. /\ When(broken, "tls.broken-ciphers", "critical") \subseteq AllEndpointFindings(e)
        /\ When(static, "pqc.no-forward-secrecy", "critical") \subseteq AllEndpointFindings(e)
    BY DEF AllEndpointFindings, EndpointFindings, TlsFindings
  <2> HIDE DEF broken, static
  <2>2. ~broken /\ ~static
    BY <1>1, <2>1
  <2> QED
    BY <2>2 DEF broken, static
<1>4. ASSUME NEW c \in e.leaf, NEW k \in c.key, AssessKey(k).by = "Shor" PROVE FALSE
  <2> DEFINE shor == ~AssessKey(k).safe /\ AssessKey(k).by = "Shor"
  <2>1. shor
    BY <1>4, ShorLeavesNothing
  <2>2. When(shor, "pqc.classical-certificate-key", "high") \subseteq KeyFindings(k)
    BY DEF KeyFindings
  <2>3. KeyFindings(k) \subseteq StrengthFindings(c)
    <3>1. \A f \in KeyFindings(k) : f \in UNION {KeyFindings(key) : key \in c.key}
      OBVIOUS
    <3> QED
      BY <3>1 DEF StrengthFindings
  <2>4. StrengthFindings(c) \subseteq AllEndpointFindings(e)
    <3>1. \A f \in StrengthFindings(c) :
            f \in UNION {ValidityFindings(l) \cup TrustFindings(e, l) \cup StrengthFindings(l) : l \in e.leaf}
      OBVIOUS
    <3>2. e.leaf # {}
      OBVIOUS
    <3> QED
      BY <3>1, <3>2 DEF CertificateFindings, AllEndpointFindings
  <2> HIDE DEF shor
  <2>5. PICK f \in When(shor, "pqc.classical-certificate-key", "high") : f.severity = "high"
    BY <2>1 DEF When, Finding
  <2> QED
    BY <2>2, <2>3, <2>4, <2>5
<1> QED
  BY <1>2, <1>3, <1>4

\* What an open gate says of the findings.
LEMMA OpenGate ==
  ASSUME Rated(findings), NEW b, ~Blocked(b)
  PROVE  /\ b \in {"high", "medium", "low"} =>
              \A f \in findings : f.severity \notin {"critical", "high"}
         /\ b \in {"medium", "low"} => \A f \in findings : f.severity # "medium"
<1>1. \A i \in 1 .. 4 : Severities[i] = b => \A f \in findings : ~(Rank(f) <= i - 1)
  BY DEF Blocked
<1>2. /\ b = "high" => \A f \in findings : ~(Rank(f) <= 1)
      /\ b = "medium" => \A f \in findings : ~(Rank(f) <= 2)
      /\ b = "low" => \A f \in findings : ~(Rank(f) <= 3)
  <2>1. b = "high" => \A f \in findings : ~(Rank(f) <= 2 - 1)
    BY <1>1, SeverityFacts
  <2>2. b = "medium" => \A f \in findings : ~(Rank(f) <= 3 - 1)
    BY <1>1, SeverityFacts
  <2>3. b = "low" => \A f \in findings : ~(Rank(f) <= 4 - 1)
    BY <1>1, SeverityFacts
  <2> QED
    BY <2>1, <2>2, <2>3
<1>3. \A f \in findings : f.severity \in Ratings
  BY DEF Rated
<1>4. ASSUME NEW f \in findings
      PROVE  /\ f.severity \in {"critical", "high"} => Rank(f) <= 1 /\ Rank(f) <= 2 /\ Rank(f) <= 3
             /\ f.severity = "medium" => Rank(f) <= 2 /\ Rank(f) <= 3
  BY <1>3, RankValue
<1> QED
  BY <1>2, <1>4

\* An exit code of 0 means what it is read as, for any number of endpoints.
THEOREM GateHonest == Spec => []GateIsHonest
<1>1. ASSUME IInv, NEW x \in exit, x.code = 0, x.failOn \in {"high", "medium", "low"}
      PROVE  /\ \A r \in result : \A c \in Controls : r.status[c] # "fail"
             /\ \A i \in Live :
                  /\ endpoints[i].pqc # {} \/ endpoints[i].note
                  /\ \A c \in endpoints[i].suites : ForwardSecret(c) /\ ~BrokenSuite(c)
                  /\ \A c \in endpoints[i].leaf : \A k \in c.key : AssessKey(k).by # "Shor"
  <2>1. Scored /\ ~Blocked(x.failOn) /\ Rated(findings)
    BY <1>1 DEF IInv, Gated, Ruled
  <2>2. \A f \in findings : f.severity \notin {"critical", "high"}
    BY <1>1, <2>1, OpenGate
  <2>3. ASSUME NEW r \in result, NEW c \in Controls, r.status[c] = "fail" PROVE FALSE
    <3>1. r.status = [k \in Controls |-> Status(k, findings)]
      BY <1>1 DEF IInv, Computed, MadeOf
    <3>2. Status(c, findings) = "fail"
      BY <2>3, <3>1
    <3>3. Hits(c, findings) # {} /\ Worst(Hits(c, findings)) <= 1
      BY <3>2 DEF Status
    <3>4. \A f \in Hits(c, findings) : f \in findings /\ f.severity \in Ratings
      BY <2>1 DEF Hits, Rated
    <3>5. PICK f \in Hits(c, findings) : Rank(f) <= 1 /\ Rank(f) \in 0 .. 4
      BY <3>3, <3>4, WorstIsOne, RankValue
    <3>6. f.severity \in {"critical", "high"}
      BY <3>4, <3>5, RankValue
    <3> QED
      BY <2>2, <3>4, <3>6
  <2>4. ASSUME NEW i \in Live
        PROVE  /\ endpoints[i].pqc # {} \/ endpoints[i].note
               /\ \A c \in endpoints[i].suites : ForwardSecret(c) /\ ~BrokenSuite(c)
               /\ \A c \in endpoints[i].leaf : \A k \in c.key : AssessKey(k).by # "Shor"
    <3>1. PICK n \in 0 .. MaxEndpoints : endpoints \in [1 .. n -> Facts]
      BY <1>1 DEF IInv, Placed
    <3>2. n \in Nat /\ Len(endpoints) = n /\ DOMAIN endpoints = 1 .. n
      BY <3>1, BoundAssumption, LengthIs
    <3>3. done = n
      BY <1>1, <2>1, <3>2 DEF IInv, Placed, Scored
    <3>4. i \in 1 .. done /\ endpoints[i] \in Facts /\ endpoints[i].reachable
      BY <3>1, <3>2, <3>3 DEF Live, Labels
    <3>5. Seen(i) \subseteq findings
      BY <1>1, <3>4 DEF IInv, Ruled
    <3>6. \A f \in AllEndpointFindings(endpoints[i]) : f.severity \notin {"critical", "high"}
      BY <2>2, <3>5, Targeted DEF Seen
    <3> QED
      BY <3>4, <3>6, NothingSevere, FactsAssumption
  <2> QED
    BY <2>3, <2>4
<1>2. ASSUME IInv, NEW x \in exit, x.code = 0, x.failOn \in {"medium", "low"}, NEW a \in assets
      PROVE  a[2].safe \/ a[2].by # "Shor"
  <2>1. Scored /\ ~Blocked(x.failOn) /\ Rated(findings)
    BY <1>2 DEF IInv, Gated, Ruled
  <2>2. \A f \in findings : f.severity # "medium"
    BY <1>2, <2>1, OpenGate
  <2>3. Governed(assets) \subseteq findings
    BY <1>2, <2>1 DEF IInv, Inventoried, Scored, Early
  <2> DEFINE known == {c[2] : c \in assets}
  <2>4. a[2] \in known
    OBVIOUS
  <2> HIDE DEF known
  <2>5. CASE Vulnerable(known) # {}
    <3>1. \E f \in GovernanceFindings(known) : f.severity = "medium"
      BY <2>5 DEF GovernanceFindings, When, Finding
    <3>2. \E f \in At(GovernanceFindings(known), "domain") : f.severity = "medium"
      BY <3>1, Targeted
    <3> QED
      BY <2>2, <2>3, <3>2 DEF Governed, known
  <2>6. CASE Vulnerable(known) = {}
    BY <2>4, <2>6 DEF Vulnerable
  <2> QED
    BY <2>5, <2>6
<1>3. IInv => GateIsHonest
  BY <1>1, <1>2 DEF GateIsHonest
<1> QED
  BY <1>3, AnalysisInvariant, PTL

-----------------------------------------------------------------------------
(* Which id is said of which endpoint.                                     *)

Says(fs, id) == \E f \in fs : f.id = id

LEMMA SaysWhen ==
  ASSUME NEW c, NEW i, NEW s, NEW id
  PROVE  Says(When(c, i, s), id) <=> c /\ i = id
<1>1. CASE c
  <2>1. When(c, i, s) = {Finding(i, s)} /\ Finding(i, s).id = i
    BY <1>1 DEF When, Finding
  <2>2. \A f : f \in When(c, i, s) <=> f = Finding(i, s)
    BY <2>1
  <2>3. Says(When(c, i, s), id) <=> Finding(i, s).id = id
    BY <2>2, Zenon DEF Says
  <2> QED
    BY <1>1, <2>1, <2>3
<1>2. CASE ~c
  <2>1. When(c, i, s) = {}
    BY <1>2 DEF When
  <2> QED
    BY <1>2, <2>1 DEF Says
<1> QED
  BY <1>1, <1>2

TlsTells(e, id) ==
  \/ e.supported \cap Deprecated # {} /\ "tls.deprecated-version" = id
  \/ (e.supported # {} /\ "TLS 1.3" \notin e.supported) /\ "tls.no-tls13" = id
  \/ (\E c \in e.suites : BrokenSuite(c)) /\ "tls.broken-ciphers" = id
  \/ (\E c \in e.suites : ~BrokenSuite(c) /\ ~ForwardSecret(c))
       /\ "pqc.no-forward-secrecy" = id
  \/ (\E c \in e.suites : ~BrokenSuite(c) /\ ForwardSecret(c) /\ ~Aead(c))
       /\ "tls.cbc-ciphers" = id

LEMMA TlsSays ==
  ASSUME NEW e, e.reachable, NEW id
  PROVE  Says(TlsFindings(e), id) <=> TlsTells(e, id)
<1> DEFINE sound  == {c \in e.suites : ~BrokenSuite(c)}
           old    == {Finding("tls.deprecated-version", IF v = "SSLv3" THEN "critical" ELSE "high") :
                        v \in e.supported \cap Deprecated}
           late   == e.supported # {} /\ "TLS 1.3" \notin e.supported
           broken == sound # e.suites
           static == \E c \in sound : ~ForwardSecret(c)
           cbc    == \E c \in sound : ForwardSecret(c) /\ ~Aead(c)
<1>1. TlsFindings(e) = old \cup When(late, "tls.no-tls13", "medium")
                           \cup When(broken, "tls.broken-ciphers", "critical")
                           \cup When(static, "pqc.no-forward-secrecy", "critical")
                           \cup When(cbc, "tls.cbc-ciphers", "low")
  BY DEF TlsFindings
<1>2. Says(old, id) <=> e.supported \cap Deprecated # {} /\ "tls.deprecated-version" = id
  <2>1. \A s : Finding("tls.deprecated-version", s).id = "tls.deprecated-version"
    BY DEF Finding
  <2>2. \A f \in old : f.id = "tls.deprecated-version"
    BY <2>1
  <2>3. old # {} <=> e.supported \cap Deprecated # {}
    OBVIOUS
  <2> HIDE DEF old
  <2> QED
    BY <2>2, <2>3 DEF Says
<1>3. /\ broken <=> \E c \in e.suites : BrokenSuite(c)
      /\ static <=> \E c \in e.suites : ~BrokenSuite(c) /\ ~ForwardSecret(c)
      /\ cbc <=> \E c \in e.suites : ~BrokenSuite(c) /\ ForwardSecret(c) /\ ~Aead(c)
  OBVIOUS
<1> HIDE DEF old, late, broken, static, cbc
<1>4. /\ Says(When(late, "tls.no-tls13", "medium"), id) <=> late /\ "tls.no-tls13" = id
      /\ Says(When(broken, "tls.broken-ciphers", "critical"), id)
           <=> broken /\ "tls.broken-ciphers" = id
      /\ Says(When(static, "pqc.no-forward-secrecy", "critical"), id)
           <=> static /\ "pqc.no-forward-secrecy" = id
      /\ Says(When(cbc, "tls.cbc-ciphers", "low"), id) <=> cbc /\ "tls.cbc-ciphers" = id
  BY SaysWhen, Zenon
<1>5. Says(TlsFindings(e), id) <=>
        \/ Says(old, id) \/ Says(When(late, "tls.no-tls13", "medium"), id)
        \/ Says(When(broken, "tls.broken-ciphers", "critical"), id)
        \/ Says(When(static, "pqc.no-forward-secrecy", "critical"), id)
        \/ Says(When(cbc, "tls.cbc-ciphers", "low"), id)
  <2> DEFINE no13 == When(late, "tls.no-tls13", "medium")
             bad == When(broken, "tls.broken-ciphers", "critical")
             fixed == When(static, "pqc.no-forward-secrecy", "critical")
             chained == When(cbc, "tls.cbc-ciphers", "low")
  <2>1. TlsFindings(e) = old \cup no13 \cup bad \cup fixed \cup chained
    BY <1>1
  <2> HIDE DEF no13, bad, fixed, chained
  <2>2. \A f : f \in TlsFindings(e) <=> f \in old \/ f \in no13 \/ f \in bad \/ f \in fixed \/ f \in chained
    BY <2>1
  <2> QED
    BY <2>2, Zenon DEF Says, no13, bad, fixed, chained
<1> QED
  BY <1>2, <1>3, <1>4, <1>5, Zenon DEF late, TlsTells

LEMMA PqcSays ==
  ASSUME NEW e, e.reachable, NEW id
  PROVE  Says(PqcFindings(e), id) <=>
           \/ e.pqc \cap StandardHybrids # {} /\ "pqc.hybrid-enabled" = id
           \/ (e.pqc \cap StandardHybrids = {} /\ e.pqc \cap DraftHybrids # {})
                /\ "pqc.superseded-draft" = id
           \/ (e.pqc = {} /\ e.note) /\ "pqc.probe-inconclusive" = id
           \/ (e.pqc = {} /\ ~e.note) /\ "pqc.no-hybrid-key-exchange" = id
           \/ (e.suites # {} /\ \A c \in e.suites : Suites[c].bits < 256)
                /\ "pqc.symmetric-128-only" = id
<1> DEFINE standard == e.pqc \cap StandardHybrids # {}
           draft    == ~standard /\ e.pqc \cap DraftHybrids # {}
           unknown  == e.pqc = {} /\ e.note
           none     == e.pqc = {} /\ ~e.note
           weak     == e.suites # {} /\ \A c \in e.suites : Suites[c].bits < 256
<1>1. PqcFindings(e) = When(standard, "pqc.hybrid-enabled", "info")
                       \cup When(draft, "pqc.superseded-draft", "medium")
                       \cup When(unknown, "pqc.probe-inconclusive", "info")
                       \cup When(none, "pqc.no-hybrid-key-exchange", "high")
                       \cup When(weak, "pqc.symmetric-128-only", "medium")
  BY DEF PqcFindings
<1>2. draft <=> e.pqc \cap StandardHybrids = {} /\ e.pqc \cap DraftHybrids # {}
  OBVIOUS
<1> HIDE DEF standard, draft, unknown, none, weak
<1>3. /\ Says(When(standard, "pqc.hybrid-enabled", "info"), id)
           <=> standard /\ "pqc.hybrid-enabled" = id
      /\ Says(When(draft, "pqc.superseded-draft", "medium"), id)
           <=> draft /\ "pqc.superseded-draft" = id
      /\ Says(When(unknown, "pqc.probe-inconclusive", "info"), id)
           <=> unknown /\ "pqc.probe-inconclusive" = id
      /\ Says(When(none, "pqc.no-hybrid-key-exchange", "high"), id)
           <=> none /\ "pqc.no-hybrid-key-exchange" = id
      /\ Says(When(weak, "pqc.symmetric-128-only", "medium"), id)
           <=> weak /\ "pqc.symmetric-128-only" = id
  BY SaysWhen, Zenon
<1>4. Says(PqcFindings(e), id) <=>
        \/ Says(When(standard, "pqc.hybrid-enabled", "info"), id)
        \/ Says(When(draft, "pqc.superseded-draft", "medium"), id)
        \/ Says(When(unknown, "pqc.probe-inconclusive", "info"), id)
        \/ Says(When(none, "pqc.no-hybrid-key-exchange", "high"), id)
        \/ Says(When(weak, "pqc.symmetric-128-only", "medium"), id)
  <2> DEFINE hybrid == When(standard, "pqc.hybrid-enabled", "info")
             old == When(draft, "pqc.superseded-draft", "medium")
             noted == When(unknown, "pqc.probe-inconclusive", "info")
             lacking == When(none, "pqc.no-hybrid-key-exchange", "high")
             short == When(weak, "pqc.symmetric-128-only", "medium")
  <2>1. PqcFindings(e) = hybrid \cup old \cup noted \cup lacking \cup short
    BY <1>1
  <2> HIDE DEF hybrid, old, noted, lacking, short
  <2>2. \A f : f \in PqcFindings(e) <=> f \in hybrid \/ f \in old \/ f \in noted \/ f \in lacking \/ f \in short
    BY <2>1
  <2> QED
    BY <2>2, Zenon DEF Says, hybrid, old, noted, lacking, short
<1> QED
  BY <1>2, <1>3, <1>4, Zenon DEF standard, unknown, none, weak

\* The ids of the two rules on TLS that the study tells for itself.
Told == {"tls.broken-ciphers", "tls.deprecated-version", "tls.no-tls13", "pqc.no-forward-secrecy",
         "pqc.hybrid-enabled", "pqc.superseded-draft", "pqc.no-hybrid-key-exchange"}

LEMMA EndpointSays ==
  ASSUME NEW e \in Facts, NEW id \in Told
  PROVE  Says(AllEndpointFindings(e), id) <=>
           e.reachable /\ (Says(TlsFindings(e), id) \/ Says(PqcFindings(e), id))
<1> DEFINE met == e.reachable /\ Intercepted(e)
           notice == When(met, "tls.interception-detected", "info")
<1>1. id \notin CertificateIds /\ id # "tls.unreachable" /\ id # "tls.interception-detected"
  BY DEF Told, CertificateIds
<1>2. ~Says(CertificateFindings(e), id)
  BY <1>1, CertificateOf DEF Says, OfCertificate
<1>3. ~Says(notice, id)
  <2> HIDE DEF met
  <2> QED
    BY <1>1, SaysWhen
<1>4. \A f : f \in AllEndpointFindings(e) <=>
        \/ f \in CertificateFindings(e) \/ f \in TlsFindings(e) \/ f \in PqcFindings(e)
        \/ f \in notice
  BY DEF AllEndpointFindings, EndpointFindings
<1> HIDE DEF notice
<1>5. Says(AllEndpointFindings(e), id) <=> Says(TlsFindings(e), id) \/ Says(PqcFindings(e), id)
  BY <1>2, <1>3, <1>4, Zenon DEF Says
<1>6. ~e.reachable => ~Says(TlsFindings(e), id) /\ ~Says(PqcFindings(e), id)
  BY <1>1 DEF Says, TlsFindings, PqcFindings, Finding
<1> QED
  BY <1>5, <1>6

\* What the findings say is what the rules say of a live endpoint.
LEMMA IdsSay ==
  ASSUME IInv, stage # "endpoints", NEW id \in Told
  PROVE  id \in Ids(findings) <=>
           \E i \in Live : Says(TlsFindings(endpoints[i]), id) \/ Says(PqcFindings(endpoints[i]), id)
<1>1. PICK n \in 0 .. MaxEndpoints : endpoints \in [1 .. n -> Facts]
  BY DEF IInv, Placed
<1>2. n \in Nat /\ Labels = 1 .. n /\ done = n
  BY <1>1, BoundAssumption, LengthIs DEF IInv, Placed, Labels
<1>3. \A i \in 1 .. done : endpoints[i] \in Facts
  BY <1>1, <1>2
<1>4. id \in AboutEndpoints \ {Governance}
  BY DEF Told, AboutEndpoints, Governance
<1>5. id \in Ids(findings) <=> \E i \in 1 .. done : Says(AllEndpointFindings(endpoints[i]), id)
  <2>1. ASSUME NEW f \in findings, f.id = id
        PROVE  \E i \in 1 .. done : Says(AllEndpointFindings(endpoints[i]), id)
    <3>1. PICK i \in 1 .. done : f \in Seen(i)
      BY <1>4, <2>1 DEF IInv, Ruled
    <3>2. \E g \in AllEndpointFindings(endpoints[i]) : f.id = g.id
      BY <3>1, Targeted DEF Seen
    <3> QED
      BY <2>1, <3>2 DEF Says
  <2>2. ASSUME NEW i \in 1 .. done, Says(AllEndpointFindings(endpoints[i]), id)
        PROVE  \E f \in findings : f.id = id
    <3>1. \E f \in Seen(i) : f.id = id
      BY <2>2, Targeted DEF Says, Seen
    <3> QED
      BY <3>1 DEF IInv, Ruled
  <2> QED
    BY <2>1, <2>2 DEF Ids
<1>6. \A i \in 1 .. done :
        Says(AllEndpointFindings(endpoints[i]), id) <=>
          endpoints[i].reachable
            /\ (Says(TlsFindings(endpoints[i]), id) \/ Says(PqcFindings(endpoints[i]), id))
  BY <1>3, EndpointSays
<1>7. \A i : i \in Live <=> i \in 1 .. done /\ endpoints[i].reachable
  BY <1>2 DEF Live
<1> QED
  BY <1>5, <1>6, <1>7, Zenon

LEMMA IdsMean ==
  ASSUME IInv, stage # "endpoints"
  PROVE  /\ "tls.broken-ciphers" \in Ids(findings) <=>
              \E i \in Live : \E c \in endpoints[i].suites : BrokenSuite(c)
         /\ "tls.deprecated-version" \in Ids(findings) <=>
              \E i \in Live : endpoints[i].supported \cap Deprecated # {}
         /\ "tls.no-tls13" \in Ids(findings) <=>
              \E i \in Live : endpoints[i].supported # {} /\ "TLS 1.3" \notin endpoints[i].supported
         /\ "pqc.no-forward-secrecy" \in Ids(findings) <=>
              \E i \in Live : \E c \in endpoints[i].suites : ~BrokenSuite(c) /\ ~ForwardSecret(c)
         /\ "pqc.hybrid-enabled" \in Ids(findings) <=>
              \E i \in Live : endpoints[i].pqc \cap StandardHybrids # {}
         /\ "pqc.superseded-draft" \in Ids(findings) <=>
              \E i \in Live : /\ endpoints[i].pqc \cap StandardHybrids = {}
                              /\ endpoints[i].pqc \cap DraftHybrids # {}
<1>1. \A i \in Live : endpoints[i].reachable
  BY DEF Live
<1> DEFINE Tls(i, id) == Says(TlsFindings(endpoints[i]), id)
           Pqc(i, id) == Says(PqcFindings(endpoints[i]), id)
<1>2. \A i \in Live :
        /\ Tls(i, "tls.broken-ciphers") <=> \E c \in endpoints[i].suites : BrokenSuite(c)
        /\ Tls(i, "tls.deprecated-version") <=> endpoints[i].supported \cap Deprecated # {}
        /\ Tls(i, "tls.no-tls13") <=>
             endpoints[i].supported # {} /\ "TLS 1.3" \notin endpoints[i].supported
        /\ Tls(i, "pqc.no-forward-secrecy") <=>
             \E c \in endpoints[i].suites : ~BrokenSuite(c) /\ ~ForwardSecret(c)
        /\ ~Tls(i, "pqc.hybrid-enabled") /\ ~Tls(i, "pqc.superseded-draft")
  <2>1. \A i \in Live : \A id : Tls(i, id) <=> TlsTells(endpoints[i], id)
    BY <1>1, TlsSays, Zenon
  <2>2. \A e : /\ TlsTells(e, "tls.broken-ciphers") <=> \E c \in e.suites : BrokenSuite(c)
               /\ TlsTells(e, "tls.deprecated-version") <=> e.supported \cap Deprecated # {}
               /\ TlsTells(e, "tls.no-tls13") <=>
                    e.supported # {} /\ "TLS 1.3" \notin e.supported
               /\ TlsTells(e, "pqc.no-forward-secrecy") <=>
                    \E c \in e.suites : ~BrokenSuite(c) /\ ~ForwardSecret(c)
               /\ ~TlsTells(e, "pqc.hybrid-enabled") /\ ~TlsTells(e, "pqc.superseded-draft")
    BY DEF TlsTells
  <2> HIDE DEF Tls
  <2> QED
    BY <2>1, <2>2, Zenon
<1>3. \A i \in Live :
        /\ ~Pqc(i, "tls.broken-ciphers") /\ ~Pqc(i, "tls.deprecated-version")
        /\ ~Pqc(i, "tls.no-tls13") /\ ~Pqc(i, "pqc.no-forward-secrecy")
        /\ Pqc(i, "pqc.hybrid-enabled") <=> endpoints[i].pqc \cap StandardHybrids # {}
        /\ Pqc(i, "pqc.superseded-draft") <=>
             endpoints[i].pqc \cap StandardHybrids = {} /\ endpoints[i].pqc \cap DraftHybrids # {}
  BY <1>1, PqcSays
<1>4. \A id \in Told : id \in Ids(findings) <=> \E i \in Live : Tls(i, id) \/ Pqc(i, id)
  BY IdsSay
<1>5. {"tls.broken-ciphers", "tls.deprecated-version", "tls.no-tls13", "pqc.no-forward-secrecy",
       "pqc.hybrid-enabled", "pqc.superseded-draft"} \subseteq Told
  BY DEF Told
<1> HIDE DEF Tls, Pqc
<1> QED
  BY <1>2, <1>3, <1>4, <1>5

\* The study's own lists are those of the rules.
LEMMA StudyCopies ==
  OldVersions = Deprecated /\ \A c : WeakSuite(c) <=> BrokenSuite(c)
BY DEF OldVersions, Deprecated, WeakSuite, BrokenSuite

\* The rules, the readiness score and the study classify suites and groups alike.
THEOREM OneClassification == Spec => []ClassificationsAgree
<1>1. ASSUME IInv, NEW r \in row
      PROVE  /\ r.weakCiphers <=> "tls.broken-ciphers" \in r.ids
             /\ r.deprecated  <=> "tls.deprecated-version" \in r.ids
             /\ ~r.tls13 /\ (\E i \in Live : endpoints[i].supported # {}) => "tls.no-tls13" \in r.ids
             /\ r.forwardSecrecy <=>
                  \A i \in Live : endpoints[i].suites # {} => ForwardSecrecy(endpoints[i])
             /\ "pqc.no-forward-secrecy" \in r.ids => ~r.forwardSecrecy
             /\ ~r.forwardSecrecy => {"pqc.no-forward-secrecy", "tls.broken-ciphers"} \cap r.ids # {}
             /\ {"pqc.hybrid-enabled", "pqc.superseded-draft"} \cap r.ids # {} => r.pqcReady
             /\ r.pqcReady /\ {"pqc.hybrid-enabled", "pqc.superseded-draft"} \cap r.ids = {} =>
                  \E i \in Live : endpoints[i].pqc # {}
                                  /\ endpoints[i].pqc \cap (StandardHybrids \cup DraftHybrids) = {}
  <2>1. RowOf(r, endpoints, findings) /\ stage # "endpoints"
    BY <1>1 DEF IInv, Extracted, Scored
  <2>2. /\ r.pqcReady <=> \E i \in Live : endpoints[i].pqc # {}
        /\ r.tls13 <=> \E i \in Live : "TLS 1.3" \in endpoints[i].supported
        /\ r.deprecated <=> \E i \in Live : endpoints[i].supported \cap Deprecated # {}
        /\ r.forwardSecrecy <=> \A i \in Live : \A c \in endpoints[i].suites : ForwardSecret(c)
        /\ r.weakCiphers <=> \E i \in Live : \E c \in endpoints[i].suites : BrokenSuite(c)
        /\ r.ids = Ids(findings)
    BY <2>1, StudyCopies DEF RowOf, Live, Labels
  <2>3. r.forwardSecrecy <=>
          \A i \in Live : endpoints[i].suites # {} => ForwardSecrecy(endpoints[i])
    BY <2>2 DEF ForwardSecrecy
  <2>4. ~r.tls13 /\ (\E i \in Live : endpoints[i].supported # {}) => "tls.no-tls13" \in r.ids
    BY <1>1, <2>1, <2>2, IdsMean
  <2>5. /\ r.weakCiphers <=> "tls.broken-ciphers" \in r.ids
        /\ r.deprecated  <=> "tls.deprecated-version" \in r.ids
        /\ "pqc.no-forward-secrecy" \in r.ids => ~r.forwardSecrecy
        /\ ~r.forwardSecrecy => "pqc.no-forward-secrecy" \in r.ids \/ "tls.broken-ciphers" \in r.ids
    BY <1>1, <2>1, <2>2, IdsMean
  <2>6. "pqc.hybrid-enabled" \in r.ids \/ "pqc.superseded-draft" \in r.ids => r.pqcReady
    BY <1>1, <2>1, <2>2, IdsMean
  <2>7. r.pqcReady /\ "pqc.hybrid-enabled" \notin r.ids /\ "pqc.superseded-draft" \notin r.ids =>
          \E i \in Live : endpoints[i].pqc # {}
                          /\ endpoints[i].pqc \cap (StandardHybrids \cup DraftHybrids) = {}
    BY <1>1, <2>1, <2>2, IdsMean
  <2> QED
    BY <2>3, <2>4, <2>5, <2>6, <2>7
<1>2. IInv => ClassificationsAgree
  BY <1>1 DEF ClassificationsAgree
<1> QED
  BY <1>2, AnalysisInvariant, PTL

-----------------------------------------------------------------------------
(* The inventory beside the findings.                                      *)

InRow(n, i) == n \in RsaStrength[i][1] + 1 .. RsaStrength[i + 1][1]

\* A quotient of naturals is natural.
LEMMA Quotient == \A m \in Nat : \A k \in Nat \ {0} : m \div k \in Nat
OBVIOUS

\* The table of RSA strengths passes 112 bits at 2048.
LEMMA WeakRsa == ASSUME NEW n \in Nat PROVE RsaBits(n) < 112 <=> n < 2048
<1>1. CASE n <= 1024
  <2>1. (80 * n) \div 1024 <= 80
    BY <1>1
  <2>2. /\ n = 0 => RsaBits(n) = 0
        /\ n \in 1 .. 12 => RsaBits(n) = 1
        /\ n \in 13 .. 1024 => RsaBits(n) = (80 * n) \div 1024
    BY DEF RsaBits
  <2> QED
    BY <1>1, <2>1, <2>2
<1>2. CASE n \in 1025 .. 15360
  <2> DEFINE i == Row(n)
  <2>1. RsaBits(n) = Interpolated(n)
    BY <1>2 DEF RsaBits
  <2>2. /\ RsaStrength[1] = <<1024, 80>> /\ RsaStrength[2] = <<2048, 112>>
        /\ RsaStrength[3] = <<3072, 128>> /\ RsaStrength[4] = <<7680, 192>>
        /\ RsaStrength[5] = <<15360, 256>>
    BY DEF RsaStrength
  <2>3. /\ InRow(n, 1) <=> n \in 1025 .. 2048
        /\ InRow(n, 2) <=> n \in 2049 .. 3072
        /\ InRow(n, 3) <=> n \in 3073 .. 7680
        /\ InRow(n, 4) <=> n \in 7681 .. 15360
    <3>1. /\ RsaStrength[1][1] = 1024 /\ RsaStrength[2][1] = 2048 /\ RsaStrength[3][1] = 3072
          /\ RsaStrength[4][1] = 7680 /\ RsaStrength[5][1] = 15360
      BY <2>2
    <3>2. InRow(n, 1) <=> n \in 1025 .. 2048
      BY <3>1 DEF InRow
    <3>3. InRow(n, 2) <=> n \in 2049 .. 3072
      BY <3>1 DEF InRow
    <3>4. InRow(n, 3) <=> n \in 3073 .. 7680
      BY <3>1 DEF InRow
    <3>5. InRow(n, 4) <=> n \in 7681 .. 15360
      BY <3>1 DEF InRow
    <3> QED
      BY <3>2, <3>3, <3>4, <3>5
  <2>4. \E j \in 1 .. 4 : InRow(n, j)
    <3>1. InRow(n, 1) \/ InRow(n, 2) \/ InRow(n, 3) \/ InRow(n, 4)
      BY <1>2, <2>3
    <3> QED
      BY <3>1
  <2>5. i \in 1 .. 4 /\ InRow(n, i)
    BY <2>4 DEF Row, InRow
  <2>6. RsaBits(n) = RsaStrength[i][2]
            + ((n - RsaStrength[i][1]) * (RsaStrength[i + 1][2] - RsaStrength[i][2]))
                \div (RsaStrength[i + 1][1] - RsaStrength[i][1])
    BY <2>1, Zenon DEF Interpolated
  <2> HIDE DEF i
  <2>7. i \in {1, 2, 3, 4}
    BY <2>5
  <2>8. CASE i = 1
    <3>1. RsaStrength[i] = <<1024, 80>> /\ RsaStrength[i + 1] = <<2048, 112>>
      BY <2>2, <2>8
    <3>2. RsaBits(n) = 80 + ((n - 1024) * (112 - 80)) \div (2048 - 1024)
      BY <2>6, <3>1
    <3>3. n \in 1025 .. 2048
      BY <2>3, <2>5, <2>8
    <3> QED
      BY <3>2, <3>3, Quotient
  <2>9. CASE i = 2
    <3>1. RsaStrength[i] = <<2048, 112>> /\ RsaStrength[i + 1] = <<3072, 128>>
      BY <2>2, <2>9
    <3>2. RsaBits(n) = 112 + ((n - 2048) * (128 - 112)) \div (3072 - 2048)
      BY <2>6, <3>1
    <3>3. n \in 2049 .. 3072
      BY <2>3, <2>5, <2>9
    <3> QED
      BY <3>2, <3>3, Quotient
  <2>10. CASE i = 3
    <3>1. RsaStrength[i] = <<3072, 128>> /\ RsaStrength[i + 1] = <<7680, 192>>
      BY <2>2, <2>10
    <3>2. RsaBits(n) = 128 + ((n - 3072) * (192 - 128)) \div (7680 - 3072)
      BY <2>6, <3>1
    <3>3. n \in 3073 .. 7680
      BY <2>3, <2>5, <2>10
    <3> QED
      BY <3>2, <3>3, Quotient
  <2>11. CASE i = 4
    <3>1. RsaStrength[i] = <<7680, 192>> /\ RsaStrength[i + 1] = <<15360, 256>>
      BY <2>2, <2>11
    <3>2. RsaBits(n) = 192 + ((n - 7680) * (256 - 192)) \div (15360 - 7680)
      BY <2>6, <3>1
    <3>3. n \in 7681 .. 15360
      BY <2>3, <2>5, <2>11
    <3> QED
      BY <3>2, <3>3, Quotient
  <2> QED
    BY <2>7, <2>8, <2>9, <2>10, <2>11
<1>3. CASE n > 15360
  BY <1>3 DEF RsaBits
<1> QED
  BY <1>1, <1>2, <1>3

KeyIds == {"pqc.classical-certificate-key", "certificate.weak-key", "certificate.weak-curve"}

LEMMA KeySays ==
  ASSUME NEW k
  PROVE  /\ Says(KeyFindings(k), "pqc.classical-certificate-key") <=> AssessKey(k).by = "Shor"
         /\ Says(KeyFindings(k), "certificate.weak-key") <=> k.alg \in RsaKeys /\ k.bits < 2048
         /\ Says(KeyFindings(k), "certificate.weak-curve") <=>
              k.alg = "EC" /\ AssessKey(k).classical < 112
<1> DEFINE short == k.alg \in RsaKeys /\ k.bits < 2048
           curve == k.alg = "EC" /\ AssessKey(k).classical < 112
           shor  == ~AssessKey(k).safe /\ AssessKey(k).by = "Shor"
           small == k.exponent # 0 /\ k.exponent < 65537
           a == When(short, "certificate.weak-key", "critical")
           b == When(curve, "certificate.weak-curve", "high")
           c == When(shor, "pqc.classical-certificate-key", "high")
           d == When(small, "certificate.small-rsa-exponent", "low")
<1>1. KeyFindings(k) = a \cup b \cup c \cup d
  BY DEF KeyFindings
<1>2. shor <=> AssessKey(k).by = "Shor"
  BY ShorLeavesNothing
<1> HIDE DEF short, curve, shor, small
<1>3. \A id : /\ Says(a, id) <=> short /\ "certificate.weak-key" = id
              /\ Says(b, id) <=> curve /\ "certificate.weak-curve" = id
              /\ Says(c, id) <=> shor /\ "pqc.classical-certificate-key" = id
              /\ Says(d, id) <=> small /\ "certificate.small-rsa-exponent" = id
  BY SaysWhen, Zenon
<1> HIDE DEF a, b, c, d
<1>4. \A f : f \in KeyFindings(k) <=> f \in a \/ f \in b \/ f \in c \/ f \in d
  BY <1>1
<1>5. \A id : Says(KeyFindings(k), id) <=> Says(a, id) \/ Says(b, id) \/ Says(c, id) \/ Says(d, id)
  BY <1>4, Zenon DEF Says
<1>6. /\ Says(KeyFindings(k), "pqc.classical-certificate-key") <=> shor
      /\ Says(KeyFindings(k), "certificate.weak-key") <=> short
      /\ Says(KeyFindings(k), "certificate.weak-curve") <=> curve
  BY <1>3, <1>5
<1> QED
  BY <1>2, <1>6 DEF short, curve

\* A finding about a key is said of the endpoint whose certificate holds the key.
LEMMA KeysSay ==
  ASSUME NEW e, NEW id \in KeyIds
  PROVE  Says(AllEndpointFindings(e), id) <=>
           \E c \in e.leaf : \E k \in c.key : Says(KeyFindings(k), id)
<1> DEFINE met == e.reachable /\ Intercepted(e)
           notice == When(met, "tls.interception-detected", "info")
<1>1. /\ id # "tls.unreachable" /\ id # "tls.interception-detected"
      /\ id # "certificate.unreadable" /\ id # "certificate.broken-signature-hash"
      /\ id # "certificate.broad-wildcard"
  BY DEF KeyIds
<1>2. ~Says(notice, id)
  <2> HIDE DEF met
  <2> QED
    BY <1>1, SaysWhen
<1>3. \A f : f \in AllEndpointFindings(e) <=>
        \/ f \in CertificateFindings(e) \/ f \in EndpointFindings(e) \/ f \in notice
  BY DEF AllEndpointFindings
<1>4. ~Says(EndpointFindings(e), id)
  <2>1. CASE e.reachable
    <3>1. ~Says(TlsFindings(e), id)
      BY <2>1, TlsSays DEF KeyIds, TlsTells
    <3>2. ~Says(PqcFindings(e), id)
      BY <2>1, PqcSays DEF KeyIds
    <3> QED
      BY <3>1, <3>2 DEF Says, EndpointFindings
  <2>2. CASE ~e.reachable
    BY <1>1, <2>2 DEF Says, EndpointFindings, TlsFindings, PqcFindings, Finding
  <2> QED
    BY <2>1, <2>2
<1>5. \A c : ~Says(ValidityFindings(c), id) /\ ~Says(TrustFindings(e, c), id)
  BY DEF KeyIds, Says, ValidityFindings, TrustFindings, When, Finding
<1>6. \A c : Says(StrengthFindings(c), id) <=> \E k \in c.key : Says(KeyFindings(k), id)
  <2> TAKE c
  <2> DEFINE bad == c.hash \in BrokenHashes
             hash == When(bad, "certificate.broken-signature-hash", "critical")
             wild == When(c.wildcard, "certificate.broad-wildcard", "medium")
  <2>1. \A f : f \in StrengthFindings(c) <=>
          (\E k \in c.key : f \in KeyFindings(k)) \/ f \in hash \/ f \in wild
    BY DEF StrengthFindings
  <2> HIDE DEF bad
  <2>2. ~Says(hash, id) /\ ~Says(wild, id)
    BY <1>1, SaysWhen
  <2> HIDE DEF hash, wild
  <2> QED
    BY <2>1, <2>2, Zenon DEF Says
<1>7. Says(CertificateFindings(e), id) <=>
        \E c \in e.leaf : \E k \in c.key : Says(KeyFindings(k), id)
  <2>1. CASE e.leaf = {}
    <3>1. CertificateFindings(e) = When(e.reachable, "certificate.unreadable", "high")
      BY <2>1 DEF CertificateFindings
    <3> QED
      BY <1>1, <2>1, <3>1, SaysWhen
  <2>2. CASE e.leaf # {}
    <3>1. \A f : f \in CertificateFindings(e) <=>
            \E c \in e.leaf : \/ f \in ValidityFindings(c) \/ f \in TrustFindings(e, c)
                              \/ f \in StrengthFindings(c)
      BY <2>2 DEF CertificateFindings
    <3>2. Says(CertificateFindings(e), id) <=> \E c \in e.leaf : Says(StrengthFindings(c), id)
      BY <1>5, <3>1, Zenon DEF Says
    <3> QED
      BY <1>6, <3>2, Zenon
  <2> QED
    BY <2>1, <2>2
<1> HIDE DEF notice
<1>8. Says(AllEndpointFindings(e), id) <=> Says(CertificateFindings(e), id)
  BY <1>2, <1>3, <1>4, Zenon DEF Says
<1> QED
  BY <1>7, <1>8, Zenon

\* A finding about an endpoint is said of that endpoint.
LEMMA SaidOf ==
  ASSUME IInv, stage # "endpoints", NEW i \in Labels, NEW id \in AboutEndpoints \ {Governance}
  PROVE  Said(i, id) <=> Says(AllEndpointFindings(endpoints[i]), id)
<1>1. PICK n \in 0 .. MaxEndpoints : endpoints \in [1 .. n -> Facts]
  BY DEF IInv, Placed
<1>2. n \in Nat /\ Labels = 1 .. n /\ done = n
  BY <1>1, BoundAssumption, LengthIs DEF IInv, Placed, Labels
<1>3. ASSUME NEW f \in findings, f.id = id, f.target = i
      PROVE  Says(AllEndpointFindings(endpoints[i]), id)
  <2>1. PICK j \in 1 .. done : f \in Seen(j)
    BY <1>3 DEF IInv, Ruled
  <2>2. PICK g \in AllEndpointFindings(endpoints[j]) : f.id = g.id /\ f.target = j
    BY <2>1, Targeted DEF Seen
  <2> QED
    BY <1>3, <2>2 DEF Says
<1>4. ASSUME Says(AllEndpointFindings(endpoints[i]), id) PROVE Said(i, id)
  <2>1. \E f \in Seen(i) : f.id = id /\ f.target = i
    BY <1>4, Targeted DEF Says, Seen
  <2> QED
    BY <1>2, <2>1 DEF IInv, Ruled, Said
<1> QED
  BY <1>3, <1>4 DEF Said

\* What each assessment is based on; what Shor's algorithm breaks is not safe.
LEMMA ByShor ==
  /\ \A h : AssessHash(h).by # "Shor"
  /\ \A n : AssessCipher(n).by # "Shor"
  /\ Assessed(0, 0, "Shor").by = "Shor" /\ ~Assessed(0, 0, "Shor").safe
  /\ Assessed(0, 128, "none").by = "none"
<1>1. \A c, q, b : Assessed(c, q, b).by = b /\ (Assessed(c, q, b).safe <=> q >= 128)
  BY Zenon DEF Assessed
<1>2. ~(0 >= 128)
  OBVIOUS
<1>3. \A h : \E c, q, b : b # "Shor" /\ AssessHash(h) = Assessed(c, q, b)
  BY DEF AssessHash
<1>4. \A n : \E c, q, b : b # "Shor" /\ AssessCipher(n) = Assessed(c, q, b)
  BY DEF AssessCipher
<1> QED
  BY <1>1, <1>2, <1>3, <1>4

LEMMA AssetKinds ==
  ASSUME NEW e, IsFact(e)
  PROVE  /\ \A x \in Inventory(e) : x.by = "Shor" => ~x.safe
         /\ (\E x \in Inventory(e) : x.kind = "signature" /\ x.by = "Shor") <=>
              \E c \in e.leaf : \E k \in c.key : AssessKey(k).by = "Shor"
         /\ e.reachable /\ e.classical # {} => \E x \in Inventory(e) : x.by = "Shor"
<1> DEFINE Signature(k) == Asset("signature", <<k.alg, k.bits>>, AssessKey(k))
           Hash(h) == Asset("hash", <<h, 0>>, AssessHash(h))
           Exchange(g) == Asset("key-exchange", <<"group", g>>, Assessed(0, 0, "Shor"))
           Encapsulation(g) == Asset("key-encapsulation", <<"group", g>>, Assessed(0, 128, "none"))
           Cipher(s) == Asset("cipher", <<Suites[s].cipher, Suites[s].bits>>, AssessCipher(Suites[s].bits))
<1>1. /\ \A k : Signature(k).kind = "signature" /\ Signature(k).by = AssessKey(k).by
                /\ Signature(k).safe = AssessKey(k).safe
      /\ \A h : Hash(h).kind = "hash" /\ Hash(h).by # "Shor"
      /\ \A g : Exchange(g).kind = "key-exchange" /\ Exchange(g).by = "Shor" /\ ~Exchange(g).safe
      /\ \A g : Encapsulation(g).by # "Shor"
      /\ \A s : Cipher(s).by # "Shor"
  <2> DEFINE broken == Assessed(0, 0, "Shor")
             safe == Assessed(0, 128, "none")
  <2>1. broken.by = "Shor" /\ ~broken.safe /\ safe.by = "none"
    BY ByShor
  <2> HIDE DEF broken, safe
  <2>2. \A k : Signature(k).kind = "signature" /\ Signature(k).by = AssessKey(k).by
                /\ Signature(k).safe = AssessKey(k).safe
    BY DEF Asset
  <2>3. \A h : Hash(h).kind = "hash" /\ Hash(h).by = AssessHash(h).by
    BY DEF Asset
  <2>4. \A g : Exchange(g).kind = "key-exchange" /\ Exchange(g).by = broken.by
               /\ Exchange(g).safe = broken.safe
    BY DEF Asset, broken
  <2>5. \A g : Encapsulation(g).by = safe.by
    BY DEF Asset, safe
  <2>6. \A s : Cipher(s).by = AssessCipher(Suites[s].bits).by
    BY DEF Asset
  <2> HIDE DEF Signature, Hash, Exchange, Encapsulation, Cipher
  <2> QED
    BY <2>1, <2>2, <2>3, <2>4, <2>5, <2>6, ByShor
<1>2. \A x : x \in CertificateAssets(e) <=>
        \E c \in e.leaf : \/ \E k \in c.key : x = Signature(k)
                          \/ \E h \in {c.hash} \ {"none"} : x = Hash(h)
  <2>1. CertificateAssets(e) =
          UNION {{Signature(k) : k \in c.key} \cup {Hash(h) : h \in {c.hash} \ {"none"}} : c \in e.leaf}
    BY DEF CertificateAssets
  <2> HIDE DEF Signature, Hash
  <2> QED
    BY <2>1
<1>3. \A x : x \in Inventory(e) <=>
        /\ e.reachable
        /\ \/ x \in CertificateAssets(e)
           \/ \E g \in e.classical \cap ClassicalCodes : x = Exchange(g)
           \/ \E g \in e.pqc : x = Encapsulation(g)
           \/ \E s \in e.suites : x = Cipher(s)
  BY DEF Inventory
<1> HIDE DEF Signature, Hash, Exchange, Encapsulation, Cipher
<1>4. \A x \in Inventory(e) : x.by = "Shor" =>
        \/ \E c \in e.leaf : \E k \in c.key : x = Signature(k)
        \/ \E g : x = Exchange(g)
  BY <1>1, <1>2, <1>3
<1>5. \A x \in Inventory(e) : x.by = "Shor" => ~x.safe
  <2> TAKE x \in Inventory(e)
  <2> HAVE x.by = "Shor"
  <2>1. CASE \E c \in e.leaf : \E k \in c.key : x = Signature(k)
    BY <1>1, <2>1, ShorLeavesNothing
  <2>2. CASE \E g : x = Exchange(g)
    BY <1>1, <2>2
  <2> QED
    BY <1>4, <2>1, <2>2
<1>6. ASSUME NEW x \in Inventory(e), x.kind = "signature", x.by = "Shor"
      PROVE  \E c \in e.leaf : \E k \in c.key : AssessKey(k).by = "Shor"
  BY <1>1, <1>4, <1>6
<1>7. ASSUME NEW c \in e.leaf, NEW k \in c.key, AssessKey(k).by = "Shor"
      PROVE  \E x \in Inventory(e) : x.kind = "signature" /\ x.by = "Shor"
  <2>1. e.reachable
    BY DEF IsFact, IsProbed
  <2>2. Signature(k) \in Inventory(e)
    BY <1>2, <1>3, <2>1
  <2> QED
    BY <1>1, <1>7, <2>2
<1>8. ASSUME e.reachable, e.classical # {} PROVE \E x \in Inventory(e) : x.by = "Shor"
  <2>1. PICK g \in e.classical : g \in ClassicalCodes
    BY <1>8 DEF IsFact, IsProbed
  <2>2. Exchange(g) \in Inventory(e)
    BY <1>3, <1>8, <2>1
  <2> QED
    BY <1>1, <2>2
<1> QED
  BY <1>5, <1>6, <1>7, <1>8

\* The governance finding stands exactly if an asset is broken by Shor.
LEMMA GovernanceSays ==
  ASSUME IInv, Scored
  PROVE  /\ assets = Estate
         /\ \A a \in assets : \E i \in Labels : a[1] = i /\ a[2] \in Inventory(endpoints[i])
         /\ \A i \in Labels : endpoints[i] \in Facts
         /\ Governance \in Ids(findings) <=> \E a \in assets : a[2].by = "Shor"
<1>1. PICK n \in 0 .. MaxEndpoints : endpoints \in [1 .. n -> Facts]
  BY DEF IInv, Placed
<1>2. \A i \in Labels : endpoints[i] \in Facts
  BY <1>1 DEF Labels
<1>3. /\ assets = Estate /\ Governed(assets) \subseteq findings
      /\ \A f \in findings : f.id = Governance => f \in Governed(assets)
  BY DEF IInv, Inventoried, Scored, Early
<1>4. \A a \in assets : \E i \in Labels : a[1] = i /\ a[2] \in Inventory(endpoints[i])
  BY <1>3 DEF Estate
<1>5. \A a \in assets : a[2].by = "Shor" => ~a[2].safe
  BY <1>2, <1>4, AssetKinds, FactsAssumption
<1> DEFINE known == {a[2] : a \in assets}
<1>6. \A x : x \in Vulnerable(known) <=> \E a \in assets : x = a[2] /\ ~a[2].safe /\ a[2].by = "Shor"
  BY DEF Vulnerable
<1> HIDE DEF known
<1>7. Vulnerable(known) # {} <=> \E a \in assets : a[2].by = "Shor"
  BY <1>5, <1>6
<1>8. Governed(assets) # {} <=> Vulnerable(known) # {}
  BY DEF Governed, GovernanceFindings, When, At, known
<1>9. \A f \in Governed(assets) : f.id = Governance
  BY DEF Governed, GovernanceFindings, When, Finding, At, Governance
<1>10. Governance \in Ids(findings) <=> Governed(assets) # {}
  BY <1>3, <1>9 DEF Ids
<1> QED
  BY <1>2, <1>3, <1>4, <1>7, <1>8, <1>10

\* The findings and the inventory tell one story, for every set of facts.
THEOREM OneStory == Spec => []InventoryMatchesFindings
<1>1. ASSUME IInv, Scored, NEW i \in Labels
      PROVE  /\ Said(i, "pqc.classical-certificate-key") <=>
                  \E a \in assets : a[1] = i /\ a[2].kind = "signature" /\ a[2].by = "Shor"
             /\ Said(i, "certificate.weak-key") \/ Said(i, "certificate.weak-curve") <=>
                  \E c \in endpoints[i].leaf : \E k \in c.key :
                    k.alg \in RsaKeys \cup {"EC"} /\ AssessKey(k).classical < 112
             /\ Said(i, "pqc.no-hybrid-key-exchange")
                  /\ "governance.cryptographic-inventory" \notin Ids(findings) =>
                  endpoints[i].classical = {}
  <2> DEFINE e == endpoints[i]
  <2>1. stage # "endpoints" /\ e \in Facts /\ IsFact(e) /\ assets = Estate
    BY <1>1, GovernanceSays, FactsAssumption DEF Scored
  <2>2. \A x : <<i, x>> \in assets <=> x \in Inventory(e)
    BY <2>1 DEF Estate
  <2>3. \A a \in assets : a[1] = i => a[2] \in Inventory(e)
    BY <1>1, GovernanceSays
  <2>4. /\ KeyIds \subseteq AboutEndpoints \ {Governance}
        /\ "pqc.no-hybrid-key-exchange" \in AboutEndpoints \ {Governance}
        /\ "pqc.no-hybrid-key-exchange" \in Told
        /\ {"pqc.classical-certificate-key", "certificate.weak-key", "certificate.weak-curve"} = KeyIds
    BY DEF KeyIds, AboutEndpoints, Governance, Told
  <2>5. \A id \in KeyIds : Said(i, id) <=>
          \E c \in e.leaf : \E k \in c.key : Says(KeyFindings(k), id)
    BY <1>1, <2>1, <2>4, SaidOf, KeysSay
  <2> HIDE DEF e
  <2>6. Said(i, "pqc.classical-certificate-key") <=>
          \E a \in assets : a[1] = i /\ a[2].kind = "signature" /\ a[2].by = "Shor"
    <3>1. Said(i, "pqc.classical-certificate-key") <=>
            \E c \in e.leaf : \E k \in c.key : AssessKey(k).by = "Shor"
      BY <2>4, <2>5, KeySays
    <3>2. (\E x \in Inventory(e) : x.kind = "signature" /\ x.by = "Shor") <=>
            \E c \in e.leaf : \E k \in c.key : AssessKey(k).by = "Shor"
      BY <2>1, AssetKinds
    <3>3. (\E x \in Inventory(e) : x.kind = "signature" /\ x.by = "Shor") <=>
            \E a \in assets : a[1] = i /\ a[2].kind = "signature" /\ a[2].by = "Shor"
      <4>1. ASSUME NEW x \in Inventory(e), x.kind = "signature", x.by = "Shor"
            PROVE  \E a \in assets : a[1] = i /\ a[2].kind = "signature" /\ a[2].by = "Shor"
        <5>1. <<i, x>> \in assets /\ <<i, x>>[1] = i /\ <<i, x>>[2] = x
          BY <2>2
        <5> QED
          BY <4>1, <5>1
      <4> QED
        BY <2>3, <4>1
    <3> QED
      BY <3>1, <3>2, <3>3, Zenon
  <2>7. Said(i, "certificate.weak-key") \/ Said(i, "certificate.weak-curve") <=>
          \E c \in e.leaf : \E k \in c.key :
            k.alg \in RsaKeys \cup {"EC"} /\ AssessKey(k).classical < 112
    <3>1. ASSUME NEW c \in e.leaf, NEW k \in c.key
          PROVE  Says(KeyFindings(k), "certificate.weak-key")
                   \/ Says(KeyFindings(k), "certificate.weak-curve") <=>
                     k.alg \in RsaKeys \cup {"EC"} /\ AssessKey(k).classical < 112
      <4>1. k.bits \in Nat
        BY <2>1 DEF IsFact, IsProbed
      <4>2. \A x, q, b : Assessed(x, q, b).classical = x
        BY DEF Assessed
      <4>3. k.alg \in RsaKeys => AssessKey(k).classical = RsaBits(k.bits)
        <5>1. k.alg \in RsaKeys => k.alg \notin StandardKeys
          BY DEF RsaKeys, StandardKeys
        <5>2. k.alg \in RsaKeys => AssessKey(k) = Assessed(RsaBits(k.bits), 0, "Shor")
          BY <5>1 DEF AssessKey, RsaKeys, CurveKeys, FixedCurves
        <5> QED
          BY <4>2, <5>2
      <4>4. "EC" \notin RsaKeys
        BY DEF RsaKeys
      <4> QED
        BY <4>1, <4>3, <4>4, KeySays, WeakRsa
    <3> QED
      BY <2>4, <2>5, <3>1
  <2>8. ASSUME Said(i, "pqc.no-hybrid-key-exchange"), Governance \notin Ids(findings)
        PROVE  e.classical = {}
    <3>1. Says(AllEndpointFindings(e), "pqc.no-hybrid-key-exchange")
      BY <1>1, <2>1, <2>4, <2>8, SaidOf DEF e
    <3>2. e.reachable
      BY <2>1, <2>4, <3>1, EndpointSays
    <3>3. ASSUME NEW x \in Inventory(e) PROVE x.by # "Shor"
      <4>1. <<i, x>> \in assets /\ <<i, x>>[2] = x
        BY <2>2
      <4> QED
        BY <1>1, <2>8, <4>1, GovernanceSays
    <3> QED
      BY <2>1, <3>2, <3>3, AssetKinds
  <2> QED
    BY <2>6, <2>7, <2>8 DEF e, Governance
<1>2. ASSUME IInv, Scored
      PROVE  "governance.cryptographic-inventory" \in Ids(findings) <=>
               \E a \in assets : a[2].by = "Shor"
  BY <1>2, GovernanceSays DEF Governance
<1>3. IInv => InventoryMatchesFindings
  BY <1>1, <1>2 DEF InventoryMatchesFindings
<1> QED
  BY <1>3, AnalysisInvariant, PTL

-----------------------------------------------------------------------------
(* More findings: the worst of them, what an issue costs, the controls and *)
(* the plan, of a set of findings A inside a finite one B.                 *)

\* The values of a function over a finite set are finitely many.
LEMMA FiniteValues ==
  ASSUME NEW S, IsFiniteSet(S), NEW f, DOMAIN f = S, f = [x \in S |-> f[x]]
  PROVE  IsFiniteSet({f[x] : x \in S}) /\ Cardinality({f[x] : x \in S}) <= Cardinality(S)
<1> DEFINE T == {f[x] : x \in S}
<1>1. f \in [S -> T]
  OBVIOUS
<1>2. \A t \in T : \E s \in S : f[s] = t
  OBVIOUS
<1>3. f \in Surjection(S, T)
  BY <1>1, <1>2 DEF Surjection
<1> QED
  BY <1>3, FS_Surjection

\* Finitely many findings have finitely many targets and ids.
LEMMA FiniteOfFindings ==
  ASSUME NEW fs, IsFiniteSet(fs) PROVE IsFiniteSet(Targets(fs)) /\ IsFiniteSet(Ids(fs))
<1>1. IsFiniteSet(Targets(fs))
  <2> DEFINE f == [x \in fs |-> x.target]
  <2>1. Targets(fs) = {f[x] : x \in fs}
    BY DEF Targets
  <2>2. DOMAIN f = fs /\ f = [x \in fs |-> f[x]]
    OBVIOUS
  <2> HIDE DEF f
  <2> QED
    BY <2>1, <2>2, FiniteValues
<1>2. IsFiniteSet(Ids(fs))
  <2> DEFINE f == [x \in fs |-> x.id]
  <2>1. Ids(fs) = {f[x] : x \in fs}
    BY DEF Ids
  <2>2. DOMAIN f = fs /\ f = [x \in fs |-> f[x]]
    OBVIOUS
  <2> HIDE DEF f
  <2> QED
    BY <2>1, <2>2, FiniteValues
<1> QED
  BY <1>1, <1>2

\* More findings are not milder.
LEMMA WorstOfMore ==
  ASSUME NEW B, Rated(B), NEW A \in SUBSET B, A # {}
  PROVE  Worst(B) \in 0 .. 4 /\ Worst(A) \in 0 .. 4 /\ Worst(B) <= Worst(A)
<1>1. \A f \in B : f.severity \in Ratings
  BY DEF Rated
<1>2. PICK f \in A : Worst(A) = Rank(f)
  BY <1>1, WorstIsOne
<1>3. Worst(B) <= Rank(f) /\ Worst(B) \in 0 .. 4
  BY <1>1, WorstIsOne
<1> QED
  BY <1>1, <1>2, <1>3, WorstIsOne

Costs(r) == Weight[Severities[r + 1]]
Breadth(n) == Min({200, 85 + 15 * n})

LEMMA CostsLess ==
  ASSUME NEW q \in 0 .. 4, NEW r \in 0 .. 4, q <= r
  PROVE  Costs(q) \in Nat /\ Costs(r) \in Nat /\ Costs(r) <= Costs(q)
<1>1. /\ Costs(0) = 40 /\ Costs(1) = 20 /\ Costs(2) = 8 /\ Costs(3) = 3 /\ Costs(4) = 0
  BY SeverityFacts DEF Costs, Weight
<1>2. q \in {0, 1, 2, 3, 4} /\ r \in {0, 1, 2, 3, 4}
  OBVIOUS
<1> QED
  BY <1>1, <1>2

LEMMA BreadthMore ==
  ASSUME NEW m \in Nat, NEW n \in Nat, m <= n
  PROVE  Breadth(m) \in Nat /\ Breadth(n) \in Nat /\ Breadth(m) <= Breadth(n)
<1>1. ASSUME NEW k \in Nat
      PROVE  /\ Breadth(k) \in {200, 85 + 15 * k}
             /\ Breadth(k) <= 200 /\ Breadth(k) <= 85 + 15 * k
  <2> DEFINE S == {200, 85 + 15 * k}
  <2>1. S \in SUBSET Nat /\ S # {} /\ 200 \in S /\ 85 + 15 * k \in S
    OBVIOUS
  <2>2. Breadth(k) = Min(S)
    BY DEF Breadth
  <2>3. Min(S) \in S /\ \A x \in S : Min(S) <= x
    BY <2>1, LeastNumber, Zenon
  <2> HIDE DEF S
  <2>4. Breadth(k) \in S /\ Breadth(k) <= 200 /\ Breadth(k) <= 85 + 15 * k
    BY <2>1, <2>2, <2>3
  <2> QED
    BY <2>4 DEF S
<1>2. /\ Breadth(m) \in {200, 85 + 15 * m} /\ Breadth(m) <= 200 /\ Breadth(m) <= 85 + 15 * m
      /\ Breadth(n) \in {200, 85 + 15 * n} /\ Breadth(n) <= 200 /\ Breadth(n) <= 85 + 15 * n
  BY <1>1
<1> QED
  BY <1>2

LEMMA ProductStep ==
  ASSUME NEW a \in Nat, NEW c \in Nat, NEW d \in Nat, c <= d
  PROVE  a * c \in Nat /\ a * d \in Nat /\ a * c <= a * d
<1>1. a * d = a * c + a * (d - c)
  OBVIOUS
<1>2. a * (d - c) >= 0
  OBVIOUS
<1>3. a * d \in Int /\ a * c \in Int /\ a * c >= 0
  OBVIOUS
<1> QED
  BY <1>1, <1>2, <1>3

LEMMA ProductMore ==
  ASSUME NEW a \in Nat, NEW b \in Nat, NEW c \in Nat, NEW d \in Nat, a <= b, c <= d
  PROVE  a * c \in Nat /\ b * d \in Nat /\ a * c <= b * d
<1>1. a * c <= a * d /\ a * c \in Nat /\ a * d \in Nat
  BY ProductStep
<1>2. d * a <= d * b /\ d * b \in Nat
  BY ProductStep
<1>3. d * a = a * d /\ d * b = b * d
  OBVIOUS
<1> QED
  BY <1>1, <1>2, <1>3

\* One issue never costs less for a further finding.
LEMMA LossMore ==
  ASSUME NEW B, Rated(B), IsFiniteSet(B), NEW A \in SUBSET B
  PROVE  /\ DOMAIN Loss(A) = Ids(A) /\ DOMAIN Loss(B) = Ids(B) /\ Ids(A) \subseteq Ids(B)
         /\ \A id \in Ids(B) : Loss(B)[id] \in Nat
         /\ \A id \in Ids(A) : Loss(A)[id] \in Nat /\ Loss(A)[id] <= Loss(B)[id]
<1>1. DOMAIN Loss(A) = Ids(A) /\ DOMAIN Loss(B) = Ids(B) /\ Ids(A) \subseteq Ids(B)
  BY DEF Loss, Ids
<1>2. ASSUME NEW F \in {A, B}, NEW id \in Ids(F)
      PROVE  /\ OfId(F, id) # {}
             /\ Rated(OfId(F, id))
             /\ IsFiniteSet(Targets(OfId(F, id)))
             /\ Loss(F)[id] = Costs(Worst(OfId(F, id))) * Breadth(Cardinality(Targets(OfId(F, id))))
  <2>1. F \in SUBSET B /\ OfId(F, id) \in SUBSET B
    BY DEF OfId
  <2>2. OfId(F, id) # {} /\ Rated(OfId(F, id))
    BY <2>1 DEF OfId, Ids, Rated
  <2>3. IsFiniteSet(OfId(F, id))
    BY <2>1, FS_Subset
  <2>4. IsFiniteSet(Targets(OfId(F, id)))
    BY <2>3, FiniteOfFindings
  <2>5. Loss(F)[id] = Costs(Worst(OfId(F, id))) * Breadth(Cardinality(Targets(OfId(F, id))))
    BY DEF Loss, Costs, Breadth
  <2> QED
    BY <2>2, <2>4, <2>5
<1>3. ASSUME NEW F \in {A, B}, NEW id \in Ids(F)
      PROVE  /\ Worst(OfId(F, id)) \in 0 .. 4 /\ Cardinality(Targets(OfId(F, id))) \in Nat
             /\ Loss(F)[id] \in Nat
  <2>1. Worst(OfId(F, id)) \in 0 .. 4
    BY <1>2, WorstOfMore
  <2>2. Cardinality(Targets(OfId(F, id))) \in Nat
    BY <1>2, FS_CardinalityType
  <2>3. /\ Costs(Worst(OfId(F, id))) \in Nat
        /\ Breadth(Cardinality(Targets(OfId(F, id)))) \in Nat
    BY <2>1, <2>2, CostsLess, BreadthMore
  <2> DEFINE x == Costs(Worst(OfId(F, id)))
             y == Breadth(Cardinality(Targets(OfId(F, id))))
  <2>4. Loss(F)[id] = x * y
    BY <1>2
  <2> HIDE DEF x, y
  <2>5. x \in Nat /\ x <= x /\ y \in Nat /\ y <= y
    BY <2>3 DEF x, y
  <2>6. x * y \in Nat
    BY <2>5, ProductMore
  <2> QED
    BY <2>1, <2>2, <2>4, <2>6
<1>4. ASSUME NEW id \in Ids(A) PROVE Loss(A)[id] <= Loss(B)[id]
  <2> DEFINE q == Worst(OfId(B, id))
             r == Worst(OfId(A, id))
             m == Cardinality(Targets(OfId(A, id)))
             n == Cardinality(Targets(OfId(B, id)))
  <2>1. id \in Ids(B)
    BY <1>1
  <2>2. OfId(A, id) \in SUBSET OfId(B, id) /\ Targets(OfId(A, id)) \in SUBSET Targets(OfId(B, id))
    BY DEF OfId, Targets
  <2>3. q <= r /\ q \in 0 .. 4 /\ r \in 0 .. 4
    BY <1>2, <2>1, <2>2, WorstOfMore
  <2>4. m <= n /\ m \in Nat /\ n \in Nat
    <3>1. IsFiniteSet(Targets(OfId(B, id)))
      BY <1>2, <2>1
    <3>2. m <= n
      BY <2>2, <3>1, FS_Subset
    <3> QED
      BY <1>3, <2>1, <3>2
  <2>5. Loss(A)[id] = Costs(r) * Breadth(m) /\ Loss(B)[id] = Costs(q) * Breadth(n)
    BY <1>2, <2>1
  <2> HIDE DEF q, r, m, n
  <2>6. /\ Costs(q) \in Nat /\ Costs(r) \in Nat
        /\ Costs(r) <= Costs(q)
    BY <2>3, CostsLess
  <2>7. Breadth(m) \in Nat /\ Breadth(n) \in Nat /\ Breadth(m) <= Breadth(n)
    BY <2>4, BreadthMore
  <2>8. Costs(r) * Breadth(m) <= Costs(q) * Breadth(n)
    BY <2>6, <2>7, ProductMore
  <2> QED
    BY <2>5, <2>8
<1>5. \A id \in Ids(B) : Loss(B)[id] \in Nat
  BY <1>3
<1>6. \A id \in Ids(A) : Loss(A)[id] \in Nat
  BY <1>3
<1> QED
  BY <1>1, <1>4, <1>5, <1>6, Zenon

\* The deduction is a number, and never falls.
LEMMA DeductionMore ==
  ASSUME NEW B, Rated(B), IsFiniteSet(B), NEW A \in SUBSET B
  PROVE  Deduction(A) \in Nat /\ Deduction(B) \in Nat /\ Deduction(A) <= Deduction(B)
<1>1. /\ DOMAIN Loss(A) = Ids(A) /\ DOMAIN Loss(B) = Ids(B) /\ Ids(A) \subseteq Ids(B)
      /\ \A id \in Ids(B) : Loss(B)[id] \in Nat
      /\ \A id \in Ids(A) : Loss(A)[id] \in Nat /\ Loss(A)[id] <= Loss(B)[id]
  BY LossMore, Zenon
<1>2. IsFiniteSet(Ids(B))
  BY FiniteOfFindings
<1> DEFINE v == Loss(A)
           w == Loss(B)
<1>4. /\ IsFiniteSet(DOMAIN w) /\ DOMAIN v \subseteq DOMAIN w
      /\ \A x \in DOMAIN w : w[x] \in Nat
      /\ \A x \in DOMAIN v : v[x] \in Nat /\ v[x] <= w[x]
  BY <1>1, <1>2, Zenon
<1> HIDE DEF v, w
<1>5. SumFunction(v) \in Nat /\ SumFunction(w) \in Nat /\ SumFunction(v) <= SumFunction(w)
  BY <1>4, SumMonotone
<1> QED
  BY <1>5 DEF v, w, Deduction

\* A control never fares better.
LEMMA StatusMore ==
  ASSUME NEW B, Rated(B), NEW A \in SUBSET B, NEW c
  PROVE  StatusRank[Status(c, A)] <= StatusRank[Status(c, B)]
<1>1. StatusRank["pass"] = 0 /\ StatusRank["attention"] = 1 /\ StatusRank["fail"] = 2
  BY DEF StatusRank
<1>2. Hits(c, A) \in SUBSET Hits(c, B) /\ Rated(Hits(c, B))
  BY DEF Hits, Rated
<1>3. CASE Hits(c, A) = {}
  <2>1. Status(c, A) = "pass" /\ Status(c, B) \in {"pass", "attention", "fail"}
    BY <1>3 DEF Status
  <2> QED
    BY <1>1, <2>1
<1>4. CASE Hits(c, A) # {}
  <2>1. /\ Worst(Hits(c, B)) \in 0 .. 4 /\ Worst(Hits(c, A)) \in 0 .. 4
        /\ Worst(Hits(c, B)) <= Worst(Hits(c, A))
    BY <1>2, <1>4, WorstOfMore
  <2>2. Hits(c, B) # {}
    BY <1>2, <1>4
  <2>3. CASE Worst(Hits(c, A)) <= 1
    <3>1. Worst(Hits(c, B)) <= 1
      BY <2>1, <2>3
    <3>2. Status(c, A) = "fail" /\ Status(c, B) = "fail"
      BY <1>4, <2>2, <2>3, <3>1 DEF Status
    <3> QED
      BY <1>1, <3>2
  <2>4. CASE ~(Worst(Hits(c, A)) <= 1)
    <3>1. Status(c, A) = "attention" /\ Status(c, B) \in {"attention", "fail"}
      BY <1>4, <2>2, <2>4 DEF Status
    <3> QED
      BY <1>1, <3>1
  <2> QED
    BY <2>3, <2>4
<1> QED
  BY <1>3, <1>4

\* An action stays in the plan, and is no less severe.
LEMMA ActionsMore ==
  ASSUME NEW B, Rated(B), NEW A \in SUBSET B, NEW a \in Actions(A)
  PROVE  \E b \in Actions(B) : a.id = b.id /\ b.rank <= a.rank
<1>1. PICK effort \in DOMAIN Templates :
        a \in {[id |-> id, effort |-> effort, rank |-> Worst(OfId(A, id))] :
                 id \in Templates[effort] \cap Ids(A)}
  BY DEF Actions
<1>2. PICK id \in Templates[effort] \cap Ids(A) :
        a = [id |-> id, effort |-> effort, rank |-> Worst(OfId(A, id))]
  BY <1>1
<1> DEFINE b == [id |-> id, effort |-> effort, rank |-> Worst(OfId(B, id))]
<1>3. id \in Ids(B)
  BY DEF Ids
<1>4. b \in Actions(B)
  BY <1>2, <1>3 DEF Actions
<1>5. OfId(A, id) \in SUBSET OfId(B, id) /\ Rated(OfId(B, id)) /\ OfId(A, id) # {}
  BY <1>2 DEF OfId, Rated, Ids
<1>6. Worst(OfId(B, id)) <= Worst(OfId(A, id))
  BY <1>5, WorstOfMore
<1>7. a.id = id /\ b.id = id /\ a.rank = Worst(OfId(A, id)) /\ b.rank = Worst(OfId(B, id))
  BY <1>2
<1> QED
  BY <1>4, <1>6, <1>7

-----------------------------------------------------------------------------
(* The findings of a scan are finitely many, whatever a certificate holds:  *)
(* the rules know 29 ids and five severities.                               *)

LEMMA FiniteIds == IsFiniteSet(AboutEndpoints \X Ratings)
<1>1. \A a, b, c, d, e : IsFiniteSet({a, b, c, d, e})
  <2> TAKE a, b, c, d, e
  <2>1. IsFiniteSet({})
    BY FS_EmptySet
  <2>2. \A S, x : IsFiniteSet(S) => IsFiniteSet(S \cup {x})
    BY FS_AddElement
  <2>3. IsFiniteSet((((({} \cup {a}) \cup {b}) \cup {c}) \cup {d}) \cup {e})
    BY <2>1, <2>2, Zenon
  <2>4. (((({} \cup {a}) \cup {b}) \cup {c}) \cup {d}) \cup {e} = {a, b, c, d, e}
    OBVIOUS
  <2> QED
    BY <2>3, <2>4, Zenon
<1> DEFINE tls == {"tls.unreachable", "tls.deprecated-version", "tls.no-tls13",
                   "tls.broken-ciphers", "tls.cbc-ciphers"}
           pqc == {"pqc.no-forward-secrecy", "pqc.hybrid-enabled", "pqc.superseded-draft",
                   "pqc.probe-inconclusive", "pqc.no-hybrid-key-exchange"}
           broad == {"tls.interception-detected", "pqc.symmetric-128-only",
                     "pqc.classical-certificate-key", "governance.cryptographic-inventory",
                     "certificate.broad-wildcard"}
           time == {"certificate.unreadable", "certificate.expired", "certificate.not-yet-valid",
                    "certificate.expiring-soon", "certificate.excessive-lifetime"}
           trust == {"certificate.self-signed", "certificate.untrusted",
                     "certificate.hostname-mismatch", "certificate.incomplete-chain",
                     "certificate.no-transparency"}
           strength == {"certificate.weak-key", "certificate.weak-curve",
                        "certificate.small-rsa-exponent", "certificate.broken-signature-hash",
                        "certificate.broad-wildcard"}
<1>2. AboutEndpoints = tls \cup (pqc \cup (broad \cup (time \cup (trust \cup strength))))
  BY DEF AboutEndpoints
<1>3. /\ IsFiniteSet(tls) /\ IsFiniteSet(pqc) /\ IsFiniteSet(broad)
      /\ IsFiniteSet(time) /\ IsFiniteSet(trust) /\ IsFiniteSet(strength)
  BY <1>1
<1> HIDE DEF tls, pqc, broad, time, trust, strength
<1>4. IsFiniteSet(AboutEndpoints)
  BY <1>2, <1>3, FS_Union
<1>5. IsFiniteSet(Ratings)
  BY <1>1 DEF Ratings
<1> QED
  BY <1>4, <1>5, FS_Product

LEMMA FiniteSeen ==
  ASSUME NEW fs, NEW t, \A f \in fs : f.id \in AboutEndpoints /\ f.severity \in Ratings
  PROVE  IsFiniteSet(At(fs, t))
<1> DEFINE S == AboutEndpoints \X Ratings
           g == [p \in S |-> [id |-> p[1], severity |-> p[2], target |-> t]]
           T == {g[p] : p \in S}
<1>1. DOMAIN g = S /\ g = [p \in S |-> g[p]]
  OBVIOUS
<1>2. ASSUME NEW f \in fs PROVE [id |-> f.id, severity |-> f.severity, target |-> t] \in T
  <2>1. <<f.id, f.severity>> \in S
    OBVIOUS
  <2>2. g[<<f.id, f.severity>>] = [id |-> f.id, severity |-> f.severity, target |-> t]
    BY <2>1
  <2> QED
    BY <2>1, <2>2
<1>3. At(fs, t) \subseteq T
  BY <1>2 DEF At
<1> HIDE DEF g
<1>4. IsFiniteSet(T)
  BY <1>1, FiniteIds, FiniteValues
<1> QED
  BY <1>3, <1>4, FS_Subset

Countable == IsFiniteSet(findings)

\* Every step keeps the findings there are.
LEMMA FindingsGrow == ASSUME [Next]_vars PROVE findings \subseteq findings'
BY DEF Next, vars, RuleOnEndpoint, RuleOnHttp, RuleOnDns, RuleOnLicences, RuleOn, BuildInventory,
       Score, Extract, Exit, Over

LEMMA FiniteNext == ASSUME Countable, [Next]_vars PROVE Countable'
<1>1. ASSUME NEW fs, IsFiniteSet(fs), findings' = findings \cup fs PROVE Countable'
  BY <1>1, FS_Union DEF Countable
<1>2. CASE RuleOnEndpoint
  <2> DEFINE fs == AllEndpointFindings(endpoints[done + 1])
  <2>1. \A f \in fs : f.id \in AboutEndpoints /\ f.severity \in Ratings
    BY EndpointOwn DEF Own
  <2>2. findings' = findings \cup At(fs, done + 1)
    BY <1>2 DEF RuleOnEndpoint
  <2> HIDE DEF fs
  <2> QED
    BY <1>1, <2>1, <2>2, FiniteSeen
<1>3. ASSUME NEW now, NEW next, NEW reports, RuleOn(now, next, reports),
             \A r \in reports : IsReport(r)
      PROVE  Countable'
  BY <1>1, <1>3 DEF RuleOn, IsReport
<1>4. CASE RuleOnHttp \/ RuleOnDns \/ RuleOnLicences
  BY <1>3, <1>4, ReportsAssumption DEF RuleOnHttp, RuleOnDns, RuleOnLicences
<1>5. CASE BuildInventory
  <2> DEFINE fs == GovernanceFindings({a[2] : a \in assets'})
  <2>1. \A f \in fs : f.id \in AboutEndpoints /\ f.severity \in Ratings
    BY DEF GovernanceFindings, When, Finding, AboutEndpoints, Ratings
  <2>2. findings' = findings \cup At(fs, "domain")
    BY <1>5 DEF BuildInventory
  <2> HIDE DEF fs
  <2> QED
    BY <1>1, <2>1, <2>2, FiniteSeen
<1>6. CASE Score \/ Extract \/ Exit \/ Over \/ UNCHANGED vars
  BY <1>6 DEF Score, Extract, Exit, Over, vars, Countable
<1> QED
  BY <1>2, <1>4, <1>5, <1>6 DEF Next

\* The findings are finitely many in every run.
LEMMA FindingsFinite == Spec => []Countable
<1>1. Init => Countable
  BY FS_EmptySet DEF Init, Countable
<1>2. Countable /\ [Next]_vars => Countable'
  BY FiniteNext
<1> QED
  BY <1>1, <1>2, PTL DEF Spec

\* The damping of repeats is monotone: for any facts and reports, a further
\* finding never raises the score, never betters a control and never drops an
\* action from the plan or makes it less severe.
THEOREM NeverHelped == Spec => MoreFindingsNeverHelp
<1> DEFINE Growing == /\ Deduction(findings) <= Deduction(findings')
                      /\ \A c \in Controls :
                           StatusRank[Status(c, findings)] <= StatusRank[Status(c, findings')]
                      /\ \A a \in Actions(findings) : \E b \in Actions(findings') :
                           a.id = b.id /\ b.rank <= a.rank
<1>1. ASSUME IInv', Countable', [Next]_vars PROVE Growing
  <2>1. findings \in SUBSET findings'
    BY <1>1, FindingsGrow
  <2>2. Rated(findings')
    BY <1>1 DEF IInv, Ruled, Rated
  <2>3. IsFiniteSet(findings')
    BY <1>1 DEF Countable
  <2> QED
    BY <2>1, <2>2, <2>3, DeductionMore, StatusMore, ActionsMore
<1>2. IInv' /\ Countable' /\ [Next]_vars => [stage # "scored" => Growing]_vars
  BY <1>1
<1> QED
  BY <1>2, AnalysisInvariant, FindingsFinite, PTL DEF Spec, MoreFindingsNeverHelp

-----------------------------------------------------------------------------
(* The plan and its order.                                                 *)

\* Finitely many findings give rise to finitely many actions.
LEMMA FiniteActions == ASSUME NEW fs, IsFiniteSet(fs) PROVE IsFiniteSet(Actions(fs))
<1> DEFINE S == Ids(fs) \X DOMAIN Templates
           g == [p \in S |-> [id |-> p[1], effort |-> p[2], rank |-> Worst(OfId(fs, p[1]))]]
           T == {g[p] : p \in S}
<1>1. IsFiniteSet(DOMAIN Templates)
  <2>1. \A X, x : IsFiniteSet(X) => IsFiniteSet(X \cup {x})
    BY FS_AddElement
  <2>2. IsFiniteSet((((({} \cup {"hours"}) \cup {"days"}) \cup {"weeks"}) \cup {"months"}))
    BY <2>1, FS_EmptySet, Zenon
  <2>3. DOMAIN Templates = (((({} \cup {"hours"}) \cup {"days"}) \cup {"weeks"}) \cup {"months"})
    BY DEF Templates
  <2> QED
    BY <2>2, <2>3, Zenon
<1>2. IsFiniteSet(Ids(fs))
  BY FiniteOfFindings
<1>3. IsFiniteSet(S)
  <2> HIDE DEF S
  <2> QED
    BY <1>1, <1>2, FS_Product DEF S
<1>4. DOMAIN g = S /\ g = [p \in S |-> g[p]]
  OBVIOUS
<1>5. Actions(fs) \subseteq T
  <2>1. ASSUME NEW effort \in DOMAIN Templates, NEW id \in Templates[effort] \cap Ids(fs)
        PROVE  [id |-> id, effort |-> effort, rank |-> Worst(OfId(fs, id))] \in T
    <3>1. <<id, effort>> \in S
      OBVIOUS
    <3>2. g[<<id, effort>>] = [id |-> id, effort |-> effort, rank |-> Worst(OfId(fs, id))]
      BY <3>1
    <3>3. g[<<id, effort>>] \in T
      BY <3>1
    <3> QED
      BY <3>2, <3>3
  <2> HIDE DEF T
  <2> QED
    BY <2>1 DEF Actions
<1> HIDE DEF g, S
<1>6. IsFiniteSet(T)
  BY <1>3, <1>4, FiniteValues
<1> QED
  BY <1>5, <1>6, FS_Subset

\* The rank of an action is that of a severity.
LEMMA ActionRank ==
  ASSUME NEW fs, Rated(fs), NEW a \in Actions(fs)
  PROVE  a.rank \in 0 .. 4
<1>1. PICK effort \in DOMAIN Templates, id \in Ids(fs) :
        a = [id |-> id, effort |-> effort, rank |-> Worst(OfId(fs, id))]
  BY DEF Actions
<1>2. OfId(fs, id) # {} /\ \A f \in OfId(fs, id) : f.severity \in Ratings
  BY DEF OfId, Ids, Rated
<1>3. Worst(OfId(fs, id)) \in 0 .. 4
  BY <1>2, WorstIsOne
<1> QED
  BY <1>1, <1>3

\* A severe action has fewer before it than a milder one: all of them come before
\* the milder one, and so does it.
LEMMA SevereFirst ==
  ASSUME NEW fs, Rated(fs), IsFiniteSet(fs), NEW a \in Actions(fs), NEW b \in Actions(fs),
         a.rank < b.rank
  PROVE  Cardinality({x \in Actions(fs) : Before(x, a)})
           < Cardinality({x \in Actions(fs) : Before(x, b)})
<1> DEFINE A == {x \in Actions(fs) : Before(x, a)}
           B == {x \in Actions(fs) : Before(x, b)}
<1>1. \A x \in Actions(fs) : x.rank \in 0 .. 4
  BY ActionRank
<1>2. \A x \in Actions(fs) : x.rank <= a.rank => Before(x, b)
  BY <1>1 DEF Before
<1>3. \A x \in A : x.rank <= a.rank
  BY <1>1 DEF Before
<1>4. A \subseteq B /\ a \in B
  BY <1>1, <1>2, <1>3
<1>5. a \notin A
  <2>1. a.effort \in DOMAIN Templates
    BY DEF Actions
  <2>2. EffortRank[a.effort] \in 0 .. 3
    BY <2>1 DEF Templates, EffortRank
  <2>3. ~(a.rank < a.rank) /\ ~(EffortRank[a.effort] < EffortRank[a.effort])
    BY <1>1, <2>2
  <2> QED
    BY <2>3 DEF Before
<1>6. IsFiniteSet(B)
  BY FiniteActions, FS_Subset
<1> HIDE DEF A, B
<1>7. A # B /\ IsFiniteSet(A) /\ Cardinality(A) \in Nat /\ Cardinality(B) \in Nat
  BY <1>4, <1>5, <1>6, FS_Subset, FS_CardinalityType
<1>8. Cardinality(A) < Cardinality(B)
  BY <1>4, <1>6, <1>7, FS_Subset
<1> QED
  BY <1>8 DEF A, B

\* A finding with a template has an action in the plan, at least as severe.
LEMMA Planned ==
  ASSUME NEW fs, Rated(fs), IsFiniteSet(fs), NEW f \in fs, f.id \in Templated
  PROVE  \E a \in Plan(fs) :
           /\ a.id = f.id /\ a.rank \in 0 .. 4 /\ a.rank <= Rank(f)
           /\ a.rank <= 1 => \A b \in Plan(fs) : b.rank > 1 => a.place < b.place
<1>1. PICK effort \in DOMAIN Templates : f.id \in Templates[effort]
  BY DEF Templated, Templates
<1> DEFINE w == Worst(OfId(fs, f.id))
           act == [id |-> f.id, effort |-> effort, rank |-> w]
           place == Cardinality({b \in Actions(fs) : Before(b, act)})
           listed == [id |-> f.id, rank |-> w, place |-> place]
<1>2. f \in OfId(fs, f.id) /\ \A g \in OfId(fs, f.id) : g.severity \in Ratings
  BY DEF OfId, Rated
<1>3. w \in 0 .. 4 /\ w <= Rank(f)
  BY <1>2, WorstIsOne
<1>4. f.id \in Ids(fs)
  BY DEF Ids
<1>5. act \in {[id |-> id, effort |-> effort, rank |-> Worst(OfId(fs, id))] :
                 id \in Templates[effort] \cap Ids(fs)}
  BY <1>1, <1>4
<1>6. act \in Actions(fs)
  BY <1>1, <1>5 DEF Actions
<1>7. listed \in Plan(fs)
  <2>1. act.id = f.id /\ act.rank = w
    OBVIOUS
  <2> HIDE DEF act, w
  <2> QED
    BY <1>6, <2>1 DEF Plan
<1>8. listed.id = f.id /\ listed.rank = w /\ listed.place = place /\ act.rank = w
  OBVIOUS
<1>9. ASSUME NEW b \in Plan(fs), w <= 1, b.rank > 1 PROVE place < b.place
  <2>1. PICK x \in Actions(fs) :
          b = [id |-> x.id, rank |-> x.rank,
               place |-> Cardinality({y \in Actions(fs) : Before(y, x)})]
    BY DEF Plan
  <2>2. b.rank = x.rank /\ b.place = Cardinality({y \in Actions(fs) : Before(y, x)})
    BY <2>1
  <2>3. x.rank \in 0 .. 4
    BY ActionRank
  <2>4. act.rank < x.rank
    <3> HIDE DEF w, act
    <3> QED
      BY <1>3, <1>8, <1>9, <2>2, <2>3
  <2> HIDE DEF act
  <2>5. place < Cardinality({y \in Actions(fs) : Before(y, x)})
    BY <1>6, <2>4, SevereFirst
  <2> HIDE DEF place
  <2> QED
    BY <2>2, <2>5
<1> HIDE DEF listed, w, place
<1> QED
  BY <1>3, <1>7, <1>8, <1>9

\* A control reported as failed has a severe action in the plan that answers it,
\* before every milder one, unless findings without a template failed it,
\* whatever the findings are.
THEOREM FailuresPlanned == Spec => []FailedControlsActedOn
<1>1. ASSUME IInv, Countable, NEW r \in result, NEW c \in Controls, r.status[c] = "fail"
      PROVE  \/ \E a \in r.plan :
                  /\ a.id \in c.ids /\ a.rank <= 1
                  /\ \A b \in r.plan : b.rank > 1 => a.place < b.place
             \/ \E f \in Hits(c, findings) :
                  /\ Rank(f) <= 1
                  /\ f.id \in {"certificate.weak-curve", "licence.commercial-restriction"}
  <2>1. r.status = [k \in Controls |-> Status(k, findings)] /\ r.plan = Plan(findings)
    BY <1>1 DEF IInv, Computed, MadeOf
  <2>2. Status(c, findings) = "fail"
    BY <1>1, <2>1
  <2>3. Hits(c, findings) # {} /\ Worst(Hits(c, findings)) <= 1
    BY <2>2 DEF Status
  <2>4. Rated(findings) /\ \A f \in Hits(c, findings) : f \in findings /\ f.id \in c.ids
    BY <1>1 DEF IInv, Ruled, Hits
  <2>5. \A f \in Hits(c, findings) : f.severity \in Ratings
    BY <2>4 DEF Rated
  <2>6. PICK f \in Hits(c, findings) : Rank(f) <= 1 /\ Rank(f) \in 0 .. 4
    BY <2>3, <2>5, WorstIsOne, RankValue
  <2>7. f.severity # "low"
    BY <2>5, <2>6, RankValue
  <2>8. f.id # "http.version-disclosure"
    BY <1>1, <2>4, <2>7 DEF IInv, Ruled
  <2>9. f.id \in Templated \cup Untemplated
    BY <2>4, ControlIds
  <2>10. CASE f.id \in Templated
    <3>1. IsFiniteSet(findings) /\ f \in findings
      BY <1>1, <2>4 DEF Countable
    <3>2. PICK a \in Plan(findings) :
            /\ a.id = f.id /\ a.rank \in 0 .. 4 /\ a.rank <= Rank(f)
            /\ a.rank <= 1 => \A b \in Plan(findings) : b.rank > 1 => a.place < b.place
      BY <2>4, <2>10, <3>1, Planned
    <3>3. a.rank <= 1
      BY <2>6, <3>2
    <3> QED
      BY <2>1, <2>4, <3>2, <3>3
  <2>11. CASE f.id \in Untemplated
    BY <2>6, <2>8, <2>11 DEF Untemplated
  <2> QED
    BY <2>9, <2>10, <2>11
<1>2. IInv /\ Countable => FailedControlsActedOn
  BY <1>1 DEF FailedControlsActedOn
<1> QED
  BY <1>2, AnalysisInvariant, FindingsFinite, PTL

-----------------------------------------------------------------------------
(* The marks.                                                              *)

\* Rounding finds a number, and it is as near as it should be.
LEMMA Rounded ==
  ASSUME NEW n \in Int, NEW d \in Nat \ {0}
  PROVE  /\ Tenths(n, d) # {}
         /\ \A t \in Tenths(n, d) : /\ t \in Int
                                    /\ 2 * (10 * n - t * d) <= d
                                    /\ 2 * (t * d - 10 * n) <= d
<1> DEFINE m == 10 * n
           q == m \div d
<1>1. q \in Int /\ q * d <= m /\ m < q * d + d /\ m \in Int
  OBVIOUS
<1>2. Tenths(n, d) = {t \in {q, q + 1} : 2 * (m - t * d) <= d /\ 2 * (t * d - m) <= d}
  BY DEF Tenths
<1> HIDE DEF m, q
<1>3. q * d \in Int /\ (q + 1) * d = q * d + d
  BY <1>1
<1>4. \A t \in Tenths(n, d) : /\ t \in Int
                              /\ 2 * (10 * n - t * d) <= d /\ 2 * (t * d - 10 * n) <= d
  BY <1>1, <1>2 DEF m
<1>5. CASE 2 * (m - q * d) <= d
  <2>1. 2 * (q * d - m) <= d
    BY <1>1, <1>3
  <2>2. q \in Tenths(n, d)
    BY <1>2, <1>5, <2>1
  <2> QED
    BY <1>4, <2>2
<1>6. CASE ~(2 * (m - q * d) <= d)
  <2>1. 2 * (m - (q + 1) * d) <= d /\ 2 * ((q + 1) * d - m) <= d
    BY <1>1, <1>3, <1>6
  <2>2. q + 1 \in Tenths(n, d)
    BY <1>2, <2>1
  <2> QED
    BY <1>4, <2>2
<1> QED
  BY <1>5, <1>6

LEMMA RoundedSome == \A n \in Int : \A d \in Nat \ {0} : Tenths(n, d) # {}
BY Rounded

\* A mean of marks out of 100 is a mark out of 100.
Marks == 0 .. 1000
OutOf(n, d) == n \in Nat /\ n <= 100 * d

LEMMA MarkOf ==
  ASSUME NEW d \in Nat \ {0}, NEW n, OutOf(n, d), NEW t \in Tenths(n, d)
  PROVE  t \in Marks
<1>1. n \in Int /\ 0 <= n /\ n <= 100 * d
  BY DEF OutOf
<1>2. t \in Int /\ 2 * (10 * n - t * d) <= d /\ 2 * (t * d - 10 * n) <= d
  BY <1>1, Rounded
<1>3. t * d \in Int
  BY <1>2
<1>4. ASSUME t > 1000 PROVE FALSE
  <2>1. t * d = 1001 * d + (t - 1001) * d
    BY <1>2
  <2>2. (t - 1001) * d >= 0
    BY <1>2, <1>4
  <2>3. (t - 1001) * d \in Int
    BY <1>2
  <2>4. t * d >= 1001 * d
    BY <1>3, <2>1, <2>2, <2>3
  <2> QED
    BY <1>1, <1>2, <1>3, <2>4
<1>5. ASSUME t < 0 PROVE FALSE
  <2>1. (0 - t) * d = d + (0 - t - 1) * d /\ (0 - t) * d = 0 - t * d
    BY <1>2
  <2>2. (0 - t - 1) * d >= 0
    BY <1>2, <1>5
  <2>3. (0 - t - 1) * d \in Int
    BY <1>2
  <2>4. 0 - t * d >= d
    BY <1>3, <2>1, <2>2, <2>3
  <2> QED
    BY <1>1, <1>2, <1>3, <2>4
<1> QED
  BY <1>2, <1>4, <1>5 DEF Marks

LEMMA MarksOf ==
  \A d \in Nat \ {0} : \A n : OutOf(n, d) => Tenths(n, d) # {} /\ Tenths(n, d) \subseteq Marks
<1>1. ASSUME NEW d \in Nat \ {0}, NEW n, OutOf(n, d)
      PROVE  Tenths(n, d) # {} /\ Tenths(n, d) \subseteq Marks
  <2>1. n \in Int
    BY <1>1 DEF OutOf
  <2>2. ASSUME NEW t \in Tenths(n, d) PROVE t \in Marks
    BY <1>1, MarkOf
  <2>3. Tenths(n, d) # {}
    BY <2>1, RoundedSome
  <2> QED
    BY <2>2, <2>3
<1> QED
  BY <1>1

LEMMA PointsAre == ASSUME NEW e PROVE Points(e) \in 0 .. 100
<1> DEFINE v == IF e.pqc # {} THEN 40 ELSE 0
           w == IF ForwardSecrecy(e) THEN 25 ELSE 0
           x == IF "TLS 1.3" \in e.supported THEN 15 ELSE 0
           y == IF Aes256(e) THEN 10 ELSE 0
           z == IF Agile(e) THEN 10 ELSE 0
<1>1. v \in 0 .. 40 /\ w \in 0 .. 25 /\ x \in 0 .. 15 /\ y \in 0 .. 10 /\ z \in 0 .. 10
  <2>1. v \in 0 .. 40
    OBVIOUS
  <2>2. w \in 0 .. 25
    OBVIOUS
  <2>3. x \in 0 .. 15
    OBVIOUS
  <2>4. y \in 0 .. 10
    OBVIOUS
  <2>5. z \in 0 .. 10
    OBVIOUS
  <2> QED
    BY <2>1, <2>2, <2>3, <2>4, <2>5
<1>2. Points(e) = v + w + x + y + z
  BY DEF Points
<1> HIDE DEF v, w, x, y, z
<1> QED
  BY <1>1, <1>2

LEMMA ReadinessIs ==
  ASSUME Placed PROVE ReadinessScores # {} /\ ReadinessScores \subseteq 0 .. 1000
<1>1. CASE Live = {}
  BY <1>1 DEF ReadinessScores
<1>2. CASE Live # {}
  <2>1. PICK last \in 0 .. MaxEndpoints : endpoints \in [1 .. last -> Facts]
    BY DEF Placed
  <2>2. last \in Nat /\ Labels = 1 .. last
    BY <2>1, BoundAssumption DEF Labels
  <2>3. IsFiniteSet(1 .. last)
    BY <2>2, FS_Interval
  <2>4. IsFiniteSet(Live)
    BY <2>2, <2>3, FS_Subset DEF Live
  <2> DEFINE k == Cardinality(Live)
             w == [i \in Live |-> Points(endpoints[i])]
  <2>5. k \in Nat \ {0}
    BY <1>2, <2>4, FS_CardinalityType, FS_EmptySet
  <2>6. DOMAIN w = Live /\ \A i \in DOMAIN w : w[i] \in 0 .. 100
    BY PointsAre
  <2>7. ReadinessScores = Tenths(SumFunction(w), k)
    BY <1>2 DEF ReadinessScores
  <2> HIDE DEF w
  <2>8. SumFunction(w) \in 0 .. 100 * k
    BY <2>4, <2>6, SumAtMost
  <2> HIDE DEF k
  <2> DEFINE n == SumFunction(w)
  <2>9. OutOf(n, k)
    BY <2>5, <2>8 DEF OutOf
  <2> HIDE DEF n
  <2>10. Tenths(n, k) # {} /\ Tenths(n, k) \subseteq Marks
    BY <2>5, <2>9, MarksOf, Zenon
  <2> QED
    BY <2>7, <2>10 DEF n, Marks
<1> QED
  BY <1>1, <1>2

\* Each summand is part of the sum.
LEMMA SumAtLeast ==
  ASSUME NEW w, IsFiniteSet(DOMAIN w), \A x \in DOMAIN w : w[x] \in Nat, NEW y \in DOMAIN w
  PROVE  SumFunction(w) \in Nat /\ w[y] <= SumFunction(w)
<1>1. PICK g : SumFunction(w) = g[DOMAIN w] /\ Sums(g, w, DOMAIN w)
  BY SumFold
<1>2. SumFunction(w) = w[y] + g[DOMAIN w \ {y}] /\ g[DOMAIN w \ {y}] \in Nat
  BY <1>1 DEF Sums
<1> QED
  BY <1>2

\* A finding costs at least its weight.
LEMMA DeductionAtLeast ==
  ASSUME NEW B, Rated(B), IsFiniteSet(B), NEW f \in B
  PROVE  Deduction(B) \in Nat /\ 100 * Costs(Rank(f)) <= Deduction(B) /\ Costs(Rank(f)) \in Nat
<1> DEFINE w == Loss(B)
           group == OfId(B, f.id)
           k == Cardinality(Targets(group))
<1>1. DOMAIN w = Ids(B) /\ \A id \in Ids(B) : w[id] \in Nat
  BY LossMore
<1>2. IsFiniteSet(Ids(B)) /\ f.id \in Ids(B)
  BY FiniteOfFindings DEF Ids
<1>3. f \in group /\ group \in SUBSET B /\ Rated(group) /\ f.target \in Targets(group)
  BY DEF OfId, Rated, Targets
<1>4. k \in Nat /\ k >= 1
  <2>1. IsFiniteSet(Targets(group))
    BY <1>3, FS_Subset, FiniteOfFindings
  <2>2. k \in Nat
    BY <2>1, FS_CardinalityType
  <2>3. k # 0
    BY <1>3, <2>1, FS_EmptySet
  <2> QED
    BY <2>2, <2>3
<1>5. Worst(group) \in 0 .. 4 /\ Rank(f) \in 0 .. 4 /\ Worst(group) <= Rank(f)
  BY <1>3, WorstIsOne, RankValue DEF Rated
<1>6. w[f.id] = Costs(Worst(group)) * Breadth(k)
  BY <1>2 DEF Loss, Costs, Breadth
<1> HIDE DEF w, group, k
<1>7. /\ Costs(Rank(f)) \in Nat /\ Costs(Worst(group)) \in Nat
      /\ Costs(Rank(f)) <= Costs(Worst(group))
  BY <1>5, CostsLess
<1>8. Breadth(1) <= Breadth(k) /\ Breadth(k) \in Nat
  BY <1>4, BreadthMore
<1>9. Breadth(1) = 100
  <2> DEFINE S == {200, 85 + 15 * 1}
  <2>1. S \in SUBSET Nat /\ S # {}
    OBVIOUS
  <2>2. Min(S) \in S /\ \A x \in S : Min(S) <= x
    BY <2>1, LeastNumber, Zenon
  <2>3. Min(S) = 100
    BY <2>2
  <2> QED
    BY <2>3 DEF Breadth
<1>10. Costs(Rank(f)) * 100 <= Costs(Worst(group)) * Breadth(k)
  BY <1>7, <1>8, <1>9, ProductMore
<1>11. w[f.id] <= SumFunction(w) /\ SumFunction(w) \in Nat
  BY <1>1, <1>2, SumAtLeast
<1>12. w[f.id] \in Nat
  BY <1>1, <1>2
<1> QED
  BY <1>6, <1>7, <1>10, <1>11, <1>12 DEF Deduction, w

\* Notes alone cost nothing.
LEMMA NotesAreFree ==
  ASSUME NEW B, Rated(B), IsFiniteSet(B), \A f \in B : f.severity = "info"
  PROVE  Deduction(B) = 0
<1> DEFINE w == Loss(B)
<1>1. DOMAIN w = Ids(B) /\ IsFiniteSet(DOMAIN w)
  BY FiniteOfFindings DEF Loss
<1>2. ASSUME NEW id \in Ids(B) PROVE w[id] = 0
  <2> DEFINE group == OfId(B, id)
             k == Cardinality(Targets(group))
  <2>1. group \in SUBSET B /\ group # {} /\ Rated(group)
    BY DEF OfId, Ids, Rated
  <2>2. PICK f \in group : Worst(group) = Rank(f)
    BY <2>1, WorstIsOne DEF Rated
  <2>3. Rank(f) = 4
    BY <2>1, RankValue DEF Rated
  <2>4. Costs(4) = 0
    BY SeverityFacts DEF Costs, Weight
  <2>5. k \in Nat
    BY <2>1, FS_Subset, FiniteOfFindings, FS_CardinalityType
  <2>6. w[id] = Costs(Worst(group)) * Breadth(k)
    BY DEF Loss, Costs, Breadth
  <2> HIDE DEF w, group, k
  <2>7. Breadth(k) \in Nat
    BY <2>5, BreadthMore
  <2>8. 0 * Breadth(k) = 0
    BY <2>7
  <2> QED
    BY <2>2, <2>3, <2>4, <2>6, <2>8
<1> HIDE DEF w
<1>3. \A x \in DOMAIN w : w[x] \in 0 .. 0
  BY <1>1, <1>2
<1>4. SumFunction(w) \in 0 .. 0 * Cardinality(DOMAIN w)
  BY <1>1, <1>3, SumAtMost
<1>5. Cardinality(DOMAIN w) \in Nat
  BY <1>1, FS_CardinalityType
<1>6. SumFunction(w) = 0
  BY <1>4, <1>5
<1> QED
  BY <1>6 DEF Deduction, w

LEMMA RiskIs ==
  ASSUME NEW fs, NEW n \in Nat, Deduction(fs) = n
  PROVE  /\ SecurityScores(fs) # {}
         /\ \A t \in SecurityScores(fs) :
              /\ t \in 0 .. 1000
              /\ n = 0 => t = 1000
              /\ n >= 300 => t < 1000
              /\ n >= 2000 => t <= 800
              /\ n >= 4000 => t <= 600
<1> DEFINE m == Max({0, 10000 - n})
<1>1. m \in {0, 10000 - n} /\ m >= 0 /\ m >= 10000 - n
  <2> DEFINE S == {0, 10000 - n}
  <2>1. \E x \in S : \A y \in S : x >= y
    OBVIOUS
  <2>2. m \in S /\ \A y \in S : m >= y
    BY <2>1 DEF Max
  <2> QED
    BY <2>2
<1>2. SecurityScores(fs) = Tenths(m, 100)
  BY DEF SecurityScores
<1> HIDE DEF m
<1>3. m \in Int /\ 100 \in Nat \ {0}
  BY <1>1
<1>4. Tenths(m, 100) # {}
  BY <1>3, Rounded
<1>5. ASSUME NEW t \in Tenths(m, 100)
      PROVE  t \in Int /\ 2 * (10 * m - t * 100) <= 100 /\ 2 * (t * 100 - 10 * m) <= 100
  BY <1>3, Rounded
<1>6. ASSUME NEW t \in Tenths(m, 100)
      PROVE  /\ t \in 0 .. 1000
             /\ n = 0 => t = 1000
             /\ n >= 300 => t < 1000
             /\ n >= 2000 => t <= 800
             /\ n >= 4000 => t <= 600
  BY <1>1, <1>3, <1>5
<1> QED
  BY <1>2, <1>4, <1>6

LEMMA GradeIs ==
  ASSUME NEW t \in Int
  PROVE  /\ t <= 800 => Grade(t) # "A"
         /\ t <= 600 => Grade(t) \in {"D", "E", "F"}
BY DEF Grade

\* What the findings say of the score.
LEMMA RiskMeans ==
  ASSUME NEW B, Rated(B), IsFiniteSet(B), NEW t \in SecurityScores(B)
  PROVE  /\ t \in 0 .. 1000
         /\ t = 1000 <=> \A f \in B : f.severity = "info"
         /\ (\E f \in B : f.severity = "high") => Grade(t) # "A"
         /\ (\E f \in B : f.severity = "critical") => Grade(t) \in {"D", "E", "F"}
<1> DEFINE n == Deduction(B)
<1>1. n \in Nat
  BY DeductionMore
<1>2. ASSUME NEW f \in B
      PROVE  /\ f.severity # "info" => n >= 300
             /\ f.severity = "high" => n >= 2000
             /\ f.severity = "critical" => n >= 4000
  <2>1. 100 * Costs(Rank(f)) <= n /\ Costs(Rank(f)) \in Nat
    BY DeductionAtLeast
  <2>2. f.severity \in Ratings
    BY DEF Rated
  <2>3. /\ Costs(0) = 40 /\ Costs(1) = 20 /\ Costs(2) = 8 /\ Costs(3) = 3
    BY SeverityFacts DEF Costs, Weight
  <2> HIDE DEF n
  <2>4. /\ f.severity = "critical" => 4000 <= n
        /\ f.severity = "high" => 2000 <= n
        /\ f.severity = "medium" => 800 <= n
        /\ f.severity = "low" => 300 <= n
    BY <2>1, <2>2, <2>3, RankValue
  <2> QED
    BY <1>1, <2>2, <2>4 DEF Ratings
<1> HIDE DEF n
<1>3. /\ t \in 0 .. 1000
      /\ n = 0 => t = 1000
      /\ n >= 300 => t < 1000
      /\ n >= 2000 => t <= 800
      /\ n >= 4000 => t <= 600
  BY <1>1, RiskIs DEF n
<1>4. (\A f \in B : f.severity = "info") => n = 0
  BY NotesAreFree DEF n
<1>5. ASSUME t = 1000 PROVE \A f \in B : f.severity = "info"
  <2>1. ~(n >= 300)
    BY <1>3, <1>5
  <2> QED
    BY <1>2, <2>1
<1>6. t = 1000 <=> \A f \in B : f.severity = "info"
  BY <1>3, <1>4, <1>5
<1>7. t \in Int
  BY <1>3
<1>8. (\E f \in B : f.severity = "high") => t <= 800
  BY <1>2, <1>3
<1>9. (\E f \in B : f.severity = "critical") => t <= 600
  BY <1>2, <1>3
<1> QED
  BY <1>3, <1>6, <1>7, <1>8, <1>9, GradeIs

\* What is shown was worked out from the findings and the endpoints.
Marked ==
  \A r \in result : /\ r.risk \in SecurityScores(findings) /\ r.grade = Grade(r.risk)
                    /\ r.readiness \in ReadinessScores

LEMMA MarkedNext == ASSUME IInv, Marked, [Next]_vars PROVE Marked'
<1>1. CASE Score
  <2>1. findings' = findings /\ endpoints' = endpoints
    BY <1>1 DEF Score
  <2>2. PICK clock \in Clocks, d \in Demands :
        \E risk \in SecurityScores(findings), ready \in ReadinessScores,
           left \in Tenths(YearsToQuantum(d, clock), 365) :
          result' = {[risk |-> risk, grade |-> Grade(risk),
                      readiness |-> ready, readinessGrade |-> Grade(ready),
                      clock |-> clock, required |-> d.shelf + d.migration, left |-> left,
                      atRisk |-> AtRisk(d, clock), deadline |-> Deadline(d),
                      status |-> [c \in Controls |-> Status(c, findings)],
                      plan |-> Plan(findings)]}
    BY <1>1 DEF Score
  <2>3. \A r \in result' : /\ r.risk \in SecurityScores(findings) /\ r.grade = Grade(r.risk)
                           /\ r.readiness \in ReadinessScores
    BY <2>2
  <2>4. ReadinessScores' = ReadinessScores
    BY <2>1 DEF ReadinessScores, Live, Labels
  <2> QED
    BY <2>1, <2>3, <2>4 DEF Marked
<1>2. CASE Extract \/ Exit \/ Over \/ UNCHANGED vars
  <2>1. findings' = findings /\ endpoints' = endpoints /\ result' = result
    BY <1>2 DEF Extract, Exit, Over, vars
  <2>2. ReadinessScores' = ReadinessScores
    BY <2>1 DEF ReadinessScores, Live, Labels
  <2> QED
    BY <2>1, <2>2 DEF Marked
<1>3. CASE RuleOnEndpoint \/ RuleOnHttp \/ RuleOnDns \/ RuleOnLicences \/ BuildInventory
  <2>1. ~Scored /\ result' = result
    BY <1>3 DEF RuleOnEndpoint, RuleOnHttp, RuleOnDns, RuleOnLicences, RuleOn, BuildInventory, Scored
  <2>2. result' = {}
    BY <2>1 DEF IInv, Computed
  <2> QED
    BY <2>2 DEF Marked
<1> QED
  BY <1>1, <1>2, <1>3 DEF Next

\* For any facts, reports, dates and demands: both scores are marks out of 100,
\* the letter is never kinder than the worst finding allows, and full marks are
\* given exactly if nothing is worse than info.
THEOREM GradesAreMeant == Spec => []GradesMeanSomething
<1>1. ASSUME IInv, Countable, Marked PROVE GradesMeanSomething
  <2> SUFFICES ASSUME NEW r \in result
               PROVE  /\ r.risk \in 0 .. 1000 /\ r.readiness \in 0 .. 1000
                      /\ r.risk = 1000 <=> \A f \in findings : f.severity = "info"
                      /\ (\E f \in findings : f.severity = "high") => r.grade # "A"
                      /\ (\E f \in findings : f.severity = "critical") =>
                           r.grade \in {"D", "E", "F"}
    BY DEF GradesMeanSomething
  <2>1. r.risk \in SecurityScores(findings) /\ r.grade = Grade(r.risk)
    BY <1>1 DEF Marked
  <2>2. r.readiness \in 0 .. 1000
    BY <1>1, ReadinessIs DEF Marked, IInv
  <2>3. Rated(findings) /\ IsFiniteSet(findings)
    BY <1>1 DEF IInv, Ruled, Countable
  <2> QED
    BY <2>1, <2>2, <2>3, RiskMeans
<1>2. Init => Marked
  BY DEF Init, Marked
<1>3. IInv /\ Marked /\ [Next]_vars => Marked'
  BY MarkedNext
<1>4. IInv /\ Countable /\ Marked => GradesMeanSomething
  BY <1>1
<1> QED
  BY <1>2, <1>3, <1>4, AnalysisInvariant, FindingsFinite, PTL DEF Spec

\* Scoring never finds nothing to report: whatever the rules said, there is a
\* score, a readiness and a number of years to show.
THEOREM AlwaysScored ==
  Spec => [](stage = "score" =>
               /\ SecurityScores(findings) # {} /\ ReadinessScores # {}
               /\ \A clock \in Clocks, d \in Demands : Tenths(YearsToQuantum(d, clock), 365) # {})
<1>1. ASSUME IInv, Countable PROVE SecurityScores(findings) # {} /\ ReadinessScores # {}
  <2>1. Deduction(findings) \in Nat
    BY <1>1, DeductionMore DEF IInv, Ruled, Countable
  <2> QED
    BY <1>1, <2>1, RiskIs, ReadinessIs DEF IInv
<1>2. ASSUME NEW clock \in Clocks, NEW d \in Demands
      PROVE  Tenths(YearsToQuantum(d, clock), 365) # {}
  <2>1. QuantumYear(d) \in Int /\ clock.year \in Int /\ clock.day \in Int
    BY YearIsNumber, ClocksAssumption
  <2>2. YearsToQuantum(d, clock) \in Int /\ 365 \in Nat \ {0}
    BY <2>1 DEF YearsToQuantum
  <2> QED
    BY <2>2, RoundedSome, Zenon
<1>3. IInv /\ Countable =>
        (stage = "score" =>
           /\ SecurityScores(findings) # {} /\ ReadinessScores # {}
           /\ \A clock \in Clocks, d \in Demands : Tenths(YearsToQuantum(d, clock), 365) # {})
  BY <1>1, <1>2
<1> QED
  BY <1>3, AnalysisInvariant, FindingsFinite, PTL
=============================================================================
