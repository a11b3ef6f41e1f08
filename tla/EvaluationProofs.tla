-------------------------- MODULE EvaluationProofs --------------------------
(***************************************************************************)
(* The score of an interview, for every rubric, every threshold, every     *)
(* transcript and whatever the model answers: it lies between scores that  *)
(* were given, and rests on enough of the rubric and on what the candidate *)
(* said.                                                                   *)
(***************************************************************************)
EXTENDS Evaluation, WellFoundedInduction, TLAPS

-----------------------------------------------------------------------------
(* Arithmetic.                                                             *)

\* A product grows with its factor.
LEMMA ProductGrows ==
  ASSUME NEW a \in Int, NEW b \in Int, NEW w \in Nat, a <= b
  PROVE  a * w <= b * w
  OBVIOUS

\* Division with a remainder.
LEMMA Remainder ==
  ASSUME NEW n \in Int, NEW d \in Int, d > 0, NEW q \in Int, q = n \div d,
         NEW r \in Int, r = n % d
  PROVE  /\ 0 <= r /\ r < d
         /\ n = d * q + r
<1>1. n = d * q + r
  BY Z3T(20)
<1>2. 0 <= r /\ r < d
  OBVIOUS
<1> QED
  BY <1>1, <1>2

\* What lies between two multiples of d is rounded to between their factors.
LEMMA RoundBetween ==
  ASSUME NEW n \in Int, NEW d \in Nat \ {0}, NEW low \in Int, NEW high \in Int,
         low * d <= n, n <= high * d
  PROVE  Round(n, d) \in low..high
<1>. DEFINE q == n \div d
            r == n % d
<1>1. q \in Int /\ r \in Int /\ 0 <= r /\ r < d /\ n = d * q + r
  <2>1. q \in Int /\ r \in Int
    OBVIOUS
  <2>2. d \in Int /\ d > 0
    OBVIOUS
  <2> QED
    BY <2>1, <2>2, Remainder
<1>2. Round(n, d) = IF 2 * r > d \/ (2 * r = d /\ q % 2 = 1) THEN q + 1 ELSE q
  BY DEF Round
<1>. HIDE DEF q, r
<1>3. low <= q
  <2>. SUFFICES ASSUME q + 1 <= low PROVE FALSE
    BY <1>1
  <2>1. (q + 1) * d <= low * d
    BY <1>1, ProductGrows
  <2>2. (q + 1) * d = d * q + d
    BY <1>1
  <2>3. d * q \in Int
    BY <1>1
  <2> QED
    BY <1>1, <2>1, <2>2, <2>3
<1>4. q <= high
  <2>. SUFFICES ASSUME high + 1 <= q PROVE FALSE
    BY <1>1
  <2>1. (high + 1) * d <= q * d
    BY <1>1, ProductGrows
  <2>2. (high + 1) * d = high * d + d /\ q * d = d * q
    BY <1>1
  <2>3. d * q \in Int /\ high * d \in Int
    BY <1>1
  <2> QED
    BY <1>1, <2>1, <2>2, <2>3
<1>5. q = high => r = 0
  <2>1. q = high => d * q = high * d
    BY <1>1
  <2>2. d * q \in Int /\ high * d \in Int
    BY <1>1
  <2> QED
    BY <1>1, <2>1, <2>2
<1> QED
  BY <1>1, <1>2, <1>3, <1>4, <1>5

-----------------------------------------------------------------------------
(* The weighted mean.                                                      *)

\* The categories by name.
LEMMA CategoryNames ==
  Categories = {"relevant_experience", "technical_knowledge", "problem_solving",
                "communication", "behavioral_competencies", "job_requirement_coverage"}
BY DEF Categories, CategoryOrder

\* A factor common to six terms.
LEMMA Distribute ==
  ASSUME NEW k \in Int, NEW a \in Int, NEW b \in Int, NEW c \in Int, NEW d \in Int,
         NEW e \in Int, NEW f \in Int
  PROVE  k * (a + b + c + d + e + f) = k * a + k * b + k * c + k * d + k * e + k * f
OBVIOUS

\* What compares k times one number with another in every category compares their
\* totals.
LEMMA TotalBounds ==
  ASSUME NEW k \in Int, NEW x \in [Categories -> Int], NEW y \in [Categories -> Int]
  PROVE  /\ Total(x) \in Int
         /\ (\A c \in Categories : k * x[c] <= y[c]) => k * Total(x) <= Total(y)
         /\ (\A c \in Categories : y[c] <= k * x[c]) => Total(y) <= k * Total(x)
<1>. DEFINE one == "relevant_experience"
            two == "technical_knowledge"
            three == "problem_solving"
            four == "communication"
            five == "behavioral_competencies"
            six == "job_requirement_coverage"
<1>1. {one, two, three, four, five, six} = Categories
  BY CategoryNames
<1>2. /\ Total(x) = x[one] + x[two] + x[three] + x[four] + x[five] + x[six]
      /\ Total(y) = y[one] + y[two] + y[three] + y[four] + y[five] + y[six]
  BY DEF Total
<1>. HIDE DEF one, two, three, four, five, six
<1>3. /\ x[one] \in Int /\ x[two] \in Int /\ x[three] \in Int
      /\ x[four] \in Int /\ x[five] \in Int /\ x[six] \in Int
  BY <1>1
<1>4. /\ y[one] \in Int /\ y[two] \in Int /\ y[three] \in Int
      /\ y[four] \in Int /\ y[five] \in Int /\ y[six] \in Int
  BY <1>1
<1>5. k * Total(x) = k * x[one] + k * x[two] + k * x[three] + k * x[four] + k * x[five]
                     + k * x[six]
  BY <1>2, <1>3, Distribute
<1>6. /\ k * x[one] \in Int /\ k * x[two] \in Int /\ k * x[three] \in Int
      /\ k * x[four] \in Int /\ k * x[five] \in Int /\ k * x[six] \in Int
  BY <1>3
<1>7. Total(x) \in Int
  BY <1>2, <1>3
<1>8. ASSUME \A c \in Categories : k * x[c] <= y[c] PROVE k * Total(x) <= Total(y)
  <2>1. /\ k * x[one] <= y[one] /\ k * x[two] <= y[two] /\ k * x[three] <= y[three]
        /\ k * x[four] <= y[four] /\ k * x[five] <= y[five] /\ k * x[six] <= y[six]
    BY <1>1, <1>8
  <2> QED
    BY <1>2, <1>4, <1>5, <1>6, <2>1
<1>9. ASSUME \A c \in Categories : y[c] <= k * x[c] PROVE Total(y) <= k * Total(x)
  <2>1. /\ y[one] <= k * x[one] /\ y[two] <= k * x[two] /\ y[three] <= k * x[three]
        /\ y[four] <= k * x[four] /\ y[five] <= k * x[five] /\ y[six] <= k * x[six]
    BY <1>1, <1>9
  <2> QED
    BY <1>2, <1>4, <1>5, <1>6, <2>1
<1> QED
  BY <1>7, <1>8, <1>9

\* WeightOf is a natural number, and 100 of the whole profile.
LEMMA WeightTyped ==
  ASSUME NEW cats
  PROVE  /\ [c \in Categories |-> IF c \in cats THEN Weight[c] ELSE 0] \in [Categories -> Nat]
         /\ WeightOf(cats) \in Int /\ WeightOf(cats) >= 0
         /\ cats = Categories => WeightOf(cats) = 100
<1>. DEFINE x == [c \in Categories |-> IF c \in cats THEN Weight[c] ELSE 0]
            zero == [c \in Categories |-> 0]
<1>1. Weight \in [Categories -> Nat] /\ Total(Weight) = 100
  BY RubricAssumption DEF RubricProfile
<1>2. x \in [Categories -> Nat] /\ WeightOf(cats) = Total(x)
  BY <1>1 DEF WeightOf
<1>3. x \in [Categories -> Int] /\ zero \in [Categories -> Int]
  BY <1>2
<1>4. \A c \in Categories : zero[c] <= 1 * x[c]
  BY <1>2
<1>5. Total(x) \in Int /\ Total(zero) <= 1 * Total(x)
  BY <1>3, <1>4, TotalBounds
<1>6. Total(zero) = 0
  BY CategoryNames DEF Total
<1>7. cats = Categories => x = Weight
  BY <1>1
<1> QED
  BY <1>1, <1>2, <1>5, <1>6, <1>7

\* Whatever the weights, and however it is rounded, the mean of the scores given lies
\* between any bounds of them; what is not scored does not count
\* (services/scoring.py, compute_overall_score).
THEOREM MeanLiesBetween ==
  ASSUME NEW evals, \A c \in Categories : evals[c].score \in Int,
         NEW low \in Int, NEW high \in Int,
         \A c \in Scored(evals) : low <= evals[c].score /\ evals[c].score <= high,
         WeightOf(Scored(evals)) # 0
  PROVE  OverallScore(evals) \in low..high
<1>. DEFINE cats == Scored(evals)
            x == [c \in Categories |-> IF c \in cats THEN Weight[c] ELSE 0]
            y == [c \in Categories |-> IF c \in cats THEN evals[c].score * Weight[c] ELSE 0]
<1>1. Weight \in [Categories -> Nat]
  BY RubricAssumption DEF RubricProfile
<1>2. /\ x \in [Categories -> Int] /\ WeightOf(cats) = Total(x)
      /\ WeightOf(cats) \in Nat \ {0}
  BY WeightTyped DEF WeightOf
<1>3. y \in [Categories -> Int] /\ WeightedSum(evals) = Total(y)
  <2>1. \A c \in Categories : evals[c].score * Weight[c] \in Int
    BY <1>1
  <2> QED
    BY <2>1 DEF WeightedSum
<1>4. \A c \in Categories : low * x[c] <= y[c] /\ y[c] <= high * x[c]
  <2>. SUFFICES ASSUME NEW c \in Categories PROVE low * x[c] <= y[c] /\ y[c] <= high * x[c]
    OBVIOUS
  <2>1. CASE c \in cats
    <3>1. x[c] = Weight[c] /\ y[c] = evals[c].score * Weight[c] /\ Weight[c] \in Nat
      BY <1>1, <2>1
    <3>2. low <= evals[c].score /\ evals[c].score <= high /\ evals[c].score \in Int
      BY <2>1
    <3> QED
      BY <3>1, <3>2, ProductGrows
  <2>2. CASE c \notin cats
    <3>1. x[c] = 0 /\ y[c] = 0
      BY <2>2
    <3> QED
      BY <3>1
  <2> QED
    BY <2>1, <2>2
<1>. HIDE DEF x, y
<1>5. low * Total(x) <= Total(y) /\ Total(y) <= high * Total(x) /\ Total(y) \in Int
  BY <1>2, <1>3, <1>4, TotalBounds
<1>6. Round(WeightedSum(evals), WeightOf(cats)) \in low..high
  BY <1>2, <1>3, <1>5, RoundBetween
<1> QED
  BY <1>6 DEF OverallScore

-----------------------------------------------------------------------------
(* Induction, of sets of numbers.                                          *)

\* A set of natural numbers has a least one.
LEMMA LeastNumber ==
  ASSUME NEW T, T \subseteq Nat, T # {}
  PROVE  \E x \in T : \A y \in T : x <= y
<1>. DEFINE R == OpToRel(<, Nat)
<1>1. IsWellFoundedOn(R, Nat)
  BY NatLessThanWellFounded
<1>2. \A x, y \in Nat : x < y => <<x, y>> \in R
  BY DEF OpToRel
<1>. HIDE DEF R
<1>3. PICK x \in T : \A y \in T : ~(<<y, x>> \in R)
  BY <1>1, WFMin
<1>4. ASSUME NEW y \in T PROVE x <= y
  <2>1. x \in Nat /\ y \in Nat /\ ~(y < x)
    BY <1>2, <1>3
  <2> QED
    BY <2>1
<1> QED
  BY <1>4

\* A set with 0, and with the number after each it has, has every number.
LEMMA NumbersByInduction ==
  ASSUME NEW T, 0 \in T, \A n \in Nat : n \in T => n + 1 \in T
  PROVE  Nat \subseteq T
<1>. DEFINE U == Nat \ T
<1>. SUFFICES ASSUME U # {} PROVE FALSE
  OBVIOUS
<1>1. U \subseteq Nat
  OBVIOUS
<1>. HIDE DEF U
<1>2. PICK x \in U : \A y \in U : x <= y
  BY <1>1, LeastNumber
<1>. USE DEF U
<1>3. x \in Nat /\ x # 0 /\ x - 1 \in Nat /\ ~(x <= x - 1)
  BY <1>2
<1>4. x - 1 \in T
  BY <1>2, <1>3
<1>5. (x - 1) + 1 \in T /\ (x - 1) + 1 = x
  BY <1>3, <1>4
<1> QED
  BY <1>2, <1>5

-----------------------------------------------------------------------------
(* The list of concerns.                                                   *)

\* Sequences: the length, and the type of the elements.
LEMMA SeqTyped ==
  ASSUME NEW S, NEW s \in Seq(S)
  PROVE  Len(s) \in Nat /\ \A i \in 1..Len(s) : s[i] \in S
OBVIOUS

\* What holds of the list made of the first n of the items.
Listed(list, items, n) ==
    /\ list \in Seq(Concern) /\ Len(list) <= MaxRecruiterItems
    /\ \A i, j \in DOMAIN list : i # j => ~SameConcern(list[i], list[j])
    /\ \A k \in 1..n : \/ \E i \in DOMAIN list : SameConcern(items[k], list[i])
                       \/ Len(list) = MaxRecruiterItems

\* Likeness does not depend on the order, and a concern is like itself.
LEMMA LikenessSymmetric ==
  ASSUME NEW a, NEW b
  PROVE  (SameConcern(a, b) <=> SameConcern(b, a)) /\ SameConcern(a, a)
<1>1. a \intersect b = b \intersect a /\ a \union b = b \union a
  OBVIOUS
<1>2. {Cardinality(a), Cardinality(b)} = {Cardinality(b), Cardinality(a)}
  OBVIOUS
<1> QED
  BY <1>1, <1>2, Zenon DEF SameConcern

\* One more item is kept, or is like one that was, or finds no room.
LEMMA KeptLists ==
  ASSUME NEW items, NEW n \in Nat, NEW list, Listed(list, items, n),
         items[n + 1] \in Concern
  PROVE  Listed(Kept(list, items[n + 1]), items, n + 1)
<1>. DEFINE x == items[n + 1]
            new == Kept(list, x)
<1>1. /\ list \in Seq(Concern) /\ Len(list) \in Nat /\ DOMAIN list = 1..Len(list)
      /\ Len(list) <= MaxRecruiterItems /\ MaxRecruiterItems = 5
  BY DEF Listed, MaxRecruiterItems
<1>2. \A k \in 1..(n + 1) : k \in 1..n \/ k = n + 1
  OBVIOUS
<1>3. CASE \E i \in DOMAIN list : SameConcern(x, list[i])
  <2>1. new = list
    BY <1>3 DEF Kept
  <2> QED
    BY <1>2, <1>3, <2>1 DEF Listed
<1>4. CASE Len(list) >= MaxRecruiterItems
  <2>1. new = list /\ Len(list) = MaxRecruiterItems
    BY <1>1, <1>4 DEF Kept
  <2> QED
    BY <2>1 DEF Listed
<1>5. CASE ~(\E i \in DOMAIN list : SameConcern(x, list[i])) /\ ~(Len(list) >= MaxRecruiterItems)
  <2>1. new = Append(list, x)
    BY <1>5 DEF Kept
  <2>. DEFINE m == Len(list)
  <2>2. /\ new \in Seq(Concern) /\ Len(new) = m + 1 /\ DOMAIN new = 1..(m + 1)
        /\ \A i \in 1..m : new[i] = list[i]
        /\ new[m + 1] = x
    BY <1>1, <2>1
  <2>. HIDE DEF new, x
  <2>3. \A i \in DOMAIN new : i \in DOMAIN list \/ i = m + 1
    BY <1>1, <2>2
  <2>4. ASSUME NEW i \in DOMAIN new, NEW j \in DOMAIN new, i # j
        PROVE  ~SameConcern(new[i], new[j])
    <3>1. CASE i \in DOMAIN list /\ j \in DOMAIN list
      BY <1>1, <2>2, <2>4, <3>1 DEF Listed
    <3>2. CASE i = m + 1 /\ j \in DOMAIN list
      BY <1>1, <1>5, <2>2, <3>2
    <3>3. CASE j = m + 1 /\ i \in DOMAIN list
      BY <1>1, <1>5, <2>2, <3>3, LikenessSymmetric
    <3> QED
      BY <2>3, <2>4, <3>1, <3>2, <3>3
  <2>5. ASSUME NEW k \in 1..(n + 1)
        PROVE  \/ \E i \in DOMAIN new : SameConcern(items[k], new[i])
               \/ Len(new) = MaxRecruiterItems
    <3>1. CASE k \in 1..n
      <4>1. PICK i \in DOMAIN list : SameConcern(items[k], list[i])
        BY <1>1, <1>5, <3>1 DEF Listed
      <4>2. i \in DOMAIN new /\ new[i] = list[i]
        BY <1>1, <2>2, <4>1
      <4> QED
        BY <4>1, <4>2
    <3>2. CASE k = n + 1
      <4>1. m + 1 \in DOMAIN new /\ items[k] = x
        BY <1>1, <2>2, <3>2 DEF x
      <4> QED
        BY <2>2, <4>1, LikenessSymmetric
    <3> QED
      BY <1>2, <3>1, <3>2
  <2>6. Len(new) <= MaxRecruiterItems
    BY <1>1, <1>5, <2>2
  <2> QED
    BY <2>2, <2>4, <2>5, <2>6 DEF Listed, new, x
<1> QED
  BY <1>3, <1>4, <1>5

\* The list of no item is empty, and that of n items is made from that of n - 1.
Step(kept, items, n) == IF n = 0 THEN << >> ELSE Kept(kept[n - 1], items[n])

\* For any number of items the lists exist that _dedup_concerns makes on its way.
LEMMA ListsExist ==
  ASSUME NEW items
  PROVE  \A n \in Nat : \E kept : kept = [m \in 0..n |-> Step(kept, items, m)]
<1>. DEFINE T == {n \in Nat : \E kept : kept = [m \in 0..n |-> Step(kept, items, m)]}
<1>1. 0 \in T
  <2>. DEFINE one == [m \in 0..0 |-> << >>]
  <2>1. one = [m \in 0..0 |-> Step(one, items, m)]
    BY DEF Step
  <2> QED
    BY <2>1
<1>2. ASSUME NEW n \in Nat, n \in T PROVE n + 1 \in T
  <2>1. PICK g : g = [m \in 0..n |-> Step(g, items, m)]
    BY <1>2
  <2>. DEFINE h == [m \in 0..(n + 1) |-> IF m = n + 1 THEN Kept(g[n], items[n + 1]) ELSE g[m]]
  <2>2. ASSUME NEW m \in 0..(n + 1) PROVE h[m] = Step(h, items, m)
    <3>1. CASE m = n + 1
      <4>1. h[m] = Kept(g[n], items[n + 1]) /\ h[n] = g[n] /\ m # 0 /\ m - 1 = n
        BY <3>1
      <4> QED
        BY <3>1, <4>1 DEF Step
    <3>2. CASE m # n + 1 /\ m # 0
      <4>1. m \in 0..n /\ m - 1 \in 0..n /\ h[m] = g[m] /\ h[m - 1] = g[m - 1]
        BY <3>2
      <4>2. g[m] = Step(g, items, m)
        BY <2>1, <4>1
      <4> QED
        BY <3>2, <4>1, <4>2 DEF Step
    <3>3. CASE m = 0
      <4>1. m \in 0..n /\ h[m] = g[m]
        BY <3>3
      <4>2. g[m] = Step(g, items, m)
        BY <2>1, <4>1
      <4> QED
        BY <3>3, <4>1, <4>2 DEF Step
    <3> QED
      BY <3>1, <3>2, <3>3
  <2>3. h = [m \in 0..(n + 1) |-> Step(h, items, m)]
    BY <2>2
  <2>4. n + 1 \in Nat
    OBVIOUS
  <2>. HIDE DEF h
  <2> QED
    BY <2>3, <2>4
<1>. HIDE DEF T
<1>3. Nat \subseteq T
  BY <1>1, <1>2, NumbersByInduction
<1> QED
  BY <1>3 DEF T

\* Whatever the items, the list of _dedup_concerns holds each concern once, and
\* none is left out but for another like it or for want of room.
THEOREM DedupLists ==
  ASSUME NEW items \in Seq(Concern)
  PROVE  Listed(DedupConcerns(items), items, Len(items))
<1>. DEFINE N == Len(items)
            kept == CHOOSE k : k = [n \in 0..N |-> IF n = 0 THEN << >> ELSE Kept(k[n - 1], items[n])]
            T == {n \in Nat : n <= N => Listed(kept[n], items, n)}
<1>1. N \in Nat /\ \A k \in 1..N : items[k] \in Concern
  BY SeqTyped
<1>2. DedupConcerns(items) = kept[N]
  BY DEF DedupConcerns
<1>3. kept = [n \in 0..N |-> IF n = 0 THEN << >> ELSE Kept(kept[n - 1], items[n])]
  <2>1. \E k : k = [n \in 0..N |-> IF n = 0 THEN << >> ELSE Kept(k[n - 1], items[n])]
    BY <1>1, ListsExist DEF Step
  <2> QED
    BY <2>1
<1>. HIDE DEF N, kept
<1>4. 0 \in T
  <2>1. kept[0] = << >>
    BY <1>1, <1>3
  <2>2. Listed(<< >>, items, 0)
    BY DEF Listed, MaxRecruiterItems
  <2> QED
    BY <2>1, <2>2
<1>5. ASSUME NEW n \in Nat, n \in T PROVE n + 1 \in T
  <2>1. CASE n + 1 <= N
    <3>1. n <= N /\ n + 1 \in 1..N /\ n + 1 \in 0..N /\ (n + 1) - 1 = n /\ n + 1 # 0
      BY <1>1, <2>1
    <3>2. kept[n + 1] = Kept(kept[n], items[n + 1])
      BY <1>3, <3>1
    <3>3. Listed(kept[n], items, n) /\ items[n + 1] \in Concern
      BY <1>1, <1>5, <3>1
    <3>4. Listed(kept[n + 1], items, n + 1)
      BY <3>2, <3>3, KeptLists
    <3> QED
      BY <3>4
  <2>2. CASE ~(n + 1 <= N)
    BY <2>2
  <2> QED
    BY <2>1, <2>2
<1>. HIDE DEF T
<1>6. N \in T
  BY <1>1, <1>4, <1>5, NumbersByInduction
<1> QED
  BY <1>1, <1>2, <1>6 DEF T, N

\* What two lists of concerns one after the other are.
LEMMA ListsJoin ==
  ASSUME NEW a \in Seq(Concern), NEW b \in Seq(Concern)
  PROVE  a \o b \in Seq(Concern)
OBVIOUS

\* A gap is a concern.
LEMMA GapTyped ==
  ASSUME NEW c \in Categories
  PROVE  <<Gap(c)>> \in Seq(Concern)
<1>1. Gap(c) \in Concern
  BY DEF Concern
<1> QED
  BY <1>1

\* Everything a category leaves open is a list of concerns.
LEMMA ConcernsTyped ==
  ASSUME NEW evals \in [Categories -> CategoryEvaluation]
  PROVE  Concerns(evals) \in Seq(Concern)
<1>. DEFINE named(i) == IF CategoryOrder[i] \in Categories
                        THEN evals[CategoryOrder[i]].areas ELSE << >>
            gaps(i) == IF CategoryOrder[i] \in Categories \ Scored(evals)
                       THEN <<Gap(CategoryOrder[i])>> ELSE << >>
<1>1. << >> \in Seq(Concern)
  OBVIOUS
<1>2. ASSUME NEW c \in Categories PROVE evals[c].areas \in Seq(Concern)
  <2>1. evals[c].areas \in Areas \union {<< >>}
    BY DEF CategoryEvaluation
  <2> QED
    BY <1>1, <2>1, ModelAssumption
<1>3. \A i : named(i) \in Seq(Concern)
  BY <1>1, <1>2
<1>4. \A i : gaps(i) \in Seq(Concern)
  BY <1>1, GapTyped
<1>5. Concerns(evals) =
        (named(1) \o named(2) \o named(3) \o named(4) \o named(5) \o named(6))
        \o (gaps(1) \o gaps(2) \o gaps(3) \o gaps(4) \o gaps(5) \o gaps(6))
  BY Zenon DEF Concerns, InOrder
<1>. HIDE DEF named, gaps
<1>6. named(1) \o named(2) \o named(3) \o named(4) \o named(5) \o named(6)
        \in Seq(Concern)
  BY <1>3, ListsJoin
<1>7. gaps(1) \o gaps(2) \o gaps(3) \o gaps(4) \o gaps(5) \o gaps(6)
        \in Seq(Concern)
  BY <1>4, ListsJoin
<1> QED
  BY <1>5, <1>6, <1>7, ListsJoin

-----------------------------------------------------------------------------
(* What an evaluation under way has established.                           *)

\* A score of a category rests on something said about it.
Backed(e, c) == e.score # None => e.evidence # {} /\ e.evidence \subseteq RelevantTurns(c)

\* The evaluations made so far are of the first categories, in their order.
DoneHolds ==
    /\ Len(done) <= 6
    /\ at = "idle" => done = << >>
    /\ at = "asking" => Len(done) < 6
    /\ at = "scoring" => Len(done) = 6
    /\ \A i \in 1..Len(done) : Backed(done[i], CategoryOrder[i])

\* What is stored is computed from evaluations that are backed.
EvaluationHolds ==
    evaluation # NoEvaluation =>
        /\ \A c \in Categories : Backed(evaluation.categories[c], c)
        /\ evaluation = InterviewEvaluation(evaluation.categories)

\* An interview is evaluated once, and a report is made of what is stored.
ReportHolds ==
    /\ at # "idle" => evaluation = NoEvaluation
    /\ report # NoReport => evaluation # NoEvaluation /\ report = HRReport(evaluation)

EvaluationInv == EvaluationTypeOK /\ DoneHolds /\ EvaluationHolds /\ ReportHolds

\* CategoryOrder has each category at one place.
LEMMA SixInOrder ==
  /\ Len(CategoryOrder) = 6 /\ DOMAIN CategoryOrder = 1..6
  /\ \A i \in 1..6 : CategoryOrder[i] \in Categories
  /\ \A c \in Categories : \E i \in 1..6 : CategoryOrder[i] = c
<1>1. Len(CategoryOrder) = 6 /\ DOMAIN CategoryOrder = 1..6
  BY DEF CategoryOrder
<1> QED
  BY <1>1 DEF Categories

\* A reply whose excerpts were checked is an evaluation, and is backed.
LEMMA VerifiedIsBacked ==
  ASSUME NEW c \in Categories, NEW reply \in Replies
  PROVE  Verified(c, reply) \in CategoryEvaluation /\ Backed(Verified(c, reply), c)
<1>. DEFINE traceable == Traceable(c, reply.evidence)
<1>1. traceable \subseteq RelevantTurns(c) /\ traceable \in SUBSET DOMAIN transcript
  BY DEF Traceable, RelevantTurns, Turns
<1>2. None \in 0..100 \union {None} /\ {} \in SUBSET DOMAIN transcript
  OBVIOUS
<1>3. \E s \in Scores \union {None}, e \in SUBSET Excerpts, a \in Areas \union {<< >>} :
         /\ reply = [score |-> s, evidence |-> e, areas |-> a]
         /\ s = None => e = {}
  <2>1. CASE \E a \in Areas : reply = [score |-> None, evidence |-> {}, areas |-> a]
    BY <2>1
  <2>2. CASE \E s \in Scores, e \in SUBSET Excerpts :
                reply = [score |-> s, evidence |-> e, areas |-> << >>]
    <3>1. PICK s \in Scores, e \in SUBSET Excerpts :
                 reply = [score |-> s, evidence |-> e, areas |-> << >>]
      BY <2>2
    <3>2. s # None
      BY ModelAssumption DEF None
    <3> QED
      BY <3>1, <3>2
  <2> QED
    BY <2>1, <2>2 DEF Replies
<1>4. PICK s \in Scores \union {None}, e \in SUBSET Excerpts, a \in Areas \union {<< >>} :
         /\ reply = [score |-> s, evidence |-> e, areas |-> a]
         /\ s = None => e = {}
  BY <1>3
<1>5. s \in 0..100 \union {None}
  BY ModelAssumption
<1>6. Verified(c, reply) =
         IF traceable # {} \/ s = None
         THEN [score |-> s, evidence |-> traceable, areas |-> a]
         ELSE [score |-> None, evidence |-> {}, areas |-> a]
  <2>1. ASSUME NEW t
        PROVE  [reply EXCEPT !.evidence = t] = [score |-> s, evidence |-> t, areas |-> a]
    BY <1>4
  <2>3. reply.score = s /\ reply.areas = a
    BY <1>4
  <2>4. [reply EXCEPT !.evidence = traceable] = [score |-> s, evidence |-> traceable, areas |-> a]
    BY <2>1
  <2>5. Verified(c, reply) = IF traceable # {} \/ reply.score = None
                             THEN [reply EXCEPT !.evidence = traceable]
                             ELSE [score |-> None, evidence |-> {}, areas |-> reply.areas]
    BY ZenonT(20) DEF Verified
  <2>. HIDE DEF traceable
  <2> QED
    BY <2>3, <2>4, <2>5
<1>. HIDE DEF traceable
<1>7. Verified(c, reply) \in CategoryEvaluation
  BY <1>1, <1>2, <1>5, <1>6 DEF CategoryEvaluation
<1>8. Backed(Verified(c, reply), c)
  BY <1>1, <1>6 DEF Backed
<1> QED
  BY <1>7, <1>8

\* The overall score of typed evaluations is a score or none.
LEMMA OverallTyped ==
  ASSUME NEW evals \in [Categories -> CategoryEvaluation]
  PROVE  OverallScore(evals) \in 0..100 \union {None}
<1>1. \A c \in Categories : evals[c].score \in 0..100 \union {None}
  BY DEF CategoryEvaluation
<1>2. \A c \in Categories : evals[c].score \in Int
  BY <1>1 DEF None
<1>3. \A c \in Scored(evals) : 0 <= evals[c].score /\ evals[c].score <= 100
  BY <1>1 DEF Scored
<1>4. ASSUME WeightOf(Scored(evals)) # 0 PROVE OverallScore(evals) \in 0..100
  <2>1. 0 \in Int /\ 100 \in Int
    OBVIOUS
  <2>2. ASSUME NEW low \in Int, NEW high \in Int, low = 0, high = 100
        PROVE  OverallScore(evals) \in low..high
    BY <1>2, <1>3, <1>4, <2>2, MeanLiesBetween
  <2> QED
    BY <2>1, <2>2
<1>5. WeightOf(Scored(evals)) = 0 => OverallScore(evals) = None
  BY DEF OverallScore
<1> QED
  BY <1>4, <1>5

\* What is stored after typed evaluations is an evaluation.
LEMMA InterviewEvaluationTyped ==
  ASSUME NEW evals \in [Categories -> CategoryEvaluation]
  PROVE  InterviewEvaluation(evals) \in StoredEvaluation
<1>1. OverallScore(evals) \in 0..100 \union {None}
  BY OverallTyped
<1>2. Recommendation(evals) \in {"strong_evidence", "proceed", "requires_validation",
                                 "insufficient_evidence"}
  BY DEF Recommendation
<1>3. ScreeningOutcome(evals) \in {"pass", "fail", "needs_review"}
  BY DEF ScreeningOutcome
<1> QED
  BY <1>1, <1>2, <1>3 DEF InterviewEvaluation, StoredEvaluation

\* The three verdicts on one interview agree: no score is shown exactly when the
\* recommendation is that the evidence is insufficient, and exactly when a person has
\* to review the screening (services/scoring.py, determine_recommendation,
\* determine_screening_outcome, build_interview_evaluation).
THEOREM VerdictsAgree ==
  ASSUME NEW evals \in [Categories -> CategoryEvaluation]
  PROVE  LET e == InterviewEvaluation(evals)
         IN  /\ e.overall = None <=> e.recommendation = "insufficient_evidence"
             /\ e.overall = None <=> e.outcome = "needs_review"
<1>. DEFINE score == OverallScore(evals)
            missing == ~Covered(evals) \/ score = None
<1>1. score \in 0..100 \union {None} /\ ~(None >= 0)
  BY OverallTyped DEF None
<1>2. Recommendation(evals) = "insufficient_evidence" <=> missing
  <2>1. CASE missing
    <3>1. /\ ~(Covered(evals) /\ score >= StrongScore)
          /\ ~(Covered(evals) /\ score \in ProceedScore..(StrongScore - 1))
      BY <1>1, <2>1, RubricAssumption DEF RubricThresholds, None
    <3> QED
      BY <2>1, <3>1, Zenon DEF Recommendation
  <2>2. CASE ~missing
    BY <2>2, Zenon DEF Recommendation
  <2> QED
    BY <2>1, <2>2
<1>3. ScreeningOutcome(evals) = "needs_review" <=> missing
  <2>1. CASE missing
    <3>1. ~(Covered(evals) /\ score >= PassScore)
      BY <1>1, <2>1, RubricAssumption DEF RubricThresholds, None
    <3> QED
      BY <2>1, <3>1, Zenon DEF ScreeningOutcome
  <2>2. CASE ~missing
    BY <2>2, Zenon DEF ScreeningOutcome
  <2> QED
    BY <2>1, <2>2
<1>4. (IF Covered(evals) THEN score ELSE None) = None <=> missing
  OBVIOUS
<1> QED
  BY <1>2, <1>3, <1>4, Zenon DEF InterviewEvaluation

-----------------------------------------------------------------------------
(* The invariant.                                                          *)

\* Before anything is asked there is nothing to back.
LEMMA InitEvaluation == Init => EvaluationInv
<1>. SUFFICES ASSUME Init PROVE EvaluationInv
  OBVIOUS
<1>1. EvaluationTypeOK
  <2>1. done \in Seq(CategoryEvaluation)
    BY DEF Init
  <2>2. repairing \in BOOLEAN
    BY DEF Init
  <2> QED
    BY <2>1, <2>2, Zenon DEF Init, EvaluationTypeOK
<1>2. DoneHolds /\ EvaluationHolds /\ ReportHolds
  BY DEF Init, DoneHolds, EvaluationHolds, ReportHolds
<1> QED
  BY <1>1, <1>2 DEF EvaluationInv

\* One more category is evaluated, and its reply checked.
LEMMA CategoryKeepsInv ==
  ASSUME EvaluationInv, NEW reply \in Replies, CategoryEvaluated(reply)
  PROVE  EvaluationInv'
<1>. DEFINE n == Len(done)
            e == Verified(Asked, reply)
<1>1. /\ done \in Seq(CategoryEvaluation) /\ n \in 0..5 /\ at = "asking"
      /\ done' = Append(done, e)
  <2>1. done \in Seq(CategoryEvaluation) /\ at = "asking" /\ done' = Append(done, e)
    BY Zenon DEF CategoryEvaluated, EvaluationInv, EvaluationTypeOK
  <2>2. Len(done) < 6
    BY <2>1, Zenon DEF EvaluationInv, DoneHolds
  <2>3. Len(done) \in Nat
    BY <2>1, SeqTyped
  <2>4. Len(done) \in 0..5
    <3>1. ASSUME NEW m \in Nat, m < 6 PROVE m \in 0..5
      BY <3>1
    <3> QED
      BY <2>2, <2>3, <3>1
  <2> QED
    BY <2>1, <2>4, Zenon
<1>2. Asked = CategoryOrder[n + 1] /\ Asked \in Categories
  BY <1>1, SixInOrder DEF Asked
<1>3. e \in CategoryEvaluation /\ Backed(e, Asked)
  BY <1>2, VerifiedIsBacked
<1>. HIDE DEF e
<1>4. UNCHANGED <<transcript, evaluation>> /\ CategoryEvaluation' = CategoryEvaluation
  BY DEF CategoryEvaluated, CategoryEvaluation
<1>5. /\ done' \in Seq(CategoryEvaluation) /\ Len(done') = n + 1
      /\ \A i \in 1..n : done'[i] = done[i]
      /\ done'[n + 1] = e
  BY <1>1, <1>3
<1>6. at' = IF n + 1 = 6 THEN "scoring" ELSE "asking"
  BY <1>5, SixInOrder DEF CategoryEvaluated
<1>7. EvaluationTypeOK'
  <2>1. StoredEvaluation' = StoredEvaluation
    BY <1>4 DEF StoredEvaluation
  <2>2. done' \in Seq(CategoryEvaluation')
    BY <1>4, <1>5
  <2>3. repairing' \in BOOLEAN /\ at' \in {"idle", "asking", "scoring"}
    BY <1>6 DEF CategoryEvaluated
  <2> QED
    BY <1>4, <2>1, <2>2, <2>3 DEF EvaluationInv, EvaluationTypeOK, NoEvaluation
<1>8. ASSUME NEW x, NEW c PROVE Backed(x, c)' <=> Backed(x, c)
  BY <1>4 DEF Backed, RelevantTurns, Turns
<1>9. \A i \in 1..(n + 1) : Backed(done'[i], CategoryOrder[i])
  BY <1>1, <1>2, <1>3, <1>5 DEF EvaluationInv, DoneHolds
<1>10. DoneHolds'
  BY <1>1, <1>4, <1>5, <1>6, <1>9 DEF DoneHolds, Backed, RelevantTurns, Turns
<1>11. EvaluationHolds'
  BY <1>4 DEF EvaluationInv, EvaluationHolds, Backed, RelevantTurns, Turns
<1>12. ReportHolds'
  BY <1>1, <1>4 DEF CategoryEvaluated, EvaluationInv, ReportHolds
<1> QED
  BY <1>7, <1>10, <1>11, <1>12 DEF EvaluationInv

\* Every evaluation is weighed, and the result is stored.
LEMMA ScoreKeepsInv ==
  ASSUME EvaluationInv, Score
  PROVE  EvaluationInv'
<1>. DEFINE Place(c) == CHOOSE i \in DOMAIN CategoryOrder : CategoryOrder[i] = c
            evals == [c \in Categories |-> done[Place(c)]]
<1>1. done \in Seq(CategoryEvaluation) /\ Len(done) = 6
  BY Zenon DEF Score, EvaluationInv, EvaluationTypeOK, DoneHolds
<1>2. \A c \in Categories : Place(c) \in 1..6 /\ CategoryOrder[Place(c)] = c
  BY SixInOrder
<1>3. /\ UNCHANGED <<transcript, repairing>> /\ done' = << >> /\ at' = "idle"
      /\ evaluation' = InterviewEvaluation(evals)
  BY Zenon DEF Score
<1>. HIDE DEF Place
<1>4. evals \in [Categories -> CategoryEvaluation]
  <2>1. \A i \in 1..6 : done[i] \in CategoryEvaluation
    BY <1>1, SeqTyped
  <2> QED
    BY <1>2, <2>1
<1>5. \A c \in Categories : Backed(evals[c], c)
  <2>1. \A i \in 1..6 : Backed(done[i], CategoryOrder[i])
    BY <1>1 DEF EvaluationInv, DoneHolds
  <2> QED
    BY <1>2, <2>1
<1>. HIDE DEF evals
<1>6. CategoryEvaluation' = CategoryEvaluation /\ StoredEvaluation' = StoredEvaluation
  BY <1>3 DEF CategoryEvaluation, StoredEvaluation
<1>7. EvaluationTypeOK'
  <2>1. evaluation' \in StoredEvaluation
    BY <1>3, <1>4, InterviewEvaluationTyped
  <2>2. done' \in Seq(CategoryEvaluation)
    BY <1>3
  <2>3. transcript' \in Transcripts /\ repairing' \in BOOLEAN
    BY <1>3, Zenon DEF EvaluationInv, EvaluationTypeOK
  <2> QED
    BY <1>3, <1>6, <2>1, <2>2, <2>3, Zenon DEF EvaluationTypeOK
<1>8. DoneHolds'
  BY <1>3 DEF DoneHolds
<1>9. InterviewEvaluation(evals).categories = evals
  BY DEF InterviewEvaluation
<1>10. EvaluationHolds'
  BY <1>3, <1>5, <1>9 DEF EvaluationHolds, Backed, RelevantTurns, Turns
<1>11. ReportHolds'
  <2>1. report' = report /\ report = NoReport
    BY DEF Score, EvaluationInv, ReportHolds
  <2> QED
    BY <1>3, <2>1 DEF ReportHolds
<1> QED
  BY <1>7, <1>8, <1>10, <1>11 DEF EvaluationInv

\* No other action adds to what was evaluated or stored.
LEMMA OthersKeepInv ==
  ASSUME EvaluationInv,
         Evaluate \/ InvalidAnswer \/ ProviderFails \/ GenerateReport \/ UNCHANGED vars
  PROVE  EvaluationInv'
<1>1. UNCHANGED <<transcript, evaluation>>
  BY DEF Evaluate, InvalidAnswer, ProviderFails, GenerateReport, vars
<1>2. \/ UNCHANGED <<done, at>>
      \/ at' = "idle" /\ done' = << >>
      \/ at = "idle" /\ at' = "asking" /\ UNCHANGED done
  BY DEF Evaluate, InvalidAnswer, ProviderFails, GenerateReport, vars
<1>3. repairing' \in BOOLEAN
  BY Zenon DEF Evaluate, InvalidAnswer, ProviderFails, GenerateReport, vars, EvaluationInv,
               EvaluationTypeOK
<1>4. CategoryEvaluation' = CategoryEvaluation /\ StoredEvaluation' = StoredEvaluation
  BY <1>1 DEF CategoryEvaluation, StoredEvaluation
<1>5. EvaluationTypeOK'
  <2>1. << >> \in Seq(CategoryEvaluation)
    OBVIOUS
  <2>2. done' \in Seq(CategoryEvaluation) /\ at' \in {"idle", "asking", "scoring"}
    BY <1>2, <2>1, Zenon DEF EvaluationInv, EvaluationTypeOK
  <2> QED
    BY <1>1, <1>3, <1>4, <2>2, Zenon DEF EvaluationInv, EvaluationTypeOK
<1>6. DoneHolds'
  BY <1>1, <1>2 DEF EvaluationInv, DoneHolds, Backed, RelevantTurns, Turns
<1>7. EvaluationHolds'
  BY <1>1 DEF EvaluationInv, EvaluationHolds, Backed, RelevantTurns, Turns
<1>8. ReportHolds'
  <2>1. CASE GenerateReport
    BY <2>1 DEF GenerateReport, EvaluationInv, ReportHolds
  <2>2. CASE Evaluate
    BY <2>2 DEF Evaluate, EvaluationInv, ReportHolds
  <2>3. CASE InvalidAnswer \/ ProviderFails \/ UNCHANGED vars
    BY <2>3 DEF InvalidAnswer, ProviderFails, vars, EvaluationInv, ReportHolds
  <2> QED
    BY <2>1, <2>2, <2>3
<1> QED
  BY <1>5, <1>6, <1>7, <1>8 DEF EvaluationInv

\* The invariant holds throughout.
THEOREM EvaluationSafe == Spec => []EvaluationInv
<1>1. EvaluationInv /\ [Next]_vars => EvaluationInv'
  BY CategoryKeepsInv, ScoreKeepsInv, OthersKeepInv, Zenon DEF Next
<1> QED
  BY InitEvaluation, <1>1, PTL DEF Spec

-----------------------------------------------------------------------------
(* What it is for.                                                         *)

\* What is stored is typed, and its concerns are a list.
LEMMA StoredFacts ==
  ASSUME EvaluationInv, evaluation # NoEvaluation
  PROVE  /\ evaluation \in StoredEvaluation
         /\ evaluation.categories \in [Categories -> CategoryEvaluation]
         /\ LET all == Concerns(evaluation.categories)
            IN  /\ all \in Seq(Concern)
                /\ Listed(AreasRequiringValidation(evaluation.categories), all, Len(all))
<1>1. evaluation \in StoredEvaluation
  BY Zenon DEF EvaluationInv, EvaluationTypeOK
<1>2. evaluation.categories \in [Categories -> CategoryEvaluation]
  BY <1>1 DEF StoredEvaluation
<1> QED
  BY <1>1, <1>2, ConcernsTyped, DedupLists DEF AreasRequiringValidation

\* Scores stay within 0..100 for every profile of weights that sums to 100
\* (services/scoring.py, build_interview_evaluation), and a report is no longer than
\* a recruiter reads, whatever the model names.
THEOREM EvaluationTyped == Spec => []TypeOK
<1>1. EvaluationInv => TypeOK
  <2>. SUFFICES ASSUME EvaluationInv PROVE TypeOK
    OBVIOUS
  <2>1. CASE report = NoReport
    <3>1. Len(report.areas) <= MaxRecruiterItems
      BY <2>1 DEF NoReport, MaxRecruiterItems
    <3> QED
      BY <2>1, <3>1, Zenon DEF EvaluationInv, TypeOK
  <2>2. CASE report # NoReport
    <3>1. evaluation # NoEvaluation /\ report = HRReport(evaluation)
      BY <2>2 DEF EvaluationInv, ReportHolds
    <3>. DEFINE areas == AreasRequiringValidation(evaluation.categories)
    <3>2. evaluation.overall \in 0..100 \union {None}
          /\ evaluation.outcome \in {"pass", "fail", "needs_review"}
      BY <3>1, StoredFacts DEF StoredEvaluation
    <3>3. areas \in Seq(Concern) /\ Len(areas) <= MaxRecruiterItems
      BY <3>1, StoredFacts DEF Listed
    <3>. HIDE DEF areas
    <3>4. report = [overall |-> IF evaluation.recommendation = "insufficient_evidence" THEN None
                                ELSE evaluation.overall,
                    outcome |-> evaluation.outcome, areas |-> areas]
      BY <3>1 DEF HRReport, areas
    <3>5. report \in StoredReport /\ report.areas = areas
      BY <3>2, <3>3, <3>4 DEF StoredReport
    <3> QED
      BY <3>3, <3>5, Zenon DEF EvaluationInv, TypeOK
  <2> QED
    BY <2>1, <2>2
<1> QED
  BY EvaluationSafe, <1>1, PTL

\* However many concerns the model names, no two alike are listed, and one is left
\* out only for another like it or for want of room (report_service.py,
\* _dedup_concerns).
THEOREM ConcernsAreListedOnce == Spec => []ConcernsListedOnce
<1>1. EvaluationInv => ConcernsListedOnce
  <2>. SUFFICES ASSUME EvaluationInv, report # NoReport PROVE ConcernsListedOnce
    BY DEF ConcernsListedOnce
  <2>. DEFINE all == Concerns(evaluation.categories)
  <2>1. evaluation # NoEvaluation /\ report = HRReport(evaluation)
    BY DEF EvaluationInv, ReportHolds
  <2>2. report.areas = AreasRequiringValidation(evaluation.categories)
    BY <2>1 DEF HRReport
  <2>3. all \in Seq(Concern) /\ Listed(report.areas, all, Len(all))
    BY <2>1, <2>2, StoredFacts
  <2>. HIDE DEF all
  <2>4. DOMAIN all = 1..Len(all)
    BY <2>3
  <2> QED
    BY <2>3, <2>4 DEF ConcernsListedOnce, Listed, all
<1> QED
  BY EvaluationSafe, <1>1, PTL

\* No answer of the model publishes a score that rests on too little of the rubric
\* or on nothing the candidate said (agents/evaluator.py, _verify_evidence).
THEOREM ScoreIsBacked == Spec => []PublishedScoreIsBacked
<1>1. EvaluationInv => PublishedScoreIsBacked
  <2>. SUFFICES ASSUME EvaluationInv, evaluation.overall # None
                PROVE  PublishedScoreIsBacked
    BY DEF PublishedScoreIsBacked
  <2>. DEFINE evals == evaluation.categories
              backed == {c \in Categories :
                            /\ evals[c].score # None
                            /\ evals[c].evidence # {}
                            /\ evals[c].evidence \subseteq RelevantTurns(c)}
  <2>1. evaluation # NoEvaluation
    BY DEF NoEvaluation
  <2>2. /\ \A c \in Categories : Backed(evals[c], c)
        /\ evaluation = InterviewEvaluation(evals)
    BY <2>1 DEF EvaluationInv, EvaluationHolds
  <2>3. backed = Scored(evals)
    BY <2>2 DEF Backed, Scored
  <2>4. Covered(evals)
    BY <2>2 DEF InterviewEvaluation
  <2>5. 100 * WeightOf(Scored(evals)) >= MinCoverage * 100
    BY <2>4, WeightTyped DEF Covered
  <2>. HIDE DEF evals
  <2> QED
    BY <2>3, <2>5 DEF PublishedScoreIsBacked, evals
<1> QED
  BY EvaluationSafe, <1>1, PTL

\* Whatever the weights and however it is rounded, the published score lies between
\* two scores given (services/scoring.py, compute_overall_score).
THEOREM OverallBetweenScores == Spec => []OverallIsAMean
<1>1. EvaluationInv => OverallIsAMean
  <2>. SUFFICES ASSUME EvaluationInv, evaluation.overall # None
                PROVE  \E low, high \in Scored(evaluation.categories) :
                          /\ evaluation.categories[low].score <= evaluation.overall
                          /\ evaluation.overall <= evaluation.categories[high].score
    BY DEF OverallIsAMean
  <2>. DEFINE evals == evaluation.categories
              overall == evaluation.overall
  <2>1. evaluation # NoEvaluation
    BY DEF NoEvaluation
  <2>2. evaluation = InterviewEvaluation(evals) /\ evaluation \in StoredEvaluation
    BY <2>1 DEF EvaluationInv, EvaluationHolds, EvaluationTypeOK
  <2>3. overall = OverallScore(evals) /\ overall \in 0..100
    BY <2>2 DEF InterviewEvaluation, StoredEvaluation
  <2>4. WeightOf(Scored(evals)) # 0
    BY <2>3 DEF OverallScore
  <2>5. \A c \in Categories : evals[c].score \in 0..100 \union {None}
    BY <2>2 DEF StoredEvaluation, CategoryEvaluation
  <2>6. \A c \in Categories : evals[c].score \in Int
    BY <2>5 DEF None
  <2>7. \A c \in Scored(evals) : c \in Categories /\ evals[c].score \in 0..100
    BY <2>5 DEF Scored
  <2>. HIDE DEF evals, overall
  <2>8. \E c \in Scored(evals) : evals[c].score <= overall
    <3>. SUFFICES ASSUME \A c \in Scored(evals) : ~(evals[c].score <= overall)
                  PROVE  FALSE
      OBVIOUS
    <3>1. overall + 1 \in Int /\ 100 \in Int
      BY <2>3
    <3>2. \A c \in Scored(evals) : overall + 1 <= evals[c].score /\ evals[c].score <= 100
      BY <2>3, <2>7
    <3>3. OverallScore(evals) \in (overall + 1)..100
      BY <2>4, <2>6, <3>1, <3>2, MeanLiesBetween
    <3> QED
      BY <2>3, <3>3
  <2>9. \E c \in Scored(evals) : overall <= evals[c].score
    <3>. SUFFICES ASSUME \A c \in Scored(evals) : ~(overall <= evals[c].score)
                  PROVE  FALSE
      OBVIOUS
    <3>1. overall - 1 \in Int /\ 0 \in Int
      BY <2>3
    <3>2. \A c \in Scored(evals) : 0 <= evals[c].score /\ evals[c].score <= overall - 1
      BY <2>3, <2>7
    <3>3. OverallScore(evals) \in 0..(overall - 1)
      BY <2>4, <2>6, <3>1, <3>2, MeanLiesBetween
    <3> QED
      BY <2>3, <3>3
  <2> QED
    BY <2>8, <2>9 DEF evals, overall
<1> QED
  BY EvaluationSafe, <1>1, PTL
=============================================================================
