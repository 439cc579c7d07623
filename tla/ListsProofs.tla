------------------------------ MODULE ListsProofs ------------------------------
(***************************************************************************)
(* What the two loops of module Lists compute.                             *)
(*                                                                         *)
(* Subsequence returns the chosen elements, each once, in order: the ranks *)
(* of a finite set of positions are an injection into 1..n with n its      *)
(* cardinality, hence onto, so every k has a position of that rank.        *)
(*                                                                         *)
(* RunningSums is the function its recursive definition describes, grows   *)
(* with every positive number, and counts copies.  What needs induction is *)
(* proved by a least counterexample: a nonempty set of natural numbers has *)
(* a least element because < is well-founded on them.                      *)
(***************************************************************************)
EXTENDS Lists, FiniteSetTheorems, WellFoundedInduction, TLAPS

\* A nonempty set of natural numbers has a least element.
LEMMA HasLeast ==
    ASSUME NEW S, S \subseteq Nat, S # {}
    PROVE  \E x \in S : \A y \in S : x <= y
<1>1. PICK x \in S : \A y \in S : ~ (<<y, x>> \in OpToRel(<, Nat))
  BY NatLessThanWellFounded, WFMin, Zenon
<1>2. \A y \in S : ~(y < x)
  BY <1>1, Zenon DEF OpToRel
<1>. QED
  BY <1>2

\* A nonempty set of natural numbers with an upper bound has a greatest element.
LEMMA HasGreatest ==
    ASSUME NEW S, NEW b \in Nat, S \subseteq 0..b, S # {}
    PROVE  \E x \in S : \A y \in S : x >= y
<1>. DEFINE T == {b - x : x \in S}
<1>1. T \subseteq Nat
  OBVIOUS
<1>2. T # {}
  <2>1. PICK e \in S : TRUE
    BY Zenon
  <2>. QED
    BY <2>1
<1>3. PICK m \in T : \A y \in T : m <= y
  BY <1>1, <1>2, HasLeast, Zenon
<1>4. PICK x \in S : m = b - x
  BY <1>3
<1>5. \A y \in S : x >= y
  BY <1>3, <1>4
<1>. QED
  BY <1>5

\* A rank is a natural number between 1 and the size of the set, and grows
\* with the position.
LEMMA RankProperties ==
    ASSUME NEW keep, IsFiniteSet(keep), keep \subseteq Nat
    PROVE  /\ \A i \in keep : Rank(keep, i) \in 1..Cardinality(keep)
           /\ \A i, j \in keep : i < j => Rank(keep, i) < Rank(keep, j)
<1> DEFINE Upto(i) == {j \in keep : j <= i}
<1>1. \A i : IsFiniteSet(Upto(i)) /\ Cardinality(Upto(i)) \in Nat
  BY FS_Subset, FS_CardinalityType
<1>2. ASSUME NEW i \in keep
      PROVE  Rank(keep, i) \in 1..Cardinality(keep)
  <2>1. Cardinality(Upto(i)) <= Cardinality(keep)
    BY FS_Subset
  <2>2. Cardinality(Upto(i)) # 0
    <3>1. i \in Upto(i)
      OBVIOUS
    <3>2. QED
      BY <3>1, <1>1, FS_EmptySet
  <2>3. Cardinality(keep) \in Nat
    BY FS_CardinalityType
  <2>4. QED
    BY <1>1, <2>1, <2>2, <2>3 DEF Rank
<1>3. ASSUME NEW i \in keep, NEW j \in keep, i < j
      PROVE  Rank(keep, i) < Rank(keep, j)
  <2>1. Upto(i) \in SUBSET Upto(j)
    <3>1. \A x \in keep : x <= i => x <= j
      BY <1>3
    <3>2. QED
      BY <3>1, Zenon
  <2>2. j \in Upto(j) /\ j \notin Upto(i)
    BY <1>3
  <2>3. Upto(i) # Upto(j)
    BY <2>2
  <2>4. /\ Cardinality(Upto(i)) <= Cardinality(Upto(j))
        /\ Cardinality(Upto(j)) # Cardinality(Upto(i))
    BY <1>1, <2>1, <2>3, FS_Subset
  <2>5. QED
    BY <1>1, <2>4 DEF Rank
<1>4. QED
  BY <1>2, <1>3

\* Nth is well defined: it names a kept position, the one of the given rank.
LEMMA NthProperties ==
    ASSUME NEW keep, IsFiniteSet(keep), keep \subseteq Nat,
           NEW k \in 1..Cardinality(keep)
    PROVE  Nth(keep, k) \in keep /\ Rank(keep, Nth(keep, k)) = k
<1> DEFINE n == Cardinality(keep)
           rank == [i \in keep |-> Rank(keep, i)]
<1>1. n \in Nat
  BY FS_CardinalityType
<1>2. rank \in [keep -> 1..n]
  BY RankProperties, Zenon
<1>3. \A i, j \in keep : rank[i] = rank[j] => i = j
  <2>1. SUFFICES ASSUME NEW i \in keep, NEW j \in keep, i # j
                 PROVE  Rank(keep, i) # Rank(keep, j)
    OBVIOUS
  <2>2. i < j \/ j < i
    BY <2>1
  <2>3. Rank(keep, i) \in Int /\ Rank(keep, j) \in Int
    BY <1>2
  <2>4. \A x, y \in keep : x < y => Rank(keep, x) < Rank(keep, y)
    BY RankProperties, Zenon
  <2>5. QED
    BY <2>2, <2>3, <2>4
<1>4. rank \in Injection(keep, 1..n)
  BY <1>2, <1>3 DEF Injection, IsInjective
<1>5. IsFiniteSet(1..n) /\ Cardinality(1..n) = n
  BY <1>1, FS_Interval
<1>6. rank \in Surjection(keep, 1..n)
  BY <1>4, <1>5, FS_Injection
<1>7. \E i \in keep : Rank(keep, i) = k
  BY <1>6, Zenon DEF Surjection
<1>8. QED
  BY <1>7 DEF Nth

\* A subsequence is a sequence over the same elements; its k-th element is
\* the one at position Nth(keep, k), these positions grow with k, and every
\* kept position is among them.
LEMMA SubsequenceProperties ==
    ASSUME NEW S, NEW s \in Seq(S), NEW keep \in SUBSET DOMAIN s
    PROVE  /\ Cardinality(keep) \in Nat
           /\ Subsequence(s, keep) \in Seq(S)
           /\ Len(Subsequence(s, keep)) = Cardinality(keep)
           /\ \A k \in 1..Cardinality(keep) :
                 /\ Nth(keep, k) \in keep
                 /\ Subsequence(s, keep)[k] = s[Nth(keep, k)]
           /\ \A k, l \in 1..Cardinality(keep) :
                 k < l => Nth(keep, k) < Nth(keep, l)
           /\ \A i \in keep : \E k \in 1..Cardinality(keep) : Nth(keep, k) = i
<1> DEFINE n == Cardinality(keep)
<1>1. DOMAIN s = 1..Len(s) /\ Len(s) \in Nat
  OBVIOUS
<1>2. IsFiniteSet(keep) /\ keep \subseteq Nat
  <2>1. keep \in SUBSET (1..Len(s))
    BY <1>1
  <2>2. IsFiniteSet(1..Len(s))
    BY <1>1, FS_Interval
  <2>3. IsFiniteSet(keep)
    BY <2>1, <2>2, FS_Subset
  <2>4. QED
    BY <2>1, <2>3
<1>3. n \in Nat
  BY <1>2, FS_CardinalityType
<1>4. \A k \in 1..n : Nth(keep, k) \in keep /\ Rank(keep, Nth(keep, k)) = k
  BY <1>2, NthProperties
<1>5. \A k \in 1..n : s[Nth(keep, k)] \in S
  BY <1>1, <1>4
<1>6. Subsequence(s, keep) \in Seq(S) /\ Len(Subsequence(s, keep)) = n
  BY <1>3, <1>5 DEF Subsequence
<1>7. \A k \in 1..n : Subsequence(s, keep)[k] = s[Nth(keep, k)]
  BY DEF Subsequence
<1>8. ASSUME NEW k \in 1..n, NEW l \in 1..n, k < l
      PROVE  Nth(keep, k) < Nth(keep, l)
  <2>1. ~(Nth(keep, l) < Nth(keep, k))
    BY <1>2, <1>4, <1>8, RankProperties
  <2>2. Nth(keep, l) # Nth(keep, k)
    BY <1>4, <1>8
  <2>3. QED
    BY <1>2, <1>4, <2>1, <2>2
<1>9. ASSUME NEW i \in keep
      PROVE  \E k \in 1..n : Nth(keep, k) = i
  <2>1. Rank(keep, i) \in 1..n
    BY <1>2, RankProperties
  <2>2. PICK j \in keep : j = Nth(keep, Rank(keep, i)) /\ Rank(keep, j) = Rank(keep, i)
    BY <1>4, <2>1
  <2>3. ~(i < j) /\ ~(j < i)
    BY <1>2, <1>3, <2>1, <2>2, RankProperties
  <2>4. i = j
    BY <1>2, <2>3
  <2>5. QED
    BY <2>1, <2>2, <2>4
<1>10. QED
  BY <1>3, <1>4, <1>6, <1>7, <1>8, <1>9

-----------------------------------------------------------------------------
\* The sums of a list of integers exist: the recursive definition has a
\* solution, since there is no least length without one.
LEMMA SumsExist ==
    ASSUME NEW n \in Nat, NEW w \in [1..n -> Int]
    PROVE  \E f : f = [i \in 0..n |-> IF i = 0 THEN 0 ELSE f[i - 1] + w[i]]
<1> DEFINE Solves(f, m) == /\ f \in [0..m -> Int]
                           /\ f[0] = 0
                           /\ \A i \in 1..m : f[i] = f[i - 1] + w[i]
           unsolved == {m \in 0..n : ~\E f : Solves(f, m)}
<1>1. unsolved = {}
  <2>1. SUFFICES ASSUME unsolved # {} PROVE FALSE
    OBVIOUS
  <2>2. unsolved \subseteq Nat
    OBVIOUS
  <2>3. PICK m \in unsolved : \A k \in unsolved : m <= k
    <3> HIDE DEF unsolved
    <3> QED
      BY <2>1, <2>2, HasLeast, Zenon
  <2>4. m \in 0..n /\ ~\E f : Solves(f, m)
    OBVIOUS
  <2>5. CASE m = 0
    <3>1. Solves([i \in 0..m |-> 0], m)
      BY <2>5
    <3> QED
      BY <2>4, <3>1
  <2>6. CASE m # 0
    <3>1. m - 1 \in 0..n /\ ~(m <= m - 1)
      BY <2>4, <2>6
    <3>2. m - 1 \notin unsolved
      BY <2>3, <3>1, Zenon
    <3>3. PICK f : Solves(f, m - 1)
      BY <3>1, <3>2, Zenon
    <3> DEFINE g == [i \in 0..m |-> IF i = m THEN f[m - 1] + w[m] ELSE f[i]]
    <3>4. Solves(g, m)
      <4>1. g \in [0..m -> Int]
        BY <2>4, <2>6, <3>3
      <4>2. g[0] = 0
        BY <2>4, <2>6, <3>3
      <4>3. \A i \in 1..m : g[i] = g[i - 1] + w[i]
        BY <2>4, <2>6, <3>3
      <4> QED
        BY <4>1, <4>2, <4>3
    <3> QED
      BY <2>4, <3>4
  <2> QED
    BY <2>5, <2>6
<1>2. PICK f : Solves(f, n)
  <2>1. n \in 0..n
    OBVIOUS
  <2> QED
    BY <1>1, <2>1, Zenon
<1>3. f = [i \in 0..n |-> IF i = 0 THEN 0 ELSE f[i - 1] + w[i]]
  <2> DEFINE h == [i \in 0..n |-> IF i = 0 THEN 0 ELSE f[i - 1] + w[i]]
  <2>1. \A i \in 0..n : f[i] = h[i]
    BY <1>2
  <2>2. f = [i \in 0..n |-> f[i]]
    BY <1>2
  <2> QED
    BY <2>1, <2>2
<1> QED
  BY <1>3

\* Numbers of which each counts for something.
PositiveNats == Nat \ {0}

\* RunningSums starts at 0, adds one number at each step, and so grows.
LEMMA RunningSumsProperties ==
    ASSUME NEW w \in Seq(PositiveNats)
    PROVE  /\ Len(w) \in Nat
           /\ RunningSums(w) \in [0..Len(w) -> Nat]
           /\ RunningSums(w)[0] = 0
           /\ \A i \in 1..Len(w) : /\ w[i] \in PositiveNats
                                   /\ RunningSums(w)[i - 1] \in Nat
                                   /\ RunningSums(w)[i] = RunningSums(w)[i - 1] + w[i]
           /\ \A i, j \in 0..Len(w) : i < j => RunningSums(w)[i] < RunningSums(w)[j]
           /\ Total(w) \in Nat
           /\ \A i \in 0..Len(w) : RunningSums(w)[i] <= Total(w)
<1> DEFINE n == Len(w)
           Step(f) == [i \in 0..n |-> IF i = 0 THEN 0 ELSE f[i - 1] + w[i]]
           sum == RunningSums(w)
<1>1. n \in Nat /\ w \in [1..n -> PositiveNats]
  OBVIOUS
<1>2. \E f : f = Step(f)
  <2>1. w \in [1..n -> Int]
    BY <1>1 DEF PositiveNats
  <2> QED
    BY <1>1, <2>1, SumsExist
<1>3. sum = CHOOSE f : f = Step(f)
  BY DEF RunningSums
<1>4. sum = Step(sum)
  <2> HIDE DEF Step, sum
  <2> QED
    BY <1>2, <1>3
<1> HIDE DEF sum, n
<1>5. /\ sum[0] = 0
      /\ \A i \in 1..n : sum[i] = sum[i - 1] + w[i]
      /\ sum = [i \in 0..n |-> sum[i]]
  <2>1. 0 \in 0..n /\ \A i \in 1..n : i \in 0..n /\ i # 0
    BY <1>1
  <2>2. \A i \in 0..n : sum[i] = IF i = 0 THEN 0 ELSE sum[i - 1] + w[i]
    BY <1>4, Zenon
  <2>3. sum = [i \in 0..n |-> sum[i]]
    BY <1>4
  <2> QED
    BY <2>1, <2>2, <2>3
<1>6. \A i \in 1..n : w[i] \in Nat \ {0} /\ i - 1 \in 0..n /\ i \in 0..n
  BY <1>1 DEF PositiveNats
<1>7. \A i \in 0..n : sum[i] \in Nat
  <2> DEFINE bad == {i \in 0..n : sum[i] \notin Nat}
  <2>1. SUFFICES ASSUME bad # {} PROVE FALSE
    OBVIOUS
  <2>2. bad \subseteq Nat
    BY <1>1
  <2>3. PICK m \in bad : \A k \in bad : m <= k
    <3> HIDE DEF bad
    <3> QED
      BY <2>1, <2>2, HasLeast, Zenon
  <2>4. m \in 1..n /\ ~(m <= m - 1)
    BY <1>1, <1>5
  <2>5. m - 1 \notin bad
    BY <2>3, <2>4, Zenon
  <2>6. sum[m - 1] \in Nat
    BY <1>6, <2>4, <2>5
  <2>7. sum[m] = sum[m - 1] + w[m] /\ w[m] \in Nat
    BY <1>5, <1>6, <2>4
  <2>8. sum[m] \in Nat
    BY <2>6, <2>7
  <2> QED
    BY <2>8
<1>8. sum \in [0..n -> Nat]
  BY <1>5, <1>7
<1>9. \A i \in 1..n : sum[i - 1] \in Nat /\ sum[i - 1] < sum[i]
  <2> SUFFICES ASSUME NEW i \in 1..n
               PROVE  sum[i - 1] \in Nat /\ sum[i - 1] < sum[i]
    OBVIOUS
  <2>1. sum[i - 1] \in Nat /\ w[i] \in Nat \ {0}
    BY <1>6, <1>7
  <2>2. sum[i] = sum[i - 1] + w[i]
    BY <1>5
  <2> QED
    BY <2>1, <2>2
<1>10. ASSUME NEW i \in 0..n
       PROVE  \A j \in 0..n : i < j => sum[i] < sum[j]
  <2> DEFINE bad == {j \in 0..n : i < j /\ ~(sum[i] < sum[j])}
  <2>1. SUFFICES ASSUME bad # {} PROVE FALSE
    OBVIOUS
  <2>2. bad \subseteq Nat
    BY <1>1
  <2>3. PICK j \in bad : \A k \in bad : j <= k
    <3> HIDE DEF bad
    <3> QED
      BY <2>1, <2>2, HasLeast, Zenon
  <2>4. j \in 1..n /\ i <= j - 1 /\ i < j /\ ~(j <= j - 1)
    BY <1>1, <2>3
  <2>5. j - 1 \notin bad
    BY <2>3, <2>4, Zenon
  <2>6. sum[j - 1] < sum[j] /\ j - 1 \in 0..n
    BY <1>6, <1>9, <2>4
  <2>7. i = j - 1 \/ sum[i] < sum[j - 1]
    BY <1>1, <2>4, <2>5, <2>6
  <2>8. sum[i] \in Nat /\ sum[j - 1] \in Nat /\ sum[j] \in Nat
    BY <1>7, <2>6
  <2>9. sum[i] < sum[j]
    BY <2>6, <2>7, <2>8
  <2> QED
    BY <2>3, <2>9
<1>11. /\ sum[n] \in Nat
       /\ \A i \in 0..n : sum[i] <= sum[n]
  <2>1. n \in 0..n /\ \A i \in 0..n : i = n \/ i < n
    BY <1>1
  <2>2. sum[n] \in Nat
    BY <1>7, <2>1
  <2>3. ASSUME NEW i \in 0..n
        PROVE  sum[i] <= sum[n]
    <3>1. i = n \/ sum[i] < sum[n]
      BY <1>10, <2>1
    <3>2. sum[i] \in Nat
      BY <1>7
    <3> QED
      BY <2>2, <3>1, <3>2
  <2> QED
    BY <2>2, <2>3
<1>12. Total(w) = sum[n]
  BY DEF Total, sum, n
<1>13. \A i \in 1..n : w[i] \in PositiveNats
  BY <1>1
<1> QED
  BY <1>1, <1>5, <1>8, <1>9, <1>10, <1>11, <1>12, <1>13, Zenon DEF sum, n

\* Every number below the total lies in the share of one position.
LEMMA ShareOf ==
    ASSUME NEW w \in Seq(PositiveNats), NEW x \in Nat, x < Total(w)
    PROVE  \E i \in 1..Len(w) : RunningSums(w)[i - 1] <= x /\ x < RunningSums(w)[i]
<1> DEFINE n == Len(w)
           sum == RunningSums(w)
           over == {i \in 0..n : x < sum[i]}
<1>1. n \in Nat /\ sum \in [0..n -> Nat] /\ sum[0] = 0
  BY RunningSumsProperties
<1>2. x < sum[n]
  BY DEF Total
<1> HIDE DEF sum, n
<1>3. over \subseteq Nat /\ n \in over
  <2>1. n \in 0..n
    BY <1>1
  <2> QED
    BY <1>1, <1>2, <2>1
<1>4. PICK i \in over : \A j \in over : i <= j
  <2> HIDE DEF over
  <2> QED
    BY <1>3, HasLeast, Zenon
<1>5. i \in 1..n /\ i - 1 \in 0..n /\ ~(i <= i - 1)
  BY <1>1, <1>4
<1>6. i - 1 \notin over
  BY <1>4, <1>5, Zenon
<1>7. sum[i - 1] <= x
  BY <1>1, <1>5, <1>6
<1> QED
  BY <1>4, <1>5, <1>7 DEF n, sum

-----------------------------------------------------------------------------
\* The copies of the first i positions.
FirstCopies(w, i) == UNION {{j} \X (1..w[j]) : j \in 1..i}

\* The first k copies of one position.
LEMMA CopiesOfOne ==
    ASSUME NEW i, NEW k \in Nat
    PROVE  IsFiniteSet({i} \X (1..k)) /\ Cardinality({i} \X (1..k)) = k
<1>1. IsFiniteSet({i}) /\ Cardinality({i}) = 1
  BY FS_Singleton
<1>2. IsFiniteSet(1..k) /\ Cardinality(1..k) = k
  BY FS_Interval
<1>3. /\ IsFiniteSet({i} \X (1..k))
      /\ Cardinality({i} \X (1..k)) = Cardinality({i}) * Cardinality(1..k)
  BY <1>1, <1>2, FS_Product, Zenon
<1>4. 1 * k = k
  OBVIOUS
<1> QED
  BY <1>1, <1>2, <1>3, <1>4, Zenon

\* The copies of the first i - 1 positions and k of position i.
LEMMA CopiesUpTo ==
    ASSUME NEW w, NEW i \in Nat \ {0}, NEW k \in Nat,
           NEW before, before = FirstCopies(w, i - 1), IsFiniteSet(before),
           NEW copies, copies = before \cup ({i} \X (1..k))
    PROVE  IsFiniteSet(copies) /\ Cardinality(copies) = Cardinality(before) + k
<1> DEFINE own == {i} \X (1..k)
<1>1. IsFiniteSet(own) /\ Cardinality(own) = k
  BY CopiesOfOne
<1>2. before \cap own = {}
  <2>1. ASSUME NEW c \in before, c \in own
        PROVE  FALSE
    <3>1. PICK j \in 1..(i - 1) : c \in {j} \X (1..w[j])
      BY <2>1 DEF FirstCopies
    <3>2. c[1] = j /\ c[1] = i
      BY <2>1, <3>1
    <3> QED
      BY <3>1, <3>2
  <2> QED
    BY <2>1
<1>3. Cardinality({}) = 0
  BY FS_EmptySet
<1> HIDE DEF own
<1>4. /\ IsFiniteSet(before \cup own)
      /\ Cardinality(before \cup own)
            = Cardinality(before) + Cardinality(own) - Cardinality(before \cap own)
  BY <1>1, FS_Union, Zenon
<1>5. Cardinality(before) \in Nat
  BY FS_CardinalityType
<1>6. Cardinality(before \cup own) = Cardinality(before) + k
  <2>1. Cardinality(before \cap own) = 0
    BY <1>2, <1>3
  <2>2. Cardinality(before \cup own) = Cardinality(before) + k - 0
    BY <1>1, <1>4, <2>1, Zenon
  <2> QED
    BY <1>5, <2>2
<1> QED
  BY <1>4, <1>6 DEF own

\* There are as many copies of the first i positions as their sum.
LEMMA FirstCopiesSize ==
    ASSUME NEW w \in Seq(PositiveNats)
    PROVE  \A i \in 0..Len(w) :
               /\ IsFiniteSet(FirstCopies(w, i))
               /\ Cardinality(FirstCopies(w, i)) = RunningSums(w)[i]
<1> DEFINE n == Len(w)
           sum == RunningSums(w)
           Holds(i) == /\ IsFiniteSet(FirstCopies(w, i))
                       /\ Cardinality(FirstCopies(w, i)) = sum[i]
           bad == {i \in 0..n : ~Holds(i)}
<1>1. /\ n \in Nat /\ sum[0] = 0
      /\ \A i \in 1..n : sum[i] = sum[i - 1] + w[i]
      /\ \A i \in 1..n : w[i] \in Nat
  BY RunningSumsProperties DEF PositiveNats
<1>2. SUFFICES ASSUME bad # {} PROVE FALSE
  OBVIOUS
<1>3. bad \subseteq Nat
  BY <1>1
<1>4. PICK i \in bad : \A j \in bad : i <= j
  <2> HIDE DEF bad
  <2> QED
    BY <1>2, <1>3, HasLeast, Zenon
<1>5. i # 0
  <2>1. FirstCopies(w, 0) = {}
    BY DEF FirstCopies
  <2>2. Holds(0)
    BY <1>1, <2>1, FS_EmptySet
  <2> QED
    BY <1>4, <2>2
<1>6. i \in 1..n /\ i - 1 \in 0..n /\ ~(i <= i - 1) /\ i \in Nat \ {0}
  BY <1>1, <1>4, <1>5
<1>7. Holds(i - 1)
  <2>1. i - 1 \notin bad
    BY <1>4, <1>6, Zenon
  <2> QED
    BY <1>6, <2>1, Zenon
<1>8. FirstCopies(w, i) = FirstCopies(w, i - 1) \cup ({i} \X (1..w[i]))
  <2>1. 1..i = (1..(i - 1)) \cup {i}
    BY <1>6
  <2> QED
    BY <2>1, Zenon DEF FirstCopies
<1>9. Holds(i)
  <2>1. w[i] \in Nat
    BY <1>1, <1>6
  <2>2. /\ IsFiniteSet(FirstCopies(w, i))
        /\ Cardinality(FirstCopies(w, i))
              = Cardinality(FirstCopies(w, i - 1)) + w[i]
    <3>1. IsFiniteSet(FirstCopies(w, i - 1))
      BY <1>7
    <3>2. i \in Nat \ {0}
      BY <1>6
    <3>3. PICK before : before = FirstCopies(w, i - 1)
      OBVIOUS
    <3>4. PICK copies : copies = FirstCopies(w, i)
      OBVIOUS
    <3>5. PICK k \in Nat : k = w[i]
      BY <2>1
    <3>6. copies = before \cup ({i} \X (1..k)) /\ IsFiniteSet(before)
      BY <1>8, <3>1, <3>3, <3>4, <3>5, Zenon
    <3>7. IsFiniteSet(copies) /\ Cardinality(copies) = Cardinality(before) + k
      BY <3>2, <3>3, <3>6, CopiesUpTo
    <3> QED
      BY <3>3, <3>4, <3>5, <3>7, Zenon
  <2> QED
    BY <1>1, <1>6, <1>7, <2>2
<1> QED
  BY <1>4, <1>9

\* There are as many copies as the total.
LEMMA CopiesSize ==
    ASSUME NEW w \in Seq(PositiveNats)
    PROVE  Cardinality(Copies(w)) = Total(w)
<1>1. DOMAIN w = 1..Len(w) /\ Len(w) \in 0..Len(w)
  OBVIOUS
<1>2. Copies(w) = FirstCopies(w, Len(w))
  BY <1>1, Zenon DEF Copies, FirstCopies
<1> QED
  BY <1>1, <1>2, FirstCopiesSize, Zenon DEF Total

\* The number of copies before copy k of position i.
LEMMA CopiesBeforeSize ==
    ASSUME NEW w \in Seq(PositiveNats), NEW c \in Copies(w)
    PROVE  \E i \in 1..Len(w) : \E k \in 1..w[i] :
               /\ c = <<i, k>>
               /\ Cardinality(CopiesBefore(w, c)) = RunningSums(w)[i - 1] + (k - 1)
<1> DEFINE n == Len(w)
           sum == RunningSums(w)
<1>1. /\ n \in Nat /\ DOMAIN w = 1..n
      /\ \A i \in 1..n : w[i] \in Nat
  BY DEF PositiveNats
<1>2. PICK i \in 1..n : c \in {i} \X (1..w[i])
  BY <1>1 DEF Copies
<1>3. PICK k \in 1..w[i] : c = <<i, k>>
  BY <1>2
<1>4. Cardinality(CopiesBefore(w, c)) = sum[i - 1] + (k - 1)
  <2>1. i \in 1..n
    OBVIOUS
  <2>2. c = <<i, k>> /\ k \in 1..w[i]
    BY <1>3
  <2>3. i - 1 \in 0..n /\ i \in Nat \ {0} /\ k - 1 \in Nat
    BY <1>1, <2>1, <2>2
  <2>4. CopiesBefore(w, c)
           = FirstCopies(w, i - 1) \cup ({i} \X (1..(k - 1)))
    <3>1. ASSUME NEW d \in CopiesBefore(w, c)
          PROVE  d \in FirstCopies(w, i - 1) \cup ({i} \X (1..(k - 1)))
      <4>1. PICK j \in 1..n : d \in {j} \X (1..w[j])
        BY <1>1, <3>1 DEF CopiesBefore, Copies
      <4>2. PICK l \in 1..w[j] : d = <<j, l>>
        BY <4>1
      <4>3. j < i \/ (j = i /\ l < k)
        BY <2>2, <3>1, <4>2 DEF CopiesBefore
      <4>4. CASE j < i
        <5>1. j \in 1..(i - 1)
          BY <2>3, <4>4
        <5> QED
          BY <4>1, <5>1 DEF FirstCopies
      <4>5. CASE j = i /\ l < k
        <5>1. l \in 1..(k - 1)
          BY <1>1, <2>2, <4>2, <4>5
        <5> QED
          BY <4>2, <4>5, <5>1
      <4> QED
        BY <4>3, <4>4, <4>5
    <3>2. ASSUME NEW d \in FirstCopies(w, i - 1)
          PROVE  d \in CopiesBefore(w, c)
      <4>1. PICK j \in 1..(i - 1) : d \in {j} \X (1..w[j])
        BY <3>2 DEF FirstCopies
      <4>2. j \in 1..n /\ j < i /\ d[1] = j
        BY <1>1, <2>1, <4>1
      <4>3. d \in Copies(w)
        BY <1>1, <4>1, <4>2 DEF Copies
      <4> QED
        BY <2>2, <4>2, <4>3 DEF CopiesBefore
    <3>3. ASSUME NEW d \in {i} \X (1..(k - 1))
          PROVE  d \in CopiesBefore(w, c)
      <4>1. PICK l \in 1..(k - 1) : d = <<i, l>>
        BY <3>3
      <4>2. l < k /\ l \in 1..w[i]
        BY <1>1, <2>2, <4>1
      <4>3. d \in Copies(w)
        BY <1>1, <4>1, <4>2 DEF Copies
      <4> QED
        BY <2>2, <4>1, <4>2, <4>3 DEF CopiesBefore
    <3> QED
      BY <3>1, <3>2, <3>3, Zenon
  <2>5. Cardinality(CopiesBefore(w, c)) = sum[i - 1] + (k - 1)
    <3>1. /\ IsFiniteSet(FirstCopies(w, i - 1))
          /\ Cardinality(FirstCopies(w, i - 1)) = sum[i - 1]
      BY <2>3, FirstCopiesSize, Zenon
    <3>2. Cardinality(CopiesBefore(w, c))
             = Cardinality(FirstCopies(w, i - 1)) + (k - 1)
      <4>1. i \in Nat \ {0} /\ k - 1 \in Nat
        BY <2>3
      <4>2. PICK before : before = FirstCopies(w, i - 1)
        OBVIOUS
      <4>3. PICK copies : copies = CopiesBefore(w, c)
        OBVIOUS
      <4>4. PICK l \in Nat : l = k - 1
        BY <4>1
      <4>5. copies = before \cup ({i} \X (1..l)) /\ IsFiniteSet(before)
        BY <2>4, <3>1, <4>2, <4>3, <4>4, Zenon
      <4>6. Cardinality(copies) = Cardinality(before) + l
        BY <4>1, <4>2, <4>5, CopiesUpTo
      <4> QED
        BY <4>2, <4>3, <4>4, <4>6, Zenon
    <3> QED
      BY <3>1, <3>2
  <2> QED
    BY <2>5
<1> QED
  BY <1>3, <1>4

-----------------------------------------------------------------------------
\* The size of a half-open interval.
LEMMA IntervalSize ==
    ASSUME NEW a \in Int, NEW b \in Int, a <= b
    PROVE  IsFiniteSet(a..(b - 1)) /\ Cardinality(a..(b - 1)) = b - a
<1>1. PICK c \in Int : c = b - 1
  OBVIOUS
<1>2. IsFiniteSet(a..c) /\ Cardinality(a..c) = IF a > c THEN 0 ELSE c - a + 1
  BY FS_Interval
<1>3. (IF a > c THEN 0 ELSE c - a + 1) = b - a
  BY <1>1
<1> QED
  BY <1>1, <1>2, <1>3, Zenon

\* Remainders of numbers that are closer than the divisor differ.
LEMMA RemaindersDiffer ==
    ASSUME NEW m \in Nat \ {0}, NEW x \in Nat, NEW y \in Nat,
           x < y, y < x + m
    PROVE  x % m # y % m
<1>1. /\ x = m * (x \div m) + (x % m)
      /\ y = m * (y \div m) + (y % m)
      /\ x \div m \in Int /\ y \div m \in Int
      /\ x % m \in 0..(m - 1) /\ y % m \in 0..(m - 1)
  OBVIOUS
<1>2. SUFFICES ASSUME x % m = y % m PROVE FALSE
  OBVIOUS
<1>3. PICK a \in Int, b \in Int : x = m * a + (x % m) /\ y = m * b + (x % m)
  BY <1>1, <1>2
<1>4. y - x = m * (b - a)
  BY <1>1, <1>3
<1>5. m * (b - a) > 0 /\ m * (b - a) < m
  BY <1>4
<1>6. b - a > 0
  BY <1>5
<1>7. b - a < 1
  BY <1>5
<1> QED
  BY <1>6, <1>7
=============================================================================
