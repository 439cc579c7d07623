------------------------- MODULE MemoryRegistryProofs -------------------------
(***************************************************************************)
(* Theorems about the in-memory registry, for any sets of tasks, addresses,*)
(* requestors and queries, any firewall and any timeout.                   *)
(***************************************************************************)
EXTENDS MemoryRegistry, ListsProofs

-----------------------------------------------------------------------------
\* The weights of a list of candidates are positive numbers, one for each.
LEMMA WeightsType ==
    ASSUME NEW entries \in Seq(Candidate)
    PROVE  /\ weights(entries) \in Seq(PositiveNats)
           /\ Len(weights(entries)) = Len(entries)
           /\ Len(entries) \in Nat
           /\ DOMAIN entries = 1..Len(entries)
           /\ \A i \in 1..Len(entries) : weights(entries)[i] = serviceWeight(entries[i])
<1>1. Len(entries) \in Nat /\ DOMAIN entries = 1..Len(entries)
  OBVIOUS
<1>2. \A i \in 1..Len(entries) : serviceWeight(entries[i]) \in PositiveNats
  <2>1. \A i \in 1..Len(entries) : entries[i] \in Candidate
    OBVIOUS
  <2> QED
    BY <2>1 DEF Candidate, serviceWeight, normalizedCapacity, PositiveNats
<1> QED
  BY <1>1, <1>2 DEF weights

\* An exact sum that fits an int is not changed by the reduction.
LEMMA WrapFits ==
    /\ \A x \in 0..MaxInt : Wrap(x) = x
    /\ \A x \in Int : Wrap(x) \in Int
<1>1. ASSUME NEW x \in 0..MaxInt
      PROVE  Wrap(x) = x
  <2> DEFINE y == x + MaxInt + 1
             m == 2 * (MaxInt + 1)
  <2>1. y \in 0..(m - 1) /\ m \in Nat \ {0}
    BY MaxIntAssumption
  <2>2. \A a, b \in Nat : a < b => a % b = a
    OBVIOUS
  <2>3. y % m = y
    <3> HIDE DEF y, m
    <3> QED
      BY <2>1, <2>2
  <2> QED
    BY <2>3, MaxIntAssumption DEF Wrap
<1>2. ASSUME NEW x \in Int
      PROVE  Wrap(x) \in Int
  BY MaxIntAssumption DEF Wrap
<1> QED
  BY <1>1, <1>2

\* The loops compute integers, and the exact sums as long as they fit an int.
LEMMA RunningFits ==
    ASSUME NEW entries \in Seq(Candidate)
    PROVE  /\ exactWeight(entries) \in Nat
           /\ \A i \in 0..Len(entries) : runningWeight(entries, i) \in Int
           /\ totalServiceWeight(entries) \in Int
           /\ exactWeight(entries) <= MaxInt =>
                 /\ \A i \in 0..Len(entries) :
                       runningWeight(entries, i) = RunningSums(weights(entries))[i]
                 /\ totalServiceWeight(entries) = exactWeight(entries)
<1> DEFINE w == weights(entries)
           n == Len(entries)
           sum == RunningSums(w)
<1>1. w \in Seq(PositiveNats) /\ Len(w) = n /\ n \in Nat /\ n \in 0..n
  <2>1. w \in Seq(PositiveNats) /\ Len(w) = n /\ n \in Nat
    BY WeightsType
  <2> QED
    BY <2>1
<1>2. /\ \A i \in 0..n : sum[i] \in Nat /\ sum[i] <= Total(w)
      /\ Total(w) \in Nat /\ Total(w) = sum[n]
  <2> HIDE DEF w, n
  <2>1. /\ RunningSums(w) \in [0..Len(w) -> Nat] /\ Total(w) \in Nat
        /\ \A i \in 0..Len(w) : RunningSums(w)[i] <= Total(w)
    BY <1>1, RunningSumsProperties
  <2>2. Total(w) = sum[n]
    BY <1>1 DEF Total
  <2> QED
    BY <1>1, <2>1, <2>2
<1>3. exactWeight(entries) = Total(w)
  BY DEF exactWeight
<1>4. /\ \A i : runningWeight(entries, i) = Wrap(sum[i])
      /\ totalServiceWeight(entries) = Wrap(sum[n])
  BY DEF runningWeight, totalServiceWeight
<1> HIDE DEF w, n, sum
<1>5. \A i \in 0..n : Wrap(sum[i]) \in Int
  <2>1. \A i \in 0..n : sum[i] \in Int
    BY <1>2
  <2> QED
    BY <2>1, WrapFits, Zenon
<1>6. ASSUME Total(w) <= MaxInt, NEW i \in 0..n
      PROVE  Wrap(sum[i]) = sum[i]
  <2>1. sum[i] \in 0..MaxInt
    BY <1>2, <1>6, MaxIntAssumption
  <2> QED
    BY <2>1, WrapFits, Zenon
<1>7. Total(w) <= MaxInt => \A i \in 0..n : runningWeight(entries, i) = sum[i]
  BY <1>4, <1>6, Zenon
<1>8. Total(w) <= MaxInt => totalServiceWeight(entries) = Total(w)
  BY <1>1, <1>2, <1>4, <1>6, Zenon
<1>9. /\ \A i \in 0..n : runningWeight(entries, i) \in Int
      /\ totalServiceWeight(entries) \in Int
  BY <1>1, <1>4, <1>5, Zenon
<1> QED
  BY <1>2, <1>3, <1>7, <1>8, <1>9, Zenon DEF w, n, sum

\* A slot below the total stops the loop: the second result of
\* selectWeightedAddress is always true, even if the sums wrapped.
LEMMA SelectsBelowTotal ==
    ASSUME NEW entries \in Seq(Candidate), entries # <<>>,
           NEW slot \in Int, slot < totalServiceWeight(entries)
    PROVE  Selects(entries, slot)
<1> DEFINE n == Len(entries)
           over == {i \in 1..n : slot < runningWeight(entries, i)}
<1>1. n \in 1..n /\ n \in Nat /\ DOMAIN entries = 1..n
  OBVIOUS
<1>2. n \in over
  BY <1>1 DEF totalServiceWeight
<1>3. PICK i \in over : \A j \in over : i <= j
  <2>1. over \subseteq Nat /\ over # {}
    BY <1>2
  <2> HIDE DEF over
  <2> QED
    BY <2>1, HasLeast, Zenon
<1>4. ASSUME NEW j \in 1..(i - 1)
      PROVE  slot >= runningWeight(entries, j)
  <2>1. j \in 1..n /\ ~(i <= j) /\ j \in 0..n
    BY <1>1, <1>3, <1>4
  <2>2. j \notin over
    BY <1>3, <2>1, Zenon
  <2>3. runningWeight(entries, j) \in Int
    BY <2>1, RunningFits, Zenon
  <2> QED
    BY <2>1, <2>2, <2>3
<1>5. StopsAt(entries, slot, i)
  BY <1>3, <1>4 DEF StopsAt
<1> QED
  BY <1>1, <1>3, <1>5 DEF Selects

\* Entry i owns the slots from the sum before it up to its own.
LEMMA SlotsOfEntry ==
    ASSUME NEW entries \in Seq(Candidate), exactWeight(entries) <= MaxInt,
           NEW i \in 1..Len(entries), NEW slot \in Int,
           RunningSums(weights(entries))[i - 1] <= slot,
           slot < RunningSums(weights(entries))[i]
    PROVE  /\ Selects(entries, slot)
           /\ selectWeightedAddress(entries, slot) = entries[i].addr
<1> DEFINE w == weights(entries)
           n == Len(entries)
           sum == RunningSums(w)
<1>1. w \in Seq(PositiveNats) /\ Len(w) = n /\ n \in Nat /\ DOMAIN entries = 1..n
  BY WeightsType
<1>2. \A j \in 0..n : runningWeight(entries, j) = sum[j]
  BY RunningFits
<1>3. /\ sum \in [0..n -> Nat]
      /\ \A j, k \in 0..n : j < k => sum[j] < sum[k]
  <2> HIDE DEF w, n
  <2> QED
    BY <1>1, RunningSumsProperties
<1>4. sum[i - 1] <= slot /\ slot < sum[i]
  OBVIOUS
<1> HIDE DEF n, sum
<1>5. i \in 1..n /\ i \in 0..n /\ i - 1 \in 0..n
  BY <1>1 DEF n
<1>6. StopsAt(entries, slot, i)
  <2>1. ASSUME NEW j \in 1..(i - 1)
        PROVE  slot >= sum[j] /\ j \in 0..n
    <3>1. j \in 0..n /\ (j = i - 1 \/ j < i - 1)
      BY <1>1, <1>5
    <3>2. j = i - 1 \/ sum[j] < sum[i - 1]
      BY <1>3, <1>5, <3>1
    <3>3. sum[j] \in Nat /\ sum[i - 1] \in Nat
      BY <1>3, <1>5, <3>1
    <3> QED
      BY <1>4, <3>1, <3>2, <3>3
  <2> QED
    BY <1>2, <1>4, <1>5, <2>1 DEF StopsAt
<1>7. ASSUME NEW k \in 1..n, StopsAt(entries, slot, k)
      PROVE  k = i
  <2>1. k \in 0..n /\ sum[k] \in Nat /\ sum[i] \in Nat /\ sum[i - 1] \in Nat
    BY <1>1, <1>3, <1>5
  <2>2. slot < sum[k]
    BY <1>2, <1>7, <2>1 DEF StopsAt
  <2>3. ~(k < i)
    <3>1. k < i => k = i - 1 \/ k < i - 1
      BY <1>1, <1>5
    <3>2. k < i => k = i - 1 \/ sum[k] < sum[i - 1]
      BY <1>3, <1>5, <2>1, <3>1
    <3> QED
      BY <1>4, <2>1, <2>2, <3>2
  <2>4. ~(i < k)
    <3>1. i < k => i \in 1..(k - 1)
      BY <1>5, <1>1
    <3>2. i < k => slot >= runningWeight(entries, i)
      BY <1>7, <3>1 DEF StopsAt
    <3> QED
      BY <1>2, <1>4, <1>5, <2>1, <3>2
  <2> QED
    BY <1>1, <1>5, <2>3, <2>4
<1>8. Selects(entries, slot)
  BY <1>1, <1>5, <1>6 DEF Selects
<1>9. (CHOOSE k \in DOMAIN entries : StopsAt(entries, slot, k)) = i
  BY <1>1, <1>5, <1>6, <1>7
<1> QED
  BY <1>8, <1>9 DEF selectWeightedAddress

\* As long as the total fits an int, the choice by a slot is the choice from
\* the expanded pool.
LEMMA PoolChoice ==
    ASSUME NEW entries \in Seq(Candidate), exactWeight(entries) <= MaxInt
    PROVE  ChoosesFromPool(entries)
<1> DEFINE w == weights(entries)
           sum == RunningSums(w)
<1>1. w \in Seq(PositiveNats) /\ Len(w) = Len(entries)
  BY WeightsType
<1>2. totalServiceWeight(entries) = Cardinality(Copies(w))
  <2>1. Cardinality(Copies(w)) = Total(w)
    <3> HIDE DEF w
    <3> QED
      BY <1>1, CopiesSize, Zenon
  <2> QED
    BY <2>1, RunningFits, Zenon DEF exactWeight
<1>3. ASSUME NEW c \in Copies(w)
      PROVE  LET slot == Cardinality(CopiesBefore(w, c))
             IN  /\ Selects(entries, slot)
                 /\ selectWeightedAddress(entries, slot) = entries[c[1]].addr
  <2> HIDE DEF w
  <2>1. PICK i \in 1..Len(w) : \E k \in 1..w[i] :
            /\ c = <<i, k>>
            /\ Cardinality(CopiesBefore(w, c)) = sum[i - 1] + (k - 1)
    BY <1>1, <1>3, CopiesBeforeSize, Zenon
  <2>2. PICK k \in 1..w[i] :
            /\ c = <<i, k>>
            /\ Cardinality(CopiesBefore(w, c)) = sum[i - 1] + (k - 1)
    BY <2>1
  <2>3. PICK slot : slot = Cardinality(CopiesBefore(w, c))
    OBVIOUS
  <2>4. slot \in Int /\ sum[i - 1] <= slot /\ slot < sum[i]
    <3>1. /\ sum[i - 1] \in Nat /\ w[i] \in PositiveNats
          /\ sum[i] = sum[i - 1] + w[i]
      BY <1>1, RunningSumsProperties
    <3> HIDE DEF sum
    <3> QED
      BY <2>2, <2>3, <3>1 DEF PositiveNats
  <2>5. i \in 1..Len(entries) /\ c[1] = i
    BY <1>1, <2>2
  <2>6. Selects(entries, slot) /\ selectWeightedAddress(entries, slot) = entries[i].addr
    BY <2>4, <2>5, SlotsOfEntry, Zenon DEF w
  <2> QED
    BY <2>3, <2>5, <2>6
<1> QED
  BY <1>2, <1>3, Zenon DEF ChoosesFromPool

\* The queries of window drew a full turn of the cursor, beginning at base,
\* and chose from the same entries.
FullTurn(entries, window, base, drawn, chosen) ==
    /\ entries \in Seq(Candidate) /\ exactWeight(entries) <= MaxInt
    /\ \A i, j \in 1..Len(entries) : entries[i].addr = entries[j].addr => i = j
    /\ base \in Nat /\ drawn \in [window -> Nat]
    /\ \A p \in window : drawn[p] \in base..(base + exactWeight(entries) - 1)
    /\ \A p, r \in window : drawn[p] = drawn[r] => p = r
    /\ Cardinality(window) = exactWeight(entries)
    /\ \A p \in window :
          chosen[p] = selectWeightedAddress(entries, drawn[p] % exactWeight(entries))

\* Every entry was chosen as often as it has weight.
FullShares(entries, window, chosen) ==
    \A i \in 1..Len(entries) :
        Cardinality({p \in window : chosen[p] = entries[i].addr})
            = serviceWeight(entries[i])

\* Queries that drew as many consecutive cursor values as the entries have
\* weight, each value once, chose every entry as often as it has weight: the
\* slots they drew are all slots, each once.
LEMMA RotationShares ==
    ASSUME NEW entries, NEW window, NEW base, NEW drawn, NEW chosen,
           FullTurn(entries, window, base, drawn, chosen)
    PROVE  FullShares(entries, window, chosen)
<1> USE DEF FullTurn
<1> DEFINE w == weights(entries)
           n == Len(entries)
           sum == RunningSums(w)
           slot(m) == [p \in window |-> drawn[p] % m]
<1> SUFFICES ASSUME NEW i \in 1..n
             PROVE  Cardinality({p \in window : chosen[p] = entries[i].addr})
                        = serviceWeight(entries[i])
  BY DEF FullShares
<1>1. w \in Seq(PositiveNats) /\ Len(w) = n /\ n \in Nat /\ i \in 0..n
  <2>1. w \in Seq(PositiveNats) /\ Len(w) = n /\ n \in Nat
    BY WeightsType
  <2> QED
    BY <2>1
<1>2. w[i] = serviceWeight(entries[i])
  BY WeightsType
<1>3. PICK m \in Nat : m = exactWeight(entries) /\ m = Total(w)
  <2>1. Total(w) \in Nat
    <3> HIDE DEF w
    <3> QED
      BY <1>1, RunningSumsProperties
  <2> QED
    BY <2>1 DEF exactWeight
<1>4. /\ sum[i - 1] \in Nat /\ w[i] \in Nat \ {0}
      /\ sum[i] = sum[i - 1] + w[i]
      /\ sum[i] <= m
  <2> HIDE DEF w
  <2>1. /\ sum[i - 1] \in Nat /\ w[i] \in PositiveNats
        /\ sum[i] = sum[i - 1] + w[i]
        /\ sum[i] <= Total(w)
    BY <1>1, RunningSumsProperties
  <2> QED
    BY <1>3, <2>1 DEF PositiveNats
<1>5. m \in Nat \ {0} /\ sum[i] \in Nat /\ sum[i - 1] < sum[i]
  <2> HIDE DEF sum, w
  <2> QED
    BY <1>4
<1>6. \A p \in window : drawn[p] \in Nat /\ base <= drawn[p] /\ drawn[p] < base + m
  <2>1. \A p \in window : drawn[p] \in base..(base + m - 1)
    BY <1>3, Zenon
  <2>2. \A p \in window : drawn[p] \in Nat
    OBVIOUS
  <2>3. ASSUME NEW x \in Nat, x \in base..(base + m - 1)
        PROVE  base <= x /\ x < base + m
    BY <2>3
  <2> QED
    BY <2>1, <2>2, <2>3, Zenon
<1>7. slot(m) \in Injection(window, 0..(m - 1))
  <2>1. slot(m) \in [window -> 0..(m - 1)]
    <3>1. \A x \in Nat : x % m \in 0..(m - 1)
      BY <1>5
    <3> QED
      BY <1>6, <3>1, Zenon
  <2>2. ASSUME NEW p \in window, NEW r \in window, p # r
        PROVE  slot(m)[p] # slot(m)[r]
    <3>1. drawn[p] # drawn[r]
      BY <2>2
    <3>2. PICK x \in Nat, y \in Nat :
              x = drawn[p] /\ y = drawn[r] /\ x # y
              /\ base <= x /\ x < base + m /\ base <= y /\ y < base + m
      BY <1>6, <3>1
    <3>3. x % m # y % m
      <4>1. x < y \/ y < x
        BY <3>2
      <4>2. x < y => y < x + m
        BY <3>2, <1>5
      <4>3. y < x => x < y + m
        BY <3>2, <1>5
      <4> QED
        BY <1>5, <4>1, <4>2, <4>3, RemaindersDiffer, Zenon
    <3> QED
      BY <3>2, <3>3
  <2> QED
    BY <2>1, <2>2 DEF Injection, IsInjective
<1>8. IsFiniteSet(0..(m - 1)) /\ Cardinality(0..(m - 1)) = m
  <2>1. 0 \in Int /\ m \in Int /\ 0 <= m /\ m - 0 = m
    BY <1>5
  <2> QED
    BY <2>1, IntervalSize, Zenon
<1>9. slot(m) \in Surjection(window, 0..(m - 1))
  <2>1. Cardinality(window) = m
    BY <1>3
  <2> HIDE DEF slot
  <2> QED
    BY <1>7, <1>8, <2>1, FS_Injection
<1>10. /\ \A x \in 0..(m - 1) : \E p \in window : slot(m)[p] = x
       /\ \A p, r \in window : slot(m)[p] = slot(m)[r] => p = r
       /\ \A p \in window : slot(m)[p] \in 0..(m - 1)
  <2> HIDE DEF slot
  <2>1. \A x \in 0..(m - 1) : \E p \in window : slot(m)[p] = x
    BY <1>9, Zenon DEF Surjection
  <2>2. \A p, r \in window : slot(m)[p] = slot(m)[r] => p = r
    BY <1>7, Zenon DEF Injection, IsInjective
  <2>3. \A p \in window : slot(m)[p] \in 0..(m - 1)
    BY <1>7 DEF Injection
  <2> QED
    BY <2>1, <2>2, <2>3
<1>11. \A p \in window : chosen[p] = selectWeightedAddress(entries, slot(m)[p])
  BY <1>3
<1> DEFINE own == {p \in window : chosen[p] = entries[i].addr}
           slots == sum[i - 1]..(sum[i] - 1)
           f == [p \in own |-> slot(m)[p]]
<1> HIDE DEF slot
<1>12. ASSUME NEW p \in own
       PROVE  slot(m)[p] \in slots
  <2>1. slot(m)[p] \in Nat /\ slot(m)[p] < Total(w)
    BY <1>3, <1>10, <1>5
  <2>2. PICK j \in 1..n : sum[j - 1] <= slot(m)[p] /\ slot(m)[p] < sum[j]
    <3> HIDE DEF w
    <3> QED
      BY <1>1, <2>1, ShareOf, Zenon
  <2>3. selectWeightedAddress(entries, slot(m)[p]) = entries[j].addr
    <3>1. slot(m)[p] \in Int
      BY <2>1
    <3> QED
      BY <2>2, <3>1, SlotsOfEntry, Zenon
  <2>4. entries[j].addr = entries[i].addr
    BY <1>11, <2>3
  <2>5. j = i
    BY <2>4
  <2> QED
    BY <1>4, <2>1, <2>2, <2>5
<1>13. ASSUME NEW x \in slots
       PROVE  \E p \in own : slot(m)[p] = x
  <2>1. x \in 0..(m - 1) /\ x \in Int /\ sum[i - 1] <= x /\ x < sum[i]
    BY <1>4, <1>5
  <2>2. PICK p \in window : slot(m)[p] = x
    BY <1>10, <2>1
  <2>3. selectWeightedAddress(entries, x) = entries[i].addr
    BY <2>1, SlotsOfEntry, Zenon
  <2> QED
    BY <1>11, <2>2, <2>3
<1>14. IsFiniteSet(slots) /\ Cardinality(slots) = serviceWeight(entries[i])
  <2>1. /\ sum[i - 1] \in Int /\ sum[i] \in Int /\ sum[i - 1] <= sum[i]
        /\ sum[i] - sum[i - 1] = w[i]
    <3> HIDE DEF sum, w
    <3> QED
      BY <1>4, <1>5
  <2> QED
    BY <1>2, <2>1, IntervalSize, Zenon
<1>15. f \in Injection(own, slots)
  <2>1. f \in [own -> slots]
    <3> HIDE DEF slots
    <3> QED
      BY <1>12
  <2>2. \A p, r \in own : f[p] = f[r] => p = r
    BY <1>10
  <2> HIDE DEF slots, own, f
  <2> QED
    BY <2>1, <2>2, Zenon DEF Injection, IsInjective
<1>16. f \in Surjection(own, slots)
  <2>1. f \in [own -> slots]
    BY <1>15 DEF Injection
  <2>2. \A x \in slots : \E p \in own : f[p] = x
    BY <1>13
  <2> HIDE DEF slots, own, f
  <2> QED
    BY <2>1, <2>2, Zenon DEF Surjection
<1>17. Cardinality(own) = Cardinality(slots)
  <2> HIDE DEF slots, own, f
  <2> QED
    BY <1>14, <1>15, <1>16, FS_Injection
<1> QED
  BY <1>14, <1>17

-----------------------------------------------------------------------------
\* What a query has at each of its steps.
QueryPhases ==
    \A q \in Queries :
        /\ pc[q] = "idle" => result[q] = NoResult /\ entryCopy[q] = <<>>
        /\ pc[q] = "copied" => /\ result[q] = NoResult
                               /\ entryCopy[q] # <<>>
                               /\ task[q] \in Tasks
        /\ pc[q] \in {"selected", "counted"} =>
               result[q] \in Addrs /\ task[q] \in Tasks

\* The inductive strengthening of TypeOK: the counter a query increments
\* exists because by then it holds an address and a task name.
Typed == TypeOK /\ QueryPhases

-----------------------------------------------------------------------------
\* The addresses of a list of entries or candidates are addresses.
LEMMA AddrsOfType ==
    /\ \A entries \in Seq(Entry) : AddrsOf(entries) \subseteq Addrs
    /\ \A entries \in Seq(Candidate) : AddrsOf(entries) \subseteq Addrs
<1>1. ASSUME NEW entries \in Seq(Entry)
      PROVE  AddrsOf(entries) \subseteq Addrs
  <2>1. \A i \in DOMAIN entries : entries[i] \in Entry
    OBVIOUS
  <2>2. QED
    BY <2>1 DEF AddrsOf, Entry
<1>2. ASSUME NEW entries \in Seq(Candidate)
      PROVE  AddrsOf(entries) \subseteq Addrs
  <2>1. \A i \in DOMAIN entries : entries[i] \in Candidate
    OBVIOUS
  <2>2. QED
    BY <2>1 DEF AddrsOf, Candidate
<1>3. QED
  BY <1>1, <1>2

\* A stored capacity is positive whatever the registration carried.
LEMMA NormalizedCapacityType ==
    \A c \in Capacities : normalizedCapacity(c) \in Nat \ {0}
BY BoundsAssumption DEF normalizedCapacity

\* Cleanup keeps a sublist: entries of the old list, each address at most
\* once if it was there at most once.
LEMMA KeptProperties ==
    ASSUME NEW entries \in Seq(Entry)
    PROVE  /\ Kept(entries) \in Seq(Entry)
           /\ AddrsOf(Kept(entries)) \subseteq AddrsOf(entries)
           /\ (\A i, j \in DOMAIN entries :
                  entries[i].addr = entries[j].addr => i = j)
              => (\A i, j \in DOMAIN Kept(entries) :
                     Kept(entries)[i].addr = Kept(entries)[j].addr => i = j)
<1> DEFINE fresh == FreshPositions(entries)
           n == Cardinality(fresh)
<1>1. fresh \in SUBSET DOMAIN entries
  BY DEF FreshPositions
<1>2. /\ n \in Nat
      /\ Kept(entries) \in Seq(Entry)
      /\ Len(Kept(entries)) = n
      /\ \A k \in 1..n : /\ Nth(fresh, k) \in fresh
                         /\ Kept(entries)[k] = entries[Nth(fresh, k)]
      /\ \A k, l \in 1..n : k < l => Nth(fresh, k) < Nth(fresh, l)
  BY <1>1, SubsequenceProperties DEF Kept
<1>3. DOMAIN Kept(entries) = 1..n
  BY <1>2
<1>4. AddrsOf(Kept(entries)) \subseteq AddrsOf(entries)
  BY <1>1, <1>2, <1>3 DEF AddrsOf
<1>5. ASSUME \A i, j \in DOMAIN entries :
                 entries[i].addr = entries[j].addr => i = j,
             NEW i \in 1..n, NEW j \in 1..n,
             Kept(entries)[i].addr = Kept(entries)[j].addr
      PROVE  i = j
  <2>1. Nth(fresh, i) = Nth(fresh, j)
    BY <1>1, <1>2, <1>5
  <2>2. Nth(fresh, i) \in Nat /\ Nth(fresh, j) \in Nat
    BY <1>1, <1>2
  <2>3. ~(i < j) /\ ~(j < i)
    BY <1>2, <2>1, <2>2
  <2>4. QED
    BY <1>2, <2>3
<1>6. QED
  BY <1>2, <1>3, <1>4, <1>5

\* The entries a query may choose from are among those it copied, and with
\* a firewall they are exactly the ones the requestor may reach.
LEMMA AllowedProperties ==
    ASSUME TypeOK, NEW q \in Queries
    PROVE  /\ AllowedEntries(q) \in Seq(Candidate)
           /\ AddrsOf(AllowedEntries(q)) \subseteq AddrsOf(entryCopy[q])
           /\ Filtered(q) => AddrsOf(AllowedEntries(q))
                                = AddrsOf(entryCopy[q]) \cap firewall[requestor[q]]
           /\ ~Filtered(q) => AllowedEntries(q) = entryCopy[q]
<1> DEFINE copy == entryCopy[q]
           keep == PermittedPositions(q)
           n == Cardinality(keep)
<1>1. copy \in Seq(Candidate)
  BY DEF TypeOK
<1>2. CASE ~Filtered(q)
  BY <1>1, <1>2 DEF AllowedEntries
<1>3. CASE Filtered(q)
  <2>1. AllowedEntries(q) = Subsequence(copy, keep)
    BY <1>3 DEF AllowedEntries
  <2>2. /\ keep \in SUBSET DOMAIN copy
        /\ \A i \in DOMAIN copy :
              i \in keep <=> copy[i].addr \in firewall[requestor[q]]
    BY DEF PermittedPositions
  <2>3. /\ n \in Nat
        /\ AllowedEntries(q) \in Seq(Candidate)
        /\ Len(AllowedEntries(q)) = n
        /\ \A k \in 1..n : /\ Nth(keep, k) \in keep
                           /\ AllowedEntries(q)[k] = copy[Nth(keep, k)]
        /\ \A i \in keep : \E k \in 1..n : Nth(keep, k) = i
    BY <1>1, <2>1, <2>2, SubsequenceProperties
  <2>4. DOMAIN AllowedEntries(q) = 1..n
    BY <2>3
  <2>5. AddrsOf(AllowedEntries(q))
           \subseteq AddrsOf(copy) \cap firewall[requestor[q]]
    BY <2>2, <2>3, <2>4 DEF AddrsOf
  <2>6. AddrsOf(copy) \cap firewall[requestor[q]]
           \subseteq AddrsOf(AllowedEntries(q))
    BY <2>2, <2>3, <2>4 DEF AddrsOf
  <2>7. QED
    BY <1>3, <2>3, <2>5, <2>6
<1>4. QED
  BY <1>2, <1>3

\* The loop returns the address of one of the entries it is given.
LEMMA SelectedAddress ==
    ASSUME NEW entries, NEW slot, Selects(entries, slot)
    PROVE  selectWeightedAddress(entries, slot) \in AddrsOf(entries)
<1>1. PICK i \in DOMAIN entries : StopsAt(entries, slot, i)
  BY DEF Selects
<1>2. (CHOOSE j \in DOMAIN entries : StopsAt(entries, slot, j)) \in DOMAIN entries
  BY <1>1
<1>3. QED
  BY <1>2, Zenon DEF selectWeightedAddress, AddrsOf

-----------------------------------------------------------------------------
\* A registration leaves a list of entries.
LEMMA RegisterType ==
    ASSUME Typed, NEW t \in Tasks, NEW a \in Addrs,
           \/ Register(t, a)
           \/ \E c \in Capacities : RegisterWithCapacity(t, a, c)
    PROVE  services' \in [Tasks -> Seq(Entry)]
<1>1. services \in [Tasks -> Seq(Entry)] /\ services[t] \in Seq(Entry)
  BY DEF Typed, TypeOK
<1>2. 0 \in 0..Timeout /\ 1 \in Nat \ {0}
  BY BoundsAssumption
<1>3. ASSUME NEW cap \in Nat \ {0}
      PROVE  Append(services[t], NewEntry(a, cap)) \in Seq(Entry)
  BY <1>1, <1>2 DEF NewEntry, Entry
<1>4. CASE Register(t, a)
  <2>1. UpdateEntry(services[t], a, LAMBDA e : [e EXCEPT !.age = 0]) \in Seq(Entry)
    <3>1. \A e \in Entry : [e EXCEPT !.age = 0] \in Entry
      BY <1>2 DEF Entry
    <3>2. QED
      BY <1>1, <3>1 DEF UpdateEntry
  <2>2. QED
    BY <1>1, <1>2, <1>3, <1>4, <2>1 DEF Register
<1>5. ASSUME NEW c \in Capacities, RegisterWithCapacity(t, a, c)
      PROVE  services' \in [Tasks -> Seq(Entry)]
  <2>1. normalizedCapacity(c) \in Nat \ {0}
    BY NormalizedCapacityType
  <2>2. UpdateEntry(services[t], a,
            LAMBDA e : [e EXCEPT !.age = 0, !.cap = normalizedCapacity(c)])
           \in Seq(Entry)
    <3> DEFINE Renewed(e) == [e EXCEPT !.age = 0, !.cap = normalizedCapacity(c)]
    <3>1. \A e \in Entry : Renewed(e) \in Entry
      BY <1>2, <2>1, Zenon DEF Entry
    <3>2. UpdateEntry(services[t], a, Renewed) \in Seq(Entry)
      <4> HIDE DEF Renewed
      <4>1. QED
        BY <1>1, <3>1 DEF UpdateEntry
    <3>3. QED
      BY <3>2
  <2>3. QED
    BY <1>1, <1>3, <1>5, <2>1, <2>2, Zenon DEF RegisterWithCapacity
<1>6. QED
  BY <1>4, <1>5

\* Every step keeps the types and the phases of the queries.
LEMMA TypedStep == Typed /\ [Next]_vars => Typed'
<1> SUFFICES ASSUME Typed, [Next]_vars
             PROVE  Typed'
  OBVIOUS
<1> USE DEF Typed
<1>1. ASSUME NEW t \in Tasks, NEW a \in Addrs,
             \/ Register(t, a)
             \/ \E c \in Capacities : RegisterWithCapacity(t, a, c)
      PROVE  Typed'
  <2>1. services' \in [Tasks -> Seq(Entry)]
    BY <1>1, RegisterType
  <2>2. UNCHANGED <<roundRobinIndex, queryCounters, totalQueries, firewall,
                    queryVars, historyVars>>
    BY <1>1, Zenon DEF Register, RegisterWithCapacity
  <2>3. QED
    BY <2>1, <2>2 DEF TypeOK, QueryPhases, queryVars, historyVars
<1>2. ASSUME NEW q \in Queries, NEW r \in Requestors \cup {NilIP},
             RejectBlankTask(q, r)
      PROVE  Typed'
  <2>1. TypeOK'
    BY <1>2 DEF RejectBlankTask, Asks, Fails, Errors, TypeOK, registryVars,
           historyVars
  <2>2. QueryPhases'
    BY <1>2 DEF RejectBlankTask, Asks, Fails, TypeOK, QueryPhases
  <2>3. QED
    BY <2>1, <2>2
<1>3. ASSUME NEW q \in Queries, NEW t \in Tasks,
             NEW r \in Requestors \cup {NilIP}, MissTask(q, t, r)
      PROVE  Typed'
  <2>1. TypeOK'
    BY <1>3 DEF MissTask, Asks, Fails, Errors, TypeOK, registryVars, historyVars
  <2>2. QueryPhases'
    BY <1>3 DEF MissTask, Asks, Fails, TypeOK, QueryPhases
  <2>3. QED
    BY <2>1, <2>2
<1>4. ASSUME NEW q \in Queries, NEW t \in Tasks,
             NEW r \in Requestors \cup {NilIP}, CopyEntries(q, t, r)
      PROVE  Typed'
  <2>1. services[t] \in Seq(Entry)
    BY DEF TypeOK
  <2>2. /\ Candidates(services[t]) \in Seq(Candidate)
        /\ Len(Candidates(services[t])) = Len(services[t])
    <3>1. \A e \in Entry : [addr |-> e.addr, cap |-> e.cap] \in Candidate
      BY DEF Entry, Candidate
    <3>2. QED
      BY <2>1, <3>1 DEF Candidates
  <2>3. Candidates(services[t]) # <<>>
    BY <1>4, <2>1, <2>2 DEF CopyEntries
  <2>4. AddrsOf(services[t]) \subseteq Addrs
    BY <2>1, AddrsOfType
  <2>5. TypeOK'
    BY <1>4, <2>2, <2>4 DEF CopyEntries, Asks, TypeOK, registryVars
  <2>6. QueryPhases'
    BY <1>4, <2>3 DEF CopyEntries, Asks, TypeOK, QueryPhases
  <2>7. QED
    BY <2>5, <2>6
<1>5. ASSUME NEW q \in Queries, RefuseQuery(q) \/ RejectWeight(q)
      PROVE  Typed'
  <2>1. PICK error \in Errors : Fails(q, error)
    BY <1>5 DEF RefuseQuery, RejectWeight, Errors
  <2>2. UNCHANGED <<services, roundRobinIndex, queryCounters, totalQueries,
                    firewall, task, requestor, entryCopy, current, ticket>>
    BY <1>5 DEF RefuseQuery, RejectWeight, registryVars, historyVars
  <2>3. TypeOK'
    BY <2>1, <2>2 DEF Fails, TypeOK
  <2>4. QueryPhases'
    BY <2>1, <2>2 DEF Fails, TypeOK, QueryPhases
  <2>5. QED
    BY <2>3, <2>4
<1>6. ASSUME NEW q \in Queries, SelectEntry(q)
      PROVE  Typed'
  <2> DEFINE allowed == AllowedEntries(q)
             slot == roundRobinIndex[task[q]] % totalServiceWeight(allowed)
             chosen == selectWeightedAddress(allowed, slot)
  <2>1. pc[q] = "copied" /\ task[q] \in Tasks
    BY <1>6 DEF SelectEntry, QueryPhases
  <2>2. Selects(allowed, slot) => chosen \in Addrs
    BY SelectedAddress, AllowedProperties, AddrsOfType
  <2>3. /\ roundRobinIndex' = [roundRobinIndex EXCEPT ![task[q]] = @ + 1]
        /\ ticket' = [ticket EXCEPT ![q] = roundRobinIndex[task[q]]]
        /\ \/ /\ Selects(allowed, slot)
              /\ pc' = [pc EXCEPT ![q] = "selected"]
              /\ result' = [result EXCEPT ![q] = chosen]
           \/ /\ pc' = [pc EXCEPT ![q] = "done"]
              /\ result' = [result EXCEPT ![q] = "ErrNotFound"]
        /\ UNCHANGED <<services, queryCounters, totalQueries, firewall,
                       task, requestor, entryCopy, current>>
    BY <1>6 DEF SelectEntry, Fails
  <2> HIDE DEF allowed, slot, chosen
  <2>4. TypeOK'
    <3>1. roundRobinIndex' \in [Tasks -> Nat] /\ ticket' \in [Queries -> Nat \cup {NoTicket}]
      BY <2>1, <2>3 DEF TypeOK
    <3>2. PICK x \in Addrs \cup Errors, p \in {"selected", "done"} :
              /\ result' = [result EXCEPT ![q] = x]
              /\ pc' = [pc EXCEPT ![q] = p]
      BY <2>2, <2>3 DEF Errors
    <3>3. /\ result' \in [Queries -> Addrs \cup Errors \cup {NoResult}]
          /\ pc' \in [Queries -> {"idle", "copied", "selected", "counted", "done"}]
      BY <3>2 DEF TypeOK
    <3>4. QED
      BY <2>3, <3>1, <3>3 DEF TypeOK
  <2>5. QueryPhases'
    BY <2>1, <2>2, <2>3, ZenonT(40) DEF TypeOK, QueryPhases
  <2>6. QED
    BY <2>4, <2>5
<1>7. ASSUME NEW q \in Queries, CountQuery(q)
      PROVE  Typed'
  <2>1. task[q] \in Tasks /\ result[q] \in Addrs
    BY <1>7 DEF CountQuery, QueryPhases
  <2>2. TypeOK'
    BY <1>7, <2>1 DEF CountQuery, TypeOK, historyVars
  <2>3. QueryPhases'
    BY <1>7, <2>1 DEF CountQuery, TypeOK, QueryPhases
  <2>4. QED
    BY <2>2, <2>3
<1>8. ASSUME NEW q \in Queries, ReturnAddress(q)
      PROVE  Typed'
  <2>1. TypeOK'
    BY <1>8 DEF ReturnAddress, TypeOK, historyVars
  <2>2. QueryPhases'
    BY <1>8 DEF ReturnAddress, TypeOK, QueryPhases
  <2>3. QED
    BY <2>1, <2>2
<1>9. CASE Cleanup
  <2>1. \A t \in Tasks : Kept(services[t]) \in Seq(Entry)
    BY KeptProperties DEF TypeOK
  <2>2. TypeOK'
    BY <1>9, <2>1 DEF Cleanup, TypeOK, queryVars, NoTicket
  <2>3. QueryPhases'
    BY <1>9 DEF Cleanup, QueryPhases, queryVars
  <2>4. QED
    BY <2>2, <2>3
<1>10. CASE Tick
  <2>1. services' \in [Tasks -> Seq(Entry)]
    <3> DEFINE Aged(e) == [e EXCEPT !.age = IF @ < Timeout THEN @ + 1 ELSE @]
    <3>1. \A e \in Entry : Aged(e) \in Entry
      BY BoundsAssumption DEF Entry
    <3>2. \A t \in Tasks : services[t] \in Seq(Entry)
      BY DEF TypeOK
    <3>3. \A t \in Tasks : [i \in DOMAIN services[t] |-> Aged(services[t][i])]
                              \in Seq(Entry)
      BY <3>1, <3>2
    <3>4. QED
      BY <1>10, <3>3 DEF Tick
  <2>2. QED
    BY <1>10, <2>1 DEF Tick, TypeOK, QueryPhases, queryVars, historyVars
<1>11. CASE UNCHANGED vars
  BY <1>11 DEF vars, TypeOK, QueryPhases
<1>12. QED
  BY <1>1, <1>2, <1>3, <1>4, <1>5, <1>6, <1>7, <1>8, <1>9, <1>10, <1>11
     DEF Next, QueryStep

\* The registry starts well typed.
LEMMA TypedInit == Init => Typed
BY DEF Init, Typed, TypeOK, QueryPhases, NoResult

\* Type correctness of the registry: no sequence of registrations, queries,
\* cleanups and clock ticks takes a variable out of its domain.
THEOREM TypeCorrect == Spec => []TypeOK
<1>1. Spec => []Typed
  BY TypedInit, TypedStep, PTL DEF Spec
<1>2. Typed => TypeOK
  BY DEF Typed
<1>3. QED
  BY <1>1, <1>2, PTL

-----------------------------------------------------------------------------
\* The positions of a list hold different addresses.
Distinct(entries) ==
    \A i, j \in DOMAIN entries : entries[i].addr = entries[j].addr => i = j

\* Appending an address that is not in the list keeps the addresses distinct.
LEMMA AppendDistinct ==
    ASSUME NEW entries \in Seq(Entry), NEW e, Distinct(entries),
           e.addr \notin AddrsOf(entries)
    PROVE  Distinct(Append(entries, e))
<1>1. PICK n \in Nat : n = Len(entries)
  OBVIOUS
<1>2. /\ DOMAIN entries = 1..n /\ DOMAIN Append(entries, e) = 1..(n + 1)
      /\ \A i \in 1..n : Append(entries, e)[i] = entries[i]
      /\ Append(entries, e)[n + 1] = e
  BY <1>1
<1>3. \A i \in 1..n : entries[i].addr # e.addr
  BY <1>2 DEF AddrsOf
<1> SUFFICES ASSUME NEW i \in 1..(n + 1), NEW j \in 1..(n + 1),
                    Append(entries, e)[i].addr = Append(entries, e)[j].addr
             PROVE  i = j
  BY <1>2, Zenon DEF Distinct
<1>4. i \in 1..n \/ i = n + 1
  OBVIOUS
<1>5. j \in 1..n \/ j = n + 1
  OBVIOUS
<1> QED
  BY <1>2, <1>3, <1>4, <1>5, Zenon DEF Distinct

\* What a registration does to the addresses of its task: nothing, or it
\* appends one that was not there.
LEMMA RegisterAddrs ==
    ASSUME Typed, NEW t \in Tasks, NEW a \in Addrs, Heartbeat(t, a)
    PROVE  /\ \A u \in Tasks \ {t} : services'[u] = services[u]
           /\ \/ /\ a \in AddrsOf(services[t])
                 /\ DOMAIN services'[t] = DOMAIN services[t]
                 /\ \A i \in DOMAIN services[t] :
                       services'[t][i].addr = services[t][i].addr
              \/ \E e : /\ e.addr = a
                        /\ a \notin AddrsOf(services[t])
                        /\ services'[t] = Append(services[t], e)
<1>1. services \in [Tasks -> Seq(Entry)] /\ services[t] \in Seq(Entry)
  BY DEF Typed, TypeOK
<1>2. CASE Register(t, a)
  <2> DEFINE Renewed(e) == [e EXCEPT !.age = 0]
  <2>1. services' = [services EXCEPT ![t] =
            IF Registered(t, a) THEN UpdateEntry(services[t], a, Renewed)
                                ELSE Append(services[t], NewEntry(a, 1))]
    BY <1>2 DEF Register
  <2>2. /\ DOMAIN UpdateEntry(services[t], a, Renewed) = DOMAIN services[t]
        /\ \A i \in DOMAIN services[t] :
              UpdateEntry(services[t], a, Renewed)[i].addr = services[t][i].addr
    <3>1. \A e \in Entry : Renewed(e).addr = e.addr
      BY DEF Entry
    <3> HIDE DEF Renewed
    <3>2. QED
      BY <1>1, <3>1 DEF UpdateEntry
  <2>3. NewEntry(a, 1).addr = a
    BY DEF NewEntry
  <2> HIDE DEF Renewed
  <2>4. QED
    BY <1>1, <2>1, <2>2, <2>3 DEF Registered
<1>3. ASSUME NEW c \in Capacities, RegisterWithCapacity(t, a, c)
      PROVE  /\ \A u \in Tasks \ {t} : services'[u] = services[u]
             /\ \/ /\ a \in AddrsOf(services[t])
                   /\ DOMAIN services'[t] = DOMAIN services[t]
                   /\ \A i \in DOMAIN services[t] :
                         services'[t][i].addr = services[t][i].addr
                \/ \E e : /\ e.addr = a
                          /\ a \notin AddrsOf(services[t])
                          /\ services'[t] = Append(services[t], e)
  <2> DEFINE cap == normalizedCapacity(c)
             Renewed(e) == [e EXCEPT !.age = 0, !.cap = cap]
  <2>1. services' = [services EXCEPT ![t] =
            IF Registered(t, a) THEN UpdateEntry(services[t], a, Renewed)
                                ELSE Append(services[t], NewEntry(a, cap))]
    BY <1>3 DEF RegisterWithCapacity
  <2>2. /\ DOMAIN UpdateEntry(services[t], a, Renewed) = DOMAIN services[t]
        /\ \A i \in DOMAIN services[t] :
              UpdateEntry(services[t], a, Renewed)[i].addr = services[t][i].addr
    <3>1. \A e \in Entry : Renewed(e).addr = e.addr
      BY DEF Entry
    <3> HIDE DEF Renewed
    <3>2. QED
      BY <1>1, <3>1 DEF UpdateEntry
  <2>3. NewEntry(a, cap).addr = a
    BY DEF NewEntry
  <2> HIDE DEF Renewed, cap
  <2>4. QED
    BY <1>1, <2>1, <2>2, <2>3 DEF Registered
<1>4. QED
  BY <1>2, <1>3 DEF Heartbeat

\* The clock changes no address.
LEMMA TickAddrs ==
    ASSUME Typed, Tick, NEW t \in Tasks
    PROVE  /\ DOMAIN services'[t] = DOMAIN services[t]
           /\ \A i \in DOMAIN services[t] :
                 services'[t][i].addr = services[t][i].addr
<1>1. services[t] \in Seq(Entry)
  BY DEF Typed, TypeOK
<1> DEFINE Aged(e) == [e EXCEPT !.age = IF @ < Timeout THEN @ + 1 ELSE @]
<1>2. services'[t] = [i \in DOMAIN services[t] |-> Aged(services[t][i])]
  BY DEF Tick
<1>3. \A e \in Entry : Aged(e).addr = e.addr
  BY DEF Entry
<1> HIDE DEF Aged
<1>4. QED
  BY <1>1, <1>2, <1>3

\* The steps that touch the table of services.
LEMMA TableSteps ==
    ASSUME [Next]_vars
    PROVE  \/ \E t \in Tasks, a \in Addrs : Heartbeat(t, a)
           \/ Cleanup
           \/ Tick
           \/ UNCHANGED services
BY ZenonT(40) DEF Next, QueryStep, Heartbeat, RejectBlankTask, MissTask, CopyEntries,
       RefuseQuery, RejectWeight, SelectEntry, CountQuery, ReturnAddress,
       registryVars, vars

\* No registration, cleanup or tick makes an address appear twice.
LEMMA UniqueStep == Typed /\ UniqueAddresses /\ [Next]_vars => UniqueAddresses'
<1> SUFFICES ASSUME Typed, UniqueAddresses, [Next]_vars, NEW t \in Tasks
             PROVE  Distinct(services'[t])
  BY DEF UniqueAddresses, Distinct
<1>1. services[t] \in Seq(Entry) /\ Distinct(services[t])
  BY DEF Typed, TypeOK, UniqueAddresses, Distinct
<1>2. ASSUME NEW u \in Tasks, NEW a \in Addrs, Heartbeat(u, a)
      PROVE  Distinct(services'[t])
  <2>1. CASE u # t
    BY <1>1, <1>2, <2>1, RegisterAddrs
  <2>2. CASE u = t
    <3>1. CASE /\ DOMAIN services'[t] = DOMAIN services[t]
               /\ \A i \in DOMAIN services[t] :
                     services'[t][i].addr = services[t][i].addr
      BY <1>1, <3>1 DEF Distinct
    <3>2. ASSUME NEW e, e.addr = a, a \notin AddrsOf(services[t]),
                 services'[t] = Append(services[t], e)
          PROVE  Distinct(services'[t])
      BY <1>1, <3>2, AppendDistinct
    <3>3. QED
      BY <1>2, <2>2, <3>1, <3>2, RegisterAddrs
  <2>3. QED
    BY <2>1, <2>2
<1>3. CASE Cleanup
  <2>1. services'[t] = Kept(services[t])
    BY <1>3 DEF Cleanup
  <2>2. QED
    BY <1>1, <2>1, KeptProperties DEF Distinct
<1>4. CASE Tick
  BY <1>1, <1>4, TickAddrs DEF Distinct
<1>5. CASE UNCHANGED services
  BY <1>1, <1>5
<1>6. QED
  BY <1>2, <1>3, <1>4, <1>5, TableSteps

\* No address is ever listed twice for a task (the scans of Register and
\* RegisterWithCapacity): a duplicate would get a double share of queries.
THEOREM NoDuplicates == Spec => []UniqueAddresses
<1>1. Init => UniqueAddresses
  BY DEF Init, UniqueAddresses
<1>2. Spec => []Typed
  BY TypedInit, TypedStep, PTL DEF Spec
<1>3. QED
  BY <1>1, <1>2, UniqueStep, PTL DEF Spec

-----------------------------------------------------------------------------
\* AnswerSound for one query.
Sound(q) ==
    /\ result[q] \in Addrs =>
          /\ result[q] \in AddrsOf(entryCopy[q])
          /\ Filtered(q) => result[q] \in firewall[requestor[q]]
    /\ result[q] = "ErrNoAllowedService" =>
          /\ Filtered(q)
          /\ AddrsOf(entryCopy[q]) \cap firewall[requestor[q]] = {}

\* Errors and the missing result are no addresses, and differ.
LEMMA ErrorsAreNoAddrs ==
    /\ "ErrInvalidTaskName" \notin Addrs
    /\ "ErrNotFound" \notin Addrs
    /\ "ErrNoAllowedService" \notin Addrs
    /\ NoResult \notin Addrs
    /\ NoResult \notin Errors
BY ErrorsAssumption DEF Errors, NoResult

\* A query whose answer, copy and requestor do not change stays sound.
LEMMA SoundFrame ==
    ASSUME NEW q \in Queries, Sound(q), UNCHANGED firewall,
           result'[q] = result[q], entryCopy'[q] = entryCopy[q],
           requestor'[q] = requestor[q]
    PROVE  Sound(q)'
BY DEF Sound, Filtered

\* A query that has no answer, or failed for another reason than the
\* firewall, is sound.
LEMMA SoundWithoutAnswer ==
    ASSUME NEW q \in Queries,
           result'[q] \in {NoResult, "ErrNotFound", "ErrInvalidTaskName"}
    PROVE  Sound(q)'
BY ErrorsAreNoAddrs DEF Sound, NoResult

\* The two steps of a query that decide about addresses: refusing all of
\* them and selecting one.
LEMMA SoundDecision ==
    ASSUME Typed, NEW q \in Queries, RefuseQuery(q) \/ SelectEntry(q)
    PROVE  Sound(q)'
<1> DEFINE allowed == AllowedEntries(q)
<1>1. /\ pc[q] = "copied" /\ entryCopy[q] # <<>>
      /\ UNCHANGED <<firewall, requestor, entryCopy>>
      /\ result \in [Queries -> Addrs \cup Errors \cup {NoResult}]
  BY DEF RefuseQuery, SelectEntry, Typed, QueryPhases, TypeOK
<1>2. /\ allowed \in Seq(Candidate)
      /\ AddrsOf(allowed) \subseteq AddrsOf(entryCopy[q])
      /\ Filtered(q) => AddrsOf(allowed)
                           = AddrsOf(entryCopy[q]) \cap firewall[requestor[q]]
      /\ ~Filtered(q) => allowed = entryCopy[q]
  BY AllowedProperties DEF Typed
<1>3. CASE RefuseQuery(q)
  <2>1. allowed = <<>> /\ result'[q] = "ErrNoAllowedService"
    BY <1>1, <1>3 DEF RefuseQuery, Fails
  <2>2. AddrsOf(allowed) = {}
    BY <2>1 DEF AddrsOf
  <2>3. Filtered(q) /\ AddrsOf(entryCopy[q]) \cap firewall[requestor[q]] = {}
    BY <1>1, <1>2, <2>1, <2>2
  <2>4. QED
    BY <1>1, <2>1, <2>3, ErrorsAreNoAddrs DEF Sound, Filtered
<1>4. CASE SelectEntry(q)
  <2>1. \/ result'[q] \in AddrsOf(allowed)
        \/ result'[q] = "ErrNotFound"
    BY <1>1, <1>4, SelectedAddress DEF SelectEntry, Fails
  <2>2. CASE result'[q] = "ErrNotFound"
    BY <2>2, SoundWithoutAnswer
  <2>3. CASE result'[q] \in AddrsOf(allowed)
    <3>1. AddrsOf(allowed) \subseteq Addrs
      BY <1>2, AddrsOfType
    <3>2. QED
      BY <1>1, <1>2, <2>3, <3>1, ErrorsAreNoAddrs DEF Sound, Filtered
  <2>4. QED
    BY <2>1, <2>2, <2>3
<1>5. QED
  BY <1>3, <1>4

\* Every step keeps the answers sound.
LEMMA AnswerStep == Typed /\ AnswerSound /\ [Next]_vars => AnswerSound'
<1> SUFFICES ASSUME Typed, AnswerSound, [Next]_vars, NEW p \in Queries
             PROVE  Sound(p)'
  BY DEF AnswerSound, Sound
<1>1. Sound(p) /\ result \in [Queries -> Addrs \cup Errors \cup {NoResult}]
  BY DEF AnswerSound, Sound, Typed, TypeOK
<1>2. ASSUME NEW q \in Queries, NEW r, RejectBlankTask(q, r)
      PROVE  Sound(p)'
  <2>1. CASE q = p
    BY <1>1, <1>2, <2>1, SoundWithoutAnswer DEF RejectBlankTask, Fails
  <2>2. CASE q # p
    BY <1>1, <1>2, <2>2, SoundFrame
       DEF RejectBlankTask, Asks, Fails, Typed, TypeOK
  <2>3. QED
    BY <2>1, <2>2
<1>3. ASSUME NEW q \in Queries, NEW t, NEW r, MissTask(q, t, r)
      PROVE  Sound(p)'
  <2>1. CASE q = p
    BY <1>1, <1>3, <2>1, SoundWithoutAnswer DEF MissTask, Fails
  <2>2. CASE q # p
    BY <1>1, <1>3, <2>2, SoundFrame DEF MissTask, Asks, Fails, Typed, TypeOK
  <2>3. QED
    BY <2>1, <2>2
<1>4. ASSUME NEW q \in Queries, NEW t, NEW r, CopyEntries(q, t, r)
      PROVE  Sound(p)'
  <2>1. CASE q = p
    BY <1>4, <2>1, SoundWithoutAnswer
       DEF CopyEntries, Asks, Typed, QueryPhases
  <2>2. CASE q # p
    BY <1>1, <1>4, <2>2, SoundFrame DEF CopyEntries, Asks, Typed, TypeOK
  <2>3. QED
    BY <2>1, <2>2
<1>5. ASSUME NEW q \in Queries, RefuseQuery(q) \/ SelectEntry(q)
      PROVE  Sound(p)'
  <2>1. CASE q = p
    BY <1>5, <2>1, SoundDecision
  <2>2. CASE q # p
    BY <1>1, <1>5, <2>2, SoundFrame DEF RefuseQuery, SelectEntry, Fails
  <2>3. QED
    BY <2>1, <2>2
<1>6. ASSUME NEW q \in Queries, RejectWeight(q)
      PROVE  Sound(p)'
  <2>1. CASE q = p
    BY <1>1, <1>6, <2>1, SoundWithoutAnswer DEF RejectWeight, Fails
  <2>2. CASE q # p
    BY <1>1, <1>6, <2>2, SoundFrame DEF RejectWeight, Fails
  <2>3. QED
    BY <2>1, <2>2
<1>7. CASE UNCHANGED <<firewall, requestor, entryCopy, result>>
  BY <1>1, <1>7, SoundFrame
<1>8. QED
  BY <1>2, <1>3, <1>4, <1>5, <1>6, <1>7, ZenonT(40)
     DEF Next, QueryStep, Register, RegisterWithCapacity, CountQuery,
         ReturnAddress, Cleanup, Tick, vars, queryVars

\* Whatever happens while a query runs, its answer was registered when it
\* looked and is permitted to the requestor, and it is refused only if none
\* of the addresses it saw is (GetServiceForRequestor).
THEOREM AnswersAreSound == Spec => []AnswerSound
<1>1. Init => AnswerSound
  BY ErrorsAreNoAddrs DEF Init, AnswerSound, NoResult
<1>2. Spec => []Typed
  BY TypedInit, TypedStep, PTL DEF Spec
<1>3. QED
  BY <1>1, <1>2, AnswerStep, PTL DEF Spec

-----------------------------------------------------------------------------
\* An entry leaves only through Cleanup after Timeout ticks of silence, and
\* the entries that stay keep their order (OnlySilentRemoved).
THEOREM SilentOnly == Spec => OnlySilentRemoved
<1> DEFINE Keeps(t) ==
        \A i, j \in DOMAIN services[t] :
            /\ services[t][i].age < Timeout
            /\ services[t][j].age < Timeout
            /\ i <= j
            => \E k, l \in DOMAIN services'[t] :
                  /\ k <= l
                  /\ services'[t][k].addr = services[t][i].addr
                  /\ services'[t][l].addr = services[t][j].addr
<1>1. ASSUME Typed, [Next]_vars, NEW t \in Tasks
      PROVE  Keeps(t)
  <2>1. services[t] \in Seq(Entry)
    BY <1>1 DEF Typed, TypeOK
  <2>2. ASSUME DOMAIN services[t] \subseteq DOMAIN services'[t],
               \A i \in DOMAIN services[t] :
                   services'[t][i].addr = services[t][i].addr
        PROVE  Keeps(t)
    BY <2>2
  <2>3. ASSUME NEW u \in Tasks, NEW a \in Addrs, Heartbeat(u, a)
        PROVE  Keeps(t)
    <3>1. CASE u # t
      <4>1. services'[t] = services[t]
        BY <1>1, <2>3, <3>1, RegisterAddrs
      <4>2. QED
        BY <2>2, <4>1
    <3>2. CASE u = t
      <4>1. \/ /\ DOMAIN services'[t] = DOMAIN services[t]
               /\ \A i \in DOMAIN services[t] :
                     services'[t][i].addr = services[t][i].addr
            \/ \E e : services'[t] = Append(services[t], e)
        BY <1>1, <2>3, <3>2, RegisterAddrs, ZenonT(40)
      <4>2. ASSUME NEW e, services'[t] = Append(services[t], e)
            PROVE  /\ DOMAIN services[t] \subseteq DOMAIN services'[t]
                   /\ \A i \in DOMAIN services[t] :
                         services'[t][i].addr = services[t][i].addr
        BY <2>1, <4>2
      <4>3. /\ DOMAIN services[t] \subseteq DOMAIN services'[t]
            /\ \A i \in DOMAIN services[t] :
                  services'[t][i].addr = services[t][i].addr
        BY <4>1, <4>2
      <4>4. QED
        BY <2>2, <4>3
    <3>3. QED
      BY <3>1, <3>2
  <2>4. CASE Cleanup
    <3> DEFINE fresh == FreshPositions(services[t])
               n == Cardinality(fresh)
    <3>1. services'[t] = Subsequence(services[t], fresh)
      BY <2>4 DEF Cleanup, Kept
    <3>2. /\ fresh \in SUBSET DOMAIN services[t]
          /\ \A i \in DOMAIN services[t] :
                services[t][i].age < Timeout => i \in fresh
      BY DEF FreshPositions
    <3>3. /\ n \in Nat
          /\ DOMAIN services'[t] = 1..n
          /\ \A k \in 1..n : /\ Nth(fresh, k) \in fresh
                             /\ services'[t][k] = services[t][Nth(fresh, k)]
          /\ \A k, l \in 1..n : k < l => Nth(fresh, k) < Nth(fresh, l)
          /\ \A i \in fresh : \E k \in 1..n : Nth(fresh, k) = i
      <4>1. DOMAIN Subsequence(services[t], fresh) = 1..n
        BY DEF Subsequence
      <4>2. fresh \in SUBSET DOMAIN services[t]
        BY <3>2
      <4> HIDE DEF fresh
      <4>3. /\ n \in Nat
            /\ \A k \in 1..n :
                  /\ Nth(fresh, k) \in fresh
                  /\ Subsequence(services[t], fresh)[k] = services[t][Nth(fresh, k)]
            /\ \A k, l \in 1..n : k < l => Nth(fresh, k) < Nth(fresh, l)
            /\ \A i \in fresh : \E k \in 1..n : Nth(fresh, k) = i
        BY <2>1, <4>2, SubsequenceProperties
      <4>4. QED
        BY <3>1, <4>1, <4>3
    <3>4. SUFFICES ASSUME NEW i \in DOMAIN services[t],
                          NEW j \in DOMAIN services[t],
                          services[t][i].age < Timeout,
                          services[t][j].age < Timeout,
                          i <= j
                   PROVE  \E k, l \in DOMAIN services'[t] :
                             /\ k <= l
                             /\ services'[t][k].addr = services[t][i].addr
                             /\ services'[t][l].addr = services[t][j].addr
      OBVIOUS
    <3>5. PICK k \in 1..n : Nth(fresh, k) = i
      BY <3>2, <3>3, <3>4
    <3>6. PICK l \in 1..n : Nth(fresh, l) = j
      BY <3>2, <3>3, <3>4
    <3>7. k <= l
      <4>1. i \in Int /\ j \in Int /\ ~(j < i)
        BY <2>1, <3>4
      <4>2. ~(l < k)
        BY <3>3, <3>5, <3>6, <4>1
      <4>3. QED
        BY <3>3, <4>2
    <3>8. QED
      BY <3>3, <3>5, <3>6, <3>7, Zenon
  <2>5. CASE Tick
    BY <1>1, <2>2, <2>5, TickAddrs
  <2>6. CASE UNCHANGED services
    BY <2>2, <2>6
  <2>7. QED
    BY <1>1, <2>3, <2>4, <2>5, <2>6, TableSteps, Zenon
<1>2. Typed /\ [Next]_vars => [\A t \in Tasks : Keeps(t)]_vars
  BY <1>1
<1>3. Spec => []Typed
  BY TypedInit, TypedStep, PTL DEF Spec
<1>4. QED
  BY <1>2, <1>3, PTL DEF Spec, OnlySilentRemoved

-----------------------------------------------------------------------------
\* The directory's set of addresses, read off the table.
LEMMA LiveAfterHeartbeat ==
    ASSUME Typed, NEW t \in Tasks, NEW a \in Addrs, Heartbeat(t, a)
    PROVE  /\ AddrsOf(services'[t]) = AddrsOf(services[t]) \cup {a}
           /\ \A u \in Tasks \ {t} : AddrsOf(services'[u]) = AddrsOf(services[u])
<1>1. services[t] \in Seq(Entry)
  BY DEF Typed, TypeOK
<1>2. \A u \in Tasks \ {t} : services'[u] = services[u]
  BY RegisterAddrs
<1>3. CASE /\ a \in AddrsOf(services[t])
           /\ DOMAIN services'[t] = DOMAIN services[t]
           /\ \A i \in DOMAIN services[t] :
                 services'[t][i].addr = services[t][i].addr
  BY <1>2, <1>3 DEF AddrsOf
<1>4. ASSUME NEW e, e.addr = a, services'[t] = Append(services[t], e)
      PROVE  AddrsOf(services'[t]) = AddrsOf(services[t]) \cup {a}
  BY <1>1, <1>4 DEF AddrsOf
<1>5. QED
  BY <1>2, <1>3, <1>4, RegisterAddrs

\* A query that has not begun has no result and no copy of the entries.
LEMMA IdleQuery ==
    ASSUME Typed, NEW q \in Queries, pc[q] = "idle"
    PROVE  result[q] = "none" /\ AddrsOf(entryCopy[q]) = {}
<1>1. result[q] = NoResult /\ entryCopy[q] = <<>>
  BY DEF Typed, QueryPhases
<1>2. QED
  BY <1>1 DEF NoResult, AddrsOf

\* Every step of the registry is a step of the directory, or invisible.
LEMMA DirectoryStep == Typed /\ [Next]_vars => [Directory!DirNext]_Directory!dirVars
<1> SUFFICES ASSUME Typed, [Next]_vars
             PROVE  Directory!DirNext \/ UNCHANGED Directory!dirVars
  OBVIOUS
<1> DEFINE live == [t \in Tasks |-> AddrsOf(services[t])]
           offer == [q \in Queries |-> AddrsOf(entryCopy[q])]
<1>1. ASSUME NEW t \in Tasks, NEW a \in Addrs, Heartbeat(t, a)
      PROVE  Directory!DirNext
  <2>1. UNCHANGED <<entryCopy, result>>
    BY <1>1, ZenonT(40) DEF Heartbeat, Register, RegisterWithCapacity, queryVars
  <2>2. live' = [live EXCEPT ![t] = @ \cup {a}]
    BY <1>1, LiveAfterHeartbeat, ZenonT(40)
  <2>3. Directory!Announce(t, a)
    BY <2>1, <2>2 DEF Directory!Announce
  <2>4. QED
    BY <2>3 DEF Directory!DirNext
<1>2. ASSUME NEW q \in Queries, NEW r, RejectBlankTask(q, r)
      PROVE  Directory!DirNext
  <2>1. result[q] = "none" /\ offer[q] = {}
    BY <1>2, IdleQuery DEF RejectBlankTask, Asks
  <2>2. Directory!Reject(q)
    BY <1>2, <2>1 DEF Directory!Reject, RejectBlankTask, Fails, registryVars
  <2>3. QED
    BY <2>2 DEF Directory!DirNext
<1>3. ASSUME NEW q \in Queries, NEW t \in Tasks, NEW r, MissTask(q, t, r)
      PROVE  Directory!DirNext
  <2>1. result[q] = "none" /\ offer[q] = {} /\ live[t] = {}
    <3>1. result[q] = "none" /\ offer[q] = {}
      BY <1>3, IdleQuery DEF MissTask, Asks
    <3>2. live[t] = {}
      BY <1>3 DEF MissTask, AddrsOf
    <3>3. QED
      BY <3>1, <3>2
  <2>2. Directory!Miss(q, t)
    BY <1>3, <2>1 DEF Directory!Miss, MissTask, Fails, registryVars
  <2>3. QED
    BY <2>2 DEF Directory!DirNext
<1>4. ASSUME NEW q \in Queries, NEW t \in Tasks, NEW r, CopyEntries(q, t, r)
      PROVE  Directory!DirNext
  <2>1. services[t] \in Seq(Entry) /\ services[t] # <<>>
    BY <1>4 DEF CopyEntries, Typed, TypeOK
  <2>2. result[q] = "none" /\ offer[q] = {}
    BY <1>4, IdleQuery DEF CopyEntries, Asks
  <2>3. live[t] # {}
    <3>1. 1 \in DOMAIN services[t]
      BY <2>1
    <3>2. QED
      BY <3>1, Zenon DEF AddrsOf
  <2>4. AddrsOf(Candidates(services[t])) = AddrsOf(services[t])
    BY Zenon DEF AddrsOf, Candidates
  <2>5. offer' = [offer EXCEPT ![q] = live[t]]
    BY <1>4, <2>4, ZenonT(40) DEF CopyEntries, Typed, TypeOK
  <2>6. Directory!Look(q, t)
    BY <1>4, <2>2, <2>3, <2>5 DEF Directory!Look, CopyEntries, registryVars
  <2>7. QED
    BY <2>6 DEF Directory!DirNext
<1>5. ASSUME NEW q \in Queries,
             RefuseQuery(q) \/ RejectWeight(q) \/ SelectEntry(q)
      PROVE  Directory!DirNext
  <2>1. /\ pc[q] = "copied" /\ UNCHANGED <<services, entryCopy>>
    BY <1>5, ZenonT(40) DEF RefuseQuery, RejectWeight, SelectEntry, registryVars
  <2>2. result[q] = "none" /\ entryCopy[q] # <<>> /\ entryCopy[q] \in Seq(Candidate)
    BY <2>1 DEF Typed, TypeOK, QueryPhases, NoResult
  <2>3. offer[q] # {}
    <3>1. 1 \in DOMAIN entryCopy[q]
      BY <2>2
    <3>2. QED
      BY <3>1, Zenon DEF AddrsOf
  <2>4. \E x \in offer[q] \cup {"ErrNoAllowedService", "ErrNotFound"} :
            result' = [result EXCEPT ![q] = x]
    <3>1. AddrsOf(AllowedEntries(q)) \subseteq AddrsOf(entryCopy[q])
      BY AllowedProperties DEF Typed
    <3>2. QED
      BY <1>5, <3>1, SelectedAddress
         DEF RefuseQuery, RejectWeight, SelectEntry, Fails
  <2>5. Directory!Answer(q)
    BY <2>1, <2>2, <2>3, <2>4, ZenonT(40) DEF Directory!Answer
  <2>6. QED
    BY <2>5 DEF Directory!DirNext
<1>6. ASSUME NEW q \in Queries, CountQuery(q) \/ ReturnAddress(q)
      PROVE  UNCHANGED Directory!dirVars
  BY <1>6 DEF CountQuery, ReturnAddress, Directory!dirVars
<1>7. CASE Cleanup
  <2>1. \A t \in Tasks : /\ services[t] \in Seq(Entry)
                         /\ services'[t] = Kept(services[t])
    BY <1>7 DEF Cleanup, Typed, TypeOK
  <2>2. \A t \in Tasks : /\ live'[t] \subseteq live[t]
                         /\ live[t] \subseteq Addrs
    BY <2>1, KeptProperties, AddrsOfType
  <2>3. Directory!Withdraw
    BY <1>7, <2>2, Zenon DEF Directory!Withdraw, Cleanup, queryVars
  <2>4. QED
    BY <2>3 DEF Directory!DirNext
<1>8. CASE Tick
  <2>1. \A t \in Tasks : AddrsOf(services'[t]) = AddrsOf(services[t])
    BY <1>8, TickAddrs DEF AddrsOf
  <2>2. QED
    BY <1>8, <2>1, ZenonT(40) DEF Tick, Directory!dirVars, queryVars
<1>9. CASE UNCHANGED vars
  BY <1>9 DEF vars, Directory!dirVars
<1>10. QED
  BY <1>1, <1>2, <1>3, <1>4, <1>5, <1>6, <1>7, <1>8, <1>9
     DEF Next, QueryStep, Heartbeat

\* The registry implements the directory: seen through the addresses of its
\* lists, it only announces, withdraws and answers lookups, each from the
\* addresses that were live at one moment of the lookup.
THEOREM Refinement == Spec => ImplementsDirectory
<1>1. Init => Directory!DirInit
  <2> SUFFICES ASSUME Init PROVE Directory!DirInit
    OBVIOUS
  <2>1. AddrsOf(<<>>) = {}
    BY DEF AddrsOf
  <2>2. /\ [t \in Tasks |-> AddrsOf(services[t])] = [t \in Tasks |-> {}]
        /\ [q \in Queries |-> AddrsOf(entryCopy[q])] = [q \in Queries |-> {}]
    BY <2>1 DEF Init
  <2>3. result = [q \in Queries |-> "none"]
    BY DEF Init, NoResult
  <2>4. QED
    BY <2>2, <2>3 DEF Directory!DirInit
<1>2. Spec => []Typed
  BY TypedInit, TypedStep, PTL DEF Spec
<1>3. QED
  BY <1>1, <1>2, DirectoryStep, PTL DEF Spec, ImplementsDirectory, Directory!DirSpec
=============================================================================
