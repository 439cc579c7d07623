------------------------- MODULE DHTOperationProofs -------------------------
(***************************************************************************)
(* Lemmas about the distributed hash table: what a sorted ring is, what    *)
(* the k closest nodes of a view are, and what each change of a Store or   *)
(* Find keeps true of it.                                                  *)
(***************************************************************************)
EXTENDS DHTNetwork, RingView, ListsProofs

-----------------------------------------------------------------------------
\* The ring.

\* Counting the entries of a ring for a set of nodes is monotonic, strictly so
\* when a node of the ring is added.
LEMMA EntriesGrow ==
    ASSUME NEW self, NEW view \in SUBSET Nodes, NEW T, NEW S \in SUBSET T
    PROVE  /\ Entries(self, view, S) \in Nat
           /\ Entries(self, view, S) <= Entries(self, view, T)
           /\ \A p \in (view \cup {self}) \cap (T \ S) :
                 Entries(self, view, S) < Entries(self, view, T)
<1>1. IsFiniteSet(view \cap T) /\ IsFiniteSet(view \cap S)
  BY FS_Subset, RingAssumption
<1>2. /\ Cardinality(view \cap S) \in Nat
      /\ Cardinality(view \cap T) \in Nat
      /\ Cardinality(view \cap S) <= Cardinality(view \cap T)
  BY <1>1, FS_CardinalityType, FS_Subset, view \cap S \subseteq view \cap T
<1>3. ASSUME NEW p \in view \cap (T \ S)
      PROVE  Cardinality(view \cap S) < Cardinality(view \cap T)
  <2>1. view \cap S \subseteq view \cap T /\ view \cap S # view \cap T
    BY <1>3
  <2>2. QED
    BY <2>1, <1>1, <1>2, FS_Subset
<1>4. QED
  BY <1>2, <1>3 DEF Entries

\* The length of the ring, and that no count exceeds it.
LEMMA EntriesOfRing ==
    ASSUME NEW self \in Nodes, NEW view \in SUBSET Nodes
    PROVE  /\ Entries(self, view, Nodes) = Cardinality(view) + 1
           /\ Cardinality(view) \in Nat
<1>1. view \cap Nodes = view
  OBVIOUS
<1>2. Cardinality(view) \in Nat
  BY FS_Subset, FS_CardinalityType, RingAssumption
<1>3. QED
  BY <1>1, <1>2 DEF Entries

\* A key by which nodes are sorted: no two nodes have the same.
IsKey(key) ==
    key \in [Nodes -> Positions] /\ \A m, n \in Nodes : key[m] = key[n] => m = n

\* The counts of two nodes of a ring in the order of a key.
LEMMA CountsOrdered ==
    ASSUME NEW self \in Nodes, NEW view \in SUBSET Nodes, NEW key, IsKey(key),
           NEW p \in view \cup {self}
    PROVE  /\ Before(self, view, key, p) \in Nat /\ UpTo(self, view, key, p) \in Nat
           /\ Before(self, view, key, p) < UpTo(self, view, key, p)
           /\ UpTo(self, view, key, p) <= Cardinality(view) + 1
           /\ \A q \in view \cup {self} : key[q] < key[p] =>
                 UpTo(self, view, key, q) <= Before(self, view, key, p)
<1>. DEFINE Lower(q) == {m \in Nodes : key[m] < key[q]}
            Upper(q) == {m \in Nodes : key[m] <= key[q]}
<1>1. p \in Nodes /\ key \in [Nodes -> Nat]
  BY RingAssumption DEF IsKey, Positions
<1>2. Lower(p) \in SUBSET Upper(p) /\ p \in Upper(p) \ Lower(p) /\ Upper(p) \in SUBSET Nodes
  BY <1>1
<1>3. /\ Entries(self, view, Lower(p)) \in Nat
      /\ Entries(self, view, Lower(p)) < Entries(self, view, Upper(p))
  BY <1>2, EntriesGrow, Zenon
<1>4. /\ Entries(self, view, Upper(p)) \in Nat
      /\ Entries(self, view, Upper(p)) <= Cardinality(view) + 1
  BY <1>2, EntriesGrow, EntriesOfRing
<1>5. ASSUME NEW q \in view \cup {self}, key[q] < key[p]
      PROVE  Entries(self, view, Upper(q)) <= Entries(self, view, Lower(p))
  <2>1. q \in Nodes
    OBVIOUS
  <2>2. Upper(q) \in SUBSET Lower(p)
    BY <1>1, <1>5, <2>1
  <2>3. QED
    BY <2>2, EntriesGrow
<1>6. QED
  BY <1>3, <1>4, <1>5, Zenon DEF Before, UpTo

\* Every place of a sorted ring belongs to one node, the one of which less
\* than i entries come before and at least i up to it.
LEMMA SortedPlaces ==
    ASSUME NEW self \in Nodes, NEW view \in SUBSET Nodes, NEW key, IsKey(key),
           NEW i \in 1..(Cardinality(view) + 1)
    PROVE  /\ Sorted(self, view, key)[i] \in view \cup {self}
           /\ \A p \in view \cup {self} :
                 p = Sorted(self, view, key)[i] <=>
                    Before(self, view, key, p) < i /\ i <= UpTo(self, view, key, p)
<1>. DEFINE ring == view \cup {self}
            At(p) == Before(self, view, key, p) < i /\ i <= UpTo(self, view, key, p)
            high == {p \in ring : i <= UpTo(self, view, key, p)}
<1>1. IsKey(key) /\ key \in [Nodes -> Nat] /\ ring \subseteq Nodes
  BY RingAssumption DEF IsKey, Positions
<1>2. Cardinality(view) \in Nat /\ i \in Nat
  BY EntriesOfRing
<1>3. \A p \in ring : /\ Before(self, view, key, p) \in Nat
                      /\ UpTo(self, view, key, p) \in Nat
  BY CountsOrdered
<1>4. \A p, q \in ring : At(p) /\ At(q) => p = q
  <2>. SUFFICES ASSUME NEW p \in ring, NEW q \in ring, At(p), At(q), key[q] < key[p]
                PROVE  FALSE
    BY <1>1 DEF IsKey
  <2>1. UpTo(self, view, key, q) <= Before(self, view, key, p)
    BY CountsOrdered
  <2>2. QED
    BY <2>1, <1>2, <1>3
<1>5. high # {}
  <2>1. PICK p \in ring : \A q \in ring : key[q] <= key[p]
    <3>. DEFINE K == {key[q] : q \in ring}
    <3>1. K \subseteq 0..RingPositions /\ K # {} /\ RingPositions \in Nat
      BY RingAssumption DEF IsKey, Positions
    <3>2. PICK x \in K : \A y \in K : x >= y
      BY <3>1, HasGreatest, Zenon
    <3>3. QED
      BY <3>2, <1>1
  <2>2. view \cap {m \in Nodes : key[m] <= key[p]} = view /\ key[self] <= key[p]
    BY <2>1
  <2>3. UpTo(self, view, key, p) = Cardinality(view) + 1
    BY <2>2 DEF UpTo, Entries
  <2>4. QED
    BY <2>3, <1>2
<1>6. PICK p \in high : \A q \in high : key[p] <= key[q]
  <2>. DEFINE K == {key[q] : q \in high}
  <2>1. K \subseteq Nat /\ K # {}
    BY <1>1, <1>5
  <2>2. PICK x \in K : \A y \in K : x <= y
    BY <2>1, HasLeast, Zenon
  <2>3. QED
    BY <2>2
<1>7. Before(self, view, key, p) < i
  <2>. SUFFICES ASSUME i <= Before(self, view, key, p)
                PROVE  FALSE
    BY <1>2, <1>3
  <2>. DEFINE below == {q \in ring : key[q] < key[p]}
              L == {q \in Nodes : key[q] < key[p]}
  <2>1. below # {}
    <3>. SUFFICES ASSUME below = {}
                  PROVE  FALSE
      OBVIOUS
    <3>1. view \cap L = {} /\ self \notin L
      OBVIOUS
    <3>2. Entries(self, view, L) = 0
      BY <3>1, FS_EmptySet DEF Entries
    <3>3. QED
      BY <3>2, <1>2 DEF Before
  <2>2. PICK q \in below : \A m \in below : key[m] <= key[q]
    <3>. DEFINE K == {key[m] : m \in below}
    <3>1. K \subseteq 0..key[p] /\ K # {} /\ key[p] \in Nat
      BY <2>1, <1>1
    <3>2. PICK x \in K : \A y \in K : x >= y
      BY <3>1, HasGreatest, Zenon
    <3>3. QED
      BY <3>2, <1>1
  <2>3. /\ view \cap L = view \cap {m \in Nodes : key[m] <= key[q]}
        /\ self \in L <=> self \in {m \in Nodes : key[m] <= key[q]}
    BY <2>2, <1>1
  <2>4. UpTo(self, view, key, q) = Before(self, view, key, p)
    BY <2>3 DEF UpTo, Before, Entries
  <2>5. q \in high /\ key[q] < key[p]
    BY <2>4
  <2>6. QED
    BY <2>5, <1>6, <1>1
<1>8. Sorted(self, view, key)[i] = CHOOSE q \in ring : At(q)
  BY DEF Sorted
<1>9. At(p) /\ p \in ring
  BY <1>6, <1>7
<1>10. QED
  BY <1>4, <1>8, <1>9

\* Positions and distances from a task sort the nodes.
LEMMA Keys ==
    /\ IsKey(Position)
    /\ \A task \in Positions : IsKey(DistanceFrom(task))
<1>1. IsKey(Position)
  BY RingAssumption DEF IsKey
<1>2. ASSUME NEW task \in Positions PROVE IsKey(DistanceFrom(task))
  <2>1. \A m \in Nodes : Position[m] \in Positions
    BY RingAssumption
  <2>2. \A a \in Positions : Distance(task, a) \in Positions
    BY RingAssumption DEF Distance, Positions
  <2>3. \A a, b \in Positions : Distance(task, a) = Distance(task, b) => a = b
    BY RingAssumption DEF Distance, Positions
  <2>4. DistanceFrom(task) \in [Nodes -> Positions]
    BY <2>1, <2>2 DEF DistanceFrom
  <2>5. ASSUME NEW m \in Nodes, NEW n \in Nodes, DistanceFrom(task)[m] = DistanceFrom(task)[n]
        PROVE  m = n
    <3>1. Distance(task, Position[m]) = Distance(task, Position[n])
      BY <2>5 DEF DistanceFrom
    <3>. QED
      BY <2>1, <2>3, <3>1, RingAssumption
  <2>. QED
    BY <2>4, <2>5 DEF IsKey
<1>. QED
  BY <1>1, <1>2

\* FindKClosestNodes returns the nodes with fewer than k entries before them.
LEMMA KClosestNodes ==
    ASSUME NEW self \in Nodes, NEW view \in SUBSET Nodes, NEW task \in Positions,
           NEW k \in Nat \ {0}
    PROVE  /\ FindKClosestNodes(self, view, task, k) \in Seq(Nodes)
           /\ \A m : m \in Range(FindKClosestNodes(self, view, task, k)) <=>
                    /\ m \in view \cup {self}
                    /\ Before(self, view, DistanceFrom(task), m) < k
<1>. DEFINE key == DistanceFrom(task)
            ring == byDistance(self, view, task)
            len == Cardinality(view) + 1
            l == IF k < len THEN k ELSE len
            closest == FindKClosestNodes(self, view, task, k)
<1>1. IsKey(key) /\ len \in Nat /\ len > 0 /\ l \in 1..len
  BY Keys, EntriesOfRing
<1>2. ring \in Seq(Nodes) /\ Len(ring) = len
  <2>1. ring = [i \in 1..len |-> ring[i]]
    BY DEF byDistance, Sorted
  <2>2. \A i \in 1..len : ring[i] \in Nodes
    BY <1>1, SortedPlaces DEF byDistance
  <2>. HIDE DEF ring, len
  <2>3. ring \in [1..len -> Nodes]
    BY <2>1, <2>2
  <2>. QED
    BY <2>3, <1>1
<1>3. closest = SubSeq(ring, 1, l)
  BY <1>2 DEF FindKClosestNodes
<1>4. closest \in Seq(Nodes) /\ Len(closest) = l /\ \A i \in 1..l : closest[i] = ring[i]
  <2>. HIDE DEF ring, len, l, closest
  <2>. QED
    BY <1>1, <1>2, <1>3
<1>5. Range(closest) = {ring[i] : i \in 1..l}
  <2>. HIDE DEF ring, l, closest
  <2>. QED
    BY <1>4 DEF Range
<1>6. ASSUME NEW i \in 1..l
      PROVE  ring[i] \in view \cup {self} /\ Before(self, view, key, ring[i]) < k
  <2>1. i \in 1..len /\ i <= k
    BY <1>1
  <2>2. ring[i] \in view \cup {self} /\ Before(self, view, key, ring[i]) < i
    BY <1>1, <2>1, SortedPlaces DEF byDistance
  <2>3. Before(self, view, key, ring[i]) \in Nat
    BY <1>1, <2>2, CountsOrdered
  <2>. QED
    BY <2>1, <2>2, <2>3
<1>7. ASSUME NEW m \in view \cup {self}, Before(self, view, key, m) < k
      PROVE  \E i \in 1..l : m = ring[i]
  <2>. DEFINE i == Before(self, view, key, m) + 1
  <2>1. /\ Before(self, view, key, m) \in Nat /\ UpTo(self, view, key, m) \in Nat
        /\ Before(self, view, key, m) < UpTo(self, view, key, m)
        /\ UpTo(self, view, key, m) <= len
    BY <1>1, CountsOrdered
  <2>2. i \in 1..len /\ i \in 1..l /\ Before(self, view, key, m) < i /\ i <= UpTo(self, view, key, m)
    BY <1>1, <1>7, <2>1
  <2>3. m = ring[i]
    BY <1>1, <2>2, SortedPlaces DEF byDistance
  <2>. QED
    BY <2>2, <2>3
<1>. QED
  BY <1>4, <1>5, <1>6, <1>7

-----------------------------------------------------------------------------
\* The ring walked from a task.

\* The entries of a ring for two disjoint sets of nodes add up.
LEMMA EntriesAdd ==
    ASSUME NEW self \in Nodes, NEW view \in SUBSET Nodes, NEW S, NEW T, NEW U,
           U = S \cup T, S \cap T = {}
    PROVE  Entries(self, view, U) = Entries(self, view, S) + Entries(self, view, T)
<1>. DEFINE V == view \cap S
            W == view \cap T
<1>1. IsFiniteSet(V) /\ IsFiniteSet(W)
  BY FS_Subset, RingAssumption
<1>2. view \cap U = V \cup W /\ V \cap W = {}
  OBVIOUS
<1>. HIDE DEF V, W
<1>3. Cardinality(V \cup W) = Cardinality(V) + Cardinality(W) - Cardinality(V \cap W)
  BY <1>1, FS_Union
<1>4. Cardinality(V) \in Nat /\ Cardinality(W) \in Nat /\ Cardinality(V \cap W) = 0
  <2>1. Cardinality(V) \in Nat /\ Cardinality(W) \in Nat
    BY <1>1, FS_CardinalityType
  <2>2. Cardinality({}) = 0
    BY FS_EmptySet
  <2>. QED
    BY <1>2, <2>1, <2>2, Zenon
<1>5. Cardinality(view \cap U) = Cardinality(V) + Cardinality(W)
  <2>1. Cardinality(view \cap U) = Cardinality(V) + Cardinality(W) - 0
    BY <1>2, <1>3, <1>4, Zenon
  <2>. QED
    BY <2>1, <1>4
<1>6. /\ self \in U <=> self \in S \/ self \in T
      /\ ~(self \in S /\ self \in T)
  OBVIOUS
<1>. QED
  BY <1>4, <1>5, <1>6 DEF Entries, V, W

\* The nodes before the task.
Behind(task) == {q \in Nodes : Position[q] < task}

\* The counts of node p in the order of key, and in the order of positions,
\* when a is the number of entries for A, the nodes before the task.
Turned(self, view, p, key, A, a) ==
    /\ p \in A => /\ Before(self, view, key, p)
                        = Before(self, view, Position, p) + ((Cardinality(view) + 1) - a)
                  /\ UpTo(self, view, key, p)
                        = UpTo(self, view, Position, p) + ((Cardinality(view) + 1) - a)
    /\ p \notin A => /\ Before(self, view, key, p) = Before(self, view, Position, p) + (0 - a)
                     /\ UpTo(self, view, key, p) = UpTo(self, view, Position, p) + (0 - a)

\* Distance from the task turns the order of positions: the nodes at or after
\* the task come first, the others follow.
LEMMA OrderTurned ==
    ASSUME NEW self \in Nodes, NEW view \in SUBSET Nodes, NEW task \in Positions,
           NEW p \in view \cup {self}
    PROVE  Turned(self, view, p, DistanceFrom(task), Behind(task),
                  Entries(self, view, Behind(task)))
<1>. SUFFICES ASSUME NEW key, key = DistanceFrom(task),
                     NEW A, A = Behind(task),
                     NEW a, a = Entries(self, view, A)
              PROVE  Turned(self, view, p, key, A, a)
  BY Zenon
<1>. DEFINE B == Nodes \ A
            Lower(k) == {q \in Nodes : k[q] < k[p]}
            Upper(k) == {q \in Nodes : k[q] <= k[p]}
<1>1. p \in Nodes /\ A \subseteq Nodes /\ B \subseteq Nodes
  BY DEF Behind
<1>2. /\ RingPositions \in Nat /\ task \in 0..(RingPositions - 1)
      /\ \A q \in Nodes : Position[q] \in 0..(RingPositions - 1)
  BY RingAssumption DEF Positions
<1>3. \A q \in Nodes :
         key[q] = IF q \in A THEN Position[q] - task + RingPositions ELSE Position[q] - task
  BY <1>2 DEF DistanceFrom, Distance, Behind
<1>4. \A q \in Nodes : q \in A <=> Position[q] < task
  BY DEF Behind
<1>5. /\ a \in Nat /\ Entries(self, view, B) \in Nat
      /\ a + Entries(self, view, B) = Cardinality(view) + 1
  <2>1. A \cup B = Nodes /\ A \cap B = {}
    BY <1>1
  <2>2. Entries(self, view, A \cup B) = a + Entries(self, view, B)
    <3>. HIDE DEF B
    <3>. QED
      BY <2>1, EntriesAdd
  <2>3. a \in Nat /\ Entries(self, view, B) \in Nat
    BY <1>1, EntriesGrow
  <2>. QED
    BY <2>1, <2>2, <2>3, EntriesOfRing
<1>6. /\ Entries(self, view, Lower(Position)) \in Nat
      /\ Entries(self, view, Upper(Position)) \in Nat
      /\ Entries(self, view, Lower(key)) \in Nat
      /\ Entries(self, view, Upper(key)) \in Nat
  <2>1. \A S \in SUBSET Nodes : Entries(self, view, S) \in Nat
    BY EntriesGrow
  <2>. QED
    BY <2>1, Zenon
<1>7. ASSUME p \in A
      PROVE  /\ Entries(self, view, Lower(key))
                   = Entries(self, view, Lower(Position)) + ((Cardinality(view) + 1) - a)
             /\ Entries(self, view, Upper(key))
                   = Entries(self, view, Upper(Position)) + ((Cardinality(view) + 1) - a)
  <2>1. /\ Lower(key) = B \cup Lower(Position) /\ B \cap Lower(Position) = {}
        /\ Upper(key) = B \cup Upper(Position) /\ B \cap Upper(Position) = {}
    BY <1>1, <1>2, <1>3, <1>4, <1>7
  <2>2. /\ Entries(self, view, Lower(key))
              = Entries(self, view, B) + Entries(self, view, Lower(Position))
        /\ Entries(self, view, Upper(key))
              = Entries(self, view, B) + Entries(self, view, Upper(Position))
    <3>. HIDE DEF B, Lower, Upper
    <3>. QED
      BY <2>1, EntriesAdd
  <2>3. Cardinality(view) \in Nat
    BY EntriesOfRing
  <2>. HIDE DEF B, Lower, Upper
  <2>. QED
    BY <1>5, <1>6, <2>2, <2>3
<1>8. ASSUME p \notin A
      PROVE  /\ Entries(self, view, Lower(key)) = Entries(self, view, Lower(Position)) + (0 - a)
             /\ Entries(self, view, Upper(key)) = Entries(self, view, Upper(Position)) + (0 - a)
  <2>1. /\ Lower(Position) = A \cup Lower(key) /\ A \cap Lower(key) = {}
        /\ Upper(Position) = A \cup Upper(key) /\ A \cap Upper(key) = {}
    BY <1>1, <1>2, <1>3, <1>4, <1>8
  <2>2. /\ Entries(self, view, Lower(Position)) = a + Entries(self, view, Lower(key))
        /\ Entries(self, view, Upper(Position)) = a + Entries(self, view, Upper(key))
    <3>. HIDE DEF B, Lower, Upper
    <3>. QED
      BY <2>1, EntriesAdd
  <2>. HIDE DEF B, Lower, Upper
  <2>. QED
    BY <1>5, <1>6, <2>2
<1>9. /\ Before(self, view, key, p) = Entries(self, view, Lower(key))
      /\ UpTo(self, view, key, p) = Entries(self, view, Upper(key))
      /\ Before(self, view, Position, p) = Entries(self, view, Lower(Position))
      /\ UpTo(self, view, Position, p) = Entries(self, view, Upper(Position))
  BY Zenon DEF Before, UpTo
<1>. HIDE DEF Lower, Upper
<1>. QED
  BY <1>7, <1>8, <1>9, Zenon DEF Turned

\* Remainders below the divisor and below twice the divisor.
LEMMA SmallRemainders ==
    ASSUME NEW m \in Nat \ {0}, NEW x \in Nat
    PROVE  /\ x < m => x % m = x
           /\ m <= x /\ x < m + m => x % m = x - m
<1>1. x < m => x % m = x
  OBVIOUS
<1>2. ASSUME m <= x, x < m + m PROVE x % m = x - m
  <2>1. /\ x = m * (x \div m) + (x % m)
        /\ x \div m \in Int /\ x % m \in 0..(m - 1)
    OBVIOUS
  <2>2. PICK d \in Int : x = m * d + (x % m)
    BY <2>1
  <2>3. m * d > 0 /\ m * d < m + m
    BY <2>1, <2>2, <1>2
  <2>4. d > 0
    BY <2>3
  <2>5. d < 2
    BY <2>3
  <2>6. d = 1
    BY <2>4, <2>5
  <2>. QED
    BY <2>1, <2>2, <2>6
<1>. QED
  BY <1>1, <1>2

\* The node at each place of the ring sorted by distance is found on the ring
\* sorted by position, as many places further as there are entries before the
\* task; the first of them is the one FindClosestNode finds.
LEMMA Walked ==
    ASSUME NEW self \in Nodes, NEW view \in SUBSET Nodes, NEW task \in Positions
    PROVE  WalkedFrom(self, view, task)
<1>. DEFINE key == DistanceFrom(task)
            ring == rebuildRing(self, view)
            closest == byDistance(self, view, task)
            N == Cardinality(view) + 1
            a == Entries(self, view, Behind(task))
            shift == IF a = N THEN 0 ELSE a
            place(i) == 1 + ((i - 1 + shift) % N)
<1>1. IsKey(Position) /\ IsKey(key)
  BY Keys
<1>2. N \in Nat \ {0} /\ a \in 0..N /\ shift \in 0..(N - 1)
  <2>1. Behind(task) \in SUBSET Nodes
    BY DEF Behind
  <2>2. a \in Nat /\ a <= Entries(self, view, Nodes)
    BY <2>1, EntriesGrow
  <2>. QED
    BY <2>2, EntriesOfRing
<1>3. ring = [i \in 1..N |-> ring[i]] /\ DOMAIN ring = 1..N /\ Len(ring) = N
  <2>1. ring = [i \in 1..N |-> ring[i]]
    BY DEF rebuildRing, Sorted
  <2>. HIDE DEF ring, N
  <2>. QED
    BY <1>2, <2>1
<1>4. ASSUME NEW i \in 1..N
      PROVE  /\ ring[i] \in view \cup {self}
             /\ \A p \in view \cup {self} :
                   p = ring[i] <=>
                      Before(self, view, Position, p) < i /\ i <= UpTo(self, view, Position, p)
  BY <1>1, SortedPlaces, Zenon DEF rebuildRing
<1>5. ASSUME NEW i \in 1..N
      PROVE  /\ closest[i] \in view \cup {self}
             /\ Before(self, view, key, closest[i]) < i
             /\ i <= UpTo(self, view, key, closest[i])
  BY <1>1, SortedPlaces DEF byDistance
<1>6. ASSUME NEW p \in view \cup {self}
      PROVE  /\ Before(self, view, Position, p) \in Nat /\ UpTo(self, view, Position, p) \in Nat
             /\ UpTo(self, view, Position, p) <= N
             /\ p \in Behind(task) => UpTo(self, view, Position, p) <= a
             /\ p \notin Behind(task) => a <= Before(self, view, Position, p)
             /\ p \in Behind(task) =>
                   /\ Before(self, view, key, p) = Before(self, view, Position, p) + (N - a)
                   /\ UpTo(self, view, key, p) = UpTo(self, view, Position, p) + (N - a)
             /\ p \notin Behind(task) =>
                   /\ Before(self, view, key, p) = Before(self, view, Position, p) + (0 - a)
                   /\ UpTo(self, view, key, p) = UpTo(self, view, Position, p) + (0 - a)
  <2>1. /\ Before(self, view, Position, p) \in Nat /\ UpTo(self, view, Position, p) \in Nat
        /\ UpTo(self, view, Position, p) <= N
    BY <1>1, CountsOrdered
  <2>2. \A q \in Nodes : Position[q] \in Nat
    BY RingAssumption DEF Positions
  <2>3. p \in Nodes /\ task \in Nat
    BY RingAssumption DEF Positions
  <2>4. ASSUME p \in Behind(task) PROVE UpTo(self, view, Position, p) <= a
    <3>1. {q \in Nodes : Position[q] <= Position[p]} \in SUBSET Behind(task)
      BY <2>2, <2>3, <2>4 DEF Behind
    <3>. QED
      BY <3>1, EntriesGrow DEF UpTo
  <2>5. ASSUME p \notin Behind(task) PROVE a <= Before(self, view, Position, p)
    <3>1. Behind(task) \in SUBSET {q \in Nodes : Position[q] < Position[p]}
      BY <2>2, <2>3, <2>5 DEF Behind
    <3>. QED
      BY <3>1, EntriesGrow DEF Before
  <2>6. /\ p \in Behind(task) =>
              /\ Before(self, view, key, p) = Before(self, view, Position, p) + (N - a)
              /\ UpTo(self, view, key, p) = UpTo(self, view, Position, p) + (N - a)
        /\ p \notin Behind(task) =>
              /\ Before(self, view, key, p) = Before(self, view, Position, p) + (0 - a)
              /\ UpTo(self, view, key, p) = UpTo(self, view, Position, p) + (0 - a)
    <3>1. Turned(self, view, p, key, Behind(task), a)
      BY OrderTurned, Zenon
    <3>. HIDE DEF key, a
    <3>. QED
      BY <3>1, Zenon DEF Turned
  <2>. QED
    BY <2>1, <2>4, <2>5, <2>6, Zenon
<1>. HIDE DEF key, ring, closest, N, a
<1>7. ASSUME NEW i \in 1..N
      PROVE  closest[i] = ring[place(i)]
  <2>. DEFINE p == closest[i]
              j == IF p \in Behind(task) THEN i + a - N ELSE i + a
  <2>1. p \in view \cup {self} /\ Before(self, view, key, p) < i /\ i <= UpTo(self, view, key, p)
    BY <1>5
  <2>. HIDE DEF p
  <2>2. PICK b \in Nat, u \in Nat :
           /\ b = Before(self, view, Position, p) /\ u = UpTo(self, view, Position, p)
           /\ u <= N
           /\ p \in Behind(task) => u <= a /\ b + (N - a) < i /\ i <= u + (N - a)
           /\ p \notin Behind(task) => a <= b /\ b + (0 - a) < i /\ i <= u + (0 - a)
    BY <2>1, <1>6, Zenon
  <2>3. j \in 1..N /\ b < j /\ j <= u
    BY <1>2, <2>2
  <2>4. p = ring[j]
    BY <1>4, <2>1, <2>2, <2>3
  <2>5. place(i) = j
    <3>1. i - 1 + shift \in Nat
      BY <1>2
    <3>2. CASE p \in Behind(task)
      <4>1. IF a = N THEN i - 1 + shift = j - 1 ELSE i - 1 + shift = j - 1 + N
        BY <1>2, <3>2
      <4>2. (i - 1 + shift) % N = j - 1
        <5>1. CASE a = N
          <6>. DEFINE x == i - 1 + shift
          <6>1. x \in Nat /\ x < N /\ x = j - 1
            BY <4>1, <5>1, <1>2, <2>3, <3>1
          <6>. HIDE DEF x
          <6>2. x % N = x
            BY <6>1, <1>2, SmallRemainders
          <6>. QED
            BY <6>1, <6>2 DEF x
        <5>2. CASE a # N
          <6>. DEFINE x == i - 1 + shift
          <6>1. x \in Nat /\ N <= x /\ x < N + N /\ x - N = j - 1
            BY <4>1, <5>2, <1>2, <2>3, <3>1
          <6>. HIDE DEF x
          <6>2. x % N = x - N
            BY <6>1, <1>2, SmallRemainders
          <6>. QED
            BY <6>1, <6>2 DEF x
        <5>. QED
          BY <5>1, <5>2
      <4>. QED
        BY <4>2, <1>2, <2>3
    <3>3. CASE p \notin Behind(task)
      <4>1. a # N /\ i - 1 + shift = j - 1
        BY <1>2, <2>2, <2>3, <3>3
      <4>2. (i - 1 + shift) % N = j - 1
        <5>. DEFINE x == i - 1 + shift
        <5>1. x \in Nat /\ x < N /\ x = j - 1
          BY <4>1, <1>2, <2>3, <3>1
        <5>. HIDE DEF x
        <5>2. x % N = x
          BY <5>1, <1>2, SmallRemainders
        <5>. QED
          BY <5>1, <5>2 DEF x
      <4>. QED
        BY <4>2, <1>2, <2>3
    <3>. QED
      BY <3>2, <3>3
  <2>. QED
    BY <2>4, <2>5 DEF p
<1>8. ASSUME NEW i \in 1..N
      PROVE  Position[ring[i]] >= task <=> a < i
  <2>1. ring[i] \in view \cup {self}
    BY <1>4
  <2>2. PICK p \in view \cup {self} : p = ring[i]
    BY <2>1
  <2>3. Before(self, view, Position, p) < i /\ i <= UpTo(self, view, Position, p)
    BY <2>2, <1>4
  <2>4. p \in Nodes /\ Position[p] \in Int /\ task \in Int
    BY <2>2, RingAssumption DEF Positions
  <2>5. p \in Behind(task) <=> Position[p] < task
    BY <2>4 DEF Behind
  <2>6. PICK b \in Nat, u \in Nat :
           /\ b < i /\ i <= u
           /\ p \in Behind(task) => u <= a
           /\ p \notin Behind(task) => a <= b
    BY <2>3, <1>6, Zenon
  <2>7. p \notin Behind(task) <=> a < i
    BY <1>2, <2>6
  <2>. QED
    BY <2>2, <2>4, <2>5, <2>7
<1>9. closest[1] = FindClosestNode(self, view, task)
  <2>. DEFINE after == {i \in DOMAIN ring : Position[ring[i]] >= task}
  <2>1. after = {i \in 1..N : a < i}
    BY <1>3, <1>8
  <2>2. 1 \in 1..N /\ closest[1] = ring[place(1)]
    BY <1>2, <1>7
  <2>3. place(1) = shift + 1
    <3>1. shift \in Nat /\ shift < N /\ 1 - 1 + shift = shift
      BY <1>2
    <3>2. shift % N = shift
      <4>. HIDE DEF shift
      <4>. QED
        BY <3>1, <1>2, SmallRemainders
    <3>. HIDE DEF shift
    <3>. QED
      BY <3>1, <3>2
  <2>4. FindClosestNode(self, view, task)
           = IF after = {} THEN ring[1]
             ELSE ring[CHOOSE i \in after : \A j \in after : i <= j]
    BY DEF FindClosestNode, ring
  <2>. HIDE DEF after, place, shift
  <2>5. CASE a = N
    <3>1. after = {} /\ shift = 0
      BY <2>1, <2>5, <1>2 DEF shift
    <3>. QED
      BY <2>2, <2>3, <2>4, <3>1
  <2>6. CASE a # N
    <3>1. shift + 1 \in after /\ \A j \in after : shift + 1 <= j
      BY <2>1, <2>6, <1>2 DEF shift
    <3>2. \A i \in after : (\A j \in after : i <= j) => i = shift + 1
      BY <2>1, <3>1, <1>2
    <3>3. (CHOOSE i \in after : \A j \in after : i <= j) = shift + 1
      BY <3>1, <3>2
    <3>. QED
      BY <2>2, <2>3, <2>4, <3>1, <3>3
  <2>. QED
    BY <2>5, <2>6
<1>10. \E s \in 0..(Len(ring) - 1) :
         \A i \in DOMAIN ring : closest[i] = ring[1 + ((i - 1 + s) % Len(ring))]
  <2>1. shift \in 0..(Len(ring) - 1)
    BY <1>2, <1>3
  <2>2. \A i \in DOMAIN ring : closest[i] = ring[1 + ((i - 1 + shift) % Len(ring))]
    BY <1>3, <1>7, Zenon
  <2>. QED
    BY <2>1, <2>2, Zenon
<1>. QED
  BY <1>9, <1>10, Zenon DEF WalkedFrom, ring, closest

\* The k closest nodes, sorted by Distance, are a clockwise walk of the sorted
\* ring from the node that FindClosestNode finds, for every ring, every set of
\* peers that AddPeer and RemovePeer leave and every task.
THEOREM ClosestAreConsecutive == ViewSpec => []ClosestIsWalk
<1>. DEFINE Known == ringPeers \subseteq Nodes
<1>1. ViewInit => Known
  BY DEF ViewInit
<1>2. Known /\ [ViewNext]_ringPeers => Known'
  BY DEF ViewNext, Learn, Forget
<1>3. Known => ClosestIsWalk
  BY Walked DEF ClosestIsWalk
<1>. QED
  BY <1>1, <1>2, <1>3, PTL DEF ViewSpec

-----------------------------------------------------------------------------
\* Store and Find.

\* What a Store or Find in progress may hold.
Ops ==
    [pc : {"idle", "next", "sent", "replied", "done"}, kind : {"store", "find", None},
     queue : Seq(Nodes), attempted : SUBSET Nodes, target : Nodes \cup {None},
     reply : Seq(Nodes),
     answer : {"OK", "NOT_RESPONSIBLE", "FOUND", "NOTFOUND", None},
     ok : SUBSET Nodes, want : SUBSET Nodes, failed : BOOLEAN, refused : BOOLEAN]

\* What the phase of an operation fixes.
Phase(n, o) ==
    /\ o.pc # "idle" => o.kind \in {"store", "find"}
    /\ o.pc \in {"sent", "replied"} => o.target \in Nodes \ {n}
    /\ o.pc = "replied" =>
          o.answer \in IF o.kind = "store" THEN {"OK", "NOT_RESPONSIBLE"}
                       ELSE {"FOUND", "NOTFOUND"}
    /\ o.kind = "find" /\ o.pc # "done" => n \in o.attempted

\* What a Store without a failed call and without a refusal has stored and has
\* yet to store.
Copying(o) ==
    o.kind = "store" /\ ~o.failed /\ ~o.refused =>
        /\ o.pc = "done" => o.want \subseteq o.ok
        /\ o.pc \in {"next", "sent", "replied"} =>
              /\ o.want \subseteq o.attempted \cup Range(o.queue)
              /\ o.attempted \subseteq
                    o.ok \cup IF o.pc = "next" THEN {} ELSE {o.target}

\* What is true of every operation.
OpKept(n, o) == o \in Ops /\ Phase(n, o) /\ Copying(o)

\* The k closest nodes of those that are up.
Nearest ==
    {m \in up : Cardinality({q \in up : DistanceFrom(Task)[q] < DistanceFrom(Task)[m]})
                   < ReplicationFactor}

-----------------------------------------------------------------------------
\* What the views say when they agree.

\* The k closest nodes in any view.
LEMMA ClosestTyped ==
    ASSUME NEW n \in Nodes, NEW view \in SUBSET Nodes
    PROVE  /\ Closest[n][view] \in Seq(Nodes)
           /\ \A m : m \in Range(Closest[n][view]) <=>
                    /\ m \in view \cup {n}
                    /\ Before(n, view, DistanceFrom(Task), m) < ReplicationFactor
<1>1. Task \in Positions /\ ReplicationFactor \in Nat \ {0}
  BY DHTAssumption
<1>2. Closest[n][view] = FindKClosestNodes(n, view, Task, ReplicationFactor)
  BY DEF Closest
<1>3. /\ FindKClosestNodes(n, view, Task, ReplicationFactor) \in Seq(Nodes)
      /\ \A m : m \in Range(FindKClosestNodes(n, view, Task, ReplicationFactor)) <=>
                    /\ m \in view \cup {n}
                    /\ Before(n, view, DistanceFrom(Task), m) < ReplicationFactor
  BY <1>1, KClosestNodes, Zenon
<1>. QED
  BY <1>2, <1>3, Zenon

\* The k closest nodes in a view with all nodes that are up are the k closest
\* of those, but for the farthest when the node lists itself; whether it is
\* one of them does not depend on that.
LEMMA ViewOfNearest ==
    ASSUME up \subseteq Nodes, NEW n \in up, NEW view \in SUBSET Nodes,
           view \ {n} = up \ {n}
    PROVE  /\ Closest[n][view] \in Seq(Nodes)
           /\ Range(Closest[n][view]) \subseteq Nearest
           /\ n \notin view => Nearest \subseteq Range(Closest[n][view])
           /\ AmIIn(n, view) <=> n \in Nearest
           /\ Responsible(n, view) <=> n \in Nearest
<1>. DEFINE key == DistanceFrom(Task)
            Lower(m) == {q \in Nodes : key[q] < key[m]}
            first == Range(Closest[n][view])
<1>1. /\ Closest[n][view] \in Seq(Nodes)
      /\ \A m : m \in first <=>
               m \in view \cup {n} /\ Before(n, view, key, m) < ReplicationFactor
  BY ClosestTyped
<1>2. view \cup {n} = up
  OBVIOUS
<1>3. Nearest = {m \in up : Cardinality(up \cap Lower(m)) < ReplicationFactor}
  <2>1. \A m \in up : {q \in up : key[q] < key[m]} = up \cap Lower(m)
    OBVIOUS
  <2>. QED
    BY <2>1 DEF Nearest
<1>4. ASSUME NEW m \in up
      PROVE  /\ Before(n, view, key, m) \in Nat /\ Cardinality(up \cap Lower(m)) \in Nat
             /\ Cardinality(up \cap Lower(m)) <= Before(n, view, key, m)
             /\ n \notin view \/ m = n =>
                   Before(n, view, key, m) = Cardinality(up \cap Lower(m))
  <2>1. IsFiniteSet(view \cap Lower(m)) /\ Cardinality(view \cap Lower(m)) \in Nat
    BY FS_Subset, FS_CardinalityType, RingAssumption
  <2>2. n \in Nodes /\ key \in [Nodes -> Positions]
    BY Keys, DHTAssumption DEF IsKey
  <2>3. CASE n \notin Lower(m)
    <3>1. up \cap Lower(m) = view \cap Lower(m)
      BY <1>2, <2>3
    <3>. QED
      BY <2>1, <2>3, <3>1 DEF Before, Entries
  <2>4. CASE n \in Lower(m) /\ n \in view
    <3>1. up \cap Lower(m) = view \cap Lower(m) /\ m # n
      BY <1>2, <2>2, <2>4, RingAssumption DEF Positions
    <3>. QED
      BY <2>1, <2>4, <3>1 DEF Before, Entries
  <2>5. CASE n \in Lower(m) /\ n \notin view
    <3>1. up \cap Lower(m) = (view \cap Lower(m)) \cup {n}
      BY <1>2, <2>5
    <3>2. Cardinality(up \cap Lower(m)) = Cardinality(view \cap Lower(m)) + 1
      BY <2>1, <2>5, <3>1, FS_AddElement
    <3>. QED
      BY <2>1, <2>5, <3>2 DEF Before, Entries
  <2>. QED
    BY <2>3, <2>4, <2>5
<1>. HIDE DEF key, Lower
<1>5. first \subseteq Nearest
  <2>. SUFFICES ASSUME NEW m \in first PROVE m \in Nearest
    OBVIOUS
  <2>1. m \in up /\ Before(n, view, key, m) < ReplicationFactor
    BY <1>1, <1>2
  <2>2. /\ Before(n, view, key, m) \in Nat /\ Cardinality(up \cap Lower(m)) \in Nat
        /\ Cardinality(up \cap Lower(m)) <= Before(n, view, key, m)
    BY <1>4, <2>1, Zenon
  <2>3. Cardinality(up \cap Lower(m)) < ReplicationFactor
    BY <2>1, <2>2, DHTAssumption
  <2>. QED
    BY <1>3, <2>1, <2>3
<1>6. n \notin view => Nearest \subseteq first
  BY <1>1, <1>2, <1>3, <1>4, DHTAssumption
<1>7. AmIIn(n, view) <=> n \in Nearest
  BY <1>1, <1>2, <1>3, <1>4, DHTAssumption DEF AmIIn
<1>8. Cardinality(view) + 1 <= ReplicationFactor => n \in Nearest
  <2>1. /\ Before(n, view, key, n) < UpTo(n, view, key, n)
        /\ Before(n, view, key, n) \in Nat /\ UpTo(n, view, key, n) \in Nat
        /\ UpTo(n, view, key, n) <= Cardinality(view) + 1
    BY CountsOrdered, Keys, DHTAssumption, Zenon DEF key
  <2>2. Cardinality(view) \in Nat
    BY EntriesOfRing
  <2>. QED
    BY <1>3, <1>4, <2>1, <2>2, DHTAssumption
<1>. QED
  BY <1>1, <1>5, <1>6, <1>7, <1>8 DEF Responsible

-----------------------------------------------------------------------------
\* The loop over the queue.

\* NextUp is 0 when all of the queue was attempted; else all before it was.
LEMMA NextUpIs ==
    ASSUME NEW o \in Ops
    PROVE  /\ NextUp(o) = 0 => Range(o.queue) \subseteq o.attempted
           /\ NextUp(o) # 0 => /\ NextUp(o) \in 1..Len(o.queue)
                               /\ o.queue[NextUp(o)] \in Nodes \ o.attempted
                               /\ \A j \in 1..Len(o.queue) :
                                     j < NextUp(o) => o.queue[j] \in o.attempted
<1>. DEFINE untried == {j \in DOMAIN o.queue : o.queue[j] \notin o.attempted}
<1>1. o.queue \in Seq(Nodes)
  BY DEF Ops
<1>2. /\ DOMAIN o.queue = 1..Len(o.queue) /\ Len(o.queue) \in Nat
      /\ \A j \in 1..Len(o.queue) : o.queue[j] \in Nodes
  BY <1>1
<1>3. CASE untried = {}
  <2>1. NextUp(o) = 0
    BY <1>3 DEF NextUp
  <2>. QED
    BY <1>3, <2>1 DEF Range
<1>4. CASE untried # {}
  <2>1. untried \subseteq Nat
    BY <1>2
  <2>2. \E x \in untried : \A y \in untried : x <= y
    BY <1>4, <2>1, HasLeast, Zenon
  <2>3. NextUp(o) \in untried /\ \A y \in untried : NextUp(o) <= y
    BY <1>4, <2>2 DEF NextUp, Min
  <2>4. NextUp(o) # 0
    BY <1>2, <2>3
  <2>5. ASSUME NEW j \in 1..Len(o.queue), j < NextUp(o) PROVE o.queue[j] \in o.attempted
    <3>. SUFFICES ASSUME o.queue[j] \notin o.attempted PROVE FALSE
      OBVIOUS
    <3>1. j \in untried
      BY <1>2
    <3>. QED
      BY <1>2, <2>3, <2>5, <3>1
  <2>. QED
    BY <1>2, <2>3, <2>4, <2>5
<1>. QED
  BY <1>3, <1>4

\* What is left of a queue after the i-th node was taken.
LEMMA RestOfQueue ==
    ASSUME NEW q \in Seq(Nodes), NEW i \in 1..Len(q)
    PROVE  /\ SubSeq(q, i + 1, Len(q)) \in Seq(Nodes)
           /\ Range(SubSeq(q, i + 1, Len(q))) \subseteq Range(q)
           /\ \A j \in 1..Len(q) : j <= i \/ q[j] \in Range(SubSeq(q, i + 1, Len(q)))
<1>. DEFINE rest == SubSeq(q, i + 1, Len(q))
<1>1. /\ rest \in Seq(Nodes) /\ Len(rest) = Len(q) - i
      /\ \A j \in 1..(Len(q) - i) : rest[j] = q[i + j]
  <2>1. Len(q) \in Nat /\ i + 1 \in 1..(Len(q) + 1)
    OBVIOUS
  <2>. QED
    BY <2>1
<1>2. DOMAIN rest = 1..(Len(q) - i) /\ DOMAIN q = 1..Len(q) /\ Len(q) \in Nat
  BY <1>1
<1>. HIDE DEF rest
<1>3. Range(rest) \subseteq Range(q)
  <2>. SUFFICES ASSUME NEW j \in DOMAIN rest PROVE rest[j] \in Range(q)
    BY DEF Range
  <2>1. rest[j] = q[i + j] /\ i + j \in DOMAIN q
    BY <1>1, <1>2
  <2>. QED
    BY <2>1 DEF Range
<1>4. ASSUME NEW j \in 1..Len(q), ~(j <= i) PROVE q[j] \in Range(rest)
  <2>1. j - i \in DOMAIN rest /\ rest[j - i] = q[j]
    BY <1>1, <1>2, <1>4
  <2>. QED
    BY <2>1 DEF Range
<1>. QED
  BY <1>1, <1>3, <1>4 DEF rest

\* The same for the queue of an operation.
LEMMA Taken ==
    ASSUME NEW o \in Ops, NEW i, i = NextUp(o), i # 0
    PROVE  /\ o.queue[i] \in Nodes \ o.attempted /\ o.queue[i] \in Range(o.queue)
           /\ SubSeq(o.queue, i + 1, Len(o.queue)) \in Seq(Nodes)
           /\ Range(SubSeq(o.queue, i + 1, Len(o.queue))) \subseteq Range(o.queue)
           /\ Range(o.queue) \subseteq Range(SubSeq(o.queue, i + 1, Len(o.queue)))
                                      \cup o.attempted \cup {o.queue[i]}
<1>. DEFINE q == o.queue
            rest == SubSeq(q, i + 1, Len(q))
<1>1. /\ q \in Seq(Nodes) /\ i \in 1..Len(q) /\ q[i] \in Nodes \ o.attempted
      /\ \A j \in 1..Len(q) : j < i => q[j] \in o.attempted
  BY NextUpIs DEF Ops
<1>2. /\ rest \in Seq(Nodes) /\ Range(rest) \subseteq Range(q)
      /\ \A j \in 1..Len(q) : j <= i \/ q[j] \in Range(rest)
  BY <1>1, RestOfQueue
<1>3. DOMAIN q = 1..Len(q) /\ Len(q) \in Nat
  BY <1>1
<1>. HIDE DEF q, rest
<1>4. \A j \in DOMAIN q : q[j] \in Range(rest) \cup o.attempted \cup {q[i]}
  <2>. SUFFICES ASSUME NEW j \in 1..Len(q), q[j] \notin Range(rest), j # i
                PROVE  q[j] \in o.attempted
    BY <1>3
  <2>1. j <= i
    BY <1>2
  <2>2. j < i
    BY <1>1, <1>3, <2>1
  <2>. QED
    BY <1>1, <2>2
<1>5. q[i] \in Range(q) /\ Range(q) \subseteq Range(rest) \cup o.attempted \cup {q[i]}
  BY <1>1, <1>3, <1>4 DEF Range
<1>. QED
  BY <1>1, <1>2, <1>5 DEF q, rest

\* Only nodes that were suggested are queued.
LEMMA CloserNodes ==
    ASSUME NEW o \in Ops
    PROVE  /\ Closer(o) \in Seq(Nodes)
           /\ Range(Closer(o)) \subseteq Range(o.reply)
           /\ o.queue \o Closer(o) \in Seq(Nodes)
           /\ Range(o.queue \o Closer(o)) = Range(o.queue) \cup Range(Closer(o))
<1>. DEFINE keep == {i \in DOMAIN o.reply :
                       /\ o.reply[i] \notin o.attempted
                       /\ Distance(Task, Position[o.reply[i]]) < getFarthestDistance(o.attempted)}
            c == Closer(o)
            q == o.queue
            s == o.reply
<1>1. s \in Seq(Nodes) /\ q \in Seq(Nodes)
  BY DEF Ops
<1>2. keep \in SUBSET DOMAIN s /\ c = Subsequence(s, keep)
  BY DEF Closer
<1>. HIDE DEF keep, c, q, s
<1>3. /\ c \in Seq(Nodes) /\ Len(c) = Cardinality(keep)
      /\ \A k \in 1..Cardinality(keep) : Nth(keep, k) \in keep /\ c[k] = s[Nth(keep, k)]
  BY <1>1, <1>2, SubsequenceProperties
<1>4. Range(c) \subseteq Range(s)
  <2>1. DOMAIN c = 1..Cardinality(keep)
    BY <1>3
  <2>. QED
    BY <1>2, <1>3, <2>1 DEF Range
<1>5. q \o c \in Seq(Nodes)
  BY <1>1, <1>3
<1>6. Range(q \o c) = Range(q) \cup Range(c)
  <2>1. /\ DOMAIN (q \o c) = 1..(Len(q) + Len(c)) /\ DOMAIN q = 1..Len(q) /\ DOMAIN c = 1..Len(c)
        /\ Len(q) \in Nat /\ Len(c) \in Nat
        /\ \A i \in 1..(Len(q) + Len(c)) :
              (q \o c)[i] = IF i <= Len(q) THEN q[i] ELSE c[i - Len(q)]
    BY <1>1, <1>3, SMTT(20)
  <2>2. ASSUME NEW i \in 1..(Len(q) + Len(c)) PROVE (q \o c)[i] \in Range(q) \cup Range(c)
    <3>1. CASE i <= Len(q)
      BY <2>1, <3>1 DEF Range
    <3>2. CASE ~(i <= Len(q))
      <4>1. i - Len(q) \in 1..Len(c)
        BY <2>1, <3>2
      <4>. QED
        BY <2>1, <3>2, <4>1 DEF Range
    <3>. QED
      BY <3>1, <3>2
  <2>3. ASSUME NEW i \in 1..Len(q) PROVE q[i] \in Range(q \o c)
    <3>1. i \in 1..(Len(q) + Len(c)) /\ (q \o c)[i] = q[i]
      BY <2>1
    <3>. QED
      BY <2>1, <3>1, Zenon DEF Range
  <2>4. ASSUME NEW i \in 1..Len(c) PROVE c[i] \in Range(q \o c)
    <3>1. i + Len(q) \in 1..(Len(q) + Len(c)) /\ ~(i + Len(q) <= Len(q)) /\ i + Len(q) - Len(q) = i
      BY <2>1
    <3>2. (q \o c)[i + Len(q)] = c[i]
      BY <2>1, <3>1
    <3>. QED
      BY <2>1, <3>1, <3>2, Zenon DEF Range
  <2>5. Range(q \o c) \subseteq Range(q) \cup Range(c)
    BY <2>1, <2>2, Zenon DEF Range
  <2>6. Range(q) \subseteq Range(q \o c) /\ Range(c) \subseteq Range(q \o c)
    BY <2>1, <2>3, <2>4, Zenon DEF Range
  <2>. QED
    BY <2>5, <2>6
<1>. QED
  BY <1>3, <1>4, <1>5, <1>6 DEF c, q, s

-----------------------------------------------------------------------------
\* One lemma for each change of an operation.

LEMMA KeptNoOp ==
    ASSUME NEW n \in Nodes
    PROVE  OpKept(n, NoOp)
<1>1. <<>> \in Seq(Nodes)
  OBVIOUS
<1>2. NoOp \in Ops
  BY <1>1 DEF NoOp, Ops
<1>. QED
  BY <1>2, DHTAssumption, Zenon DEF OpKept, Phase, Copying, NoOp

LEMMA KeptStartStore ==
    ASSUME NEW n \in Nodes, NEW q \in Seq(Nodes)
    PROVE  OpKept(n, [NoOp EXCEPT !.pc = "next", !.kind = "store", !.queue = q,
                                  !.want = Range(q)])
<1>. DEFINE o == [NoOp EXCEPT !.pc = "next", !.kind = "store", !.queue = q, !.want = Range(q)]
<1>1. Range(q) \subseteq Nodes /\ <<>> \in Seq(Nodes)
  BY DEF Range
<1>2. /\ o.pc = "next" /\ o.kind = "store" /\ o.queue = q /\ o.want = Range(q)
      /\ o.attempted = {} /\ o.ok = {}
  BY DEF NoOp
<1>3. o \in Ops
  BY <1>1, Zenon DEF NoOp, Ops
<1>. HIDE DEF o
<1>4. OpKept(n, o)
  BY <1>2, <1>3 DEF OpKept, Phase, Copying
<1>. QED
  BY <1>4 DEF o

LEMMA KeptStartFind ==
    ASSUME NEW n \in Nodes, NEW q \in Seq(Nodes), NEW pc \in {"next", "done"},
           NEW ok \in SUBSET Nodes
    PROVE  OpKept(n, [NoOp EXCEPT !.pc = pc, !.kind = "find", !.ok = ok,
                                  !.attempted = {n}, !.queue = q])
<1>. DEFINE o == [NoOp EXCEPT !.pc = pc, !.kind = "find", !.ok = ok,
                              !.attempted = {n}, !.queue = q]
<1>1. o.pc = pc /\ o.kind = "find" /\ o.attempted = {n}
  BY DEF NoOp
<1>2. o \in Ops
  BY <<>> \in Seq(Nodes), Zenon DEF NoOp, Ops
<1>. HIDE DEF o
<1>3. OpKept(n, o)
  BY <1>1, <1>2 DEF OpKept, Phase, Copying
<1>. QED
  BY <1>3 DEF o

LEMMA KeptFinish ==
    ASSUME NEW n \in Nodes, NEW o, OpKept(n, o), o.pc = "next", NextUp(o) = 0
    PROVE  OpKept(n, [o EXCEPT !.pc = "done", !.queue = <<>>, !.attempted = {}])
<1>. DEFINE p == [o EXCEPT !.pc = "done", !.queue = <<>>, !.attempted = {}]
<1>1. o \in Ops /\ Phase(n, o) /\ Copying(o)
  BY DEF OpKept
<1>2. p \in Ops
  BY <1>1, <<>> \in Seq(Nodes), Zenon DEF Ops
<1>3. /\ p.pc = "done" /\ p.kind = o.kind /\ p.want = o.want /\ p.ok = o.ok
      /\ p.failed = o.failed /\ p.refused = o.refused
  BY <1>1 DEF Ops
<1>. HIDE DEF p
<1>4. Range(o.queue) \subseteq o.attempted
  BY <1>1, NextUpIs
<1>5. Copying(p)
  BY <1>1, <1>3, <1>4, Zenon DEF Copying
<1>6. OpKept(n, p)
  BY <1>1, <1>2, <1>3, <1>5 DEF OpKept, Phase
<1>. QED
  BY <1>6 DEF p

LEMMA KeptAttempt ==
    ASSUME NEW n \in Nodes, NEW o, OpKept(n, o), o.pc = "next", NEW i, i = NextUp(o), i # 0,
           NEW m, m = o.queue[i]
    PROVE  /\ m = n => o.kind = "store"
           /\ OpKept(n, [o EXCEPT
                  !.queue = SubSeq(o.queue, i + 1, Len(o.queue)),
                  !.attempted = @ \cup {m},
                  !.pc = IF m = n THEN "next" ELSE "sent",
                  !.target = IF m = n THEN None ELSE m,
                  !.ok = IF m = n THEN @ \cup {n} ELSE @])
<1>. DEFINE rest == SubSeq(o.queue, i + 1, Len(o.queue))
            attempted == o.attempted \cup {m}
            pc == IF m = n THEN "next" ELSE "sent"
            target == IF m = n THEN None ELSE m
            ok == IF m = n THEN o.ok \cup {n} ELSE o.ok
            left == [o EXCEPT !.queue = rest, !.attempted = attempted]
            p == [left EXCEPT !.pc = pc, !.target = target, !.ok = ok]
<1>1. o \in Ops /\ Phase(n, o) /\ Copying(o)
  BY DEF OpKept
<1>2. /\ m \in Nodes \ o.attempted /\ rest \in Seq(Nodes)
      /\ Range(o.queue) \subseteq Range(rest) \cup o.attempted \cup {m}
  BY <1>1, Taken
<1>3. m = n => o.kind = "store"
  BY <1>1, <1>2 DEF Phase
<1>4. /\ attempted \in SUBSET Nodes /\ ok \in SUBSET Nodes /\ target \in Nodes \cup {None}
      /\ pc \in {"next", "sent"}
      /\ pc = "sent" => target = m /\ m # n
      /\ pc = "next" => m = n
  BY <1>1, <1>2 DEF Ops
<1>5. o.kind = "store" /\ ~o.failed /\ ~o.refused =>
         /\ o.want \subseteq attempted \cup Range(rest)
         /\ attempted \subseteq ok \cup IF pc = "next" THEN {} ELSE {target}
  <2>. SUFFICES ASSUME o.kind = "store", ~o.failed, ~o.refused
                PROVE  /\ o.want \subseteq attempted \cup Range(rest)
                       /\ attempted \subseteq ok \cup IF pc = "next" THEN {} ELSE {target}
    OBVIOUS
  <2>1. o.want \subseteq o.attempted \cup Range(o.queue) /\ o.attempted \subseteq o.ok
    BY <1>1 DEF Copying
  <2>2. o.want \subseteq attempted \cup Range(rest)
    BY <1>2, <2>1
  <2>3. CASE m = n
    BY <2>1, <2>2, <2>3
  <2>4. CASE m # n
    BY <2>1, <2>2, <2>4
  <2>. QED
    BY <2>3, <2>4
<1>6. n \in o.attempted => n \in attempted
  OBVIOUS
<1>. HIDE DEF rest, attempted, pc, target, ok
<1>7. /\ left \in Ops /\ left.kind = o.kind /\ left.want = o.want
      /\ left.queue = rest /\ left.attempted = attempted
      /\ left.failed = o.failed /\ left.refused = o.refused
  BY <1>1, <1>2, <1>4, Zenon DEF Ops
<1>. HIDE DEF left
<1>8. /\ p \in Ops
      /\ p.pc = pc /\ p.kind = o.kind /\ p.want = o.want /\ p.ok = ok /\ p.queue = rest
      /\ p.failed = o.failed /\ p.refused = o.refused /\ p.attempted = attempted
      /\ p.target = target
  BY <1>4, <1>7, ZenonT(40) DEF Ops
<1>. HIDE DEF p
<1>9. Phase(n, p)
  BY <1>1, <1>2, <1>4, <1>6, <1>8 DEF Phase
<1>10. Copying(p)
  <2>1. p.pc # "done"
    BY <1>4, <1>8
  <2>. QED
    BY <1>5, <1>8, <2>1, Zenon DEF Copying
<1>11. OpKept(n, p)
  BY <1>8, <1>9, <1>10 DEF OpKept
<1>. QED
  BY <1>3, <1>11 DEF p, left, rest, attempted, pc, target, ok

LEMMA KeptReply ==
    ASSUME NEW n \in Nodes, NEW o, OpKept(n, o), o.pc = "sent", NEW reply \in Seq(Nodes),
           NEW answer, answer \in IF o.kind = "store" THEN {"OK", "NOT_RESPONSIBLE"}
                                  ELSE {"FOUND", "NOTFOUND"}
    PROVE  OpKept(n, [o EXCEPT !.pc = "replied", !.answer = answer, !.reply = reply])
<1>. DEFINE p == [o EXCEPT !.pc = "replied", !.answer = answer, !.reply = reply]
<1>1. o \in Ops /\ Phase(n, o) /\ Copying(o)
  BY DEF OpKept
<1>2. p \in Ops
  BY <1>1, Zenon DEF Ops
<1>3. /\ p.pc = "replied" /\ p.kind = o.kind /\ p.want = o.want /\ p.ok = o.ok
      /\ p.queue = o.queue /\ p.answer = answer /\ p.target = o.target
      /\ p.failed = o.failed /\ p.refused = o.refused /\ p.attempted = o.attempted
  BY <1>1 DEF Ops
<1>. HIDE DEF p
<1>4. Phase(n, p)
  BY <1>1, <1>3 DEF Phase
<1>5. Copying(p)
  BY <1>1, <1>3, Zenon DEF Copying
<1>6. OpKept(n, p)
  BY <1>2, <1>4, <1>5 DEF OpKept
<1>. QED
  BY <1>6 DEF p

\* The fields after NextCall.
LEMMA NextCallIs ==
    ASSUME NEW o \in Ops
    PROVE  /\ NextCall(o) \in Ops
           /\ NextCall(o).pc = "next" /\ NextCall(o).kind = o.kind
           /\ NextCall(o).reply = <<>>
           /\ NextCall(o).queue = o.queue /\ NextCall(o).attempted = o.attempted
           /\ NextCall(o).ok = o.ok /\ NextCall(o).want = o.want
           /\ NextCall(o).failed = o.failed /\ NextCall(o).refused = o.refused
<1>1. NextCall(o) \in Ops
  BY <<>> \in Seq(Nodes), Zenon DEF NextCall, Ops
<1>. QED
  BY <1>1 DEF NextCall, Ops

LEMMA KeptCallFails ==
    ASSUME NEW n \in Nodes, NEW o, OpKept(n, o), o.pc \in {"sent", "replied"}
    PROVE  OpKept(n, [NextCall(o) EXCEPT !.failed = TRUE])
<1>. DEFINE c == NextCall(o)
            p == [c EXCEPT !.failed = TRUE]
<1>1. o \in Ops /\ Phase(n, o)
  BY DEF OpKept
<1>2. c \in Ops /\ c.pc = "next" /\ c.kind = o.kind /\ c.attempted = o.attempted
  BY <1>1, NextCallIs
<1>. HIDE DEF c
<1>3. p \in Ops /\ p.pc = "next" /\ p.kind = o.kind /\ p.attempted = o.attempted /\ p.failed = TRUE
  BY <1>2, Zenon DEF Ops
<1>. HIDE DEF p
<1>4. Phase(n, p)
  BY <1>1, <1>3 DEF Phase
<1>5. Copying(p)
  BY <1>3 DEF Copying
<1>6. OpKept(n, p)
  BY <1>3, <1>4, <1>5 DEF OpKept
<1>. QED
  BY <1>6 DEF p, c

LEMMA KeptStored ==
    ASSUME NEW n \in Nodes, NEW o, OpKept(n, o), o.pc = "replied", o.answer = "OK"
    PROVE  OpKept(n, [NextCall(o) EXCEPT !.ok = @ \cup {o.target}])
<1>. DEFINE c == NextCall(o)
            ok == o.ok \cup {o.target}
            p == [c EXCEPT !.ok = ok]
<1>1. o \in Ops /\ Phase(n, o) /\ Copying(o)
  BY DEF OpKept
<1>2. ok \in SUBSET Nodes
  BY <1>1 DEF Ops, Phase
<1>3. /\ c \in Ops /\ c.pc = "next" /\ c.kind = o.kind /\ c.queue = o.queue
      /\ c.attempted = o.attempted /\ c.ok = o.ok /\ c.want = o.want
      /\ c.failed = o.failed /\ c.refused = o.refused
  BY <1>1, NextCallIs
<1>. HIDE DEF c
<1>4. /\ p \in Ops /\ p.pc = "next" /\ p.kind = o.kind /\ p.queue = o.queue
      /\ p.attempted = o.attempted /\ p.ok = ok /\ p.want = o.want
      /\ p.failed = o.failed /\ p.refused = o.refused
  <2>. HIDE DEF ok
  <2>. QED
    BY <1>2, <1>3 DEF Ops
<1>5. p = [c EXCEPT !.ok = @ \cup {o.target}]
  BY <1>3
<1>. HIDE DEF p
<1>6. Phase(n, p)
  BY <1>1, <1>4 DEF Phase
<1>7. Copying(p)
  <2>. SUFFICES ASSUME o.kind = "store", ~o.failed, ~o.refused
                PROVE  o.want \subseteq o.attempted \cup Range(o.queue) /\ o.attempted \subseteq ok
    BY <1>4 DEF Copying
  <2>. QED
    BY <1>1 DEF Copying
<1>8. OpKept(n, p)
  BY <1>4, <1>6, <1>7 DEF OpKept
<1>. QED
  BY <1>5, <1>8 DEF c

LEMMA KeptNotResponsible ==
    ASSUME NEW n \in Nodes, NEW o, OpKept(n, o), o.pc = "replied",
           o.answer = "NOT_RESPONSIBLE"
    PROVE  OpKept(n, [NextCall(o) EXCEPT !.queue = @ \o Closer(o), !.refused = TRUE])
<1>. DEFINE c == NextCall(o)
            queue == o.queue \o Closer(o)
            p == [c EXCEPT !.queue = queue, !.refused = TRUE]
<1>1. o \in Ops /\ Phase(n, o) /\ queue \in Seq(Nodes)
  BY CloserNodes DEF OpKept
<1>2. /\ c \in Ops /\ c.pc = "next" /\ c.kind = o.kind /\ c.attempted = o.attempted
      /\ c.queue = o.queue
  BY <1>1, NextCallIs
<1>. HIDE DEF c
<1>3. p = [c EXCEPT !.queue = @ \o Closer(o), !.refused = TRUE]
  BY <1>2
<1>. HIDE DEF queue
<1>4. p \in Ops /\ p.pc = "next" /\ p.kind = o.kind /\ p.attempted = o.attempted /\ p.refused = TRUE
  BY <1>1, <1>2, Zenon DEF Ops
<1>. HIDE DEF p
<1>5. Phase(n, p)
  BY <1>1, <1>4 DEF Phase
<1>6. Copying(p)
  BY <1>4 DEF Copying
<1>7. OpKept(n, p)
  BY <1>4, <1>5, <1>6 DEF OpKept
<1>. QED
  BY <1>3, <1>7 DEF c

LEMMA KeptFound ==
    ASSUME NEW n \in Nodes, NEW o, OpKept(n, o), o.pc = "replied", o.answer = "FOUND"
    PROVE  OpKept(n, [NextCall(o) EXCEPT !.pc = "done", !.ok = {o.target}, !.queue = <<>>,
                                         !.attempted = {}])
<1>. DEFINE c == NextCall(o)
            d == [c EXCEPT !.pc = "done", !.ok = {o.target}]
            p == [d EXCEPT !.queue = <<>>, !.attempted = {}]
<1>1. o \in Ops /\ o.kind = "find" /\ o.target \in Nodes
  BY DEF OpKept, Phase
<1>2. c \in Ops /\ c.kind = o.kind
  BY <1>1, NextCallIs
<1>. HIDE DEF c
<1>3. d \in Ops /\ d.kind = "find" /\ d.pc = "done"
  BY <1>1, <1>2, Zenon DEF Ops
<1>. HIDE DEF d
<1>4. p \in Ops /\ p.kind = "find" /\ p.pc = "done"
  BY <1>3, <<>> \in Seq(Nodes), ZenonT(40) DEF Ops
<1>. HIDE DEF p
<1>5. OpKept(n, p)
  BY <1>4 DEF OpKept, Phase, Copying
<1>. QED
  BY <1>5 DEF p, d, c

LEMMA KeptNotFound ==
    ASSUME NEW n \in Nodes, NEW o, OpKept(n, o), o.pc = "replied", o.answer = "NOTFOUND"
    PROVE  OpKept(n, NextCall(o))
<1>. DEFINE c == NextCall(o)
<1>1. o \in Ops /\ o.kind = "find" /\ n \in o.attempted
  BY DEF OpKept, Phase
<1>2. c \in Ops /\ c.kind = o.kind /\ c.pc = "next" /\ c.attempted = o.attempted
  BY <1>1, NextCallIs
<1>. HIDE DEF c
<1>3. OpKept(n, c)
  BY <1>1, <1>2 DEF OpKept, Phase, Copying
<1>. QED
  BY <1>3 DEF c
=============================================================================
