--------------------------- MODULE WeightedSelection ---------------------------
(***************************************************************************)
(* The weighted choice both registries make (pkg/registry/memory.go): an   *)
(* entry of capacity c owns c consecutive slots, and the slot a query      *)
(* draws names the entry.  Sums are Go ints: they wrap at MaxInt.          *)
(***************************************************************************)
EXTENDS Lists

CONSTANT MaxInt   \* largest value of a Go int

ASSUME MaxIntAssumption == MaxInt \in Nat

\* Two's complement addition: the exact sum reduced to the range of an int.
Wrap(n) == ((n + MaxInt + 1) % (2 * (MaxInt + 1))) - (MaxInt + 1)

\* Mutation: the capacity is used as it comes.
RawCapacity(c) == c

\* A capacity that is not positive counts as 1.
normalizedCapacity(c) == IF c <= 0 THEN 1 ELSE c

serviceWeight(entry) == normalizedCapacity(entry.cap)

weights(entries) == [i \in DOMAIN entries |-> serviceWeight(entries[i])]

\* What the capacities really add up to.
exactWeight(entries) == Total(weights(entries))

\* The variable running of the loop after the first i entries.
runningWeight(entries, i) == Wrap(RunningSums(weights(entries))[i])

totalServiceWeight(entries) == runningWeight(entries, Len(entries))

\* Mutation: the comparison admits equality, one slot too many.
StopsOneLate(entries, slot, i) ==
    /\ slot <= runningWeight(entries, i)
    /\ \A j \in 1..(i - 1) : slot > runningWeight(entries, j)

\* The loop returns at i: the first entry whose running weight exceeds slot.
StopsAt(entries, slot, i) ==
    /\ slot < runningWeight(entries, i)
    /\ \A j \in 1..(i - 1) : slot >= runningWeight(entries, j)

\* The loop returns an address (its second result, ok).
Selects(entries, slot) == \E i \in DOMAIN entries : StopsAt(entries, slot, i)

selectWeightedAddress(entries, slot) ==
    entries[CHOOSE i \in DOMAIN entries : StopsAt(entries, slot, i)].addr

-----------------------------------------------------------------------------
\* The choice is what indexing the expanded pool would give, which the code
\* avoids building: the slot of a copy is the number of copies before it.
ChoosesFromPool(entries) ==
    /\ totalServiceWeight(entries) = Cardinality(Copies(weights(entries)))
    /\ \A c \in Copies(weights(entries)) :
          LET slot == Cardinality(CopiesBefore(weights(entries), c))
          IN  /\ Selects(entries, slot)
              /\ selectWeightedAddress(entries, slot) = entries[c[1]].addr
=============================================================================
