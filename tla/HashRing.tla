------------------------------- MODULE HashRing -------------------------------
(***************************************************************************)
(* Positions on the ring of the distributed hash table.  A view is the set *)
(* of peers a node knows; its ring is the peers and the node itself, which *)
(* is on it twice when it is also one of its own peers.  A sorted ring is  *)
(* given by counting what comes before a node, not by a sorting procedure, *)
(* so that facts about it can be proved from facts about finite sets       *)
(* (module DHTOperationProofs).                                            *)
(***************************************************************************)
EXTENDS Integers, Sequences, FiniteSets, Functions

CONSTANTS
    Nodes,
    Position,     \* HashAddress of each node
    RingPositions \* 2^256 in the code

Positions == 0..(RingPositions - 1)

\* Addresses do not collide under SHA-256.
ASSUME RingAssumption ==
    /\ IsFiniteSet(Nodes)
    /\ RingPositions \in Nat
    /\ Position \in [Nodes -> Positions]
    /\ \A m, n \in Nodes : Position[m] = Position[n] => m = n

\* Clockwise distance from one position to another.
Distance(a, b) == LET diff == b - a IN IF diff < 0 THEN diff + RingPositions ELSE diff

\* Number of entries of the ring that are for nodes in S.
Entries(self, peers, S) ==
    Cardinality(peers \cap S) + IF self \in S THEN 1 ELSE 0

\* Entries before the first one of node p in the order of key, and entries up
\* to its last one.
Before(self, peers, key, p) == Entries(self, peers, {q \in Nodes : key[q] < key[p]})
UpTo(self, peers, key, p) == Entries(self, peers, {q \in Nodes : key[q] <= key[p]})

\* The ring sorted by key.
Sorted(self, peers, key) ==
    [i \in 1..(Cardinality(peers) + 1) |->
        CHOOSE p \in peers \cup {self} :
            Before(self, peers, key, p) < i /\ i <= UpTo(self, peers, key, p)]

\* rebuildRing: sorted by position.
rebuildRing(self, peers) == Sorted(self, peers, Position)

\* FindClosestNode: the first node at or after the task, or the first of all.
FindClosestNode(self, peers, task) ==
    LET ring == rebuildRing(self, peers)
        after == {i \in DOMAIN ring : Position[ring[i]] >= task}
    IN  IF after = {} THEN ring[1]
        ELSE ring[CHOOSE i \in after : \A j \in after : i <= j]

DistanceFrom(task) == [n \in Nodes |-> Distance(task, Position[n])]

\* Mutation: distances are measured towards the task.
counterClockwise(self, peers, task) ==
    Sorted(self, peers, [n \in Nodes |-> Distance(Position[n], task)])

\* The ring by distance from the task.
byDistance(self, peers, task) == Sorted(self, peers, DistanceFrom(task))

FindKClosestNodes(self, peers, task, k) ==
    LET ring == byDistance(self, peers, task)
    IN  SubSeq(ring, 1, IF k < Len(ring) THEN k ELSE Len(ring))

AmIInKClosest(self, peers, task, k) ==
    self \in Range(FindKClosestNodes(self, peers, task, k))
=============================================================================
