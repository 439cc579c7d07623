------------------------------- MODULE RingView -------------------------------
(***************************************************************************)
(* The ring as one node sees it: the peers it has been told of and has not *)
(* removed, and what FindClosestNode and FindKClosestNodes find in it.     *)
(***************************************************************************)
EXTENDS HashRing

VARIABLE ringPeers  \* the peers of a node

ViewInit == ringPeers = {}

\* AddPeer; a peer that is known stays known.
Learn == \E p \in Nodes : ringPeers' = ringPeers \cup {p}

\* RemovePeer.
Forget == \E p \in Nodes : ringPeers' = ringPeers \ {p}

ViewNext == Learn \/ Forget

ViewSpec == ViewInit /\ [][ViewNext]_ringPeers

\* The ring sorted by distance is the ring sorted by position, walked from
\* the node that FindClosestNode finds.
WalkedFrom(self, peers, task) ==
    LET ring == rebuildRing(self, peers)
        closest == byDistance(self, peers, task)
    IN  /\ closest[1] = FindClosestNode(self, peers, task)
        /\ \E shift \in 0..(Len(ring) - 1) :
              \A i \in DOMAIN ring :
                  closest[i] = ring[1 + ((i - 1 + shift) % Len(ring))]

\* The k closest nodes, sorted by distance, begin with the node binary search
\* finds and follow each other clockwise on the sorted ring: sorting by
\* Distance is walking the ring from the task.
ClosestIsWalk ==
    \A self \in Nodes, task \in Positions : WalkedFrom(self, ringPeers, task)
=============================================================================
