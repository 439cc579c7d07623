----------------------------- MODULE MCAlgorithms -----------------------------
(***************************************************************************)
(* The pure algorithms against reference definitions, on every input up to *)
(* a bound: tables of rules for the firewall, built a row at a time, and   *)
(* views of a small ring.  A behaviour builds one of the two.              *)
(***************************************************************************)
EXTENDS Firewall, RingView, TLC

CONSTANTS n1, n2, n3, n4

\* A node at position 0, one at the last, and gaps between them.
NodePositions == n1 :> 0 @@ n2 :> 2 @@ n3 :> 3 @@ n4 :> 5

\* Every network alone, every address alone, neither, and both.
SomeEnds ==
    {[network |-> n, ip |-> Nil] : n \in Networks}
        \cup {[network |-> Nil, ip |-> ip] : ip \in IPs \cup {Nil}}
        \cup {[network |-> <<0>>, ip |-> <<1, 1>>]}

\* Every address, and one whose host is no IP in the middle.
SomeAddresses == <<<<0, 0>>, <<0, 1>>, Nil, <<1, 0>>, <<1, 1>>>>

Init == FirewallInit /\ ViewInit

Next ==
    \/ ringPeers = {} /\ AddRow /\ UNCHANGED ringPeers
    \/ rows = <<>> /\ ViewNext /\ UNCHANGED rows

Spec == Init /\ [][Next]_<<rows, ringPeers>>
=============================================================================
