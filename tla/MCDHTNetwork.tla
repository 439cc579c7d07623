----------------------------- MODULE MCDHTNetwork -----------------------------
EXTENDS DHTNetwork, TLC

CONSTANTS n1, n2, n3

\* From the task clockwise: n1, n2, n3.
NodePositions == n1 :> 1 @@ n2 :> 2 @@ n3 :> 3

\* n1 is the bootstrap node of the others.
Bootstraps == n1 :> {} @@ n2 :> {n1} @@ n3 :> {n1}
\* A crash while a Store runs; a lost ping while a Store runs; and a lost call
\* of a Store or a Find while time passes.
Troubles == {
    [crashes |-> 1, pings |-> 0, calls |-> 0, ticks |-> 0, stores |-> 1, finds |-> 0],
    [crashes |-> 0, pings |-> 1, calls |-> 0, ticks |-> 0, stores |-> 1, finds |-> 0],
    [crashes |-> 0, pings |-> 0, calls |-> 1, ticks |-> 1, stores |-> 1, finds |-> 1]}
=============================================================================
