--------------------------- MODULE MCMemoryRegistry ---------------------------
EXTENDS MemoryRegistry, TLC

CONSTANTS t1, a1, a2, r1, q1, q2, q3

\* Every requestor reaches the first address and no other.
OnlyA1 == {[r \in Requestors |-> {a1}]}

NoFirewalls == {}

Symmetric == Permutations(Queries)

\* Without a firewall nothing tells the addresses apart either.
SymmetricAll == Permutations(Queries) \cup Permutations(Addrs)

\* What the rotation depends on.  The counters and the total decide nothing
\* about it, nor do the steps of a query after its draw, nor a query that
\* failed or whose cursor is gone.
RotationView ==
    <<services, roundRobinIndex, firewall,
      [q \in Queries |->
          CASE pc[q] = "idle" -> <<"idle">>
            [] pc[q] = "copied" ->
                   <<"copied", task[q], requestor[q], entryCopy[q]>>
            [] ticket[q] # NoTicket ->
                   <<"drawn", task[q], requestor[q], entryCopy[q], result[q],
                     ticket[q]>>
            [] OTHER -> <<"over">>]>>
=============================================================================
