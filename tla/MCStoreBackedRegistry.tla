------------------------ MODULE MCStoreBackedRegistry ------------------------
EXTENDS StoreBackedRegistry, TLC

CONSTANTS t1, a1, a2, q1, q2, r1, loopWarmer, c1, c2, c3

\* Every asker reaches every address.
ReachAll == [q \in Askers |-> Addrs]

\* The firewall keeps q2 from the first address.
ReachSome == [q \in Askers |-> IF q = q2 THEN Addrs \ {a1} ELSE Addrs]

Faults(size, fails, crashes) ==
    {[cacheMaxSize |-> size, storeFails |-> fails, crashes |-> crashes]}

NoLimitAllFaults == Faults(0, TRUE, TRUE)

NoLimitNoFaults == Faults(0, FALSE, FALSE)

\* A cache without a limit and a store that fails, and a limited cache in a
\* server that crashes.
WarmingSetups == Faults(0, TRUE, FALSE) \cup Faults(1, FALSE, TRUE)
=============================================================================
