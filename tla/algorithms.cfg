SPECIFICATION Spec
CONSTANTS
    Bits = 2
    Nil = Nil
    Ends <- SomeEnds
    Addresses <- SomeAddresses
    MaxRules = 2
    Nodes = {n1, n2, n3, n4}
    n1 = n1  n2 = n2  n3 = n3  n4 = n4
    Position <- NodePositions
    RingPositions = 6
INVARIANTS IndexMatchesScan  ClosestIsWalk
CHECK_DEADLOCK FALSE
