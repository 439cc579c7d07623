SPECIFICATION FairSpec
CONSTANTS
    n1 = n1  n2 = n2  n3 = n3
    Nodes = {n1, n2, n3}
    Position <- NodePositions
    RingPositions = 4
    Task = 0
    ReplicationFactor = 2
    Bootstrap <- Bootstraps
    Registrars = {n2}
    Finders = {n3}
    Timeout = 1
    Budgets <- Troubles
    None = None
INVARIANTS StoredThenFound CopiesUnlessRefused
PROPERTIES  ViewsConverge
