SPECIFICATION Spec
CONSTANTS
    t1 = t1  a1 = a1  a2 = a2  q1 = q1  q2 = q2  r1 = r1
    loopWarmer = loopWarmer  c1 = c1  c2 = c2  c3 = c3
    Tasks = {t1}
    Addrs = {a1}
    Registrars = {r1}
    Askers = {q1}
    Reach <- ReachAll
    Warmers = {loopWarmer}
    LoopWarmer = loopWarmer
    Caches = {c1, c2, c3}
    Timeout = 3
    AdmitAfterMiss = 1
    StoreDeadline = 0
    Setups <- NoLimitNoFaults
    None = None
INVARIANTS FreshFindable
