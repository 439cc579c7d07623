SPECIFICATION Spec
CONSTANTS
    t1 = t1  a1 = a1  a2 = a2  q1 = q1  q2 = q2  r1 = r1
    loopWarmer = loopWarmer  c1 = c1  c2 = c2  c3 = c3
    Tasks = {t1}
    Addrs = {a1, a2}
    Registrars = {r1}
    Askers = {q2}
    Reach <- ReachSome
    Warmers = {}
    LoopWarmer = loopWarmer
    Caches = {c1}
    Timeout = 2
    AdmitAfterMiss = 2
    StoreDeadline = 1
    Setups <- NoLimitAllFaults
    None = None
INVARIANTS FreshFindable 
