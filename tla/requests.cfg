SPECIFICATION Spec
CONSTANTS
    a = a  b = b  f = f  t1 = t1  t2 = t2  q1 = q1  q2 = q2
    Services = {a, b}
    Allowed = {a}
    Taps = {t1, t2}
    Calls = {q1, q2}
    Setups <- ModelSetups
    MaxConcurrent = 1
    MaxAttempts = 2
    CacheTTL = 2
    MaxDuplicates = 1
    None = None
INVARIANTS OkWasApplied  ResolvedIsRecent
SYMMETRY CallNames
