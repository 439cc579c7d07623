SPECIFICATION Spec
CONSTANTS
    t1 = t1  a1 = a1  a2 = a2  r1 = r1  q1 = q1  q2 = q2  q3 = q3
    Tasks = {t1}
    Addrs = {a1, a2}
    Blank = Blank
    Capacities = {2}
    Requestors = {}
    NilIP = NilIP
    Firewalls <- NoFirewalls
    NilFirewall = NilFirewall
    Queries = {q1, q2, q3}
    Timeout = 1
    MaxInt = 1000
SYMMETRY SymmetricAll
INVARIANTS WeightedRotation
VIEW RotationView
