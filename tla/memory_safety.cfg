SPECIFICATION Spec
CONSTANTS
    t1 = t1  a1 = a1  a2 = a2  r1 = r1  q1 = q1  q2 = q2  q3 = q3
    Tasks = {t1}
    Addrs = {a1, a2}
    Blank = Blank
    Capacities = {0}
    Requestors = {r1}
    NilIP = NilIP
    Firewalls <- OnlyA1
    NilFirewall = NilFirewall
    Queries = {q1, q2}
    Timeout = 1
    MaxInt = 1000
SYMMETRY Symmetric
INVARIANTS TypeOK UniqueAddresses AnswerSound CountersExact
PROPERTIES OnlySilentRemoved ImplementsDirectory
