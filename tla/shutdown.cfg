SPECIFICATION MCSpec
CONSTANTS
    c1 = c1  c2 = c2  c3 = c3
    Conns = {c1, c2, c3}
    MaxHandlers = 1
    NoConn = NoConn
INVARIANTS SlotsAccounted ReturnIsClean OneEscapesSweep ExitStopsDHT
PROPERTIES NobodyWaitsForEver ShutdownEnds SignalStopsProxy ExitFollows
