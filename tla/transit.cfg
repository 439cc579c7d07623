SPECIFICATION MCSpec
CONSTANTS
    c1 = c1  d1 = d1  d2 = d2  e1 = e1  e2 = e2  s1 = s1  s2 = s2
    MaxTaps = 4
    TapBounds <- Bounds
    Cards = {c1}
    Unpriced = {4}
    BatchSize = 2
    Funds = 1
    MinFunds = 1
    Debts = {d1, d2}
    Token <- TokenOf
    Exports = {e1, e2}
    MaxFailures = 1
    MaxReports = 3
    Stations = {s1, s2}
    Window = 2
    MaxClock = 3
    MaxTickets = 3
    MaxRestarts = 1
SYMMETRY ExportNames
INVARIANTS
    OpenedNotLost ChargedOnce
    ReportedHasReachedPA ReportedOncePerFailure 
    SettledIsListed NonePassedBy
 
CHECK_DEADLOCK FALSE
