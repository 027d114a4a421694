SPECIFICATION Spec
CONSTANTS
    None = None
    Stock = {1, 2, 3}
    Plain = {2, 3}
    Tradable = {1, 2, 3}
    Daily <- MCDaily
    Fmp <- MCFmp
    MaxSymbols = 2
    Fallback = 1
    BatchSize = 2
    Proc = {p1, p2}
    Name = {n1, n2}
    Wants <- MCWants
    Overrides <- MCOverrides
    Reply <- MCReply
    Cap = {2}
    MaxPresets = 2
    MaxJobs = 2
    MaxPicks = 1
    MaxEdits = 1
SYMMETRY Symmetry
INVARIANTS
    TypeOK
    ScreenIsHonest
    PicksFromTheirScreen
    LockMatchesJob
