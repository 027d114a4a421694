SPECIFICATION Spec
CONSTANTS
    Symbol = {s1, s2}
    SignalId = {i1, i2, i3}
    NoSymbol = NoSymbol
    NoSignal = NoSignal
    MaxPositions = 2
    FlattenTicks = 3
    MaxFlattenFailures = 2
    MaxCrashes = 2
    Days = 1
    BarsMayBeLost = FALSE
    EarlyClose = FALSE
SYMMETRY Symmetry
CHECK_DEADLOCK FALSE
INVARIANTS
    TypeOK
    NoDoubleEntry
    KillSwitchLeak
    FlatAtClose
    RunnerInv
