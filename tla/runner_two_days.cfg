SPECIFICATION Spec
CONSTANTS
    Symbol = {s1, s2}
    SignalId = {i1, i2}
    NoSymbol = NoSymbol
    NoSignal = NoSignal
    MaxPositions = 1
    FlattenTicks = 1
    MaxFlattenFailures = 0
    MaxCrashes = 1
    Days = 2
    BarsMayBeLost = TRUE
    EarlyClose = TRUE
SYMMETRY Symmetry
CHECK_DEADLOCK FALSE
INVARIANT
    DoubleEntryNeedsCrash
PROPERTIES
    NeverResubmitted
    BrokerSpec
