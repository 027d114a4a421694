SPECIFICATION DeadmanSpec
CONSTANTS
    Symbol = {s1}
    SignalId = {i1, i2}
    NoSymbol = NoSymbol
    NoSignal = NoSignal
    StaleAfter = 2
    CallsMayFail = TRUE
CHECK_DEADLOCK FALSE
INVARIANTS
    DeadmanTypeOK
    OneReaction
PROPERTIES
    CheckIsExact
    SilenceIsFlattenedOrCallFailed
