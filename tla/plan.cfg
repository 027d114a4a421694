SPECIFICATION Spec
CONSTANTS
    Holidays <- MCHolidays
    Signals <- MCSignals
    Times <- MCTimes
    Forms <- MCForms
    Limits <- MCLimits
    Start = 1000
    Override = 0
    Fallback = 2000
    Reward = 1
    FirstDay = 14
    LastDay = 15
    MaxEntries = 2
    MaxEdits = 1
    MaxSyncs = 1
    MaxCrashes = 1
CHECK_DEADLOCK FALSE
INVARIANTS
    TypeOK
    CapNeedsWorking
    LossBounded
    WindowExact
PROPERTIES
    EntriesFitThePlan
