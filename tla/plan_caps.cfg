SPECIFICATION Spec
CONSTANTS
    Holidays <- MCHolidays
    Signals <- MCSignals
    Times <- MCTimes
    Forms <- CapForms
    Limits <- MCLimits
    Start = 1000
    Override = 1000
    Fallback = 1000
    Reward = 1
    FirstDay = 14
    LastDay = 14
    MaxEntries = 2
    MaxEdits = 1
    MaxSyncs = 1
    MaxCrashes = 0
CHECK_DEADLOCK FALSE
INVARIANT
    FactsCountEntries
