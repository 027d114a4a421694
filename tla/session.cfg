SPECIFICATION Spec
CONSTANTS
    OrStart = 570
    OrEnd = 572
    LastEntry = 574
    NoEntryBefore = 571
    NoEntryAfter = 573
    Limits <- MCLimits
    Holidays <- MCHolidays
    Today <- MCToday
    Traded = {"a"}
    Watchlist = {"a"}
    Static = {"a", "b"}
    Minutes = {570, 571, 572, 573}
    Shapes <- MCShapes
    Archive <- MCArchive
    Names = {"orb_5m", "vwap_reversion"}
    CostModels <- MCCosts
    WindowSizes = {2}
    DayCounts = {3}
    Equity = 10000
    MaxLen = 3
    MaxWire = 2
    MaxFaults = 1
    MaxCrashes = 1
CHECK_DEADLOCK FALSE
INVARIANTS
    TypeOK
    RecoveryFaithful
    OneSignal
    EveningAgrees
    TradesHonest
