SPECIFICATION Spec
CONSTANTS
    Bracket <- MCBracket
    Menus <- TrailMenus
    ManualStops = {0, 7, 10}
    MarketPrices = {9}
    Gaps = {20}
    Trips = 1
    MaxPasses = 2
    MaxManual = 0
    LastDay = 40
CHECK_DEADLOCK FALSE
INVARIANT
    StopIsLive
