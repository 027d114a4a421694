SPECIFICATION Spec
CONSTANTS
    Bracket <- MCBracket
    Menus <- MCMenus
    ManualStops = {0, 7, 10}
    MarketPrices = {9}
    Gaps = {20}
    Trips = 2
    MaxPasses = 2
    MaxManual = 1
    LastDay = 40
CHECK_DEADLOCK FALSE
INVARIANTS
    TypeOK
    HeldIsManaged
    TradesAddUp
    WashSales
PROPERTIES
    PassTightens
