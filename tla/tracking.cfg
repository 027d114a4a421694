SPECIFICATION Spec
CONSTANTS
    Trips = 2
    MaxTime = 6
    MaxCrashes = 1
    LegsListed = FALSE
CHECK_DEADLOCK FALSE
INVARIANTS
    TypeOK
    RowsFaithful
    SoldOnce
    TradeIsReal
PROPERTIES
    AccountIsBroker
    BooksConverge
