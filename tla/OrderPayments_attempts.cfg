\* One online order through every interleaving of its payment attempts,
\* while staff edit the shelf it is taken from.
SPECIFICATION FairSpec
CONSTANTS
    Orders = {o1}
    Points = {p1}
    NoPoint = NoPoint
    Variants = {v1}
    Carts <- TwoEach
    InitStock <- TwoOfEach
    StockLevels <- Levels
    MaxPaymentAttempts = 2
    ExpiryBatch = 1
    MaxCrashes = 1
INVARIANTS
    OpenAttemptIsLive
    OneAttemptPays
    MoneyAccounted
    CancelsUnpaid
    AnnouncedOnce
    StockConserved
PROPERTIES
    KeepsContract
    OrdersSettle
CHECK_DEADLOCK FALSE
