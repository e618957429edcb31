\* What transition's comment says of failed and cancelled attempts.
SPECIFICATION Spec
CONSTANTS
    Orders = {o1}
    Points = {p1}
    NoPoint = NoPoint
    Variants = {v1}
    Carts <- OneEach
    InitStock <- TwoOfEach
    StockLevels <- NoLevels
    MaxPaymentAttempts = 2
    ExpiryBatch = 1
    MaxCrashes = 0
INVARIANTS
    UnpaidFinalCancelledOrder
CHECK_DEADLOCK FALSE
