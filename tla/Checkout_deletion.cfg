\* A delivery, a pickup and the deletion of the accounts they are ordered from.
SPECIFICATION PartSpec
CONSTANTS
    Req = {1, 2}
    Customers = {1, 2}
    Keys = {"k"}
    NoKey = "null"
    Points = {1, 2}
    Variants = {1, 2}
    Products = {1, 2}
    productOf <- crossed
    InitStock = 2
    MaxOpenOrders = 2
    Inputs <- Farewell
INVARIANTS DeletedHasNoOpenOrder
CHECK_DEADLOCK FALSE
