\* Double submits, and a crowd of customers and staff at one shelf.
SPECIFICATION PartSpec
CONSTANTS
    Req = {1, 2, 3}
    Customers = {1, 2}
    Keys = {"k"}
    NoKey = "null"
    Points = {1, 2}
    Variants = {1, 2}
    Products = {1, 2}
    productOf <- crossed
    InitStock = 2
    MaxOpenOrders = 1
    Inputs <- Everything
INVARIANTS SubmitsSettle StockFollowsOrders NoShopDeadlock
PROPERTIES RequestsEnd
CHECK_DEADLOCK FALSE
