SPECIFICATION CatalogSpec
CONSTANTS
    Categories <- MCCategories
    MaxImportPrice = 1000
    MaxImportQty = 9
    Uploads = {"u1", "u2"}
    ImportStaff = {"s1", "s2"}
    ImportFiles <- MCFiles
    ImportPoints <- MCPoints
    MaxConcurrent = 2
    ImportBurst = 2
    ImportTokenTTL = 0
    ImportHorizon = 1
    MaxImports = 2
    Editors = {"e1", "e2"}
    OwnPoint <- MCOwn
    FormPoints = {"A", "B"}
    FormQtys <- MCQtys
    FormPrices <- MCPrices
    NewRows <- MCRows
    FormSkus <- MCSkus
    FormTexts <- MCTexts
    FormImages <- MCImages
    MaxStockQty = 2
    MaxFormPrice = 1000
    MaxEdits = 2
    MaxSubmits = 2
    MaxPages = 1
    MaxMoves = 2
    Savers = {"s1", "s2"}
    CategoryIds = {"c1", "c2"}
    PointIds = {"A", "B"}
    StoredPhotos = {11, 12}
    MaxSaves = 2
    MaxKeys = 2
    UnitsSold <- MCUnits
    CreatedAt <- MCCreated
    ShopQueries <- MCQueries
    ListPageSize = 1
    MaxSearchTokens = 2
    MaxPage = 5
    CartVariants = {"v1", "v2"}
    ZoneIds = {"z1", "z2"}
    AddressIds = {"home"}
    CheckoutKeys = {"k"}
    Visits = {"w1", "w2"}
    VisitInputs <- MCVisitInputs
    GoodsPrices = {1, 2}
    ZoneTerms <- MCTerms
    FlatFee = 2
    MaxCartQty = 2
    PayPollMax = 2
    MaxShopEdits = 1
    MaxVisits = 2
    Parts = {"points"}
PROPERTY GoodsKeepTheirPoint
CHECK_DEADLOCK FALSE
