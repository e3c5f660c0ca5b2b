SPECIFICATION SalesDeskSpec
CONSTANTS
    NoSale = NoSale
    Sale = {a1, a2}
    Item = {i1}
    Return = {x1}
    Request = {r1, r2}
    Price <- ModelPrice
    InitialStock = 1
    MaxQuantity = 1
    MaxDiscount = 0
    Kinds = {"open", "edit", "park", "resume", "pay"}
    Method = {cash, card}
    DefaultMethod = cash
    Bonus = Bonus
    NoSplit = NoSplit
    Cashier = {b1, b2}
    BonusPercent = 50
    OpeningBalance = 1
    Bills = {1, 3}
    g1 = g1
    g2 = g2
    z1 = z1
    z2 = z2
    Good = {g1, g2}
    Clerk = {c1, c2}
    RetailPrice <- ModelRetail
    SupplyPrice <- ModelSupply
    SupplierOf <- ModelSupplier
    SellerOf <- ModelSeller
    OpeningStock = 3
    Baskets <- ModelBaskets
    Returned <- ModelReturned
    Discounts = {1}
    Deliveries <- ModelDeliveries
    Periods <- ModelPeriods
    MaxPapers = 3
    MaxMoves = 1
    MaxRedates = 2
    LastMinute = 1
    PageSize = 1
SYMMETRY Desks
INVARIANTS
    SalesDeskTypeOK
    PostedAtMostOnce
    TakingsAddUp
    DatesInOrder
    ReportCountsOnce
    ReportsMatchStock
    ReportsMatchBooks
CHECK_DEADLOCK FALSE
