SPECIFICATION WarehouseSpec
CONSTANTS
    c1 = c1
    c2 = c2
    l1 = l1
    l2 = l2
    g1 = g1
    g2 = g2
    Count = {c1, c2}
    Item = {i1}
    Staff = {r1}
    MaxStock = 1
    ImportItem = {i1, i2}
    Scanner = {k1, k2}
    Object = {o1, o2}
    NoObject = NoObject
    Expected <- ModelExpected
    MaxScans = 2
    MaxCounts = 2
    MaxCommits = 2
    Branch = {a1, a2}
    Manager = {j1}
    InitialUnits = 1
    MaxOnHand = 2
    MaxRows = 2
    MaxReceipts = 1
    InvoiceLine = {l1, l2}
    Desk = {d1}
    MaxUnits = 2
    MaxReopened = 1
    Goods = {g1, g2}
    MaxOrdered = 2
    a1 = a1
    a2 = a2
    b1 = b1
    Company = {"A", "B"}
    Shop = {a1, a2, b1}
    NoShop = NoShop
    CompanyOf <- ModelCompanyOf
    NoChange = NoChange
    Request = {w1}
    Administrator = {m1, m2}
    MaxEdits = 2
SYMMETRY WarehouseSymmetry
INVARIANTS
    WarehouseTypeOK
    
    PapersMatchStock
    StatusTellsReceipts
    WorksInOwnShops
CHECK_DEADLOCK FALSE
