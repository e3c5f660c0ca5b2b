SPECIFICATION ServerSpec
CONSTANTS
    ImportRequest = {h1, h2}
    Object = {o1, o2, o3}
    NoObject = NoObject
    ShopStock = 1
    MaxImports = 2
    MaxRequests = 3
    MaxCrashes = 1
    Employee = {u1}
    Clerk = {k1, k2}
    Editor = {e1}
    LastMonth = 3
    MaxPayments = 2
INVARIANTS
    ServerTypeOK
    ImportedOnce
    PaidMonthsCount
PROPERTIES
    ImportEnds
    ExpiryIsNoticed
CHECK_DEADLOCK FALSE
