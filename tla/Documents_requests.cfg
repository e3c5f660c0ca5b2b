SPECIFICATION DocumentsSpec
CONSTANTS
    s1 = s1
    s2 = s2
    k1 = k1
    k2 = k2
    r1 = r1
    r2 = r2
    Transfer = {t1}
    Item = {i1}
    w1 = w1
    w2 = w2
    Place = {w1, w2}
    Nameless = {w1, w2}
    ItemOf <- ModelItemOf
    Shop = {s1, s2}
    Request = {r1, r2, r3}
    From <- ModelFrom
    To <- ModelTo
    InitialStock = 2
    MaxQuantity = 1
    OrderProduct = {p1, p2}
    OrderPayment = {y1}
    Clerk = {k1, k2}
    OrderStock = 1
    MaxLine = 1
    MaxPaid = 1
    MaxOverwritten = 1
SYMMETRY DocumentsSymmetry
INVARIANTS
    DocumentsTypeOK
    ConservedUnlessEditedLate
    CompletedOnce
    OrderAddsUp
PROPERTY IsStockDocument
CHECK_DEADLOCK FALSE
