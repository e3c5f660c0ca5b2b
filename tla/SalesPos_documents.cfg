SPECIFICATION DocumentsSpec
CONSTANTS
    NoSale = NoSale
    Sale = {a1}
    Item = {i1}
    Return = {x1, x2}
    Request = {r1, r2}
    Price <- ModelPrice
    InitialStock = 2
    MaxQuantity = 2
    MaxDiscount = 1
    Kinds = {"open", "edit", "discount", "park", "resume", "pay", "delete", "cancel", "return", "unreturn"}
SYMMETRY Tills
INVARIANT ReturnsWithinSale
INVARIANT CancelRestoresWhatWasTaken
INVARIANT SettledUnlessDisturbed
PROPERTY IsStockDocument
CHECK_DEADLOCK FALSE
