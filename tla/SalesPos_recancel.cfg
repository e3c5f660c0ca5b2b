SPECIFICATION Spec
CONSTANTS
    NoSale = NoSale
    Sale = {a1}
    Item = {i1}
    Return = {x1}
    Request = {r1, r2}
    Price <- ModelPrice
    InitialStock = 1
    MaxQuantity = 1
    MaxDiscount = 0
    Kinds = {"open", "edit", "pay", "cancel", "resume"}
INVARIANT ReversedAtMostOnce
CHECK_DEADLOCK FALSE
