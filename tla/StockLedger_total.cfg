SPECIFICATION ProductsSpec
CONSTANTS
    p1 = p1
    p2 = p2
    v1 = v1
    v2 = v2
    w1 = w1
    c1 = c1
    c2 = c2
    r1 = r1
    r2 = r2
    Product = {p1}
    Variant = {v1}
    Shop = {s1}
    Editor = {e1}
    ProductOf <- ModelProductOf
    DefaultVariant <- ModelDefaultVariant
    Threshold = 0
    MaxQuantity = 1
    MaxTotal = 1
    Card = {c1}
    Style = {r1}
    StyleCard <- ModelStyleCard
    Cataloguer = {u1}
    MaxCode = 1
INVARIANT ProductFollowsShops
