SPECIFICATION RecordsSpec
CONSTANTS
    Nobody = Nobody
    NoSale = NoSale
    Client = {b1}
    Sale = {a1}
    Adjustment = {x1, x2}
    Key = {q1}
    MaxDebts = 2
    MaxTotal = 2
    Percents = {50}
    InitialBalance = 1
    KeyAmount <- ModelKeyAmount
    Session = {s1, s2, s3}
    NoSession = NoSession
    Caller = {c1, c2}
    MaxPassword = 1
    Colour = {red, blue}
    NoColour = NoColour
    Value = {v1, v2}
    SystemValue = {v1}
    NoValue = NoValue
    Variety = {t1}
    Editor = {e1}
    MaxBatches = 2
    k1 = k1
    k2 = k2
    view = view
    sell = sell
    seller = seller
    Role = {o1, o2}
    RoleName = {seller, n1}
    NoName = NoName
    Permission = {view, sell}
    Slug = {k1, k2}
    SlugOf <- ModelSlugOf
    Defaults <- ModelDefaults
    Manager = {m1, m2}
    Seconds = 3
    LargestInt = 5
    Owner = {p1, p2}
    MaxTemplates = 3
    clothes = clothes
    Business = {clothes, general}
    Flag = {f1}
    PresetFlags <- ModelFlags
    Zone = {zA, zB}
    DefaultZone = zA
    Nothing = Nothing
    UnitKind = {u1, u2}
    Piece = u1
    MaxUnits = 2
    TypeName = {y1, y2}
    DebtType = y1
    Person = {n3, n4}
    Team = {g1}
    Front = {r1, r2}
    Same = Same
    Scenes <- ModelScene
    Entry = {y3, y4}
    Clerk = {h1, h2}
    sA = sA
    Spelling = {sA, sB}
    KeyOf <- ModelKeyOf
    mA = mA
    Mark = {mA, mB}
    AxisMark = mA
    w1 = w1
    w2 = w2
    d1 = d1
    Member = {w1, w2, d1}
    Variant = {w1, w2}
    Active = {w1, w2}
    MaxCrossed = 1
    Unset = Unset
    Topics = {"lists"}
INVARIANT
    RemovedRolesAreGone
CHECK_DEADLOCK FALSE
