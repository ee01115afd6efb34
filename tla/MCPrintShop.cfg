CONSTANTS
    Orders = {o1, o2}
    Jobs = {j1, j2}
    Users = {alice}
    Keys = {k1}
    Contents = {c1, c2}
    Currencies = {syp}
    Null = Null
    Payments = {p1, p2}
    Cashiers = {x1, x2}
    Price = 2
    MaxRows = 3
    Deliveries = {d1, d2}
    Editors = {e1}
    Uses = {1, 2}
    PerUse = 3
    Grains = 2
    Amounts = {1, 2}
    Levels = {0, 1}
    MaxQuantity = 2
    MaxMovements = 4
    NoOrder = NoOrder
SPECIFICATION ShopSpec
SYMMETRY Symmetry
CONSTRAINT FewRows
CHECK_DEADLOCK FALSE
INVARIANTS
    StockTakenOnce
    OneOrderPerKey
    PaidWithinPrice
    LedgerMatchesUnlessTorn
    NothingForgotten
    OneAlertPerEmptying
