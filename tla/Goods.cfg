SPECIFICATION Spec
CONSTANTS
    OrderIds = {o1, o2}
    Products = {p1}
    Drivers = {}
    PaymentIds = {}
    BatchIds = {1, 2}
    PayoutIds = {}
    HandoverIds = {}
    Callers = {c1, c2}
    Routes <- GoodsRoutes
    Prices = {1}
    Expiries = {1}
    InitialStock = 2
    MaxQty = 2
    MaxStock = 2
    MaxAmount = 2
    None = None
SYMMETRY Symmetry
INVARIANTS
    StockNotNegative
    TrackedWithinStock
