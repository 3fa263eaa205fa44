SPECIFICATION Spec
CONSTANTS
    OrderIds = {o1}
    Products = {p1}
    Drivers = {d1}
    PaymentIds = {}
    BatchIds = {}
    PayoutIds = {y1, y2}
    HandoverIds = {h1}
    Callers = {c1, c2}
    Routes <- DeskRoutes
    Prices = {1}
    Expiries = {1}
    InitialStock = 2
    MaxQty = 2
    MaxStock = 4
    MaxAmount = 2
    None = None
SYMMETRY DeskSymmetry
INVARIANTS
    GoodsAccountedFor
    DeliveryConsistent
    PayoutMatchesOrders
