SPECIFICATION Spec
CONSTANTS
    OrderIds = {o1}
    Products = {p1}
    Drivers = {}
    PaymentIds = {i1, i2}
    BatchIds = {}
    PayoutIds = {}
    HandoverIds = {}
    Callers = {c1, c2}
    Routes <- MoneyRoutes
    Prices = {0, 1}
    Expiries = {1}
    InitialStock = 2
    MaxQty = 2
    MaxStock = 4
    MaxAmount = 4
    None = None
SYMMETRY Symmetry
INVARIANTS
    TypeOK
    LedgerAgrees
    NeverOverpaid
    PayStatusDerived
    PaymentsBooked
    ReturnsWithinLines
    TotalMatchesLines
PROPERTIES
    ImplementsAccount
    SnapshotPricesKept
