SPECIFICATION Spec
CONSTANTS
    d1 = d1
    d2 = d2
    n1 = n1
    n2 = n2
    c1 = c1
    c2 = c2
    Orders = {1, 2}
    Drivers = {d1, d2}
    Districts = {n1, n2}
    DistrictOf <- OrderDistricts
    ZoneSets = {{n1}, {n1, n2}}
    Callers = {c1, c2}
    MaxCalls = 3
    Work <- DeskWork
    None = None
SYMMETRY Sym
INVARIANTS
    Balanced
    NoStrandedDelivery
    PlannedOrderKept
CHECK_DEADLOCK FALSE
