SPECIFICATION Spec
CONSTANTS
    Customers = {u1}
    RequestIds = {q1, q2}
    OrderIds = {o1, o2}
    Staff = {c1, c2}
    Forms <- SomeForms
    MaxLinks = 2
    None = None
SYMMETRY Symmetry
INVARIANTS
    ThanksMeansStored
    OneOrderPerRequest
    PagesAgreeWithServer
CHECK_DEADLOCK FALSE
