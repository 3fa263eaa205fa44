SPECIFICATION FairSupplySpec
CONSTANTS
    Requests = {r1, r2, r3, r4}
    r1 = r1
    r2 = r2
    r3 = r3
    r4 = r4
    p1 = p1
    p2 = p2
    o1 = o1
    o2 = o2
    Records = {p1, p2, o1, o2}
    Plans <- DayPlans
    None = None
    Payers = {c1, c2}
    TotalCost = 2
INVARIANTS
    NumbersRunOn
    CirclesMixKinds
    SentAwayOnlyUnderLoad
    DebtFollowsExpenses
PROPERTIES
    EveryRequestAnswered
CHECK_DEADLOCK FALSE
