SPECIFICATION FairSpec
CONSTANTS
    m1 = m1
    b1 = b1
    c1 = c1
    c2 = c2
    Users = {m1}
    Partners = {b1}
    Viewer = m1
    Callers = {c1, c2}
    Polls = {1}
    Page = 1
    Work <- ShopWork
    MaxCalls = 3
    MaxEvents = 1
    None = None
INVARIANTS
    KeptIsCurrent
    AnswersOfThatRole
    WarnedOnceADay
    ReadWasShown
PROPERTIES
    BadgeSettles
CHECK_DEADLOCK FALSE
