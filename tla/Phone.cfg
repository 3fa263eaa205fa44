SPECIFICATION FairSpec
CONSTANTS
    t1 = t1
    s1 = s1
    f1 = f1
    e1 = e1
    e2 = e2
    Tabs = {t1}
    Calls = {s1, f1}
    Sheets = {s1}
    Entries = {e1, e2}
    TabOf <- PhoneTabOf
    Restorer <- PhoneRestorer
    k1 = k1
    k2 = k2
    Tokens = {k1, k2}
    NoToken = NoToken
    Endings = {"reset"}
    None = None
INVARIANTS
    KeptUntilAnswered
PROPERTIES
    QueueDrains
    JoinersResume
