SPECIFICATION SessionSpec
CONSTANTS
    t1 = t1
    t2 = t2
    s1 = s1
    f1 = f1
    f2 = f2
    Tabs = {t1, t2}
    Calls = {s1, f1, f2}
    TabOf <- PageTabOf
    Restorer <- PageRestorer
    k1 = k1
    k2 = k2
    k3 = k3
    k4 = k4
    Tokens = {k1, k2, k3, k4}
    NoToken = NoToken
    Endings = {"change", "reset", "deactivate", "week"}
    None = None
INVARIANTS
    SessionEndsForAReason
    CookieIsLive
SYMMETRY Sym
