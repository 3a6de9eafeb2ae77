SPECIFICATION FairImportSpec
CONSTANTS
    t1 = t1
    t2 = t2
    k1 = k1
    k2 = k2
    w1 = w1
    w2 = w2
    p1 = p1
    p2 = p2
    m1 = m1
    Token = {t1, t2}
    NoToken = NoToken
    Key = {k1, k2}
    Positions = {p1}
    Prices = {m1}
    Instant = {0}
    Unit = 2
    Client = {w1, w2}
    Nobody = Nobody
PROPERTIES
    ReplayReturnsResult
