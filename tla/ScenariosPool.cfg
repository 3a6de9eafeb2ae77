SPECIFICATION FairScenarioSpec
CONSTANTS
    s1 = s1
    s2 = s2
    k1 = k1
    k2 = k2
    k3 = k3
    b1 = b1
    b2 = b2
    b3 = b3
    w1 = w1
    w2 = w2
    Scenario = {s1, s2}
    Fresh = Fresh
    Key = {k1, k2, k3}
    Name = {"n1"}
    Body = {b1, b2, b3}
    AccountOf <- MCAccountOf
    Sealable = {b1, b3}
    Client = {w1, w2}
    Sent <- MCSent
    Nobody = Nobody
    MaxConns = 2
PROPERTIES
    ConflictsAreAnswered
