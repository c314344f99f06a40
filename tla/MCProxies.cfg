CONSTANTS
    k1 = k1
    k2 = k2
    k3 = k3
    None = None
    Requests = {r1, r2, r3}
    Callers = {g1, g2}
    Calls = {k1, k2, k3}
    ReadOnlyOf <- MCReadOnlyOf
    CapOf <- MCCapOf
    MaxInt = 3
    Addrs = {a1, a2, a3}
    MaxDials = 4
    MaxSize = 2
    Datasources = {d1, d2}
    MaxSets = 4
    MaxCrashes = 2
    TTL = 2
    Buffer = 2
    Lifetimes = {0, 2}
    DefaultLife = 2
    MaxFetch = 1
    MaxTime = 4
SPECIFICATION ProxySpec
SYMMETRY Symmetric
INVARIANTS
    ProxyTypeOK
    ClientsReleased
    ReadOnlyHonoured
    WholeOrRefused
    PoolBounded
    NothingSurvivesClose
    NoConnectionLost
    StoredNotLost
    SecretsAreCurrent
PROPERTIES
    ImplementsContract
CHECK_DEADLOCK FALSE
