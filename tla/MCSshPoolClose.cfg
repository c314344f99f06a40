CONSTANTS
    Requests = {r1}
    Addrs = {a1}
    MaxDials = 2
    MaxSize = 1
    None = None
    Callers = {}
SPECIFICATION PoolFairSpec
PROPERTY CloseReturns
CHECK_DEADLOCK FALSE
