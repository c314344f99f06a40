CONSTANTS
    Keys = {k1, k2}
    Ids = {s1, s2, s3}
    Requests = {r1, r2}
    Callers = {}
    Objects = {o1, o2}
    Procs = {p1, p2}
    MaxLines = 2
    None = None
SPECIFICATION McpSpec
SYMMETRY Symmetric
INVARIANTS
    McpTypeOK
    NoSessionLeaked
    NotTerminatedInUse
    AnswersPaired
PROPERTIES
    WorkingSessionIsKept
CHECK_DEADLOCK FALSE
