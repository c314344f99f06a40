CONSTANTS
    Requests = {r1, r2}
    Callers = {}
    Objects = {o1}
    Procs = {p1}
    MaxLines = 1
    None = None
SPECIFICATION StdioSpec
INVARIANTS
    RequestsSerialized
CHECK_DEADLOCK FALSE
