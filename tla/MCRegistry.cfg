CONSTANTS
    Ids = {d1, d2}
    Instances = {p1, p2, p3}
    Requests = {r1}
    Workers = 1
    Flaky = {d2}
    Pooled = {d1}
    Unbounded = {d2}
    None = None
SPECIFICATION FairSpec
INVARIANTS
    FailuresHaveOwner
    SuccessIsOwn
    NoVerdictFromClosed
    NoLeak
PROPERTIES
    ReportCompletes
CHECK_DEADLOCK FALSE
