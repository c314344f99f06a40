CONSTANTS
    Names = {a, b, l}
    Local = {l}
    Discovery = {a, l}
    Pushes = {s1, s2}
    Boot = Boot
    Ids <- MCIds
    Instances <- MCInstances
    Requests = {}
    Workers = 1
    Flaky <- MCFlaky
    Pooled <- MCPooled
    Unbounded = {}
    None = None
SPECIFICATION SyncSpec
INVARIANTS
    SyncTypeOK
    AppliesLatestPush
    SiblingMatchesParent
PROPERTIES
    KeptWhenAlwaysListed
