CONSTANTS
    Width = 3
    MaxSweepAddresses = 4
    NWorkers = 2
    Ports = {1, 2}
    RawPrefixes <- MCPrefixes
    MaxCIDRs = 2
    Scopes <- MCScopes
    SshPort = 2
    IdentitySlots = 2
    Literals = {t1, t2}
    HostAddresses <- MCHostAddresses
    t1 = t1
    t2 = t2
    t3 = t3
    Targets = {t1, t2, t3}
    Collectors = {1}
    Concurrency = 2
    ChannelWindow = 2
    MaxOutput = 3
    MaxOutputBytes = 1
    Queries = {1, 2, 3}
    QuerySlots = 2
    MaxEdges = 2
    MaxWindow = 2
    Window = 1
    Instants = {0, 1, 2, 3}
    Garbled = Garbled
    Protocols <- MCProtocols
    ScopeUnits = {unit}
    Any4 = Any4
    Any6 = Any6
    StoreAnswers <- MCAnswers
    None = None
    i1 = i1
    i2 = i2
    front = front
    back = back
    unit = unit
    host = host
    n1 = n1
    n2 = n2
SPECIFICATION ActionSpec
INVARIANTS
    ActionTypeOK
    SweepComplete
    EveryTargetAnswered
    ScopeRespected
    OutputExact
    CallsAreShown
    DestinationsNotGuessed
    AllOrNothing
PROPERTIES
    ActionsReturn
    CommandCompletes
CHECK_DEADLOCK FALSE
