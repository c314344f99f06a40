CONSTANTS
    Handlers = {h1}
    Capacity = 1
SPECIFICATION FairSpec
INVARIANTS
    NoLostTrigger
PROPERTIES
    EveryChangeIsReported
    ShutdownCompletes
    DeadWriterEndsSession
