CONSTANTS
    Hosts = {h1, h2, h3}
    Controllers = {h1}
SPECIFICATION Spec
CHECK_DEADLOCK FALSE
INVARIANTS
    TypeOK
    WasStartedTells
PROPERTIES
    StopEndsTheGraph
    WaitReturns
