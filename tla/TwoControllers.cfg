CONSTANTS
    Hosts = {h1, h2, h3}
    Controllers = {h1, h2}
SPECIFICATION Spec
CHECK_DEADLOCK FALSE
INVARIANT
    WasStartedTells
