CONSTANTS
    r1 = r1
    r2 = r2
    Callers = {h1, h2}
    Calls = {c1, c2, c3}
    None = None
    Blocks <- MCBlocks
    NumBlocks = 2
    Order <- MCOrder
    Capacity = 1
SPECIFICATION Spec
CHECK_DEADLOCK FALSE
INVARIANTS
    AnswerTellsAll
    InTurn
PROPERTIES
    CallsAnswered
    ImplementsBroadcast
