SPECIFICATION EvaluateSpec
CONSTANTS
    Texts <- MCTexts
    Unprintable = {"ctl"}
    Inputs <- MCInputs
    max_stack_depth = 16
CHECK_DEADLOCK FALSE
INVARIANTS
    NothingLost
    TokensAreWhole
    CommentsAsListed
    MeansWhatIsWritten
    RefusedForAReason
    OperandsAsListed
    FirstOfAKind
PROPERTIES
    Evaluated
