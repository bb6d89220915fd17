CONSTANTS
    Names <- MCNames
    Signals <- MCSignals
    Blocks <- MCBlocks
    Rank <- MCRank
SPECIFICATION Spec
CHECK_DEADLOCK FALSE
INVARIANTS
    FetchedIsReported
    HiddenOnlyByItsName
    PostMortemAgrees
    MetadataOfTheVisited
PROPERTIES
    NamesStay
