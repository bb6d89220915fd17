CONSTANTS
    MaxInt = 3
    Lower <- MCLower
    Less <- MCLess
    ReservedSymbols <- MCReservedSymbols
    ParserWords <- MCParserWords
    MaxEntries = 3
    Documents <- MCDocuments
    VariableKeys <- MCVariableKeys
SPECIFICATION Spec
INVARIANTS
    TypeOK
    VectorsFollowDocument
    ParsedMeansAccepted
    OnlyVariableNamesReplaced
PROPERTIES
    ReadAtMostOnce
    ParseEnds
