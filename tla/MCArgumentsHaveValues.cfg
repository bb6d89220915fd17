CONSTANTS
    MaxInt = 3
    Lower <- MCLower
    Less <- MCLess
    ReservedSymbols <- MCReservedSymbols
    ParserWords <- MCParserWords
    MaxEntries = 3
    Ports = {0, 1}
    Absent <- MCAbsent
    Mismatched <- MCMismatched
    Documents <- MCDocuments
    VariableKeys <- MCVariableKeys
SPECIFICATION MakeSpec
CHECK_DEADLOCK FALSE
INVARIANT EveryArgumentHasAValue
