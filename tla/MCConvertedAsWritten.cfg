CONSTANTS
    MaxInt = 3
    Lower <- MCLower
    Less <- MCLess
    ReservedSymbols <- MCReservedSymbols
    ParserWords <- MCParserWords
SPECIFICATION Spec
CHECK_DEADLOCK FALSE
INVARIANT ConvertedAsWritten
