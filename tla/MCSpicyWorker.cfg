SPECIFICATION WSpec
CONSTANTS
    Parsers <- MCParsers
    Cleaners <- TwoCleaners
CHECK_DEADLOCK FALSE
INVARIANTS
    WTypeOK
    ResultHasOwner
PROPERTIES
    ParseReturns
    CommandsServed
