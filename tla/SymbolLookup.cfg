SPECIFICATION Spec
CONSTANTS
    Symbols <- SomeSymbols
    MaxSymbols = 7
    Addresses <- SomeAddresses
CHECK_DEADLOCK FALSE
INVARIANTS
    QueryExact
    FramesComplete
    LinesExact
