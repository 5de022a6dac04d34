SPECIFICATION FairSpec
CONSTANTS
    Null = Null
    Byte <- Symbol
    Input <- Sent
    I64Max = 21
    CapacityMax = 8
    Message <- Tree
    Depth = 2
CHECK_DEADLOCK FALSE
INVARIANTS ArraysHaveRoom ParsesAsWhole RoundTrip
PROPERTIES ParseReturns ImplementsOneCall
