CONSTANTS
    MaxMatchSlots = 3
    WireBits = 3
    Prices = {1, 3}
    MaxQuantity = 3
    MaxRounds = 5
SPECIFICATION Spec
INVARIANTS
    FillsProvable
    DepthIsBook
PROPERTIES
    ImplementsOrderBook
\* The bound on rounds ends every behaviour; the program waits for the next one.
CHECK_DEADLOCK FALSE
