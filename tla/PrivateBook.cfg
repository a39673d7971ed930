CONSTANTS
    MaxMatchSlots = 2
    Prices = {1, 2}
    MaxQuantity = 3
    Expiries = {0, 1}
    Orders <- MCOrders
    MaxCommands = 4
    MaxTime = 1
SPECIFICATION Spec
INVARIANTS
    LiveBookNeverCrossed
    ResultNeverRejected
PROPERTIES
    ImplementsOrderBook
\* The bound on commands ends every behaviour; the program waits for the next one.
CHECK_DEADLOCK FALSE
