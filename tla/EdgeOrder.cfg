SPECIFICATION Spec
CONSTANTS
    a = a
    c = c
    None = None
    Orders <- MCOrders
    Manifests <- MCManifests
    Random <- MCRandom
    Secret <- MCSecret
    Blinding <- MCBlinding
    Hold <- MCHold
    Deadline <- MCDeadline
    Slips <- MCSlips
    Size = 4
    Corrupt = {0, 1}
    P = 5
    MaxBundles = 2
    MaxRounds = 1
    MaxTime = 1
    MaxRestarts = 1
INVARIANTS
    SharesDetermineOrder
    AdmittedOncePerReservation
    UnmatchedStaysSealed
    
    RestartKeepsReceipts
CHECK_DEADLOCK FALSE
