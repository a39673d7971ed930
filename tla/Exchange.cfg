SPECIFICATION FairSpec
CONSTANTS
    alice = alice
    bob = bob
    Participants <- MCParticipants
    Orders <- MCOrders
    Paths = {"local", "native", "collaborative"}
    InitialCash = 9
    InitialSecurities = 3
    MaxBalance = 13
    ReservationHorizon = 1
    BatchLifetime = 1
    MaxMatchSlots = 2
    Exclusive = FALSE
    MaxTime = 2
    MaxPlaced = 4
    MaxFaults = 1
INVARIANTS
    BookMatchesReservations
    Solvent
    LedgerInStep
PROPERTIES
    NoUpdateLost
    
CHECK_DEADLOCK FALSE
