SPECIFICATION Spec
CONSTANTS
    alice = alice
    bob = bob
    Participants <- MCParticipants
    Orders <- MCIocOrders
    Paths = {"local"}
    InitialCash = 6
    InitialSecurities = 2
    MaxBalance = 15
    ReservationHorizon = 1
    BatchLifetime = 1
    MaxMatchSlots = 2
    Exclusive = TRUE
    MaxTime = 1
    MaxPlaced = 3
    MaxFaults = 1
INVARIANTS
    IocExecutes
CHECK_DEADLOCK FALSE
