SPECIFICATION Spec
CONSTANTS
    Authorized = {"a"}
    PreparedFirst = {"b"}
    Limit <- UnitLimits
    ExpiresAt <- OneDeadline
    InitialAvailable = 1
    MaxAttempts = 1
    MaxTime = 1
    MaxFaults = 1
INVARIANTS
    EndedNeverReserved
    OneRequestOnTheWire
    QueueFollowsJournal
    ReservesInTurn
    
PROPERTIES
    EntriesEnd
\* All requests ended, or what became of a reserve is unknown.
CHECK_DEADLOCK FALSE
