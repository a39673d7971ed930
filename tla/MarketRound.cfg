SPECIFICATION FairSpec
CONSTANTS
    first = first
    second = second
    third = third
    n1 = n1
    n2 = n2
    None = None
    Orders = {first, second, third}
    Nodes = {n1, n2}
    OrderingQuorum = 2
    Quantity <- FirstIsLarger
    Deadline <- SecondExpires
    PlanLife = 0
    MaxSlots = 2
    Capacity = 15
    MaxTime = 1
    MaxOther = 1
    MaxFaults = 1
\* Every order completed, or a stall.
CHECK_DEADLOCK FALSE
INVARIANTS
    ChainFollowsJournal
    SettledOnce
    BookIsCanonical
PROPERTIES
    StallIsFinal
    Progress
