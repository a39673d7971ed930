SPECIFICATION Spec
CONSTANTS
    b1 = b1
    b2 = b2
    s1 = s1
    s2 = s2
    n1 = n1
    n2 = n2
    alice = alice
    bob = bob
    carol = carol
    None = None
    Orders <- MCOrders
    Nodes <- MCNodes
    Signers <- MCSigners
    Side <- MCSide
    Limit <- MCLimit
    Amount <- MCAmount
    Holder <- MCHolder
    Deadline <- MCDeadline
    Log <- MCLog
    ValueRange <- MCValueRange
    MaxMatchSlots = 3
    Horizon = 1
    MaxProofs = 4
    MaxOther = 1
    MaxTime = 1
SYMMETRY SignerSymmetry
INVARIANTS
    RoundsSettleWhole
    
    ClaimsRedeemable
    ObservedIsCanonical
CHECK_DEADLOCK FALSE
