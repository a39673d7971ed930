SPECIFICATION Spec
CONSTANTS
    o1 = o1
    o2 = o2
    o3 = o3
    c1 = c1
    c2 = c2
    h1 = h1
    h2 = h2
    h3 = h3
    None = None
    Orders = {o1, o2, o3}
    Commands = {c1}
    Holds = {h1, h2, h3}
    Hold <- OwnHold
    Target <- ReleaseFirst
INVARIANTS
    StoreReadable
    ReceiptDurable
    
    MatchedRoundFinalizable
PROPERTIES
    HeadsAdvanceFromParents
