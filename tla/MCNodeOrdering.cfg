CONSTANTS
    n1 = n1
    n2 = n2
    n3 = n3
    n4 = n4
    early = early
    late = late
    Nodes <- MCNodes
    Byzantine <- MCByzantine
    OrderingQuorum = 3
    Commitments <- MCCommitments
    Deadline <- MCDeadline
    MaxTime = 1
SPECIFICATION Spec
SYMMETRY NodeSymmetry
INVARIANTS
    LiveCertificateUnique
    VotesDurable
    ForkOnlyAfterExpiry
PROPERTIES
    ChainOnlyExtends
