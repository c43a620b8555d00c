CONSTANTS
    U32 = 1073741824
    NoVlan = NoVlan
    BridgeName <- Br
    Trailing <- MCTrailing
    Rank <- MCRank
    Applied <- MCApplied
    Requests <- MCRequests
    None = None
    MaxFailures = 2
SPECIFICATION Spec
INVARIANTS
    PortListsDecode
    FdbIndexed
    StpInRange
    StateAsRead
