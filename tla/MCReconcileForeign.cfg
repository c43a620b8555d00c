CONSTANTS
    Names <- MCNames
    Rank <- MCRank
    Desired <- MCDesired
    Kernels <- MCKernels
    Leases = {3, 4}
    NoLink = NoLink
    NoVlan = 0
SPECIFICATION Spec
INVARIANT
    AlwaysAccepted
