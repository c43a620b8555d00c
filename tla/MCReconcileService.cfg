CONSTANTS
    Names <- MCNames
    Rank <- MCRank
    Desired <- SomeDesired
    Kernels <- SomeKernels
    Leases = {3}
    NoLink = NoLink
    NoVlan = 0
SPECIFICATION Spec
PROPERTIES
    EndsAsService
