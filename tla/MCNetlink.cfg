CONSTANTS
    Names <- MCNames
    NoLink = NoLink
    Ops <- MCOps
    Start <- MCStart
    Ports = {"lan1"}
    Lease = 2
    SeqMod = 3
    MaxIndex = 5
    MaxChanges = 2
    MaxFailures = 1
SPECIFICATION Spec
PROPERTIES
    ObservesOneKernel
    AppliesOrFails
    CallReturns
