CONSTANTS
    Pids = {m1, m2}
    None = None
    Stps <- MCStps
SPECIFICATION Spec
SYMMETRY PidSymmetry
INVARIANTS
    TypeOK
    OnlyOne
    CommandsAccepted
    AppliedInEffect
