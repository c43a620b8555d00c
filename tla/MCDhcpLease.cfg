SPECIFICATION Spec
CONSTANTS
    Pids = {p1, p2}
    Svis = {vlan10, vlan20}
    None = None
SYMMETRY PidSymmetry
CHECK_DEADLOCK TRUE
INVARIANT LeaseOfRunningClient
