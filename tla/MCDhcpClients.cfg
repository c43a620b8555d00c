SPECIFICATION Spec
CONSTANTS
    Pids = {p1, p2}
    Svis = {vlan10, vlan20}
    None = None
CHECK_DEADLOCK TRUE
INVARIANTS
    OneClient
    OwnLease
PROPERTIES
    ReleasesWhileLinked
    ImplementsService
