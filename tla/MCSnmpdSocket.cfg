CONSTANTS
    Pids = {p1, p2, p3, p4}
    alice = alice
    bob = bob
    Confs <- MCConfs
    None = None
SPECIFICATION Spec
SYMMETRY Symmetry
INVARIANT
    AgentAfterSocket
