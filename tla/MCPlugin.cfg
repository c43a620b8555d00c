CONSTANTS
    Configs <- MCConfigs
    Startup <- MCStartup
    Macs = {mac1, mac2}
    mac1 = mac1
    mac2 = mac2
    id1 = id1
    vlan10 = vlan10
    vlan20 = vlan20
    alice = alice
    None = None
    Mixed = Mixed
SPECIFICATION Spec
INVARIANTS
    EngineIdOfSnmpd
    AppliedIsRunning
PROPERTIES
    KernelBetween
    ImplementsService
