CONSTANTS
    None = None
    Configs <- MCConfigs
    Hardware <- MCHardware
    ValidNames <- MCValidNames
    Words = {"alice", "bob", "all", "none", "g", "h"}
    Ipv4 = {"0.0.0.0", "10.0.0.1"}
    Oids = {"1.3", "1.4"}
    Lines = {"noc", "hall"}
SPECIFICATION Spec
CHECK_DEADLOCK FALSE
INVARIANT NothingReadable
