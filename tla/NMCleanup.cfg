SPECIFICATION Spec
CONSTANTS
    Veths = {"netA", "netR"}
    NetNSs = {"dcgmA"}
    NSOf <- MCNSOf
    Ports = {"p1", "p2", "p3"}
    Addrs = {"a1", "a2"}
    Endpoints <- MixedEndpoints
    MaxFaults = 1
    MaxRestarts = 0
INVARIANTS
    CleanupDetachesAll
