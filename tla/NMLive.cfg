SPECIFICATION FairSpec
CONSTANTS
    Veths = {"netA"}
    NetNSs = {"dcgmA"}
    NSOf <- MCNSOf
    Ports = {"p1", "p2", "p3"}
    Addrs = {"a1", "a2"}
    Endpoints <- SingleEndpoints
    MaxFaults = 2
    MaxRestarts = 1
PROPERTIES
    ConvergesToReplaced
