SPECIFICATION Spec
CONSTANTS
    Hosts = {"a"}
    VMs = {"v1"}
    Nets = {"n1", "n2", "n3"}
    NetsOf <- MCNetsOf
    Primary <- MCPrimary
    NoNet = "none"
    GPU = {"v1"}
    Short <- Distinct
    Rank <- MCRank
    Slash24 = {"n1"}
    Slots = {"s1", "s2"}
    MaxPorts = 4
    MaxMoves = 1
    MaxFaults = 1
    MaxRestarts = 0
INVARIANTS
    OnePortPerNetwork
