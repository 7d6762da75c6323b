SPECIFICATION Spec
CONSTANTS
    Hosts = {a, b}
    VMs = {"v1", "v2"}
    Nets = {"n1", "n2", "n3"}
    NetsOf <- MCNetsOf
    Primary <- MCPrimary
    NoNet = "none"
    GPU = {"v1", "v2"}
    Short <- Colliding
    Rank <- MCRank
    Slash24 = {"n1"}
    Slots = {s1, s2}
    MaxPorts = 6
    MaxMoves = 2
    MaxFaults = 1
    MaxRestarts = 1
CONSTRAINT OneTrouble
SYMMETRY Symmetry
INVARIANTS
    TypeOK
    EndpointsBound
    TargetsReachable
    DuplicatesExplained
PROPERTIES
    PrefixKept
