SPECIFICATION DFairSpec
CONSTANTS
    Hosts = {"a"}
    VMs = {"v2"}
    Nets = {"n1", "n3"}
    NetsOf <- MCNetsOf
    Primary <- MCPrimary
    NoNet = "none"
    GPU = {"v2"}
    Short <- Distinct
    Rank <- MCRank
    Slash24 = {"n1"}
    Slots = {"s1", "s2"}
    MaxPorts = 6
    MaxMoves = 2
    MaxFaults = 1
    MaxRestarts = 1
    AgentSettings <- MCAgentSettings
    ControlSettings <- MCControlSettings
    Malformed <- MCMalformed
INVARIANTS
    DTypeOK
    
PROPERTIES
    TargetsCurrent
    AgentConverges
    UnidentifiedNotReady
