SPECIFICATION LFairSpec
CONSTANTS
    Guests = {"a", "b"}
    Names = {"dcgmA"}
    Addrs = {"x", "y"}
    Placements <- OneOrTwoNetworks
    Payloads <- MCPayloads
    Failed <- Failure
    MaxGen = 2
    MaxFaults = 1
    Targets = {"a", "b"}
    Meta <- MCMeta
INVARIANTS
    TypeOK
    OnePool
    OwnAnswer
    LabelsTrue
PROPERTIES
    PageComplete
    FailsOnlyOnConflict
    Recovers
    Released
