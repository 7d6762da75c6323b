SPECIFICATION Spec
CONSTANTS
    VMs = {v1, "healthy"}
    Reqs = {r1, r2}
    Polls = {}
    Workers = 1
    ScrapeTimeout = 2
    RequestTimeout = 3
    CacheTTL = 2
    Answers <- AllButOne
SYMMETRY Symmetry
INVARIANTS
    TypeOK
    ResultsComplete
    CachedIsFresh
    RequestsMeetDeadline
    FaultIsolation
