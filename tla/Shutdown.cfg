SPECIFICATION SFairSpec
CONSTANTS
    VMs = {"v1"}
    Reqs = {"r1", "r2"}
    Polls = {"p1"}
    Workers = 1
    ScrapeTimeout = 2
    RequestTimeout = 2
    CacheTTL = 1
    Answers <- OnlySlow
    ShutdownTimeout = 2
\* The program ends.
CHECK_DEADLOCK FALSE
PROPERTIES
    GhostsVanish
    RequestsReturn
    GracefulExit
