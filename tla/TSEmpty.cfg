SPECIFICATION Spec
CONSTANTS
    VMs = {"v1", "v2"}
    Reqs = {"r1"}
    Polls = {"p1"}
    Workers = 1
    ScrapeTimeout = 1
    RequestTimeout = 3
    CacheTTL = 2
    Answers <- AnyAnswer
INVARIANTS
    AlwaysServed
