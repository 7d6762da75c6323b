SPECIFICATION FairSpec
CONSTANTS
    Threads = {"m0", "t1"}
    Main = "m0"
    Dials = {"d1", "d2"}
    NetNSs = {"dcgmA", "dcgmB"}
INVARIANTS
    TypeOK
    DialedInTarget
    ThreadsRestored
    RootDialsInRoot
PROPERTIES
    DialsReturn
