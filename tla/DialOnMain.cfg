SPECIFICATION Spec
CONSTANTS
    Threads = {"m0", "t1", "t2"}
    Main = "m0"
    Dials = {d1, d2}
    d1 = d1
    d2 = d2
    NetNSs = {"dcgmA"}
SYMMETRY DialSymmetry
INVARIANTS
    AlwaysInRoot
