SPECIFICATION Spec
CONSTANTS
    Veths = {"netA", "netR"}
    NetNSs = {"dcgmA"}
    NSOf <- MCNSOf
    Ports = {"p1", "p2", "p3"}
    Addrs = {"a1", "a2"}
    Endpoints <- MixedEndpoints
    MaxFaults = 2
    MaxRestarts = 1
INVARIANTS
    TypeOK
    ReconcileAttachesAll
    TenantAddressesConfined
    ExactWithoutFaults
PROPERTIES
    KeepsWanted
    OnlyFaultsFail
    ImplementsReconciler
