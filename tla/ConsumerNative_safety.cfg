SPECIFICATION SafetySpec
CONSTANTS
    Calls = {c1, c2}
    BatchSize = 2
    Listeners = {l1, l2}
    NoListener = NoListener
    SdkStopThrows = TRUE
    TestHooks = FALSE
    SlowThreads = TRUE
    MaxFaults = 2
SYMMETRY CallSymmetry
INVARIANTS
    TypeOK
    SuccessMeansAllAcked
    TsfnOpenWhileUsed
    ShutdownLeavesNothing
PROPERTIES
    ImplementsDeliveryService
