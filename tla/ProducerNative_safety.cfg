SPECIFICATION SafetySpec
CONSTANTS
    Sends = {s1, s2}
    NoSend = NoSend
    SharedInstance = FALSE
    SdkStopThrows = FALSE
    TestHooks = FALSE
    Reentrant = FALSE
    MaxFaults = 1
SYMMETRY SendSymmetry
INVARIANTS
    TypeOK
    NoUseAfterDelete
    PendingCountExact
    ShutdownWaitsForSends
