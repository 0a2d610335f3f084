SPECIFICATION SafetySpec
CONSTANTS
    Sends = {s1, s2}
    NoSend = NoSend
    SharedInstance = TRUE
    SdkStopThrows = TRUE
    TestHooks = TRUE
    Reentrant = TRUE
    MaxFaults = 2
SYMMETRY SendSymmetry
INVARIANTS
    TsfnUsedOnlyWhileOwned
    ToldAtMostOnce
    NothingLeftBehind
