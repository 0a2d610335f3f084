SPECIFICATION SafetySpec
CONSTANTS
    Sends = {s1}
    NoSend = NoSend
    SharedInstance = TRUE
    SdkStopThrows = FALSE
    TestHooks = FALSE
    Reentrant = FALSE
    MaxFaults = 0
INVARIANT NoUseAfterDelete
