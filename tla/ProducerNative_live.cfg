SPECIFICATION Spec
CONSTANTS
    Sends = {s1, s2}
    NoSend = NoSend
    SharedInstance = TRUE
    SdkStopThrows = TRUE
    TestHooks = FALSE
    Reentrant = FALSE
    MaxFaults = 1
PROPERTIES
    ShutdownTerminates
    PinsDropped
    SendsReported
    ImplementsSendService
