SPECIFICATION SafetySpec
CONSTANTS
    Calls = {c1}
    BatchSize = 1
    Listeners = {l1}
    NoListener = NoListener
    SdkStopThrows = TRUE
    TestHooks = FALSE
    SlowThreads = FALSE
    MaxFaults = 2
PROPERTIES
    FailedShutdownStaysShut
