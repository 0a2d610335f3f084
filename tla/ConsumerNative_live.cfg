SPECIFICATION Spec
CONSTANTS
    Calls = {c1, c2}
    BatchSize = 1
    Listeners = {l1}
    NoListener = NoListener
    SdkStopThrows = TRUE
    TestHooks = TRUE
    SlowThreads = FALSE
    MaxFaults = 1
INVARIANTS
    NoCircularWait
PROPERTIES
    ShutdownTerminates
    DestroyTerminates
    CallsReturn
CHECK_DEADLOCK FALSE
