SPECIFICATION Spec
CONSTANTS
    Producers = {p1, p2}
    Calls = {c1, c2, c3}
    Sends = {s1, s2}
    None = None
INVARIANTS
    TypeOK
    KeepAliveExact
    NativeInStep
    NoSendOutlivesShutdown
PROPERTIES
    ImplementsOneShot
    SettledOnce
    CallsAnswered
    SendsSettled
CHECK_DEADLOCK FALSE
