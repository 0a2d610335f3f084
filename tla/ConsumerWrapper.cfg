SPECIFICATION Spec
CONSTANTS
    Consumers = {p1, p2}
    Calls = {c1, c2, c3}
    Messages = {m1, m2}
    None = None
INVARIANTS
    TypeOK
    AcksExact
    KeepAliveExact
    ResolvedMeansDrained
PROPERTIES
    ImplementsOneShot
    TimeoutBlamesAnother
    CallsAnswered
CHECK_DEADLOCK FALSE
