SPECIFICATION Spec
CONSTANTS
    Consumers = {p1}
    Calls = {c1, c2, c3}
    Messages = {m1}
    None = None
PROPERTIES
    HandlerShutdownDoesNotDeadlock
CHECK_DEADLOCK FALSE
