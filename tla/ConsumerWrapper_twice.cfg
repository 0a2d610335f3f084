SPECIFICATION Spec
CONSTANTS
    Consumers = {p1, p2}
    Calls = {c1, c2, c3}
    Messages = {}
    None = None
PROPERTIES
    SettledOnce
CHECK_DEADLOCK FALSE
