SPECIFICATION Spec
CONSTANTS
    Keys = {k1}
    Callers = {c1}
    Handlers = {h1, h2}
    NoKey = NoKey
    MaxEvents = 5
CHECK_DEADLOCK FALSE
PROPERTIES
    RefundIsNotUndone
