SPECIFICATION Spec
CONSTANTS
    Sessions = {s1}
    Turns = {t1}
    NoSession = NoSession
    MaxFaults = 0
CHECK_DEADLOCK FALSE
PROPERTIES
    NotSentIsTrue
