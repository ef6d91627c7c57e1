SPECIFICATION FairSpec
CONSTANTS
    Sessions = {s1}
    Turns = {t1, t2}
    NoSession = NoSession
    MaxFaults = 2
CHECK_DEADLOCK FALSE
INVARIANTS
    OnePerSession
    SessionsStayUsable
PROPERTIES
    ImplementsPromise
    SavedRequestsAreAnnounced
