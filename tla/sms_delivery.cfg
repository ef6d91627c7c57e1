SPECIFICATION FairSpec
CONSTANTS
    NoPhone = NoPhone
    NoEvent = NoEvent
    NoHash = NoHash
    Phones = {p1}
    Recipient <- OnePhone
    Workers = {w1, w2}
    Operators = {o1}
    Handlers = {h1}
    Hashes = {m1, m2}
    Callers = {c1, c2}
    Events = {e1}
    Keywords = {k1}
    MAX_ATTEMPTS = 2
    MaxReplays = 1
    MaxCrashes = 1
    MaxConsentChanges = 2
CHECK_DEADLOCK FALSE
INVARIANTS
    AtMostOneTextPerAuthorisation
    AttemptsAreBounded
    RetriedOnlyAfterRejection
    SentMeansAccepted
    SendingImpliesConsent
    OneTextPerKey
PROPERTIES
    FirstConsentIsVerbal
    QueuedEventuallySettles
