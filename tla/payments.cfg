SPECIFICATION FairSpec
CONSTANTS
    Keys = {k1}
    Callers = {c1, c2}
    Handlers = {h1}
    NoKey = NoKey
    MaxEvents = 5
CHECK_DEADLOCK FALSE
INVARIANTS
    SucceededMeansPaid
    EventsApplyOnce
    RefundsAreGenuine
PROPERTIES
    RefundIsNotUndone
    RequestsNeverBlock
    PaidIsEventuallyRecorded
