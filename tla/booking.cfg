SPECIFICATION Spec
CONSTANTS
    Offset <- LosAngeles
    FirstWeekday = 4
    Lookahead = 4
    MinNotice = 141
    None = None
    Pages = {p1}
    Chats = {c1}
    Notes = {n1}
    TokenLife = 1
    Start <- FridayMorning
    Tick = 2
    MaxNow <- FridayNoon
    MaxBooked = 2
    MaxOthers = 1
CHECK_DEADLOCK FALSE
INVARIANTS
    ConfirmedWindowWasChosen
    OffersAreServiceWindows
    AppointmentsDoNotOverlap
PROPERTIES
    DispatchSeesTheAnswer
