SPECIFICATION Spec
CONSTANTS
    Jobs = {j1, j2}
    Windows = {w1, w2}
    NoWindow = NoWindow
    Calls = {c1, c2}
    MaxEvents = 4
    MaxFaults = 2
CHECK_DEADLOCK FALSE
SYMMETRY Symmetry
INVARIANTS
    CalendarMatchesRow
    NoStrayEvents
    BookedRowsAreWhole
    BookedEventExists
