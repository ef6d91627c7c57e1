SPECIFICATION FairSpec
CONSTANTS
    Anything = Anything
    None = None
    Technicians = {1, 2}
    Pages = {p1}
    j1 = j1
    j2 = j2
    a1 = a1
    Jobs = {j1, j2}
    JobFacts <- Facts
    BookedBefore = {j2}
    Window <- Saturday
    Now <- Monday
    Areas = {a1}
    RuleForms <- Rules
    TechForms <- Forms
    InitialRules <- ByPriority
    InitialTechs <- Techs
    InitialArea <- Area
    Patient = TRUE
    MaxEdits = 1
CHECK_DEADLOCK FALSE
INVARIANTS
    ReadyMeansUnlocked
PROPERTIES
    SilentAssignmentsAreSound
    BoardKeepsItsWord
    ReadyWorkIsAssigned
