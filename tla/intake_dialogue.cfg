SPECIFICATION FairSpec
CONSTANTS
    Sessions = {s1}
    Memory = 40
    Openers <- UsualOpeners
    Answer <- PlainAnswers
    Questions <- UsualQuestions
    Patience = 10
    MaxMishaps = 1
CHECK_DEADLOCK FALSE
PROPERTIES
    NeverAsksAgain
    CooperationEndsInJob
    IdleSessionsAreClosed
