SPECIFICATION Spec
CONSTANTS
    Sessions = {s1}
    Memory = 40
    Openers <- UsualOpeners
    Answer <- HomeAnswers
    Questions <- UsualQuestions
    Patience = 10
    MaxMishaps = 0
CHECK_DEADLOCK FALSE
INVARIANTS
    PreparingIsTrue
