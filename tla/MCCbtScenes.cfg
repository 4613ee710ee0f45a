SPECIFICATION ScenesSpec
CHECK_DEADLOCK FALSE
CONSTANTS
    st1 = st1
    st2 = st2
    choice = choice
    essay = essay
    r1 = r1
    r2 = r2
    w1 = w1
    w2 = w2
    l1 = l1
    i1 = i1
    i2 = i2
    None = None
    Students = {st1, st2}
    Enrolled = {st1, st2}
    Questions = {choice, essay}
    ShortAnswer = {essay}
    NumQuestions = 1
    OpensAt = 1
    ClosesAt = 2
    Duration = 1
    Horizon = 3
    Requests = {r1, r2}
    Workers = {w1, w2}
    Linkers = {l1}
    Items = {i1, i2}
    Limit = 1
INVARIANTS
    TypeOK
    ScoreMatchesAnswers
    EndsInTime
    CaGradesAreEarned
PROPERTIES
    SettledIsFinal
    ImplementsSitting
    
