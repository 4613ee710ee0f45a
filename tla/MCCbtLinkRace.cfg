SPECIFICATION Spec
CONSTANTS
    st1 = st1
    st2 = st2
    choice = choice
    essay = essay
    r1 = r1
    r2 = r2
    w1 = w1
    w2 = w2
    l1 = l1
    i1 = i1
    i2 = i2
    None = None
    Students = {st1}
    Enrolled = {st1}
    Questions = {choice, essay}
    ShortAnswer = {essay}
    NumQuestions = 1
    OpensAt = 0
    ClosesAt = 1
    Duration = 1
    Horizon = 2
    Requests = {r1}
    Workers = {w1}
    Linkers = {l1}
    Items = {i1}
    Limit = 1
INVARIANTS
    LinkedScoresArrive
