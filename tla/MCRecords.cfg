SPECIFICATION RecordsSpec
CHECK_DEADLOCK FALSE
CONSTANTS
    tabSwitch = tabSwitch
    noFace = noFace
    rev = rev
    k1 = k1
    q1 = q1
    q2 = q2
    EventKinds = {tabSwitch}
    CaptureKinds = {noFace}
    Threshold <- MCThreshold
    MaxSignals = 2
    Evaluations = {q1, q2}
    Reviewers = {rev}
    Units <- MCUnits
    Terms = {"t1", "t2"}
    Totals = {39, 70}
    Scale <- MCScale
    PointUnit = 1
    Bands <- MCBands
    Institution <- MCInstitution
    MaxChanges = 2
    Tasks = {k1}
    Items = {"i1", "i2"}
    Weights = {2, 5}
    CaPortion = 4
    Candidates = {"ada"}
    MaxScore = 2
    Scores <- MCScores
    MaxFiles = 2
    Requests = {q1, q2}
    Modules = {"m1"}
    ModuleOf <- MCModuleOf
    Changes <- MCChanges
    Uploads <- MCUploads
    Curators = {q1, q2}
    Lessons = {"i1"}
    Readers = {"ada"}
    Tabs = {q1, q2}
    MaxViews = 4
    Members = {"lec", "ada"}
    Staff = {"lec"}
    Threads = {"t1"}
    Notices = {"n1"}
    ThreadOf <- MCThreadOf
    Desks = {q1, q2}
    Class = {"ada", "rep"}
    Marks = {"m1", "absurd"}
    Valid = {"m1"}
    SheetDepartment <- MCSheetDepartment
    DepartmentFaculty <- MCDepartmentFaculty
    Searches = {"", "q"}
    MaxPage = 2
    Banks = {"b1", "b2"}
    MaxQuestions = 2
    Payloads <- MCPayloads
    Normal <- MCNormal
    Exams = {"e1"}
    Forms <- MCForms
    Sitters = {"ada"}
    Raw <- MCRaw
SYMMETRY MCSymmetry
INVARIANTS
    RecordsTypeOK
    SignalsRaiseFlag
    StandingIsTrue
    CaBounded
    GradedWorkStays
    OrderStands
    NoViewIsLost
    TypedIsKept
    BatchIsWhatWasShown
    PapersAreWhole
    ScheduledExamsCanBeSat
    TickedIsGraded
PROPERTIES
    ReviewStands
    RemovalStands
