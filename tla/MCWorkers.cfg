SPECIFICATION WorkersSpec
CHECK_DEADLOCK FALSE
CONSTANTS
    k1 = k1
    k2 = k2
    f1 = f1
    f2 = f2
    s1 = s1
    s2 = s2
    p1 = p1
    c1 = c1
    c2 = c2
    i1 = i1
    i2 = i2
    x1 = x1
    q1 = q1
    q2 = q2
    Keys = {k1, k2}
    Reachable = {k1}
    Fanouts = {f1, f2}
    Senders = {s1, s2}
    MaxRetries = 1
    Pupils = {p1}
    Checks = {c1, c2}
    MaxVersion = 3
    Imports = {i1, i2}
    Exports = {x1}
    Large = {i1}
    Emails = {"a", "b", "c", "d"}
    Matrics = {"m", "n", "o", "p"}
    File <- MCFile
    Account <- MCAccount
    CourseUnits <- MCCourseUnits
    DepartmentOf <- MCDepartmentOf
    FacultyOf <- MCFacultyOf
    MaxUnits = 4
    Registrations = {q1, q2}
INVARIANTS
    AcknowledgedOnce
    QueuedIsInHand
    JobsTellTheTruth
    TwinsOverlapped
    LoadBounded
    ListsMatchAccess
PROPERTIES
    QueuedSettles
    SummariesCatchUp
    JobsSettle
