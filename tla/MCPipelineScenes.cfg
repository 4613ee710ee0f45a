SPECIFICATION ScenesSpec
CONSTANTS
    lec = lec
    hod = hod
    otherHod = otherHod
    dean = dean
    strayDean = strayDean
    senate = senate
    admin = admin
    s1 = s1
    s2 = s2
    st1 = st1
    st2 = st2
    low = low
    high = high
    absurd = absurd
    cs = cs
    maths = maths
    science = science
    None = None
    Sheets = {s1, s2}
    Students = {st1}
    Scores = {low, high, absurd}
    ValidScores = {low, high}
    Departments = {cs, maths}
    Faculties = {science}
    Actors <- MCActors
    RoleOf <- MCRoleOf
    DepartmentOf <- MCDepartmentOf
    FacultyOf <- MCFacultyOf
    CourseDepartment <- MCCourseDepartment
    DepartmentFaculty <- MCDepartmentFaculty
    MaxRows = 2
    MaxAmendments = 1
    MaxBatch = 3
    MaxAudit = 10
INVARIANTS
    TypeOK
    AuditAccounts
    RatifiedWasExamined
    NoticesFollowCommits
PROPERTIES
    HistoryIsAppendOnly
    ImplementsChain
SYMMETRY ScenesSymmetry
