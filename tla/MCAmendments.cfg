SPECIFICATION AmendmentSpec
CONSTANTS
    lec = lec
    hod = hod
    otherHod = otherHod
    dean = dean
    strayDean = strayDean
    senate = senate
    admin = admin
    s1 = s1
    s2 = s2
    st1 = st1
    st2 = st2
    low = low
    high = high
    absurd = absurd
    cs = cs
    maths = maths
    science = science
    None = None
    Sheets = {s1}
    Students = {st1, st2}
    Scores = {low, high}
    ValidScores = {low, high}
    Departments = {cs, maths}
    Faculties = {science}
    Actors <- MCOffices
    RoleOf <- MCRoleOf
    DepartmentOf <- MCDepartmentOf
    FacultyOf <- MCFacultyOf
    CourseDepartment <- MCCourseDepartment
    DepartmentFaculty <- MCDepartmentFaculty
    MaxRows = 4
    MaxAmendments = 2
    MaxBatch = 1
    MaxAudit = 40
INVARIANTS
    ScoreHistory
    SupersededByAmendment
    AmendmentWasExamined
PROPERTIES
    FrozenAfterSubmission
