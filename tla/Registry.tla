------------------------------ MODULE Registry ------------------------------
(***************************************************************************)
(* Enrolments and course assignments of one term                           *)
(* (src/backend/accounts/services.py), and the two ways the rest of the    *)
(* backend asks who may read a course: a predicate on one course, and a    *)
(* filter on a list of them.                                               *)
(*                                                                         *)
(* Enrolling sums the student's credit units and inserts the row in two    *)
(* statements, without a transaction.                                      *)
(***************************************************************************)
EXTENDS Integers, FiniteSets, FiniteSetsExt

CONSTANTS
    Account,         \* each user's [role, department, faculty]
    CourseUnits,     \* credit units of each course
    DepartmentOf,    \* the department of each course
    FacultyOf,       \* the faculty of each department
    MaxUnits,        \* institution.max_credit_units_per_semester
    Registrations    \* enrolment requests handled at once

Users == DOMAIN Account

Offered == DOMAIN CourseUnits

ASSUME RegistryAssumption ==
    /\ Users # {} /\ Offered # {} /\ Registrations # {}
    /\ IsFiniteSet(Offered) /\ IsFiniteSet(Registrations)
    /\ CourseUnits \in [Offered -> Nat]
    /\ DepartmentOf \in [Offered -> DOMAIN FacultyOf]
    /\ "none" \notin DOMAIN FacultyOf /\ \A d \in DOMAIN FacultyOf : FacultyOf[d] # "none"
    /\ MaxUnits \in Nat

STUDENT_ROLES == {"student", "course_rep"}

Lecturers == {u \in Users : Account[u].role = "lecturer"}

Registration == [pc : {"idle", "create"}, student : Users, course : Offered]

VARIABLES enrolments, assignments, registration

registryVars == <<enrolments, assignments, registration>>

RegistryTypeOK ==
    /\ enrolments \subseteq Users \X Offered
    /\ assignments \subseteq Users \X Offered
    /\ registration \in [Registrations -> Registration]

-----------------------------------------------------------------------------
IdleRegistration ==
    [pc |-> "idle", student |-> CHOOSE u \in Users : TRUE, course |-> CHOOSE c \in Offered : TRUE]

\* term_credit_units
CreditUnits(u) == MapThenSumSet(LAMBDA c : CourseUnits[c], {c \in Offered : <<u, c>> \in enrolments})

\* Mutant: the units of the course itself are left out of the comparison.
CheckEnrolmentLoad(r, u, c) ==
    /\ registration[r].pc = "idle"
    /\ Account[u].role = "student"
    /\ <<u, c>> \notin enrolments
    /\ CreditUnits(u) <= MaxUnits
    /\ registration' = [registration EXCEPT ![r] = [pc |-> "create", student |-> u, course |-> c]]
    /\ UNCHANGED <<enrolments, assignments>>

\* enrol_student up to its insert.
CheckEnrolment(r, u, c) ==
    /\ registration[r].pc = "idle"
    /\ Account[u].role = "student"
    /\ <<u, c>> \notin enrolments
    /\ CreditUnits(u) + CourseUnits[c] <= MaxUnits
    /\ registration' = [registration EXCEPT ![r] = [pc |-> "create", student |-> u, course |-> c]]
    /\ UNCHANGED <<enrolments, assignments>>

\* The insert, which the unique constraint may refuse, or the request's death.
InsertEnrolment(r) ==
    LET row == <<registration[r].student, registration[r].course>>
    IN  /\ registration[r].pc = "create"
        /\ enrolments' \in {enrolments, enrolments \cup {row}}
        /\ registration' = [registration EXCEPT ![r] = IdleRegistration]
        /\ UNCHANGED assignments

DeleteEnrolment(row) ==
    /\ enrolments' = enrolments \ {row}
    /\ UNCHANGED <<assignments, registration>>

\* assign_lecturer
AssignLecturer(actor, u, c) ==
    /\ \/ Account[actor].role = "school_admin"
       \/ Account[actor].role = "hod" /\ Account[actor].department = DepartmentOf[c]
    /\ u \in Lecturers
    /\ <<u, c>> \notin assignments
    /\ assignments' = assignments \cup {<<u, c>>}
    /\ UNCHANGED <<enrolments, registration>>

\* import_assignments, by a school admin: the rows of a file that were not there
\* when it was read, all of them or, when one has been inserted since, none.
ImportAssignments(rows) ==
    /\ rows # {} /\ rows \cap assignments = {}
    /\ assignments' = assignments \cup rows
    /\ UNCHANGED <<enrolments, registration>>

DeleteAssignment(row) ==
    /\ assignments' = assignments \ {row}
    /\ UNCHANGED <<enrolments, registration>>

-----------------------------------------------------------------------------
RegistryInit ==
    /\ enrolments = {}
    /\ assignments = {}
    /\ registration = [r \in Registrations |-> IdleRegistration]

RegistryNext ==
    \/ \E r \in Registrations :
          \/ \E u \in Users, c \in Offered : CheckEnrolment(r, u, c)
          \/ InsertEnrolment(r)
    \/ \E row \in enrolments : DeleteEnrolment(row)
    \/ \E actor, u \in Users, c \in Offered : AssignLecturer(actor, u, c)
    \/ \E rows \in SUBSET (Lecturers \X Offered) : ImportAssignments(rows)
    \/ \E row \in assignments : DeleteAssignment(row)

RegistrySpec == RegistryInit /\ [][RegistryNext]_registryVars

-----------------------------------------------------------------------------
\* can_manage_course
CanManageCourse(u, c) ==
    \/ Account[u].role = "lecturer" /\ <<u, c>> \in assignments
    \/ Account[u].role = "hod" /\ Account[u].department = DepartmentOf[c]
    \/ Account[u].role = "dean" /\ Account[u].faculty = FacultyOf[DepartmentOf[c]]
    \/ Account[u].role \in {"senate_admin", "school_admin"}

\* can_access_course, student_is_enrolled
CanAccessCourse(u, c) ==
    CanManageCourse(u, c) \/ (Account[u].role \in STUDENT_ROLES /\ <<u, c>> \in enrolments)

\* Mutant: the subquery on assignments is not tied to the row's course.
AccessibleUntied(u) ==
    CASE Account[u].role = "lecturer" -> {c \in Offered : \E d \in Offered : <<u, d>> \in assignments}
      [] Account[u].role \in STUDENT_ROLES -> {c \in Offered : <<u, c>> \in enrolments}
      [] OTHER -> {c \in Offered : CanManageCourse(u, c)}

\* scope_to_accessible_courses
Accessible(u) ==
    LET role == Account[u].role
    IN  CASE role = "lecturer" -> {c \in Offered : <<u, c>> \in assignments}
          [] role \in STUDENT_ROLES -> {c \in Offered : <<u, c>> \in enrolments}
          [] role = "hod" /\ Account[u].department # "none" ->
                {c \in Offered : DepartmentOf[c] = Account[u].department}
          [] role = "dean" /\ Account[u].faculty # "none" ->
                {c \in Offered : FacultyOf[DepartmentOf[c]] = Account[u].faculty}
          [] role \in {"senate_admin", "school_admin"} -> Offered
          [] OTHER -> {}

\* can_manage_exam and _manages_course_by_scope, by which cbt asks for itself.
CanManageExam(u, c) ==
    LET role == Account[u].role
        department == Account[u].department
        faculty == Account[u].faculty
    IN  CASE role = "lecturer" -> <<u, c>> \in assignments
          [] role = "hod" -> department # "none" /\ department = DepartmentOf[c]
          [] role = "dean" -> faculty # "none" /\ faculty = FacultyOf[DepartmentOf[c]]
          [] OTHER -> role \in {"senate_admin", "school_admin"}

\* visible_exams, by the course of the exam: a column that is never null equals
\* no missing department or faculty.
VisibleExams(u) ==
    LET user == Account[u]
    IN  CASE user.role = "lecturer" -> {c \in Offered : <<u, c>> \in assignments}
          [] user.role \in STUDENT_ROLES -> {c \in Offered : <<u, c>> \in enrolments}
          [] user.role = "hod" -> {c \in Offered : DepartmentOf[c] = user.department}
          [] user.role = "dean" -> {c \in Offered : FacultyOf[DepartmentOf[c]] = user.faculty}
          [] user.role \in {"senate_admin", "school_admin"} -> Offered
          [] OTHER -> {}

-----------------------------------------------------------------------------
\* A student's load exceeds the institution's maximum by no more than the
\* requests that passed the check together can add (services.enrol_student).
LoadBounded ==
    LET heaviest == Max({0} \cup {CourseUnits[c] : c \in Offered})
    IN  \A u \in Users :
           CreditUnits(u) <= MaxUnits + (Cardinality(Registrations) - 1) * heaviest

\* Whatever the registry holds, a list shows a user exactly the courses that the
\* check on a single one lets in; and the exams a list shows are those of these
\* courses, the ones the user may manage among them, although cbt writes both
\* rules a second time (accounts.services.scope_to_accessible_courses,
\* cbt.services.visible_exams).
ListsMatchAccess ==
    \A u \in Users :
       /\ Accessible(u) = {c \in Offered : CanAccessCourse(u, c)}
       /\ VisibleExams(u) = Accessible(u)
       /\ \A c \in Offered : CanManageExam(u, c) <=> CanManageCourse(u, c)
=============================================================================
