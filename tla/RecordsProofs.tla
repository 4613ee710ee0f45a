---------------------------- MODULE RecordsProofs ---------------------------
(***************************************************************************)
(* Proofs about the records that requests share: who may read a course     *)
(* (Registry), how often its material was opened (Receipts), what it says  *)
(* on its board (Board), how its content is ordered (Content), the work    *)
(* that was graded (Assessments), and the flags of an examination          *)
(* (Proctoring); and about the two pages of the frontend that hold work of *)
(* their own: ScoreSheetPage keeps what was typed, SenateBoard sends what  *)
(* it showed.  Each is for any number of users, courses and records.  Last *)
(* come the records together, as MCRecords composes them.                  *)
(***************************************************************************)
EXTENDS MCRecords, Registry, GradingProofs, PapersProofs

-----------------------------------------------------------------------------
(***************************************************************************)
(* Registry.  The list and the check agree in every state, so the theorem  *)
(* needs no invariant; a user without a department or a faculty manages no *)
(* course because no course belongs to "none".                             *)
(***************************************************************************)
LEMMA SameCourses ==
  ASSUME NEW u \in Users, NEW c \in Offered
  PROVE  /\ c \in Accessible(u) <=> CanAccessCourse(u, c)
         /\ c \in VisibleExams(u) <=> c \in Accessible(u)
         /\ CanManageExam(u, c) <=> CanManageCourse(u, c)
<1> DEFINE role == Account[u].role
<1>1. DepartmentOf[c] # "none" /\ FacultyOf[DepartmentOf[c]] # "none"
  BY RegistryAssumption
<1>2. CASE role = "lecturer"
  BY <1>2 DEF Accessible, CanAccessCourse, CanManageCourse,
                  VisibleExams, CanManageExam, STUDENT_ROLES
<1>3. CASE role \in STUDENT_ROLES
  BY <1>3 DEF Accessible, CanAccessCourse, CanManageCourse,
                  VisibleExams, CanManageExam, STUDENT_ROLES
<1>4. CASE role = "hod"
  BY <1>1, <1>4 DEF Accessible, CanAccessCourse, CanManageCourse,
                  VisibleExams, CanManageExam, STUDENT_ROLES
<1>5. CASE role = "dean"
  BY <1>1, <1>5 DEF Accessible, CanAccessCourse, CanManageCourse,
                  VisibleExams, CanManageExam, STUDENT_ROLES
<1>6. CASE role \in {"senate_admin", "school_admin"}
  BY <1>6 DEF Accessible, CanAccessCourse, CanManageCourse,
                  VisibleExams, CanManageExam, STUDENT_ROLES
<1>7. CASE role \notin {"lecturer", "hod", "dean", "senate_admin", "school_admin"} \cup STUDENT_ROLES
  BY <1>7 DEF Accessible, CanAccessCourse, CanManageCourse,
                  VisibleExams, CanManageExam, STUDENT_ROLES
<1> QED
  BY <1>2, <1>3, <1>4, <1>5, <1>6, <1>7

\* For every set of users, courses, departments and faculties, a list shows a
\* user the courses the check lets in, and cbt's own list and check agree with
\* them (scope_to_accessible_courses, visible_exams).
THEOREM ListsMatch == RegistrySpec => []ListsMatchAccess
<1>1. ListsMatchAccess
  <2>1. \A u \in Users : Accessible(u) \subseteq Offered /\ VisibleExams(u) \subseteq Offered
    BY DEF Accessible, VisibleExams
  <2> QED
    BY <2>1, SameCourses DEF ListsMatchAccess
<1> QED
  BY <1>1, PTL

-----------------------------------------------------------------------------
(***************************************************************************)
(* Registry, the load of a student.  The units a student has, with those   *)
(* that requests past their check are about to add, are within the maximum *)
(* and what all requests but one can add: the one that checks last counts  *)
(* its own units, and of the others it counts none.                        *)
(***************************************************************************)
TakenBy(u) == {c \in Offered : <<u, c>> \in enrolments}

PendingLoad(u) ==
    [r \in Registrations |->
       IF registration[r].pc = "create" /\ registration[r].student = u
       THEN CourseUnits[registration[r].course] ELSE 0]

Heaviest == Max({0} \cup {CourseUnits[c] : c \in Offered})

MostUnits == MaxUnits + (Cardinality(Registrations) - 1) * Heaviest

LoadInv ==
    /\ RegistryTypeOK
    /\ \A u \in Users : CreditUnits(u) + SumOf(PendingLoad(u), Registrations) <= MostUnits

LEMMA HeaviestCourse == Heaviest \in Nat /\ \A c \in Offered : CourseUnits[c] \in Nat /\ CourseUnits[c] <= Heaviest
<1> DEFINE S == {0} \cup {CourseUnits[c] : c \in Offered}
<1>1. \A c \in Offered : CourseUnits[c] \in Nat
  BY RegistryAssumption
<1>2. IsFiniteSet(S)
  <2>1. IsFiniteSet({CourseUnits[c] : c \in Offered})
    <3>1. IsFiniteSet(Offered)
      BY RegistryAssumption
    <3>2. CourseUnits \in Surjection(Offered, {CourseUnits[c] : c \in Offered})
      BY RegistryAssumption DEF Surjection
    <3> QED
      BY <3>1, <3>2, FS_Surjection
  <2> QED
    BY <2>1, FS_AddElement
<1>3. S # {} /\ S \subseteq Int
  BY <1>1
<1> HIDE DEF S
<1>4. Max(S) \in S /\ \A x \in S : x <= Max(S)
  BY <1>2, <1>3, LargestNumber
<1> QED
  BY <1>1, <1>4 DEF S, Heaviest

LEMMA LoadSums ==
  ASSUME NEW u, RegistryTypeOK
  PROVE  /\ TakenBy(u) \subseteq Offered /\ IsFiniteSet(TakenBy(u))
         /\ CreditUnits(u) = SumOf(CourseUnits, TakenBy(u))
         /\ CreditUnits(u) \in Nat
         /\ \A r \in Registrations : PendingLoad(u)[r] \in Nat /\ PendingLoad(u)[r] <= Heaviest
<1>1. TakenBy(u) \subseteq Offered /\ IsFiniteSet(TakenBy(u))
  BY FS_Subset, RegistryAssumption DEF TakenBy
<1>2. CreditUnits(u) = SumOf(CourseUnits, TakenBy(u))
  BY DEF CreditUnits, SumOf, TakenBy
<1>3. \A c \in TakenBy(u) : CourseUnits[c] \in Nat
  BY <1>1, HeaviestCourse
<1>4. SumOf(CourseUnits, TakenBy(u)) \in Int
  BY <1>1, <1>3, SumOfInt
<1>5. SumOf(CourseUnits, {}) <= SumOf(CourseUnits, TakenBy(u))
  BY <1>1, <1>3, SumOfSubset
<1>6. 0 <= SumOf(CourseUnits, TakenBy(u))
  BY <1>5, SumOfEmpty
<1>7. \A r \in Registrations : PendingLoad(u)[r] \in Nat /\ PendingLoad(u)[r] <= Heaviest
  BY HeaviestCourse DEF PendingLoad, RegistryTypeOK, Registration
<1> QED
  BY <1>1, <1>2, <1>4, <1>6, <1>7

\* The same, after the step.
LEMMA LoadSumsNext ==
  ASSUME NEW u, RegistryTypeOK'
  PROVE  /\ TakenBy(u)' \subseteq Offered /\ IsFiniteSet(TakenBy(u)')
         /\ CreditUnits(u)' = SumOf(CourseUnits, TakenBy(u)')
         /\ CreditUnits(u)' \in Nat
         /\ \A r \in Registrations : PendingLoad(u)'[r] \in Nat /\ PendingLoad(u)'[r] <= Heaviest
<1>1. TakenBy(u)' \subseteq Offered /\ IsFiniteSet(TakenBy(u)')
  BY FS_Subset, RegistryAssumption DEF TakenBy
<1>2. CreditUnits(u)' = SumOf(CourseUnits, TakenBy(u)')
  BY DEF CreditUnits, SumOf, TakenBy, MapThenSumSet, MapThenFoldSet
<1>3. \A c \in TakenBy(u)' : CourseUnits[c] \in Nat
  BY <1>1, HeaviestCourse
<1>4. SumOf(CourseUnits, TakenBy(u)') \in Int
  BY <1>1, <1>3, SumOfInt
<1>5. SumOf(CourseUnits, {}) <= SumOf(CourseUnits, TakenBy(u)')
  BY <1>1, HeaviestCourse, SumOfSubset, RegistryAssumption
<1>6. 0 <= SumOf(CourseUnits, TakenBy(u)')
  BY <1>5, SumOfEmpty
<1>7. \A r \in Registrations : PendingLoad(u)'[r] \in Nat /\ PendingLoad(u)'[r] <= Heaviest
  BY HeaviestCourse DEF PendingLoad, RegistryTypeOK, Registration
<1> QED
  BY <1>1, <1>2, <1>4, <1>6, <1>7

LEMMA MostUnitsIs ==
  /\ Cardinality(Registrations) \in Nat /\ Cardinality(Registrations) >= 1
  /\ MaxUnits \in Nat /\ Heaviest \in Nat
  /\ (Cardinality(Registrations) - 1) * Heaviest \in Nat
  /\ MostUnits \in Nat
<1>1. Cardinality(Registrations) \in Nat /\ Cardinality(Registrations) # 0
  BY FS_CardinalityType, FS_EmptySet, RegistryAssumption
<1>2. Cardinality(Registrations) - 1 \in Nat
  BY <1>1
<1>3. \A m, n \in Nat : m * n \in Nat
  OBVIOUS
<1>4. (Cardinality(Registrations) - 1) * Heaviest \in Nat
  BY <1>2, <1>3, HeaviestCourse
<1> QED
  BY <1>1, <1>4, HeaviestCourse, RegistryAssumption DEF MostUnits

\* A step that leaves a student's courses and requests alone.
LEMMA LoadKept ==
  ASSUME RegistryTypeOK, RegistryTypeOK', NEW u,
         TakenBy(u)' = TakenBy(u),
         \A r \in Registrations : PendingLoad(u)'[r] = PendingLoad(u)[r]
  PROVE  /\ CreditUnits(u)' = CreditUnits(u)
         /\ SumOf(PendingLoad(u)', Registrations) = SumOf(PendingLoad(u), Registrations)
<1>1. CreditUnits(u)' = CreditUnits(u)
  BY LoadSums, LoadSumsNext
<1> DEFINE p == PendingLoad(u)
           q == PendingLoad(u)'
<1>2. \A r \in Registrations : q[r] = p[r]
  OBVIOUS
<1> HIDE DEF p, q
<1>3. SumOf(q, Registrations) = SumOf(p, Registrations)
  BY <1>2, SumOfSame, RegistryAssumption
<1> QED
  BY <1>1, <1>3 DEF p, q

LEMMA CheckKeepsLoad ==
  ASSUME LoadInv, RegistryTypeOK', NEW r \in Registrations, NEW v \in Users, NEW c \in Offered,
         CheckEnrolment(r, v, c), NEW u \in Users
  PROVE  (CreditUnits(u) + SumOf(PendingLoad(u), Registrations) <= MostUnits)'
<1> USE DEF LoadInv
<1>1. TakenBy(u)' = TakenBy(u)
  BY DEF TakenBy, CheckEnrolment
<1>2. CASE u # v
  <2>1. \A s \in Registrations : PendingLoad(u)'[s] = PendingLoad(u)[s]
    BY <1>2 DEF PendingLoad, CheckEnrolment, RegistryTypeOK
  <2> QED
    BY <1>1, <2>1, LoadKept
<1>3. CASE u = v
  <2> DEFINE q == PendingLoad(u)'
             h == Heaviest
             R == Registrations
  <2>1. \A s \in R : q[s] \in Nat /\ q[s] <= h
    BY LoadSumsNext
  <2>2. q[r] = CourseUnits[c]
    BY <1>3 DEF PendingLoad, CheckEnrolment, RegistryTypeOK
  <2>3. IsFiniteSet(R) /\ h \in Nat /\ r \in R
    BY RegistryAssumption, HeaviestCourse
  <2>4. CreditUnits(u) + CourseUnits[c] <= MaxUnits /\ CreditUnits(u) \in Nat
    BY <1>3, LoadSums DEF CheckEnrolment
  <2>5. CreditUnits(u)' = CreditUnits(u)
    BY <1>1, LoadSums, LoadSumsNext
  <2> HIDE DEF q, R, h
  <2>6. SumOf(q, R) = q[r] + SumOf(q, R \ {r})
    BY <2>1, <2>3, SumOfRemove
  <2> DEFINE S == R \ {r}
  <2>7. IsFiniteSet(S) /\ Cardinality(S) = Cardinality(R) - 1 /\ \A s \in S : q[s] \in Int /\ q[s] <= h
    BY <2>1, <2>3, FS_RemoveElement
  <2> HIDE DEF S
  <2>8. SumOf(q, S) <= Cardinality(S) * h /\ SumOf(q, S) \in Int
    BY <2>3, <2>7, SumOfBounded, SumOfInt
  <2>9. SumOf(q, S) <= MostUnits - MaxUnits
    BY <2>7, <2>8, MostUnitsIs DEF MostUnits, R, h
  <2>10. CreditUnits(u)' + SumOf(q, R) <= MostUnits
    BY <2>2, <2>4, <2>5, <2>6, <2>8, <2>9, MostUnitsIs, HeaviestCourse DEF S
  <2> QED
    BY <2>10 DEF q, R, MostUnits, Heaviest
<1> QED
  BY <1>2, <1>3

LEMMA InsertKeepsLoad ==
  ASSUME LoadInv, RegistryTypeOK', NEW r \in Registrations, InsertEnrolment(r), NEW u \in Users
  PROVE  (CreditUnits(u) + SumOf(PendingLoad(u), Registrations) <= MostUnits)'
<1> USE DEF LoadInv
<1> DEFINE v == registration[r].student
           c == registration[r].course
<1>1. v \in Users /\ c \in Offered /\ registration[r].pc = "create"
  BY DEF InsertEnrolment, RegistryTypeOK, Registration
<1>2. CASE u # v
  <2>1. TakenBy(u)' = TakenBy(u)
    BY <1>2 DEF TakenBy, InsertEnrolment
  <2>2. \A s \in Registrations : PendingLoad(u)'[s] = PendingLoad(u)[s]
    BY <1>2 DEF PendingLoad, InsertEnrolment, RegistryTypeOK, IdleRegistration
  <2> QED
    BY <2>1, <2>2, LoadKept
<1>3. CASE u = v
  <2> DEFINE p == PendingLoad(u)
             q == PendingLoad(u)'
             T == TakenBy(u)
             U == TakenBy(u)'
             R == Registrations
             S == R \ {r}
  <2>1. \A s \in R : p[s] \in Int /\ q[s] \in Int
    BY LoadSums, LoadSumsNext
  <2>2. p[r] = CourseUnits[c] /\ q[r] = 0 /\ \A s \in S : q[s] = p[s]
    BY <1>1, <1>3 DEF PendingLoad, InsertEnrolment, RegistryTypeOK, IdleRegistration
  <2>3. IsFiniteSet(R) /\ r \in R /\ IsFiniteSet(S)
    BY RegistryAssumption, FS_Subset
  <2>4. U = T \/ U = T \cup {c}
    <3>1. CASE enrolments' = enrolments
      BY <3>1 DEF TakenBy
    <3>2. CASE enrolments' = enrolments \cup {<<v, c>>}
      BY <1>1, <1>3, <3>2 DEF TakenBy
    <3> QED
      BY <3>1, <3>2 DEF InsertEnrolment
  <2>5. T \subseteq Offered /\ IsFiniteSet(T)
    BY LoadSums
  <2>6. CreditUnits(u) = SumOf(CourseUnits, T) /\ CreditUnits(u) \in Nat
    BY LoadSums
  <2>7. CreditUnits(u)' = SumOf(CourseUnits, U) /\ CreditUnits(u)' \in Nat
    BY LoadSumsNext
  <2>8. c \in Offered /\ \A x \in Offered : CourseUnits[x] \in Nat
    BY <1>1, HeaviestCourse
  <2>9. CreditUnits(u) + SumOf(p, R) <= MostUnits
    OBVIOUS
  <2> HIDE DEF p, q, T, U, R, v, c
  <2>10. SumOf(CourseUnits, U) <= CreditUnits(u) + CourseUnits[c]
    <3>1. CASE U = T
      BY <2>6, <2>8, <3>1
    <3>2. CASE U = T \cup {c}
      BY <2>5, <2>6, <2>8, <3>2, SumOfAdd
    <3> QED
      BY <2>4, <3>1, <3>2
  <2>11. SumOf(p, R) = p[r] + SumOf(p, S) /\ SumOf(q, R) = q[r] + SumOf(q, S)
    BY <2>1, <2>3, SumOfRemove
  <2>12. \A s \in S : p[s] \in Int
    BY <2>1
  <2> HIDE DEF S
  <2>13. SumOf(q, S) = SumOf(p, S) /\ SumOf(p, S) \in Int
    BY <2>2, <2>3, <2>12, SumOfSame, SumOfInt
  <2>14. CreditUnits(u)' + SumOf(q, R) <= MostUnits
    BY <2>2, <2>6, <2>7, <2>8, <2>9, <2>10, <2>11, <2>13, MostUnitsIs
  <2> QED
    BY <2>14 DEF q, R, MostUnits, Heaviest
<1> QED
  BY <1>2, <1>3

LEMMA DeleteKeepsLoad ==
  ASSUME LoadInv, RegistryTypeOK', NEW row \in enrolments, DeleteEnrolment(row), NEW u \in Users
  PROVE  (CreditUnits(u) + SumOf(PendingLoad(u), Registrations) <= MostUnits)'
<1> USE DEF LoadInv
<1> DEFINE p == PendingLoad(u)
           q == PendingLoad(u)'
           T == TakenBy(u)
           U == TakenBy(u)'
<1>1. \A s \in Registrations : q[s] = p[s] /\ p[s] \in Int
  <2>1. \A s \in Registrations : q[s] = p[s]
    BY DEF PendingLoad, DeleteEnrolment
  <2>2. \A s \in Registrations : p[s] \in Int
    BY LoadSums
  <2> QED
    BY <2>1, <2>2
<1>2. U \subseteq T /\ T \subseteq Offered /\ IsFiniteSet(T)
  BY LoadSums DEF TakenBy, DeleteEnrolment
<1>3. CreditUnits(u) = SumOf(CourseUnits, T) /\ CreditUnits(u) \in Nat
  BY LoadSums
<1>4. CreditUnits(u)' = SumOf(CourseUnits, U) /\ CreditUnits(u)' \in Nat
  BY LoadSumsNext
<1>5. CreditUnits(u) + SumOf(p, Registrations) <= MostUnits
  OBVIOUS
<1> HIDE DEF p, q, T, U
<1>6. SumOf(CourseUnits, U) <= SumOf(CourseUnits, T)
  BY <1>2, HeaviestCourse, SumOfSubset
<1>7. SumOf(q, Registrations) = SumOf(p, Registrations) /\ SumOf(p, Registrations) \in Int
  BY <1>1, SumOfSame, SumOfInt, RegistryAssumption
<1>8. CreditUnits(u)' + SumOf(q, Registrations) <= MostUnits
  BY <1>3, <1>4, <1>5, <1>6, <1>7, MostUnitsIs
<1> QED
  BY <1>8 DEF q, MostUnits, Heaviest

\* RegistryTypeOK: an invariant of its own.
LEMMA RegistryTyped ==
  ASSUME RegistryTypeOK, [RegistryNext]_registryVars
  PROVE  RegistryTypeOK'
<1> USE DEF RegistryTypeOK
<1>1. IdleRegistration \in Registration
  BY RegistryAssumption DEF IdleRegistration, Registration
<1>2. ASSUME NEW r \in Registrations, NEW u \in Users, NEW c \in Offered, CheckEnrolment(r, u, c)
      PROVE  RegistryTypeOK'
  BY <1>2 DEF CheckEnrolment, Registration
<1>3. ASSUME NEW r \in Registrations, InsertEnrolment(r)
      PROVE  RegistryTypeOK'
  BY <1>1, <1>3 DEF InsertEnrolment, Registration
<1>4. ASSUME NEW row \in enrolments, DeleteEnrolment(row)
      PROVE  RegistryTypeOK'
  BY <1>4 DEF DeleteEnrolment
<1>5. ASSUME NEW actor \in Users, NEW u \in Users, NEW c \in Offered, AssignLecturer(actor, u, c)
      PROVE  RegistryTypeOK'
  BY <1>5 DEF AssignLecturer
<1>6. ASSUME NEW new \in SUBSET (Lecturers \X Offered), ImportAssignments(new)
      PROVE  RegistryTypeOK'
  BY <1>6 DEF ImportAssignments, Lecturers
<1>7. ASSUME NEW row \in assignments, DeleteAssignment(row)
      PROVE  RegistryTypeOK'
  BY <1>7 DEF DeleteAssignment
<1>8. CASE UNCHANGED registryVars
  BY <1>8 DEF registryVars
<1> QED
  BY <1>2, <1>3, <1>4, <1>5, <1>6, <1>7, <1>8 DEF RegistryNext

LEMMA LoadInit == RegistryInit => LoadInv
<1> SUFFICES ASSUME RegistryInit PROVE LoadInv
  OBVIOUS
<1>1. RegistryTypeOK
  BY RegistryAssumption DEF RegistryInit, RegistryTypeOK, IdleRegistration, Registration
<1>2. ASSUME NEW u \in Users PROVE CreditUnits(u) + SumOf(PendingLoad(u), Registrations) <= MostUnits
  <2> DEFINE p == PendingLoad(u)
             T == TakenBy(u)
  <2>1. CreditUnits(u) = SumOf(CourseUnits, T)
    BY <1>1, LoadSums
  <2>2. T = {}
    BY DEF RegistryInit, TakenBy
  <2>3. \A s \in Registrations : p[s] = 0
    BY DEF RegistryInit, PendingLoad, IdleRegistration
  <2> HIDE DEF p, T
  <2>4. SumOf(p, Registrations) <= Cardinality(Registrations) * 0
    BY <2>3, SumOfBounded, RegistryAssumption
  <2>5. SumOf(p, Registrations) \in Int
    BY <2>3, SumOfInt, RegistryAssumption
  <2>6. CreditUnits(u) = 0
    BY <2>1, <2>2, SumOfEmpty
  <2>7. CreditUnits(u) + SumOf(p, Registrations) <= MostUnits
    BY <2>4, <2>5, <2>6, MostUnitsIs
  <2> QED
    BY <2>7 DEF p
<1> QED
  BY <1>1, <1>2 DEF LoadInv

LEMMA LoadStep == LoadInv /\ [RegistryNext]_registryVars => LoadInv'
<1> SUFFICES ASSUME LoadInv, [RegistryNext]_registryVars PROVE LoadInv'
  OBVIOUS
<1>1. RegistryTypeOK'
  BY RegistryTyped DEF LoadInv
<1>2. ASSUME NEW u \in Users
      PROVE  (CreditUnits(u) + SumOf(PendingLoad(u), Registrations) <= MostUnits)'
  <2>1. ASSUME NEW r \in Registrations, NEW v \in Users, NEW c \in Offered, CheckEnrolment(r, v, c)
        PROVE  (CreditUnits(u) + SumOf(PendingLoad(u), Registrations) <= MostUnits)'
    BY <1>1, <2>1, CheckKeepsLoad
  <2>2. ASSUME NEW r \in Registrations, InsertEnrolment(r)
        PROVE  (CreditUnits(u) + SumOf(PendingLoad(u), Registrations) <= MostUnits)'
    BY <1>1, <2>2, InsertKeepsLoad
  <2>3. ASSUME NEW row \in enrolments, DeleteEnrolment(row)
        PROVE  (CreditUnits(u) + SumOf(PendingLoad(u), Registrations) <= MostUnits)'
    BY <1>1, <2>3, DeleteKeepsLoad
  <2>4. CASE UNCHANGED <<enrolments, registration>>
    <3>1. TakenBy(u)' = TakenBy(u)
      BY <2>4 DEF TakenBy
    <3>2. \A s \in Registrations : PendingLoad(u)'[s] = PendingLoad(u)[s]
      BY <2>4 DEF PendingLoad
    <3>3. CreditUnits(u) + SumOf(PendingLoad(u), Registrations) <= MostUnits
      BY DEF LoadInv
    <3>4. /\ CreditUnits(u)' = CreditUnits(u)
          /\ SumOf(PendingLoad(u)', Registrations) = SumOf(PendingLoad(u), Registrations)
      BY <1>1, <3>1, <3>2, LoadKept DEF LoadInv
    <3> QED
      BY <3>3, <3>4 DEF MostUnits, Heaviest
  <2> QED
    BY <2>1, <2>2, <2>3, <2>4
       DEF RegistryNext, AssignLecturer, ImportAssignments, DeleteAssignment, registryVars
<1> QED
  BY <1>1, <1>2 DEF LoadInv

LEMMA LoadIsBounded == LoadInv => LoadBounded
<1> SUFFICES ASSUME LoadInv, NEW u \in Users PROVE CreditUnits(u) <= MostUnits
  BY DEF LoadBounded, MostUnits, Heaviest
<1> DEFINE p == PendingLoad(u)
<1>1. \A s \in Registrations : p[s] \in Nat
  BY LoadSums DEF LoadInv
<1>2. CreditUnits(u) + SumOf(p, Registrations) <= MostUnits /\ CreditUnits(u) \in Nat
  BY LoadSums DEF LoadInv
<1> HIDE DEF p
<1>3. SumOf(p, {}) <= SumOf(p, Registrations)
  BY <1>1, SumOfSubset, RegistryAssumption
<1>4. SumOf(p, {}) = 0
  BY SumOfEmpty
<1>5. SumOf(p, Registrations) \in Int
  BY <1>1, SumOfInt, RegistryAssumption
<1> QED
  BY <1>2, <1>3, <1>4, <1>5, MostUnitsIs

\* However many requests pass the check of the load before one of them inserts,
\* and whatever is dropped meanwhile, no student's load exceeds the maximum by
\* more than the others of them can add (accounts.services.enrol_student).
THEOREM LoadStaysBounded == RegistrySpec => [](RegistryTypeOK /\ LoadBounded)
<1>1. LoadInv => RegistryTypeOK
  BY DEF LoadInv
<1> QED
  BY <1>1, LoadInit, LoadStep, LoadIsBounded, PTL DEF RegistrySpec

-----------------------------------------------------------------------------
(***************************************************************************)
(* Receipts.                                                               *)
(***************************************************************************)
\* Counts are as in Receipts but for their bound, and a tab is about a receipt.
ReceiptsInv ==
    /\ views \in [Receipt -> Nat]
    /\ tab \in [Tabs -> [pc : {"idle", "get", "count"}, receipt : Receipt, read : Nat]]
    /\ NoViewIsLost

LEMMA ReceiptsBegin == ReceiptsInit => ReceiptsInv
<1>1. (CHOOSE r \in Receipt : TRUE) \in Receipt
  <2>1. PICK u \in Readers, i \in Lessons : TRUE
    BY ReceiptsAssumption
  <2>2. <<u, i>> \in Receipt
    BY <2>1 DEF Receipt
  <2> QED
    BY <2>2
<1> QED
  BY <1>1 DEF ReceiptsInit, ReceiptsInv, NoViewIsLost

\* The first view: the receipt and the count of openings come together.
LEMMA GetKeepsCount == ASSUME ReceiptsInv, NEW t \in Tabs, GetReceipt(t) PROVE ReceiptsInv'
<1> DEFINE r == tab[t].receipt
<1>1. r \in Receipt /\ views[r] \in Nat
  BY DEF ReceiptsInv
<1>2. tab' \in [Tabs -> [pc : {"idle", "get", "count"}, receipt : Receipt, read : Nat]]
  BY <1>1 DEF GetReceipt, ReceiptsInv
<1>3. views' \in [Receipt -> Nat] /\ views' = opened'
  BY <1>1 DEF GetReceipt, ReceiptsInv, NoViewIsLost
<1> QED
  BY <1>2, <1>3 DEF ReceiptsInv, NoViewIsLost

LEMMA CountKeepsCount == ASSUME ReceiptsInv, NEW t \in Tabs, CountView(t) PROVE ReceiptsInv'
<1> DEFINE r == tab[t].receipt
<1>1. r \in Receipt /\ views[r] \in Nat /\ views[r] + 1 \in Nat
  BY DEF ReceiptsInv
<1>2. tab' \in [Tabs -> [pc : {"idle", "get", "count"}, receipt : Receipt, read : Nat]]
  BY DEF CountView, ReceiptsInv
<1>3. views' \in [Receipt -> Nat] /\ views' = opened'
  BY <1>1 DEF CountView, ReceiptsInv, NoViewIsLost
<1> QED
  BY <1>2, <1>3 DEF ReceiptsInv, NoViewIsLost

LEMMA ReceiptsStep == ReceiptsInv /\ [ReceiptsNext]_receiptsVars => ReceiptsInv'
<1> SUFFICES ASSUME ReceiptsInv, [ReceiptsNext]_receiptsVars PROVE ReceiptsInv'
  OBVIOUS
<1>1. ASSUME NEW i \in Lessons, ShowLesson(i) PROVE ReceiptsInv'
  BY <1>1 DEF ShowLesson, ReceiptsInv, NoViewIsLost
<1>2. ASSUME NEW i \in Lessons, DeleteLesson(i) PROVE ReceiptsInv'
  BY <1>2 DEF DeleteLesson, ReceiptsInv, NoViewIsLost
<1>3. ASSUME NEW t \in Tabs, NEW r \in Receipt, OpenItem(t, r) PROVE ReceiptsInv'
  BY <1>3 DEF OpenItem, ReceiptsInv, NoViewIsLost
<1>4. ASSUME NEW t \in Tabs, TabDies(t) PROVE ReceiptsInv'
  BY <1>4 DEF TabDies, ReceiptsInv, NoViewIsLost
<1>5. CASE UNCHANGED receiptsVars
  BY <1>5 DEF receiptsVars, ReceiptsInv, NoViewIsLost
<1> QED
  BY <1>1, <1>2, <1>3, <1>4, <1>5, GetKeepsCount, CountKeepsCount DEF ReceiptsNext

\* However many tabs open an item together, and whatever is withdrawn or deleted
\* meanwhile, the receipt counts each opening (services.record_view).
THEOREM ViewsAreCounted == ReceiptsSpec => []NoViewIsLost
<1>1. ReceiptsInv => NoViewIsLost
  BY DEF ReceiptsInv
<1> QED
  BY <1>1, ReceiptsBegin, ReceiptsStep, PTL DEF ReceiptsSpec

\* Openings that were recorded and those that are under way stay within the
\* bound, so a tab never reads or writes a count beyond it.
OpeningNow(r) == {t \in Tabs : tab[t].pc # "idle" /\ tab[t].receipt = r}

ReceiptsTyped ==
    /\ ReceiptsTypeOK
    /\ \A r \in Receipt : opened[r] + Cardinality(OpeningNow(r)) <= MaxViews

LEMMA OpeningNumber ==
  \A r \in Receipt : IsFiniteSet(OpeningNow(r)) /\ Cardinality(OpeningNow(r)) \in Nat
  BY ReceiptsAssumption, FS_Subset, FS_CardinalityType DEF OpeningNow

\* A tab that goes on, or ends, opens at most what it was opening.
LEMMA OpeningShrinks ==
  ASSUME NEW r \in Receipt, OpeningNow(r)' \subseteq OpeningNow(r)
  PROVE  Cardinality(OpeningNow(r)') \in Nat /\ Cardinality(OpeningNow(r)') <= Cardinality(OpeningNow(r))
  BY OpeningNumber, FS_Subset, FS_CardinalityType

\* A tab that ends leaves one opening less of its receipt.
LEMMA OpeningEnds ==
  ASSUME NEW t \in Tabs, tab \in [Tabs -> Tab], tab[t].pc # "idle",
         tab' \in [Tabs -> Tab], tab'[t].pc = "idle", \A x \in Tabs \ {t} : tab'[x] = tab[x]
  PROVE  \A r \in Receipt :
            Cardinality(OpeningNow(r)') = Cardinality(OpeningNow(r)) - IF r = tab[t].receipt THEN 1 ELSE 0
<1> SUFFICES ASSUME NEW r \in Receipt
             PROVE  Cardinality(OpeningNow(r)') = Cardinality(OpeningNow(r)) - IF r = tab[t].receipt THEN 1 ELSE 0
  OBVIOUS
<1>1. IsFiniteSet(OpeningNow(r)) /\ Cardinality(OpeningNow(r)) \in Nat
  BY OpeningNumber
<1>2. CASE r = tab[t].receipt
  <2>1. t \in OpeningNow(r)
    BY <1>2 DEF OpeningNow
  <2>2. \A x \in Tabs : x \in OpeningNow(r)' <=> x \in OpeningNow(r) /\ x # t
    BY DEF OpeningNow
  <2>3. OpeningNow(r)' = OpeningNow(r) \ {t}
    BY <2>2 DEF OpeningNow
  <2>4. Cardinality(OpeningNow(r) \ {t}) = Cardinality(OpeningNow(r)) - 1
    BY <1>1, <2>1, FS_RemoveElement
  <2> QED
    BY <1>2, <2>3, <2>4
<1>3. CASE r # tab[t].receipt
  <2>1. OpeningNow(r)' = OpeningNow(r)
    BY <1>3 DEF OpeningNow
  <2> QED
    BY <1>1, <1>3, <2>1
<1> QED
  BY <1>2, <1>3

LEMMA OpenKeepsTypes ==
  ASSUME ReceiptsTyped, NEW t \in Tabs, NEW r \in Receipt, OpenItem(t, r)
  PROVE  ReceiptsTyped'
<1>1. /\ tab[t].pc = "idle" /\ UNCHANGED <<visible, deleted, views, opened>>
      /\ opened[r] + Cardinality(OpeningNow(r)) < MaxViews
      /\ tab' = [tab EXCEPT ![t] = [pc |-> "get", receipt |-> r, read |-> 0]]
  BY DEF OpenItem, OpeningNow
<1>2. 0 \in 0..MaxViews
  BY ReceiptsAssumption
<1>3. tab' \in [Tabs -> Tab]
  BY <1>1, <1>2 DEF ReceiptsTyped, ReceiptsTypeOK, Tab
<1>4. \A x \in Tabs : tab'[x] = IF x = t THEN [pc |-> "get", receipt |-> r, read |-> 0] ELSE tab[x]
  BY <1>1 DEF ReceiptsTyped, ReceiptsTypeOK
<1>5. OpeningNow(r)' = OpeningNow(r) \cup {t} /\ t \notin OpeningNow(r)
  BY <1>1, <1>4 DEF OpeningNow
<1>6. Cardinality(OpeningNow(r)') = Cardinality(OpeningNow(r)) + 1
  BY <1>5, OpeningNumber, FS_AddElement
<1>7. \A q \in Receipt \ {r} : OpeningNow(q)' = OpeningNow(q)
  BY <1>1, <1>4 DEF OpeningNow
<1>8. \A q \in Receipt : opened[q] \in Nat /\ opened'[q] = opened[q]
  BY <1>1 DEF ReceiptsTyped, ReceiptsTypeOK
<1>9. ASSUME NEW q \in Receipt PROVE opened'[q] + Cardinality(OpeningNow(q)') <= MaxViews
  <2>1. CASE q = r
    BY <1>1, <1>6, <1>8, <2>1, OpeningNumber, ReceiptsAssumption
  <2>2. CASE q # r
    BY <1>7, <1>8, <2>2 DEF ReceiptsTyped
  <2> QED
    BY <2>1, <2>2
<1>10. ReceiptsTypeOK'
  BY <1>1, <1>3 DEF ReceiptsTyped, ReceiptsTypeOK
<1> QED
  BY <1>9, <1>10 DEF ReceiptsTyped

LEMMA GetKeepsTypes ==
  ASSUME ReceiptsTyped, NoViewIsLost, NEW t \in Tabs, GetReceipt(t)
  PROVE  ReceiptsTyped'
<1> DEFINE r == tab[t].receipt
<1>1. /\ r \in Receipt /\ tab[t].pc = "get" /\ views[r] \in 0..MaxViews /\ opened = views
      /\ UNCHANGED <<visible, deleted>>
  BY DEF GetReceipt, ReceiptsTyped, ReceiptsTypeOK, Tab, NoViewIsLost
<1>2. CASE views[r] > 0
  <2>1. /\ tab' \in [Tabs -> Tab] /\ UNCHANGED <<views, opened>>
    <3> views[r] # 0
      BY <1>1, <1>2
    <3>1. /\ tab' = [tab EXCEPT ![t] = [tab[t] EXCEPT !.pc = "count", !.read = views[r]]]
          /\ UNCHANGED <<views, opened>>
      BY Zenon DEF GetReceipt
    <3>2. tab \in [Tabs -> Tab] /\ [tab[t] EXCEPT !.pc = "count", !.read = views[r]] \in Tab
      BY <1>1 DEF ReceiptsTyped, ReceiptsTypeOK, Tab
    <3> QED
      BY <3>1, <3>2
  <2>2. \A x \in Tabs : tab'[x].pc # "idle" => tab[x].pc # "idle" /\ tab'[x].receipt = tab[x].receipt
    BY <1>1, <1>2 DEF GetReceipt, ReceiptsTyped, ReceiptsTypeOK, Tab
  <2>3. \A q \in Receipt : OpeningNow(q)' \subseteq OpeningNow(q)
    BY <2>2 DEF OpeningNow
  <2>4. ASSUME NEW q \in Receipt PROVE opened'[q] + Cardinality(OpeningNow(q)') <= MaxViews
    <3>1. opened[q] \in Nat /\ opened'[q] = opened[q]
      BY <2>1 DEF ReceiptsTyped, ReceiptsTypeOK
    <3> QED
      BY <2>3, <3>1, OpeningShrinks, OpeningNumber, ReceiptsAssumption DEF ReceiptsTyped
  <2> QED
    BY <1>1, <2>1, <2>4 DEF ReceiptsTyped, ReceiptsTypeOK
<1>3. CASE views[r] = 0
  <2>1. /\ tab' = [tab EXCEPT ![t].pc = "idle"]
        /\ tab' \in [Tabs -> Tab] /\ tab'[t].pc = "idle" /\ \A x \in Tabs \ {t} : tab'[x] = tab[x]
    BY <1>1, <1>3 DEF GetReceipt, ReceiptsTyped, ReceiptsTypeOK, Tab
  <2>2. \A q \in Receipt :
           Cardinality(OpeningNow(q)') = Cardinality(OpeningNow(q)) - IF q = r THEN 1 ELSE 0
    BY <1>1, <2>1, OpeningEnds DEF ReceiptsTyped, ReceiptsTypeOK
  <2>3. t \in OpeningNow(r)
    BY <1>1 DEF OpeningNow
  <2>4. Cardinality(OpeningNow(r)) >= 1
    BY <1>1, <2>3, OpeningNumber, FS_EmptySet
  <2>5. \A q \in Receipt : /\ opened[q] \in Nat /\ opened'[q] \in Nat
                           /\ opened'[q] <= IF q = r THEN opened[q] + 1 ELSE opened[q]
    BY <1>1, <1>3 DEF GetReceipt, ReceiptsTyped, ReceiptsTypeOK
  <2>6. ASSUME NEW q \in Receipt PROVE opened'[q] + Cardinality(OpeningNow(q)') <= MaxViews
    BY <2>2, <2>5, OpeningNumber, ReceiptsAssumption DEF ReceiptsTyped
  <2>7. 1 \in 0..MaxViews
    BY <1>1, <1>3, <2>4, OpeningNumber, ReceiptsAssumption DEF ReceiptsTyped
  <2>8. views' \in [Receipt -> 0..MaxViews] /\ opened' \in [Receipt -> 0..MaxViews]
    BY <1>1, <2>7 DEF GetReceipt, ReceiptsTyped, ReceiptsTypeOK
  <2> QED
    BY <1>1, <2>1, <2>6, <2>8 DEF ReceiptsTyped, ReceiptsTypeOK
<1> QED
  BY <1>1, <1>2, <1>3

LEMMA CountKeepsTypes ==
  ASSUME ReceiptsTyped, NoViewIsLost, NEW t \in Tabs, CountView(t)
  PROVE  ReceiptsTyped'
<1> DEFINE r == tab[t].receipt
<1>1. /\ r \in Receipt /\ tab[t].pc = "count" /\ views[r] \in 0..MaxViews /\ opened = views
      /\ UNCHANGED <<visible, deleted>>
  BY DEF CountView, ReceiptsTyped, ReceiptsTypeOK, Tab, NoViewIsLost
<1>2. /\ tab' \in [Tabs -> Tab] /\ tab'[t].pc = "idle" /\ \A x \in Tabs \ {t} : tab'[x] = tab[x]
  BY <1>1 DEF CountView, ReceiptsTyped, ReceiptsTypeOK, Tab
<1>3. \A q \in Receipt :
         Cardinality(OpeningNow(q)') = Cardinality(OpeningNow(q)) - IF q = r THEN 1 ELSE 0
  BY <1>1, <1>2, OpeningEnds DEF ReceiptsTyped, ReceiptsTypeOK
<1>4. t \in OpeningNow(r)
  BY <1>1 DEF OpeningNow
<1>5. Cardinality(OpeningNow(r)) >= 1
  BY <1>1, <1>4, OpeningNumber, FS_EmptySet
<1>6. \A q \in Receipt : /\ opened[q] \in Nat /\ opened'[q] \in Nat
                         /\ opened'[q] <= IF q = r THEN opened[q] + 1 ELSE opened[q]
  BY <1>1 DEF CountView, ReceiptsTyped, ReceiptsTypeOK
<1>7. ASSUME NEW q \in Receipt PROVE opened'[q] + Cardinality(OpeningNow(q)') <= MaxViews
  BY <1>3, <1>6, OpeningNumber, ReceiptsAssumption DEF ReceiptsTyped
<1>8. views[r] + 1 \in 0..MaxViews
  BY <1>1, <1>5, OpeningNumber, ReceiptsAssumption DEF ReceiptsTyped
<1>9. views' \in [Receipt -> 0..MaxViews] /\ opened' \in [Receipt -> 0..MaxViews]
  BY <1>1, <1>8 DEF CountView, ReceiptsTyped, ReceiptsTypeOK
<1> QED
  BY <1>1, <1>2, <1>7, <1>9 DEF ReceiptsTyped, ReceiptsTypeOK

LEMMA LecturersKeepTypes ==
  ASSUME ReceiptsTyped, NEW i \in Lessons, ShowLesson(i) \/ DeleteLesson(i)
  PROVE  ReceiptsTyped'
<1>1. UNCHANGED tab /\ visible' \subseteq Lessons /\ deleted' \subseteq Lessons
  BY DEF ShowLesson, DeleteLesson, ReceiptsTyped, ReceiptsTypeOK
<1>2. 0 \in 0..MaxViews
  BY ReceiptsAssumption
<1>3. views' \in [Receipt -> 0..MaxViews] /\ opened' \in [Receipt -> 0..MaxViews]
  BY <1>2 DEF ShowLesson, DeleteLesson, ReceiptsTyped, ReceiptsTypeOK
<1>4. \A q \in Receipt : opened[q] \in Nat /\ opened'[q] \in Nat /\ opened'[q] <= opened[q]
  BY DEF ShowLesson, DeleteLesson, ReceiptsTyped, ReceiptsTypeOK
<1>5. \A q \in Receipt : OpeningNow(q)' = OpeningNow(q)
  BY <1>1 DEF OpeningNow
<1>6. ASSUME NEW q \in Receipt PROVE opened'[q] + Cardinality(OpeningNow(q)') <= MaxViews
  BY <1>4, <1>5, OpeningNumber, ReceiptsAssumption DEF ReceiptsTyped
<1> QED
  BY <1>1, <1>3, <1>6 DEF ReceiptsTyped, ReceiptsTypeOK

LEMMA DeathKeepsTypes == ASSUME ReceiptsTyped, NEW t \in Tabs, TabDies(t) PROVE ReceiptsTyped'
<1>1. /\ tab' \in [Tabs -> Tab] /\ UNCHANGED <<visible, deleted, views, opened>>
      /\ \A x \in Tabs : tab'[x].pc # "idle" => tab'[x] = tab[x]
  BY DEF TabDies, ReceiptsTyped, ReceiptsTypeOK, Tab
<1>2. \A q \in Receipt : OpeningNow(q)' \subseteq OpeningNow(q)
  BY <1>1 DEF OpeningNow
<1>3. ASSUME NEW q \in Receipt PROVE opened'[q] + Cardinality(OpeningNow(q)') <= MaxViews
  <2>1. opened[q] \in Nat /\ opened'[q] = opened[q]
    BY <1>1 DEF ReceiptsTyped, ReceiptsTypeOK
  <2> QED
    BY <1>2, <2>1, OpeningShrinks, OpeningNumber, ReceiptsAssumption DEF ReceiptsTyped
<1> QED
  BY <1>1, <1>3 DEF ReceiptsTyped, ReceiptsTypeOK

LEMMA ReceiptsTypesBegin == ReceiptsInit => ReceiptsTyped
<1> SUFFICES ASSUME ReceiptsInit PROVE ReceiptsTyped
  OBVIOUS
<1>1. (CHOOSE r \in Receipt : TRUE) \in Receipt
  <2>1. PICK u \in Readers, i \in Lessons : TRUE
    BY ReceiptsAssumption
  <2>2. <<u, i>> \in Receipt
    BY <2>1 DEF Receipt
  <2> QED
    BY <2>2
<1>2. 0 \in 0..MaxViews
  BY ReceiptsAssumption
<1>3. ReceiptsTypeOK
  BY <1>1, <1>2 DEF ReceiptsInit, ReceiptsTypeOK, Tab
<1>4. \A r \in Receipt : OpeningNow(r) = {} /\ opened[r] = 0
  BY DEF ReceiptsInit, OpeningNow
<1> QED
  BY <1>3, <1>4, FS_EmptySet, ReceiptsAssumption DEF ReceiptsTyped

LEMMA ReceiptsTypesStep ==
  ReceiptsTyped /\ NoViewIsLost /\ [ReceiptsNext]_receiptsVars => ReceiptsTyped'
<1> SUFFICES ASSUME ReceiptsTyped, NoViewIsLost, [ReceiptsNext]_receiptsVars PROVE ReceiptsTyped'
  OBVIOUS
<1>1. CASE UNCHANGED receiptsVars
  <2>1. ReceiptsTypeOK' /\ \A r \in Receipt : OpeningNow(r)' = OpeningNow(r) /\ opened' = opened
    BY <1>1 DEF receiptsVars, ReceiptsTyped, ReceiptsTypeOK, OpeningNow
  <2> QED
    BY <2>1 DEF ReceiptsTyped
<1>2. CASE ReceiptsNext
  BY <1>2, OpenKeepsTypes, GetKeepsTypes, CountKeepsTypes, LecturersKeepTypes, DeathKeepsTypes
     DEF ReceiptsNext
<1> QED
  BY <1>1, <1>2

LEMMA ReceiptsAreTyped == ReceiptsSpec => []ReceiptsTypeOK
<1>1. ReceiptsTyped => ReceiptsTypeOK
  BY DEF ReceiptsTyped
<1> QED
  BY <1>1, ReceiptsTypesBegin, ReceiptsTypesStep, ViewsAreCounted, PTL DEF ReceiptsSpec

-----------------------------------------------------------------------------
(***************************************************************************)
(* Board.  A request that has not yet inserted its reply has the row to    *)
(* itself: it is unborn, and no other request is about it.                 *)
(***************************************************************************)
RowsInOrder ==
    /\ DOMAIN post = Posts
    /\ \A p \in Posts : /\ post[p] \in Post
                        /\ post[p].row = "unborn" => ~post[p].is_removed

InsertsAreAlone ==
    /\ DOMAIN desk = Desks
    /\ \A d \in Desks : desk[d].pc # "idle" => desk[d].on \in Posts /\ desk[d].actor \in Members
    /\ \A d \in Desks : desk[d].pc = "insert" =>
          /\ desk[d].on \in Replies
          /\ post[desk[d].on].row = "unborn"
          /\ \A e \in Desks \ {d} : desk[e].pc = "idle" \/ desk[e].on # desk[d].on

BoardInv == RowsInOrder /\ InsertsAreAlone

\* What one step may do to the rows.
RemovedStay ==
    \A p \in Posts : /\ post[p].is_removed => post'[p].is_removed
                     /\ post[p].row = "gone" => post'[p].row = "gone"

LEMMA UnbornTyped == Unborn \in Post /\ Unborn.row = "unborn" /\ ~Unborn.is_removed
  BY DEF Unborn, Post

LEMMA BoardBegin == BoardInit => BoardInv
  BY UnbornTyped DEF BoardInit, BoardInv, RowsInOrder, InsertsAreAlone, IdleDesk

\* A request that goes on to save is about a row that is live.
LEMMA DecideKeepsBoard ==
  ASSUME BoardInv, NEW d \in Desks, NEW u \in Members, NEW p \in Posts, NEW saves \in Saves,
         post[p].row = "live", Decide(d, u, p, saves)
  PROVE  BoardInv' /\ RemovedStay
<1>1. /\ DOMAIN desk' = Desks
      /\ desk'[d].pc = "save" /\ desk'[d].on = p /\ desk'[d].actor = u
      /\ \A e \in Desks \ {d} : desk'[e] = desk[e]
  BY DEF Decide, BoardInv, InsertsAreAlone
<1> QED
  BY <1>1 DEF Decide, BoardInv, RowsInOrder, InsertsAreAlone, RemovedStay

LEMMA EditsDecide ==
  ASSUME NEW d \in Desks, NEW u \in Members, BoardAssumption,
         \/ \E r \in Replies : EditReply(d, u, r)
         \/ \E t \in Threads, saves \in Saves : EditThread(d, u, t, saves)
         \/ \E a \in Notices, saves \in Saves : EditNotice(d, u, a, saves)
         \/ \E p \in Posts : TakeDown(d, u, p)
  PROVE  \E p \in Posts, saves \in Saves : post[p].row = "live" /\ Decide(d, u, p, saves)
<1>1. "body" \in Saves /\ "is_removed" \in Saves
  BY DEF Saves
<1>2. ASSUME NEW r \in Replies, EditReply(d, u, r)
      PROVE  \E p \in Posts, saves \in Saves : post[p].row = "live" /\ Decide(d, u, p, saves)
  BY <1>1, <1>2 DEF EditReply, Posts
<1>3. ASSUME NEW t \in Threads, NEW s \in Saves, EditThread(d, u, t, s)
      PROVE  \E p \in Posts, saves \in Saves : post[p].row = "live" /\ Decide(d, u, p, saves)
  BY <1>3 DEF EditThread, Posts
<1>4. ASSUME NEW a \in Notices, NEW s \in Saves, EditNotice(d, u, a, s)
      PROVE  \E p \in Posts, saves \in Saves : post[p].row = "live" /\ Decide(d, u, p, saves)
  BY <1>4 DEF EditNotice, Posts
<1>5. ASSUME NEW q \in Posts, TakeDown(d, u, q)
      PROVE  \E p \in Posts, saves \in Saves : post[p].row = "live" /\ Decide(d, u, p, saves)
  BY <1>1, <1>5 DEF TakeDown
<1> QED
  BY <1>2, <1>3, <1>4, <1>5

\* Threads and announcements are never the row a reply is waiting to be.
LEMMA StartKeepsBoard ==
  ASSUME BoardInv, NEW u \in Members, NEW p \in Posts, Start(u, p)
  PROVE  BoardInv' /\ RemovedStay
<1>1. /\ DOMAIN post' = Posts /\ post'[p] \in Post
      /\ post'[p].row = "live" /\ ~post[p].is_removed /\ post[p].row = "unborn"
      /\ \A q \in Posts \ {p} : post'[q] = post[q]
  BY DEF Start, BoardInv, RowsInOrder, Unborn, Post
<1>2. p \notin Replies
  BY BoardAssumption DEF Start
<1> QED
  BY <1>1, <1>2 DEF Start, BoardInv, RowsInOrder, InsertsAreAlone, RemovedStay

LEMMA CheckReplyKeepsBoard ==
  ASSUME BoardInv, NEW d \in Desks, NEW u \in Members, NEW r \in Replies, CheckReply(d, u, r)
  PROVE  BoardInv' /\ RemovedStay
<1>1. /\ DOMAIN desk' = Desks
      /\ desk'[d].pc = "insert" /\ desk'[d].on = r /\ desk'[d].actor = u
      /\ \A e \in Desks \ {d} : desk'[e] = desk[e]
  BY DEF CheckReply, BoardInv, InsertsAreAlone
<1>2. /\ post[r].row = "unborn" /\ r \in Posts
      /\ \A e \in Desks : desk[e].pc = "idle" \/ desk[e].on # r
  BY DEF CheckReply, Posts
<1> QED
  BY <1>1, <1>2 DEF CheckReply, BoardInv, RowsInOrder, InsertsAreAlone, RemovedStay

LEMMA InsertKeepsBoard == ASSUME BoardInv, NEW d \in Desks, InsertReply(d) PROVE BoardInv' /\ RemovedStay
<1> DEFINE r == desk[d].on
<1>1. /\ desk[d].pc = "insert" /\ r \in Posts /\ desk[d].actor \in Members
      /\ post[r].row = "unborn" /\ ~post[r].is_removed
      /\ \A e \in Desks \ {d} : desk[e].pc = "idle" \/ desk[e].on # r
  BY DEF InsertReply, BoardInv, RowsInOrder, InsertsAreAlone
<1>2. /\ DOMAIN post' = Posts /\ post'[r] \in Post /\ post'[r].row = "live"
      /\ \A q \in Posts \ {r} : post'[q] = post[q]
  BY <1>1 DEF InsertReply, BoardInv, RowsInOrder, Unborn, Post
<1>3. /\ DOMAIN desk' = Desks /\ desk'[d].pc = "save" /\ desk'[d].on = r
      /\ desk'[d].actor = desk[d].actor
      /\ \A e \in Desks \ {d} : desk'[e] = desk[e]
  BY DEF InsertReply, BoardInv, InsertsAreAlone
<1> QED
  BY <1>1, <1>2, <1>3 DEF BoardInv, RowsInOrder, InsertsAreAlone, RemovedStay

LEMMA DeleteKeepsBoard ==
  ASSUME BoardInv, NEW u \in Members, NEW a \in Notices, DeleteNotice(u, a)
  PROVE  BoardInv' /\ RemovedStay
<1>1. a \in Posts /\ post[a].row = "live"
  BY DEF DeleteNotice, Posts
<1>2. /\ DOMAIN post' = Posts /\ post'[a] \in Post
      /\ post'[a].row = "gone" /\ post'[a].is_removed = post[a].is_removed
      /\ \A q \in Posts \ {a} : post'[q] = post[q]
  BY <1>1 DEF DeleteNotice, BoardInv, RowsInOrder, Post
<1> QED
  BY <1>1, <1>2 DEF DeleteNotice, BoardInv, RowsInOrder, InsertsAreAlone, RemovedStay

\* Saving writes over the row as it is now, and only over a live one.
LEMMA SaveKeepsBoard == ASSUME BoardInv, NEW d \in Desks, Save(d) PROVE BoardInv' /\ RemovedStay
<1> DEFINE p == desk[d].on
<1>1. p \in Posts /\ desk[d].actor \in Members /\ post[p] \in Post
  BY DEF Save, BoardInv, RowsInOrder, InsertsAreAlone
<1>2. /\ DOMAIN desk' = Desks /\ desk'[d].pc = "idle"
      /\ \A e \in Desks \ {d} : desk'[e] = desk[e]
  BY DEF Save, BoardInv, InsertsAreAlone, IdleDesk
<1>3. CASE post[p].row # "live"
  BY <1>2, <1>3 DEF Save, Saved, BoardInv, RowsInOrder, InsertsAreAlone, RemovedStay
<1>4. CASE post[p].row = "live"
  <2>1. Written(d, post[p]) \in Post
    BY <1>1 DEF Written, Post
  <2>2. /\ Written(d, post[p]).row = post[p].row
        /\ post[p].is_removed => Written(d, post[p]).is_removed
    BY <1>1 DEF Written, Post
  <2>3. post' = [post EXCEPT ![p] = Written(d, post[p])]
    BY <1>4 DEF Save, Saved
  <2>4. /\ DOMAIN post' = Posts /\ post'[p] = Written(d, post[p])
        /\ \A q \in Posts \ {p} : post'[q] = post[q]
    BY <1>1, <2>3 DEF BoardInv, RowsInOrder
  <2> HIDE DEF p
  <2> QED
    BY <1>1, <1>2, <1>4, <2>1, <2>2, <2>4 DEF BoardInv, RowsInOrder, InsertsAreAlone, RemovedStay
<1> QED
  BY <1>3, <1>4

LEMMA DeathKeepsBoard == ASSUME BoardInv, NEW d \in Desks, DeskDies(d) PROVE BoardInv' /\ RemovedStay
<1>1. /\ DOMAIN desk' = Desks /\ desk'[d].pc = "idle"
      /\ \A e \in Desks \ {d} : desk'[e] = desk[e]
  BY DEF DeskDies, BoardInv, InsertsAreAlone, IdleDesk
<1> QED
  BY <1>1 DEF DeskDies, BoardInv, RowsInOrder, InsertsAreAlone, RemovedStay

LEMMA BoardStep == BoardInv /\ [BoardNext]_boardVars => BoardInv' /\ (RemovedStay \/ UNCHANGED boardVars)
<1> SUFFICES ASSUME BoardInv, [BoardNext]_boardVars
             PROVE  BoardInv' /\ (RemovedStay \/ UNCHANGED boardVars)
  OBVIOUS
<1>1. CASE UNCHANGED boardVars
  BY <1>1 DEF boardVars, BoardInv, RowsInOrder, InsertsAreAlone
<1>2. CASE BoardNext
  <2>1. PICK u \in Members :
          \/ \E p \in Posts : Start(u, p)
          \/ \E a \in Notices : DeleteNotice(u, a)
          \/ \E d \in Desks :
                \/ \E r \in Replies : CheckReply(d, u, r) \/ EditReply(d, u, r)
                \/ \E t \in Threads, saves \in Saves : EditThread(d, u, t, saves)
                \/ \E a \in Notices, saves \in Saves : EditNotice(d, u, a, saves)
                \/ \E p \in Posts : TakeDown(d, u, p)
                \/ InsertReply(d)
                \/ Save(d)
                \/ DeskDies(d)
    BY <1>2 DEF BoardNext
  <2> QED
    BY <2>1, BoardAssumption, StartKeepsBoard, DeleteKeepsBoard, CheckReplyKeepsBoard, EditsDecide,
       DecideKeepsBoard, InsertKeepsBoard, SaveKeepsBoard, DeathKeepsBoard
<1> QED
  BY <1>1, <1>2

\* For every class, board and number of requests at once: what was taken down
\* stays down (discussions.services, announcements.services).
THEOREM RemovalsStand == BoardSpec => RemovalStands
<1>1. BoardInv /\ [BoardNext]_boardVars =>
        [\A p \in Posts : /\ post[p].is_removed => post'[p].is_removed
                          /\ post[p].row = "gone" => post'[p].row = "gone"]_boardVars
  BY BoardStep DEF RemovedStay
<1> QED
  BY <1>1, BoardBegin, BoardStep, PTL DEF BoardSpec, RemovalStands

\* Rows are numbered as they are created, which finitely many ever are.
Born == {q \in Posts : post[q].row # "unborn"}

BoardTyped == BoardTypeOK /\ IsFiniteSet(Born)

LEMMA IdleDeskTyped == IdleDesk \in Desk
<1>1. (CHOOSE u \in Members : TRUE) \in Members /\ (CHOOSE p \in Posts : TRUE) \in Posts
  BY BoardAssumption
<1> QED
  BY <1>1, UnbornTyped DEF IdleDesk, Desk, Saves

LEMMA BoardTypesBegin == BoardInit => BoardTyped
<1> SUFFICES ASSUME BoardInit PROVE BoardTyped
  OBVIOUS
<1>1. Born = {}
  BY UnbornTyped DEF BoardInit, Born
<1> QED
  BY <1>1, IdleDeskTyped, UnbornTyped, FS_EmptySet DEF BoardInit, BoardTyped, BoardTypeOK

\* The place of a new row in the order of creation.
LEMMA NowIsNumber ==
  ASSUME BoardTyped
  PROVE  Cardinality({q \in Posts : post[q].row # "unborn"}) + 1 \in Nat
<1>1. Cardinality(Born) \in Nat
  BY FS_CardinalityType DEF BoardTyped
<1> QED
  BY <1>1 DEF Born

\* A step that writes one row at most.
LEMMA RowKeepsTypes ==
  ASSUME BoardTyped, BoardTypeOK', NEW p \in Posts,
         \A q \in Posts \ {p} : post'[q] = post[q]
  PROVE  BoardTyped'
<1>1. Born' \subseteq Born \cup {p}
  BY DEF Born
<1>2. IsFiniteSet(Born \cup {p})
  BY FS_AddElement DEF BoardTyped
<1> QED
  BY <1>1, <1>2, FS_Subset DEF BoardTyped

\* A step that writes no row.
LEMMA DeskKeepsTypes == ASSUME BoardTyped, BoardTypeOK', post' = post PROVE BoardTyped'
<1>1. Born' = Born
  BY DEF Born
<1> QED
  BY <1>1 DEF BoardTyped

LEMMA StartKeepsTypes ==
  ASSUME BoardTyped, NEW u \in Members, NEW p \in Posts, Start(u, p)
  PROVE  BoardTyped'
<1> DEFINE now == Cardinality({q \in Posts : post[q].row # "unborn"}) + 1
<1>1. now \in Nat
  BY NowIsNumber
<1>2. [Unborn EXCEPT !.row = "live", !.author = u] \in Post
  BY DEF Unborn, Post
<1>3. /\ post' = [post EXCEPT ![p] = [Unborn EXCEPT !.row = "live", !.author = u]]
      /\ ordinal' = [ordinal EXCEPT ![p] = now]
      /\ activity' = IF p \in Threads THEN [activity EXCEPT ![p] = now] ELSE activity
      /\ UNCHANGED desk
  BY DEF Start
<1> HIDE DEF now
<1>4. BoardTypeOK'
  BY <1>1, <1>2, <1>3 DEF BoardTyped, BoardTypeOK
<1> QED
  BY <1>3, <1>4, RowKeepsTypes DEF BoardTyped, BoardTypeOK

LEMMA DecideKeepsTypes ==
  ASSUME BoardTyped, NEW d \in Desks, NEW u \in Members, NEW p \in Posts, NEW saves \in Saves,
         Decide(d, u, p, saves)
  PROVE  BoardTyped'
<1>1. [pc |-> "save", actor |-> u, on |-> p, seen |-> post[p], saves |-> saves] \in Desk
  BY DEF BoardTyped, BoardTypeOK, Desk
<1>2. BoardTypeOK'
  BY <1>1 DEF Decide, BoardTyped, BoardTypeOK
<1> QED
  BY <1>2, DeskKeepsTypes DEF Decide

LEMMA CheckReplyKeepsTypes ==
  ASSUME BoardTyped, NEW d \in Desks, NEW u \in Members, NEW r \in Replies, CheckReply(d, u, r)
  PROVE  BoardTyped'
<1>1. r \in Posts /\ ThreadOf[r] \in Posts
  BY BoardAssumption DEF Posts
<1>2. [pc |-> "insert", actor |-> u, on |-> r, seen |-> post[ThreadOf[r]], saves |-> "none"] \in Desk
  BY <1>1 DEF BoardTyped, BoardTypeOK, Desk, Saves
<1>3. BoardTypeOK'
  BY <1>2 DEF CheckReply, BoardTyped, BoardTypeOK
<1> QED
  BY <1>3, DeskKeepsTypes DEF CheckReply

LEMMA InsertKeepsTypes == ASSUME BoardTyped, NEW d \in Desks, InsertReply(d) PROVE BoardTyped'
<1> DEFINE r == desk[d].on
           now == Cardinality({q \in Posts : post[q].row # "unborn"}) + 1
<1>1. now \in Nat
  BY NowIsNumber
<1>2. r \in Posts /\ desk[d] \in Desk
  BY DEF BoardTyped, BoardTypeOK, Desk
<1>3. [Unborn EXCEPT !.row = "live", !.author = desk[d].actor] \in Post
  BY <1>2 DEF Unborn, Post, Desk
<1>4. [desk[d] EXCEPT !.pc = "save", !.saves = "last_activity_at"] \in Desk
  BY <1>2 DEF Desk, Saves
<1>5. /\ post' = [post EXCEPT ![r] = [Unborn EXCEPT !.row = "live", !.author = desk[d].actor]]
      /\ ordinal' = [ordinal EXCEPT ![r] = now]
      /\ desk' = [desk EXCEPT ![d] = [desk[d] EXCEPT !.pc = "save", !.saves = "last_activity_at"]]
      /\ UNCHANGED activity
  BY DEF InsertReply
<1> HIDE DEF now, r
<1>6. BoardTypeOK'
  BY <1>1, <1>2, <1>3, <1>4, <1>5 DEF BoardTyped, BoardTypeOK
<1> QED
  BY <1>2, <1>5, <1>6, RowKeepsTypes DEF BoardTyped, BoardTypeOK

LEMMA DeleteKeepsTypes ==
  ASSUME BoardTyped, NEW u \in Members, NEW a \in Notices, DeleteNotice(u, a)
  PROVE  BoardTyped'
<1>1. a \in Posts
  BY DEF Posts
<1>2. [post[a] EXCEPT !.row = "gone"] \in Post
  BY <1>1 DEF BoardTyped, BoardTypeOK, Post
<1>3. BoardTypeOK'
  BY <1>1, <1>2 DEF DeleteNotice, BoardTyped, BoardTypeOK
<1> QED
  BY <1>1, <1>3, RowKeepsTypes DEF DeleteNotice, BoardTyped, BoardTypeOK

LEMMA SaveKeepsTypes == ASSUME BoardTyped, NEW d \in Desks, Save(d) PROVE BoardTyped'
<1> DEFINE p == desk[d].on
<1>1. p \in Posts /\ desk[d] \in Desk /\ post[p] \in Post /\ ordinal[p] \in Nat
  BY DEF BoardTyped, BoardTypeOK, Desk
<1>2. Written(d, post[p]) \in Post
  BY <1>1 DEF Written, Post, Desk
<1>3. post' = post \/ post' = [post EXCEPT ![p] = Written(d, post[p])]
  BY DEF Save, Saved
<1>4. post' \in [Posts -> Post] /\ \A q \in Posts \ {p} : post'[q] = post[q]
  BY <1>1, <1>2, <1>3 DEF BoardTyped, BoardTypeOK
<1>5. activity' = activity \/ activity' = [activity EXCEPT ![ThreadOf[p]] = ordinal[p]]
  BY DEF Save
<1>6. activity' \in [Threads -> Nat]
  BY <1>1, <1>5 DEF BoardTyped, BoardTypeOK
<1>7. BoardTypeOK'
  BY <1>4, <1>6, IdleDeskTyped DEF Save, BoardTyped, BoardTypeOK
<1> QED
  BY <1>1, <1>4, <1>7, RowKeepsTypes

LEMMA DeathKeepsDeskTypes == ASSUME BoardTyped, NEW d \in Desks, DeskDies(d) PROVE BoardTyped'
<1>1. BoardTypeOK'
  BY IdleDeskTyped DEF DeskDies, BoardTyped, BoardTypeOK
<1> QED
  BY <1>1, DeskKeepsTypes DEF DeskDies

LEMMA BoardTypesStep == BoardTyped /\ [BoardNext]_boardVars => BoardTyped'
<1> SUFFICES ASSUME BoardTyped, [BoardNext]_boardVars PROVE BoardTyped'
  OBVIOUS
<1>1. CASE UNCHANGED boardVars
  BY <1>1, DeskKeepsTypes DEF boardVars, BoardTyped, BoardTypeOK
<1>2. CASE BoardNext
  <2>1. PICK u \in Members :
          \/ \E p \in Posts : Start(u, p)
          \/ \E a \in Notices : DeleteNotice(u, a)
          \/ \E d \in Desks :
                \/ \E r \in Replies : CheckReply(d, u, r) \/ EditReply(d, u, r)
                \/ \E t \in Threads, saves \in Saves : EditThread(d, u, t, saves)
                \/ \E a \in Notices, saves \in Saves : EditNotice(d, u, a, saves)
                \/ \E p \in Posts : TakeDown(d, u, p)
                \/ InsertReply(d)
                \/ Save(d)
                \/ DeskDies(d)
    BY <1>2 DEF BoardNext
  <2> QED
    BY <2>1, BoardAssumption, StartKeepsTypes, DeleteKeepsTypes, CheckReplyKeepsTypes, EditsDecide,
       DecideKeepsTypes, InsertKeepsTypes, SaveKeepsTypes, DeathKeepsDeskTypes
<1> QED
  BY <1>1, <1>2

LEMMA BoardIsTyped == BoardSpec => []BoardTypeOK
<1>1. BoardTyped => BoardTypeOK
  BY DEF BoardTyped
<1> QED
  BY <1>1, BoardTypesBegin, BoardTypesStep, PTL DEF BoardSpec

-----------------------------------------------------------------------------
(***************************************************************************)
(* Content.  A row a committed reorder listed stands at ten times its      *)
(* place there until it is moved singly, so rows of a shelf stand in the   *)
(* order of their places.  What could upset this is an insert that comes   *)
(* with a position read long before: no reorder has listed its row, since  *)
(* none could read it, and no other insert has its id.                     *)
(***************************************************************************)
RowState ==
    /\ present \subseteq created /\ created \subseteq Shelved
    /\ position = [e \in Shelved |-> position[e]]
    /\ settled \in [Shelved -> Nat]
    /\ \A e \in Shelved : settled[e] # 0 => position[e] = 10 * settled[e] /\ e \in created

\* A curator, whatever it carries.
CuratorTyped(c) ==
    curator[c] \in [pc : {"idle", "insert", "update", "reorder"}, on : Shelved \cup Shelves,
                    top : {curator[c].top}, upload : {curator[c].upload},
                    change : {curator[c].change}, order : {curator[c].order},
                    saved : {curator[c].saved}]

InsertIsFresh(c) ==
    curator[c].pc = "insert" =>
       /\ curator[c].on \in created \ present
       /\ settled[curator[c].on] = 0
       /\ \A d \in Curators :
             /\ curator[d].pc = "insert" /\ d # c => curator[d].on # curator[c].on
             /\ curator[d].pc = "reorder" => curator[c].on \notin Listed(curator[d].order)

OrderIsOfShelf(c) ==
    /\ curator[c].pc = "update" => curator[c].on \in Shelved
    /\ curator[c].pc = "reorder" =>
          \A e \in Listed(curator[c].order) : e \in created /\ ShelfOf(e) = curator[c].on

OrderInv ==
    /\ RowState
    /\ curator = [c \in Curators |-> curator[c]]
    /\ \A c \in Curators : CuratorTyped(c) /\ InsertIsFresh(c) /\ OrderIsOfShelf(c)

LEMMA OrderInvSuffices == OrderInv => OrderStands
<1> SUFFICES ASSUME OrderInv, NEW d \in present, NEW e \in present,
                    0 < settled[d], settled[d] < settled[e]
             PROVE  position[d] < position[e]
  BY DEF OrderStands
<1>1. settled[d] \in Nat /\ settled[e] \in Nat /\ d \in Shelved /\ e \in Shelved
  BY DEF OrderInv, RowState
<1>2. position[d] = 10 * settled[d] /\ position[e] = 10 * settled[e]
  BY <1>1 DEF OrderInv, RowState
<1> QED
  BY <1>1, <1>2

\* Curator c goes on as new; the rows are as they were.
LEMMA CuratorStep ==
  ASSUME OrderInv, NEW c \in Curators, NEW new,
         new \in [pc : {"idle", "insert", "update", "reorder"}, on : Shelved \cup Shelves,
                  top : {new.top}, upload : {new.upload}, change : {new.change},
                  order : {new.order}, saved : {new.saved}],
         curator' = [curator EXCEPT ![c] = new],
         new.pc \in {"insert", "reorder"} =>
            new.pc = curator[c].pc /\ new.on = curator[c].on /\ new.order = curator[c].order,
         new.pc = "update" => new.on \in Shelved,
         RowState', created' = created, present' \subseteq present,
         \A d \in Curators : curator[d].pc = "insert" => settled'[curator[d].on] = 0
  PROVE  OrderInv'
<1>1. \A d \in Curators : curator'[d] = IF d = c THEN new ELSE curator[d]
  BY DEF OrderInv
<1>2. ASSUME NEW d \in Curators PROVE CuratorTyped(d)'
  <2>1. CASE d = c
    BY <1>1, <2>1 DEF CuratorTyped
  <2>2. CASE d # c
    BY <1>1, <2>2 DEF OrderInv, CuratorTyped
  <2> QED
    BY <2>1, <2>2
<1>3. ASSUME NEW d \in Curators PROVE InsertIsFresh(d)'
  <2> SUFFICES ASSUME curator'[d].pc = "insert" PROVE InsertIsFresh(d)'
    BY DEF InsertIsFresh
  <2>1. /\ curator[d].pc = "insert" /\ curator'[d].on = curator[d].on
        /\ InsertIsFresh(d)
    BY <1>1 DEF OrderInv
  <2>2. settled'[curator[d].on] = 0
    BY <2>1
  <2>3. \A b \in Curators :
           /\ curator'[b].pc = "insert" => curator[b].pc = "insert" /\ curator'[b].on = curator[b].on
           /\ curator'[b].pc = "reorder" => curator[b].pc = "reorder" /\ curator'[b].order = curator[b].order
    BY <1>1
  <2>4. curator[d].on \in created' \ present'
    BY <2>1 DEF InsertIsFresh
  <2> QED
    BY <2>1, <2>2, <2>3, <2>4 DEF InsertIsFresh, Listed
<1>4. ASSUME NEW d \in Curators PROVE OrderIsOfShelf(d)'
  <2>1. OrderIsOfShelf(d)
    BY DEF OrderInv
  <2>2. CASE d = c
    BY <1>1, <2>1, <2>2 DEF OrderIsOfShelf, Listed, ShelfOf
  <2>3. CASE d # c
    BY <1>1, <2>1, <2>3 DEF OrderIsOfShelf, Listed, ShelfOf
  <2> QED
    BY <2>2, <2>3
<1> QED
  BY <1>1, <1>2, <1>3, <1>4 DEF OrderInv

LEMMA IdleCuratorTyped ==
  /\ IdleCurator \in [pc : {"idle", "insert", "update", "reorder"}, on : Shelved \cup Shelves,
                      top : {IdleCurator.top}, upload : {IdleCurator.upload},
                      change : {IdleCurator.change}, order : {IdleCurator.order},
                      saved : {IdleCurator.saved}]
  /\ IdleCurator.pc = "idle"
  BY DEF IdleCurator, Shelves

\* A request that ends, its rows written or not.
LEMMA CuratorRests ==
  ASSUME OrderInv, NEW c \in Curators, curator' = [curator EXCEPT ![c] = IdleCurator],
         RowState', created' = created, present' \subseteq present,
         \A d \in Curators : curator[d].pc = "insert" => settled'[curator[d].on] = 0
  PROVE  OrderInv'
  BY IdleCuratorTyped, CuratorStep

LEMMA RowsRest == RowState /\ UNCHANGED <<present, created, position, settled>> => RowState'
  BY DEF RowState

LEMMA CheckCreateKeeps ==
  ASSUME OrderInv, NEW c \in Curators, NEW e \in Shelved, NEW up \in Uploads, CheckCreate(c, e, up)
  PROVE  OrderInv'
<1> DEFINE new == [IdleCurator EXCEPT !.pc = "insert", !.on = e, !.top = NextPosition(ShelfOf(e)),
                                      !.upload = up]
<1>1. /\ curator' = [curator EXCEPT ![c] = new] /\ e \notin created /\ created' = created \cup {e}
      /\ UNCHANGED <<present, position, published, content, settled>>
  BY DEF CheckCreate
<1>2. /\ new.pc = "insert" /\ new.on = e
      /\ new \in [pc : {"idle", "insert", "update", "reorder"}, on : Shelved \cup Shelves,
                  top : {new.top}, upload : {new.upload}, change : {new.change},
                  order : {new.order}, saved : {new.saved}]
  BY DEF IdleCurator
<1> HIDE DEF new
<1>3. \A d \in Curators : curator'[d] = IF d = c THEN new ELSE curator[d]
  BY <1>1 DEF OrderInv
<1>4. RowState'
  BY <1>1 DEF OrderInv, RowState
<1>5. settled[e] = 0 /\ e \notin present
  BY <1>1 DEF OrderInv, RowState
<1>6. ASSUME NEW d \in Curators PROVE CuratorTyped(d)'
  BY <1>2, <1>3 DEF OrderInv, CuratorTyped
<1>7. ASSUME NEW d \in Curators PROVE OrderIsOfShelf(d)'
  BY <1>1, <1>2, <1>3 DEF OrderInv, OrderIsOfShelf, Listed, ShelfOf
<1>8. ASSUME NEW d \in Curators PROVE InsertIsFresh(d)'
  <2>1. CASE d = c
    <3>1. \A b \in Curators \ {c} :
             /\ curator[b].pc = "insert" => curator[b].on # e
             /\ curator[b].pc = "reorder" => e \notin Listed(curator[b].order)
      BY <1>1 DEF OrderInv, InsertIsFresh, OrderIsOfShelf
    <3> QED
      BY <1>1, <1>2, <1>3, <1>5, <2>1, <3>1 DEF InsertIsFresh, Listed
  <2>2. CASE d # c
    <3>1. InsertIsFresh(d)
      BY DEF OrderInv
    <3>2. curator[d].pc = "insert" => curator[d].on # e
      BY <1>1, <3>1 DEF InsertIsFresh
    <3> QED
      BY <1>1, <1>2, <1>3, <2>2, <3>1, <3>2 DEF InsertIsFresh, Listed
  <2> QED
    BY <2>1, <2>2
<1>9. curator' = [d \in Curators |-> curator'[d]]
  BY <1>1 DEF OrderInv
<1> QED
  BY <1>4, <1>6, <1>7, <1>8, <1>9 DEF OrderInv

LEMMA InsertRowKeeps == ASSUME OrderInv, NEW c \in Curators, InsertRow(c) PROVE OrderInv'
<1> DEFINE e == curator[c].on
<1>1. /\ curator[c].pc = "insert" /\ curator' = [curator EXCEPT ![c] = IdleCurator]
      /\ UNCHANGED <<created, published, settled>>
  BY DEF InsertRow
<1>2. InsertIsFresh(c) /\ e \in created \ present /\ settled[e] = 0 /\ e \in Shelved
  BY <1>1 DEF OrderInv, InsertIsFresh, RowState
<1>3. \A d \in Curators : curator[d].pc = "insert" => settled'[curator[d].on] = 0
  BY <1>1 DEF OrderInv, InsertIsFresh
<1>4. CASE UNCHANGED <<present, position, content>>
  <2>1. RowState'
    BY <1>1, <1>4, RowsRest DEF OrderInv
  <2> QED
    BY <1>1, <1>3, <1>4, <2>1, CuratorRests
<1>5. CASE present' = present \cup {e} /\ position' = [position EXCEPT ![e] = curator[c].top]
  <2>1. RowState'
    <3>1. \A d \in Shelved : settled[d] # 0 => d # e /\ position'[d] = position[d]
      BY <1>2, <1>5 DEF OrderInv, RowState
    <3> QED
      BY <1>1, <1>2, <1>5, <3>1 DEF OrderInv, RowState
  <2>2. \A d \in Curators : curator'[d] = IF d = c THEN IdleCurator ELSE curator[d]
    BY <1>1 DEF OrderInv
  <2>3. \A d \in Curators : CuratorTyped(d)' /\ OrderIsOfShelf(d)'
    BY <1>1, <2>2, IdleCuratorTyped DEF OrderInv, CuratorTyped, OrderIsOfShelf, Listed, ShelfOf
  <2>4. ASSUME NEW d \in Curators, d # c, curator[d].pc = "insert" PROVE InsertIsFresh(d)'
    <3>1. InsertIsFresh(d) /\ curator[d].on # e
      BY <1>1, <1>2, <2>4 DEF OrderInv, InsertIsFresh
    <3>2. \A b \in Curators : curator'[b].pc # "idle" => curator'[b] = curator[b]
      BY <2>2, IdleCuratorTyped
    <3> QED
      BY <1>1, <1>5, <2>2, <2>4, <3>1, <3>2 DEF InsertIsFresh, Listed
  <2>5. \A d \in Curators : InsertIsFresh(d)'
    BY <2>2, <2>4, IdleCuratorTyped DEF InsertIsFresh
  <2>6. curator' = [d \in Curators |-> curator'[d]]
    BY <1>1 DEF OrderInv
  <2> QED
    BY <2>1, <2>3, <2>5, <2>6 DEF OrderInv
<1> QED
  BY <1>4, <1>5 DEF InsertRow

LEMMA CheckUpdateKeeps ==
  ASSUME OrderInv, NEW c \in Curators, NEW e \in Shelved, NEW ch \in Changes, CheckUpdate(c, e, ch)
  PROVE  OrderInv'
<1> DEFINE new == [IdleCurator EXCEPT !.pc = "update", !.on = e, !.change = ch]
<1>1. /\ curator' = [curator EXCEPT ![c] = new]
      /\ UNCHANGED <<present, created, position, published, content, settled>>
  BY DEF CheckUpdate
<1>2. /\ new.pc = "update" /\ new.on = e
      /\ new \in [pc : {"idle", "insert", "update", "reorder"}, on : Shelved \cup Shelves,
                  top : {new.top}, upload : {new.upload}, change : {new.change},
                  order : {new.order}, saved : {new.saved}]
  BY DEF IdleCurator
<1> HIDE DEF new
<1>3. RowState' /\ \A d \in Curators : curator[d].pc = "insert" => settled'[curator[d].on] = 0
  BY <1>1, RowsRest DEF OrderInv, InsertIsFresh
<1> QED
  BY <1>1, <1>2, <1>3, CuratorStep

LEMMA StoreUpdateKeeps == ASSUME OrderInv, NEW c \in Curators, StoreUpdate(c) PROVE OrderInv'
<1> DEFINE e == curator[c].on
<1>1. /\ curator[c].pc = "update" /\ curator' = [curator EXCEPT ![c] = IdleCurator]
      /\ UNCHANGED <<present, created>>
      /\ UNCHANGED <<position, settled>>
         \/ \E p : position' = [position EXCEPT ![e] = p] /\ settled' = [settled EXCEPT ![e] = 0]
  BY DEF StoreUpdate
<1>2. e \in Shelved
  BY <1>1 DEF OrderInv, OrderIsOfShelf
<1>3. RowState' /\ \A d \in Shelved : settled'[d] # 0 => settled'[d] = settled[d]
  <2>1. CASE UNCHANGED <<position, settled>>
    BY <1>1, <2>1, RowsRest DEF OrderInv
  <2>2. CASE \E p : position' = [position EXCEPT ![e] = p] /\ settled' = [settled EXCEPT ![e] = 0]
    <3>1. PICK p : position' = [position EXCEPT ![e] = p] /\ settled' = [settled EXCEPT ![e] = 0]
      BY <2>2
    <3>2. /\ settled' \in [Shelved -> Nat] /\ settled'[e] = 0
          /\ \A d \in Shelved \ {e} : settled'[d] = settled[d] /\ position'[d] = position[d]
      BY <1>2, <3>1 DEF OrderInv, RowState
    <3> QED
      BY <1>1, <3>1, <3>2 DEF OrderInv, RowState
  <2> QED
    BY <1>1, <2>1, <2>2
<1>4. \A d \in Curators : curator[d].pc = "insert" => settled'[curator[d].on] = 0
  BY <1>3 DEF OrderInv, InsertIsFresh, RowState
<1> QED
  BY <1>1, <1>3, <1>4, CuratorRests

\* A reorder lists rows that are there, so none that waits to be inserted.
LEMMA ReadSiblingsKeeps ==
  ASSUME OrderInv, NEW c \in Curators, NEW shelf \in Shelves, ReadSiblings(c, shelf)
  PROVE  OrderInv'
<1>1. PICK order \in SetToSeqs(Siblings(shelf)) :
         curator' = [curator EXCEPT ![c] =
            [IdleCurator EXCEPT !.pc = "reorder", !.on = shelf, !.order = order]]
  BY DEF ReadSiblings
<1> DEFINE new == [IdleCurator EXCEPT !.pc = "reorder", !.on = shelf, !.order = order]
<1>2. UNCHANGED <<present, created, position, published, content, settled>>
  BY DEF ReadSiblings
<1>3. /\ new.pc = "reorder" /\ new.on = shelf /\ new.order = order
      /\ new \in [pc : {"idle", "insert", "update", "reorder"}, on : Shelved \cup Shelves,
                  top : {new.top}, upload : {new.upload}, change : {new.change},
                  order : {new.order}, saved : {new.saved}]
  BY DEF IdleCurator
<1> HIDE DEF new
<1>4. \A e \in Listed(order) : e \in present /\ ShelfOf(e) = shelf
  <2> DEFINE n == Cardinality(Siblings(shelf))
  <2>1. order \in [1..n -> Siblings(shelf)]
    BY DEF SetToSeqs
  <2>2. IsFiniteSet(Shelved) /\ Siblings(shelf) \subseteq Shelved
    BY ContentAssumption, FS_Union DEF Shelved, Siblings, OrderInv, RowState
  <2>3. n \in Nat
    BY <2>2, FS_Subset, FS_CardinalityType
  <2>4. ASSUME NEW k \in 1..Len(order) PROVE order[k] \in Siblings(shelf)
    <3> HIDE DEF n
    <3>1. Len(order) = n
      BY <2>1, <2>3
    <3> QED
      BY <2>1, <2>4, <3>1
  <2> QED
    BY <2>4 DEF Listed, Siblings
<1>5. \A d \in Curators : curator'[d] = IF d = c THEN new ELSE curator[d]
  BY <1>1 DEF OrderInv, new
<1>6. RowState'
  BY <1>2, RowsRest DEF OrderInv
<1>7. \A d \in Curators : CuratorTyped(d)'
  BY <1>3, <1>5 DEF OrderInv, CuratorTyped
<1>8. ASSUME NEW d \in Curators PROVE OrderIsOfShelf(d)'
  <2>1. CASE d = c
    BY <1>2, <1>3, <1>4, <1>5, <2>1 DEF OrderInv, RowState, OrderIsOfShelf, Listed, ShelfOf
  <2>2. CASE d # c
    BY <1>2, <1>5, <2>2 DEF OrderInv, OrderIsOfShelf, Listed, ShelfOf
  <2> QED
    BY <2>1, <2>2
<1>9. ASSUME NEW d \in Curators PROVE InsertIsFresh(d)'
  <2> SUFFICES ASSUME d # c, curator[d].pc = "insert" PROVE InsertIsFresh(d)'
    BY <1>3, <1>5 DEF InsertIsFresh
  <2>1. InsertIsFresh(d) /\ curator[d].on \notin Listed(order)
    BY <1>4 DEF OrderInv, InsertIsFresh
  <2> QED
    BY <1>2, <1>3, <1>5, <2>1 DEF InsertIsFresh, Listed
<1>10. curator' = [d \in Curators |-> curator'[d]]
  BY <1>1 DEF OrderInv
<1> QED
  BY <1>6, <1>7, <1>8, <1>9, <1>10 DEF OrderInv

LEMMA SavePositionKeeps == ASSUME OrderInv, NEW c \in Curators, SavePosition(c) PROVE OrderInv'
<1>1. UNCHANGED <<present, created, position, published, content, settled>>
  BY DEF SavePosition
<1>2. RowState' /\ \A d \in Curators : curator[d].pc = "insert" => settled'[curator[d].on] = 0
  BY <1>1, RowsRest DEF OrderInv, InsertIsFresh
<1>3. CASE curator' = [curator EXCEPT ![c] = IdleCurator]
  BY <1>1, <1>2, <1>3, CuratorRests
<1>4. CASE curator' = [curator EXCEPT ![c] = [curator[c] EXCEPT !.saved = curator[c].saved + 1]]
  <2> DEFINE new == [curator[c] EXCEPT !.saved = curator[c].saved + 1]
  <2>1. CuratorTyped(c)
    BY DEF OrderInv
  <2>2. /\ new.pc = curator[c].pc /\ new.on = curator[c].on /\ new.order = curator[c].order
        /\ new \in [pc : {"idle", "insert", "update", "reorder"}, on : Shelved \cup Shelves,
                    top : {new.top}, upload : {new.upload}, change : {new.change},
                    order : {new.order}, saved : {new.saved}]
    BY <2>1 DEF CuratorTyped
  <2>3. new.pc = "reorder"
    BY <2>2 DEF SavePosition
  <2> HIDE DEF new
  <2>4. curator' = [curator EXCEPT ![c] = new]
    BY <1>4 DEF new
  <2> QED
    BY <1>1, <1>2, <2>2, <2>3, <2>4, CuratorStep
<1>5. CASE curator[c].order[curator[c].saved + 1] \in present
  BY <1>4, <1>5 DEF SavePosition
<1>6. CASE curator[c].order[curator[c].saved + 1] \notin present
  BY <1>3, <1>6 DEF SavePosition
<1> QED
  BY <1>5, <1>6

LEMMA CommitOrderKeeps == ASSUME OrderInv, NEW c \in Curators, CommitOrder(c) PROVE OrderInv'
<1> DEFINE order == curator[c].order
           shelf == curator[c].on
<1>1. /\ position' = [e \in Shelved |->
            IF e \in Listed(order) THEN 10 * PlaceIn(order, e) ELSE position[e]]
      /\ settled' = Ordered(shelf, order)
      /\ curator' = [curator EXCEPT ![c] = IdleCurator]
      /\ UNCHANGED <<present, created>> /\ curator[c].pc = "reorder"
  BY DEF CommitOrder
<1>2. \A e \in Listed(order) : e \in created /\ ShelfOf(e) = shelf
  BY <1>1 DEF OrderInv, OrderIsOfShelf
<1>3. \A e \in Listed(order) : PlaceIn(order, e) \in Nat
  BY DEF Listed, PlaceIn
<1>4. \A e \in Shelved :
         settled'[e] = IF ShelfOf(e) # shelf THEN settled[e]
                       ELSE IF e \in Listed(order) THEN PlaceIn(order, e) ELSE 0
  BY <1>1 DEF Ordered
<1>5. settled' \in [Shelved -> Nat]
  BY <1>1, <1>3 DEF Ordered, OrderInv, RowState
<1>6. \A e \in Shelved : settled'[e] # 0 => position'[e] = 10 * settled'[e] /\ e \in created
  BY <1>1, <1>2, <1>4 DEF OrderInv, RowState
<1>7. RowState'
  BY <1>1, <1>5, <1>6 DEF OrderInv, RowState
<1>8. \A d \in Curators : curator[d].pc = "insert" => settled'[curator[d].on] = 0
  <2> SUFFICES ASSUME NEW d \in Curators, curator[d].pc = "insert" PROVE settled'[curator[d].on] = 0
    OBVIOUS
  <2>1. curator[d].on \notin Listed(order) /\ settled[curator[d].on] = 0 /\ curator[d].on \in Shelved
    BY <1>1 DEF OrderInv, InsertIsFresh, RowState
  <2> QED
    BY <1>4, <2>1
<1> QED
  BY <1>1, <1>7, <1>8, CuratorRests

LEMMA DeleteRowKeeps == ASSUME OrderInv, NEW e \in Shelved, DeleteRow(e) PROVE OrderInv'
<1>1. present' \subseteq present /\ UNCHANGED <<created, position, content, curator, settled>>
  BY DEF DeleteRow
<1>2. RowState'
  BY <1>1 DEF OrderInv, RowState
<1>3. \A c \in Curators : CuratorTyped(c)' /\ InsertIsFresh(c)' /\ OrderIsOfShelf(c)'
  BY <1>1 DEF OrderInv, CuratorTyped, InsertIsFresh, OrderIsOfShelf, Listed, ShelfOf
<1> QED
  BY <1>1, <1>2, <1>3 DEF OrderInv

LEMMA CuratorAbortsKeeps == ASSUME OrderInv, NEW c \in Curators, CuratorAborts(c) PROVE OrderInv'
<1>1. RowState' /\ \A d \in Curators : curator[d].pc = "insert" => settled'[curator[d].on] = 0
  BY RowsRest DEF CuratorAborts, OrderInv, InsertIsFresh
<1> QED
  BY <1>1, CuratorRests DEF CuratorAborts

LEMMA ContentBegins == ContentInit => OrderInv
  BY IdleCuratorTyped DEF ContentInit, OrderInv, RowState, CuratorTyped, InsertIsFresh, OrderIsOfShelf

LEMMA ContentStep == OrderInv /\ [ContentNext]_contentVars => OrderInv'
<1> SUFFICES ASSUME OrderInv, [ContentNext]_contentVars PROVE OrderInv'
  OBVIOUS
<1>1. CASE UNCHANGED contentVars
  <2>1. UNCHANGED <<present, created, position, curator, settled>>
    BY <1>1 DEF contentVars
  <2>2. RowState'
    BY <2>1, RowsRest DEF OrderInv
  <2>3. \A c \in Curators : CuratorTyped(c)' /\ InsertIsFresh(c)' /\ OrderIsOfShelf(c)'
    BY <2>1 DEF OrderInv, CuratorTyped, InsertIsFresh, OrderIsOfShelf, Listed, ShelfOf
  <2> QED
    BY <2>1, <2>2, <2>3 DEF OrderInv
<1>2. ASSUME NEW c \in Curators, NEW e \in Shelved, NEW up \in Uploads, CheckCreate(c, e, up)
      PROVE  OrderInv'
  BY <1>2, CheckCreateKeeps
<1>3. ASSUME NEW c \in Curators, NEW e \in Shelved, NEW ch \in Changes, CheckUpdate(c, e, ch)
      PROVE  OrderInv'
  BY <1>3, CheckUpdateKeeps
<1>4. ASSUME NEW c \in Curators, NEW s \in Shelves, ReadSiblings(c, s) PROVE OrderInv'
  BY <1>4, ReadSiblingsKeeps
<1>5. ASSUME NEW c \in Curators,
             InsertRow(c) \/ StoreUpdate(c) \/ SavePosition(c) \/ CommitOrder(c) \/ CuratorAborts(c)
      PROVE  OrderInv'
  BY <1>5, InsertRowKeeps, StoreUpdateKeeps, SavePositionKeeps, CommitOrderKeeps, CuratorAbortsKeeps
<1>6. ASSUME NEW e \in Shelved, DeleteRow(e) PROVE OrderInv'
  BY <1>6, DeleteRowKeeps
<1> QED
  BY <1>1, <1>2, <1>3, <1>4, <1>5, <1>6 DEF ContentNext

\* However inserts, single moves, deletions and reorders interleave, the rows of a
\* committed order keep it (services.reorder_modules, reorder_items).
THEOREM OrdersStand == ContentSpec => []OrderStands
<1>1. ContentSpec => []OrderInv
  BY ContentBegins, ContentStep, PTL DEF ContentSpec
<1> QED
  BY <1>1, OrderInvSuffices, PTL

\* Types of the records of Content, beside the order of their rows.
LEMMA NextPositionTyped == ASSUME ContentTypeOK, NEW shelf PROVE NextPosition(shelf) \in Nat
<1> DEFINE S == {0} \cup {position[e] : e \in Siblings(shelf)}
<1>1. IsFiniteSet(Shelved) /\ Siblings(shelf) \subseteq Shelved
  BY ContentAssumption, FS_Union DEF Shelved, Siblings, ContentTypeOK
<1>2. IsFiniteSet(Siblings(shelf))
  BY <1>1, FS_Subset
<1>3. IsFiniteSet({position[e] : e \in Siblings(shelf)})
  BY <1>2, ValuesFinite
<1>4. IsFiniteSet(S)
  BY <1>3, FS_AddElement
<1>5. S \subseteq Nat /\ S # {}
  BY <1>1 DEF ContentTypeOK
<1>6. Max(S) \in Nat
  BY <1>4, <1>5, LargestNumber
<1> QED
  BY <1>6 DEF NextPosition

LEMMA IdleCuratorIsCurator == IdleCurator \in Curator
  BY DEF IdleCurator, Curator, NoItem, NoChange, ContentItem, Change, Kind, Field, Shelves

LEMMA CheckCreateTyped ==
  ASSUME ContentTypeOK, NEW c \in Curators, NEW e \in Shelved, NEW up \in Uploads, CheckCreate(c, e, up)
  PROVE  ContentTypeOK'
<1> DEFINE top == NextPosition(ShelfOf(e))
<1>1. top \in Nat /\ up \in ContentItem
  BY NextPositionTyped, ContentAssumption
<1>2. curator' = [curator EXCEPT ![c] =
          [IdleCurator EXCEPT !.pc = "insert", !.on = e, !.top = top, !.upload = up]]
  BY DEF CheckCreate
<1> HIDE DEF top
<1>3. [IdleCurator EXCEPT !.pc = "insert", !.on = e, !.top = top, !.upload = up] \in Curator
  BY <1>1, IdleCuratorIsCurator DEF Curator
<1> QED
  BY <1>2, <1>3 DEF CheckCreate, ContentTypeOK

LEMMA InsertRowTyped ==
  ASSUME ContentTypeOK, OrderInv, NEW c \in Curators, InsertRow(c)
  PROVE  ContentTypeOK'
<1> DEFINE e == curator[c].on
<1>1. e \in created /\ e \in Shelved
  BY DEF InsertRow, OrderInv, InsertIsFresh, RowState
<1>2. curator[c].top \in Nat /\ curator[c].upload \in ContentItem
  BY DEF ContentTypeOK, Curator
<1>3. curator' = [curator EXCEPT ![c] = IdleCurator] /\ UNCHANGED <<created, published, settled>>
  BY DEF InsertRow
<1>4. \/ UNCHANGED <<present, position, content>>
      \/ /\ present' = present \cup {e}
         /\ position' = [position EXCEPT ![e] = curator[c].top]
         /\ content' = content \/ content' = [content EXCEPT ![e] = curator[c].upload]
  BY DEF InsertRow
<1> HIDE DEF e
<1>5. present' \subseteq created' /\ published' \subseteq present'
  BY <1>1, <1>3, <1>4 DEF ContentTypeOK
<1>6. position' \in [Shelved -> Nat] /\ content' \in [ContentItems -> ContentItem]
  BY <1>1, <1>2, <1>4 DEF ContentTypeOK
<1> QED
  BY <1>3, <1>5, <1>6, IdleCuratorIsCurator DEF ContentTypeOK

LEMMA CheckUpdateTyped ==
  ASSUME ContentTypeOK, NEW c \in Curators, NEW e \in Shelved, NEW ch \in Changes, CheckUpdate(c, e, ch)
  PROVE  ContentTypeOK'
<1>1. [IdleCurator EXCEPT !.pc = "update", !.on = e, !.change = ch] \in Curator
  BY IdleCuratorIsCurator, ContentAssumption DEF Curator
<1>2. /\ curator' = [curator EXCEPT ![c] =
            [IdleCurator EXCEPT !.pc = "update", !.on = e, !.change = ch]]
      /\ UNCHANGED <<present, created, position, published, content, settled>>
  BY DEF CheckUpdate
<1> QED
  BY <1>1, <1>2 DEF ContentTypeOK

LEMMA StoreUpdateTyped ==
  ASSUME ContentTypeOK, OrderInv, NEW c \in Curators, StoreUpdate(c)
  PROVE  ContentTypeOK'
<1> DEFINE e == curator[c].on
           ch == curator[c].change
<1>1. e \in Shelved /\ ch \in Change
  BY DEF StoreUpdate, OrderInv, OrderIsOfShelf, ContentTypeOK, Curator
<1>2. curator' = [curator EXCEPT ![c] = IdleCurator] /\ UNCHANGED <<present, created>>
  BY DEF StoreUpdate
<1>3. published' \subseteq present
  BY DEF StoreUpdate, ContentTypeOK
<1>4. position' \in [Shelved -> Nat] /\ settled' \in [Shelved -> Nat]
  <2>1. CASE UNCHANGED <<position, settled>>
    BY <2>1 DEF ContentTypeOK
  <2>2. CASE /\ ch.position # -1
             /\ position' = [position EXCEPT ![e] = ch.position]
             /\ settled' = [settled EXCEPT ![e] = 0]
    <3>1. ch.position \in Nat
      BY <1>1, <2>2 DEF Change
    <3> QED
      BY <1>1, <2>2, <3>1 DEF ContentTypeOK
  <2> QED
    BY <2>1, <2>2 DEF StoreUpdate
<1>5. content' \in [ContentItems -> ContentItem]
  <2>1. CASE content' = content
    BY <2>1 DEF ContentTypeOK
  <2> DEFINE new == [kind |-> IF ch.kind = "same" THEN content[e].kind ELSE ch.kind,
                     carries |-> (content[e].carries \cup ch.gives) \ ch.blanks]
  <2>2. CASE e \in ContentItems /\ content' = [content EXCEPT ![e] = new]
    <3>1. content[e] \in ContentItem
      BY <2>2 DEF ContentTypeOK
    <3>2. new \in ContentItem
      BY <1>1, <3>1 DEF Change, ContentItem
    <3> HIDE DEF new
    <3> QED
      BY <2>2, <3>2 DEF ContentTypeOK
  <2> QED
    BY <2>1, <2>2 DEF StoreUpdate
<1> QED
  BY <1>2, <1>3, <1>4, <1>5, IdleCuratorIsCurator DEF ContentTypeOK

LEMMA ReadSiblingsTyped ==
  ASSUME ContentTypeOK, NEW c \in Curators, NEW shelf \in Shelves, ReadSiblings(c, shelf)
  PROVE  ContentTypeOK'
<1>1. PICK order \in SetToSeqs(Siblings(shelf)) :
         curator' = [curator EXCEPT ![c] =
            [IdleCurator EXCEPT !.pc = "reorder", !.on = shelf, !.order = order]]
  BY DEF ReadSiblings
<1>2. UNCHANGED <<present, created, position, published, content, settled>>
  BY DEF ReadSiblings
<1>3. order \in Seq(Shelved)
  <2> DEFINE n == Cardinality(Siblings(shelf))
  <2>1. order \in [1..n -> Siblings(shelf)]
    BY DEF SetToSeqs
  <2>2. IsFiniteSet(Shelved) /\ Siblings(shelf) \subseteq Shelved
    BY ContentAssumption, FS_Union DEF Shelved, Siblings, ContentTypeOK
  <2>3. n \in Nat
    BY <2>2, FS_Subset, FS_CardinalityType
  <2> HIDE DEF n
  <2>4. order \in [1..n -> Shelved]
    BY <2>1, <2>2
  <2> QED
    BY <2>3, <2>4
<1>4. [IdleCurator EXCEPT !.pc = "reorder", !.on = shelf, !.order = order] \in Curator
  BY <1>3, IdleCuratorIsCurator DEF Curator
<1> QED
  BY <1>1, <1>2, <1>4 DEF ContentTypeOK

LEMMA SavePositionTyped == ASSUME ContentTypeOK, NEW c \in Curators, SavePosition(c) PROVE ContentTypeOK'
<1>1. UNCHANGED <<present, created, position, published, content, settled>>
  BY DEF SavePosition
<1>2. [curator[c] EXCEPT !.saved = curator[c].saved + 1] \in Curator
  <2>1. curator[c] \in Curator
    BY DEF ContentTypeOK
  <2>2. curator[c].saved + 1 \in Nat
    BY <2>1 DEF Curator
  <2> DEFINE n == curator[c].saved + 1
  <2> HIDE DEF n
  <2>3. [curator[c] EXCEPT !.saved = n] \in Curator
    BY <2>1, <2>2 DEF Curator, n
  <2> QED
    BY <2>3 DEF n
<1>3. \/ curator' = [curator EXCEPT ![c] = IdleCurator]
      \/ curator' = [curator EXCEPT ![c] = [curator[c] EXCEPT !.saved = curator[c].saved + 1]]
  BY DEF SavePosition
<1> QED
  BY <1>1, <1>2, <1>3, IdleCuratorIsCurator DEF ContentTypeOK

LEMMA CommitOrderTyped == ASSUME ContentTypeOK, NEW c \in Curators, CommitOrder(c) PROVE ContentTypeOK'
<1> DEFINE order == curator[c].order
           shelf == curator[c].on
<1>1. /\ position' = [e \in Shelved |->
            IF e \in Listed(order) THEN 10 * PlaceIn(order, e) ELSE position[e]]
      /\ settled' = Ordered(shelf, order)
      /\ curator' = [curator EXCEPT ![c] = IdleCurator]
      /\ UNCHANGED <<present, created, published, content>>
  BY DEF CommitOrder
<1>2. \A e \in Listed(order) : PlaceIn(order, e) \in Nat
  BY DEF Listed, PlaceIn
<1>3. settled' \in [Shelved -> Nat]
  BY <1>1, <1>2 DEF Ordered, ContentTypeOK
<1>4. \A e \in Listed(order) : 10 * PlaceIn(order, e) \in Nat
  BY <1>2
<1>5. position' \in [Shelved -> Nat]
  BY <1>1, <1>4 DEF ContentTypeOK
<1> QED
  BY <1>1, <1>3, <1>5, IdleCuratorIsCurator DEF ContentTypeOK

LEMMA ContentTypesStep == ContentTypeOK /\ OrderInv /\ [ContentNext]_contentVars => ContentTypeOK'
<1> SUFFICES ASSUME ContentTypeOK, OrderInv, [ContentNext]_contentVars PROVE ContentTypeOK'
  OBVIOUS
<1>1. CASE UNCHANGED contentVars
  BY <1>1 DEF contentVars, ContentTypeOK
<1>2. ASSUME NEW c \in Curators, CuratorAborts(c) PROVE ContentTypeOK'
  BY <1>2, IdleCuratorIsCurator DEF CuratorAborts, ContentTypeOK
<1>3. ASSUME NEW e \in Shelved, DeleteRow(e) PROVE ContentTypeOK'
  BY <1>3 DEF DeleteRow, ContentTypeOK
<1>4. ASSUME NEW c \in Curators, NEW e \in Shelved, NEW up \in Uploads, CheckCreate(c, e, up)
      PROVE  ContentTypeOK'
  BY <1>4, CheckCreateTyped
<1>5. ASSUME NEW c \in Curators, NEW e \in Shelved, NEW ch \in Changes, CheckUpdate(c, e, ch)
      PROVE  ContentTypeOK'
  BY <1>5, CheckUpdateTyped
<1>6. ASSUME NEW c \in Curators, NEW s \in Shelves, ReadSiblings(c, s) PROVE ContentTypeOK'
  BY <1>6, ReadSiblingsTyped
<1>7. ASSUME NEW c \in Curators, InsertRow(c) \/ StoreUpdate(c) \/ SavePosition(c) \/ CommitOrder(c)
      PROVE  ContentTypeOK'
  BY <1>7, InsertRowTyped, StoreUpdateTyped, SavePositionTyped, CommitOrderTyped
<1> QED
  BY <1>1, <1>2, <1>3, <1>4, <1>5, <1>6, <1>7 DEF ContentNext

LEMMA ContentIsTyped == ContentSpec => []ContentTypeOK
<1>1. ContentInit => ContentTypeOK
  BY IdleCuratorIsCurator DEF ContentInit, ContentTypeOK, NoItem, ContentItem, Kind, Field
<1> QED
  BY <1>1, ContentBegins, ContentStep, ContentTypesStep, PTL DEF ContentSpec

-----------------------------------------------------------------------------
(***************************************************************************)
(* Assessments.  Uploads are numbered upwards, so a grade for a file means *)
(* that there is one; and a request that found a grade before it uploads   *)
(* found no submission, so it has nothing to replace.  Hence an upload     *)
(* that replaces a graded file began before the grade.                     *)
(***************************************************************************)
FilesExist ==
    /\ submission \in [Items \X Candidates -> Submission]
    /\ grade \in [Items \X Candidates -> SUBSET AssessmentGrade]
    /\ \A key \in Items \X Candidates : \A g \in grade[key] :
          g.file # 0 => submission[key].file # 0

\* Of a request, what it read of the pair it works on.
ReadTruly(r) ==
    LET key == <<request[r].item, request[r].student>>
    IN  /\ request[r].pc \in {"submit", "grade"} => key \in Items \X Candidates
        /\ request[r].pc = "submit" /\ request[r].graded => ~request[r].found
        /\ request[r].pc = "grade" =>
              /\ request[r].score \in 0..MaxScore /\ request[r].file \in 0..MaxFiles
              /\ request[r].file # 0 => submission[key].file # 0

GradesInv ==
    /\ FilesExist
    /\ request = [r \in Requests |-> request[r]]
    /\ \A r \in Requests : ReadTruly(r)
    /\ GradedWorkStays

\* Request r goes on as new, which read truly; files only come, grades stay right.
LEMMA RequestReads ==
  ASSUME GradesInv, NEW r \in Requests, NEW new, request' = [request EXCEPT ![r] = new],
         ReadTruly(r)', FilesExist', GradedWorkStays',
         \A key \in Items \X Candidates : submission[key].file # 0 => submission'[key].file # 0
  PROVE  GradesInv'
<1>1. \A q \in Requests \ {r} : request'[q] = request[q]
  BY DEF GradesInv
<1>2. ASSUME NEW q \in Requests PROVE ReadTruly(q)'
  <2>1. CASE q = r
    BY <2>1
  <2>2. CASE q # r
    <3>1. ReadTruly(q) /\ request'[q] = request[q]
      BY <1>1, <2>2 DEF GradesInv
    <3> QED
      BY <3>1 DEF ReadTruly
  <2> QED
    BY <2>1, <2>2
<1>3. request' = [q \in Requests |-> request'[q]]
  BY DEF GradesInv
<1> QED
  BY <1>2, <1>3 DEF GradesInv

\* A request at rest has read nothing.
LEMMA RestReads ==
  ASSUME GradesInv, NEW r \in Requests, Finish(r)
  PROVE  request' = [request EXCEPT ![r] = IdleRequest] /\ ReadTruly(r)'
<1>1. request'[r] = IdleRequest
  BY DEF Finish, GradesInv
<1>2. IdleRequest.pc = "idle"
  BY DEF IdleRequest
<1> QED
  BY <1>1, <1>2 DEF ReadTruly, Finish

LEMMA TablesRest ==
  ASSUME GradesInv, UNCHANGED <<submission, grade>>
  PROVE  /\ FilesExist' /\ GradedWorkStays'
         /\ \A key \in Items \X Candidates : submission[key].file # 0 => submission'[key].file # 0
  BY DEF GradesInv, FilesExist, GradedWorkStays

\* Steps that only read, or write an item.
LEMMA ReadersKeep ==
  ASSUME GradesInv, NEW r \in Requests,
         \/ \E i \in Items, w \in Weights : CheckItem(r, i, w)
         \/ InsertItem(r)
         \/ RequestDies(r)
  PROVE  GradesInv'
<1>1. CASE \E i \in Items, w \in Weights : CheckItem(r, i, w)
  <2>1. PICK i \in Items, w \in Weights : CheckItem(r, i, w)
    BY <1>1
  <2> DEFINE new == [IdleRequest EXCEPT !.pc = "create", !.item = i, !.weight = w]
  <2>2. request' = [request EXCEPT ![r] = new] /\ UNCHANGED <<submission, grade>>
    BY <2>1 DEF CheckItem
  <2>3. new.pc = "create"
    BY DEF IdleRequest
  <2> HIDE DEF new
  <2>4. ReadTruly(r)'
    BY <2>2, <2>3 DEF GradesInv, ReadTruly
  <2> QED
    BY <2>2, <2>4, TablesRest, RequestReads
<1>2. CASE InsertItem(r) \/ RequestDies(r)
  <2>1. Finish(r) /\ UNCHANGED <<submission, grade>>
    BY <1>2 DEF InsertItem, RequestDies
  <2> QED
    BY <2>1, RestReads, TablesRest, RequestReads
<1> QED
  BY <1>1, <1>2

LEMMA CheckSubmissionKeeps ==
  ASSUME GradesInv, NEW r \in Requests, NEW i \in Items, NEW st \in Candidates,
         CheckSubmission(r, i, st)
  PROVE  GradesInv'
<1> DEFINE key == <<i, st>>
           new == [IdleRequest EXCEPT !.pc = "submit", !.item = i, !.student = st,
                      !.found = submission[key].file # 0, !.graded = grade[key] # {}]
<1>1. /\ request' = [request EXCEPT ![r] = new] /\ UNCHANGED <<submission, grade>>
      /\ submission[key].file # 0 => grade[key] = {}
  BY DEF CheckSubmission
<1>2. /\ new.pc = "submit" /\ new.item = i /\ new.student = st
      /\ new.found <=> submission[key].file # 0
      /\ new.graded <=> grade[key] # {}
  BY DEF IdleRequest
<1> HIDE DEF new
<1>3. request'[r] = new
  BY <1>1 DEF GradesInv
<1>4. key \in Items \X Candidates /\ (new.graded => ~new.found)
  BY <1>1, <1>2
<1>5. ReadTruly(r)'
  BY <1>2, <1>3, <1>4 DEF ReadTruly
<1> QED
  BY <1>1, <1>5, TablesRest, RequestReads

LEMMA CheckGradeKeeps ==
  ASSUME GradesInv, NEW r \in Requests, NEW i \in Items, NEW st \in Candidates, NEW score \in Scores,
         CheckGrade(r, i, st, score)
  PROVE  GradesInv'
<1> DEFINE key == <<i, st>>
           new == [IdleRequest EXCEPT !.pc = "grade", !.item = i, !.student = st, !.score = score,
                      !.file = submission[key].file, !.found = grade[key] # {}]
<1>1. /\ request' = [request EXCEPT ![r] = new] /\ UNCHANGED <<submission, grade>>
      /\ score \in 0..MaxScore
  BY AssessmentsAssumption DEF CheckGrade
<1>2. /\ new.pc = "grade" /\ new.item = i /\ new.student = st
      /\ new.file = submission[key].file /\ new.score = score
  BY DEF IdleRequest
<1> HIDE DEF new
<1>3. request'[r] = new /\ submission[key] \in Submission
  BY <1>1 DEF GradesInv, FilesExist
<1>4. ReadTruly(r)'
  BY <1>1, <1>2, <1>3 DEF ReadTruly, Submission
<1> QED
  BY <1>1, <1>4, TablesRest, RequestReads

LEMMA StoreSubmissionKeeps ==
  ASSUME GradesInv, NEW r \in Requests, StoreSubmission(r)
  PROVE  GradesInv'
<1> DEFINE key == <<request[r].item, request[r].student>>
           new == [file |-> submission[key].file + 1,
                   overtaken |-> ~request[r].graded /\ grade[key] # {}]
<1>1. /\ request[r].pc = "submit" /\ submission[key].file < MaxFiles
      /\ Finish(r) /\ grade' = grade
  BY DEF StoreSubmission
<1>2. key \in Items \X Candidates /\ (request[r].graded => ~request[r].found)
  BY <1>1 DEF GradesInv, ReadTruly
<1>3. CASE submission' = submission
  BY <1>1, <1>3, RestReads, TablesRest, RequestReads
<1>4. CASE /\ request[r].found \/ submission[key].file = 0
           /\ submission' = [submission EXCEPT ![key] = new]
  <2>1. submission[key] \in Submission /\ grade[key] \subseteq AssessmentGrade
    BY <1>2 DEF GradesInv, FilesExist
  <2>2. new \in Submission /\ new.file # 0
    BY <1>1, <2>1, AssessmentsAssumption DEF Submission
  <2>3. grade[key] # {} => new.overtaken \/ \A g \in grade[key] : g.file = 0
    <3>1. CASE ~request[r].graded
      BY <3>1
    <3>2. CASE request[r].graded
      BY <1>2, <1>4, <3>2 DEF GradesInv, FilesExist
    <3> QED
      BY <3>1, <3>2
  <2> HIDE DEF new
  <2>4. \A k \in Items \X Candidates : submission'[k] = IF k = key THEN new ELSE submission[k]
    BY <1>4 DEF GradesInv, FilesExist
  <2>5. submission' \in [Items \X Candidates -> Submission]
    BY <1>2, <1>4, <2>2 DEF GradesInv, FilesExist
  <2>6. \A k \in Items \X Candidates : submission[k].file # 0 => submission'[k].file # 0
    BY <2>2, <2>4
  <2>7. FilesExist'
    BY <1>1, <2>5, <2>6 DEF GradesInv, FilesExist
  <2>8. GradedWorkStays'
    BY <1>1, <2>3, <2>4 DEF GradesInv, GradedWorkStays
  <2> QED
    BY <1>1, <2>6, <2>7, <2>8, RestReads, RequestReads
<1> QED
  BY <1>3, <1>4 DEF StoreSubmission

LEMMA StoreGradeKeeps ==
  ASSUME GradesInv, NEW r \in Requests, StoreGrade(r)
  PROVE  GradesInv'
<1> DEFINE key == <<request[r].item, request[r].student>>
           new == [score |-> request[r].score, file |-> request[r].file,
                   stale |-> submission[key].file # request[r].file]
<1>1. request[r].pc = "grade" /\ Finish(r) /\ submission' = submission
  BY DEF StoreGrade
<1>2. /\ key \in Items \X Candidates /\ request[r].score \in 0..MaxScore
      /\ request[r].file \in 0..MaxFiles /\ (request[r].file # 0 => submission[key].file # 0)
  BY <1>1 DEF GradesInv, ReadTruly
<1>3. CASE grade' = grade
  BY <1>1, <1>3, RestReads, TablesRest, RequestReads
<1>4. CASE grade' = [grade EXCEPT ![key] = {new}]
  <2>1. /\ new \in AssessmentGrade
        /\ new.file # 0 => submission[key].file # 0
        /\ submission[key].file # new.file => new.stale
    BY <1>2 DEF AssessmentGrade
  <2> HIDE DEF new
  <2>2. \A k \in Items \X Candidates : grade'[k] = IF k = key THEN {new} ELSE grade[k]
    BY <1>4 DEF GradesInv, FilesExist
  <2>3. grade' \in [Items \X Candidates -> SUBSET AssessmentGrade]
    <3>1. {new} \in SUBSET AssessmentGrade /\ grade \in [Items \X Candidates -> SUBSET AssessmentGrade]
      BY <2>1 DEF GradesInv, FilesExist
    <3> QED
      BY <1>4, <3>1
  <2>4. FilesExist'
    BY <1>1, <2>1, <2>2, <2>3 DEF GradesInv, FilesExist
  <2>5. GradedWorkStays'
    BY <1>1, <2>1, <2>2 DEF GradesInv, GradedWorkStays
  <2> QED
    BY <1>1, <2>4, <2>5, RestReads, RequestReads
<1> QED
  BY <1>3, <1>4 DEF StoreGrade

\* The link's upsert leaves the file a grade was given for.
LEMMA SyncKeeps ==
  ASSUME GradesInv, NEW i \in Items, NEW st \in Candidates, NEW score \in Scores,
         SyncGrade(i, st, score)
  PROVE  GradesInv'
<1> DEFINE key == <<i, st>>
<1>1. /\ UNCHANGED <<submission, request>> /\ key \in Items \X Candidates
      /\ score \in 0..MaxScore
  BY AssessmentsAssumption DEF SyncGrade
<1>2. PICK new \in SUBSET AssessmentGrade :
         /\ grade' = [grade EXCEPT ![key] = new]
         /\ \A h \in new : h.file = 0 \/ \E g \in grade[key] : g.file = h.file /\ g.stale = h.stale
  <2> DEFINE new == IF grade[key] = {} THEN {[score |-> score, file |-> 0, stale |-> FALSE]}
                    ELSE {[g EXCEPT !.score = score] : g \in grade[key]}
  <2>1. grade' = [grade EXCEPT ![key] = new]
    BY DEF SyncGrade
  <2>2. grade[key] \subseteq AssessmentGrade
    BY <1>1 DEF GradesInv, FilesExist
  <2>3. \A g \in AssessmentGrade :
           LET h == [g EXCEPT !.score = score]
           IN  h \in AssessmentGrade /\ h.file = g.file /\ h.stale = g.stale
    BY <1>1 DEF AssessmentGrade
  <2>4. [score |-> score, file |-> 0, stale |-> FALSE] \in AssessmentGrade
    BY <1>1, AssessmentsAssumption DEF AssessmentGrade
  <2>5. new \subseteq AssessmentGrade
    BY <2>2, <2>3, <2>4
  <2>6. \A h \in new : h.file = 0 \/ \E g \in grade[key] : g.file = h.file /\ g.stale = h.stale
    <3>1. CASE grade[key] = {}
      BY <3>1
    <3>2. ASSUME NEW g \in grade[key]
          PROVE  [g EXCEPT !.score = score].file = g.file /\ [g EXCEPT !.score = score].stale = g.stale
      BY <2>2, <2>3
    <3> QED
      BY <3>1, <3>2
  <2> HIDE DEF new
  <2> QED
    BY <2>1, <2>5, <2>6
<1>3. \A k \in Items \X Candidates : grade'[k] = IF k = key THEN new ELSE grade[k]
  BY <1>2 DEF GradesInv, FilesExist
<1>4. grade' \in [Items \X Candidates -> SUBSET AssessmentGrade]
  BY <1>1, <1>2 DEF GradesInv, FilesExist
<1>5. FilesExist'
  BY <1>1, <1>2, <1>3, <1>4 DEF GradesInv, FilesExist
<1>6. GradedWorkStays'
  BY <1>1, <1>2, <1>3 DEF GradesInv, GradedWorkStays
<1>7. \A r \in Requests : ReadTruly(r)'
  BY <1>1 DEF GradesInv, ReadTruly
<1> QED
  BY <1>1, <1>5, <1>6, <1>7 DEF GradesInv

LEMMA AssessmentsBegin == AssessmentsInit => GradesInv
<1> SUFFICES ASSUME AssessmentsInit PROVE GradesInv
  OBVIOUS
<1>1. [file |-> 0, overtaken |-> FALSE] \in Submission
  BY AssessmentsAssumption DEF Submission
<1>2. FilesExist /\ GradedWorkStays
  BY <1>1 DEF AssessmentsInit, FilesExist, GradedWorkStays
<1>3. request = [r \in Requests |-> request[r]] /\ \A r \in Requests : ReadTruly(r)
  BY DEF AssessmentsInit, ReadTruly, IdleRequest
<1> QED
  BY <1>2, <1>3 DEF GradesInv

LEMMA AssessmentsStep == GradesInv /\ [AssessmentsNext]_assessmentVars => GradesInv'
<1> SUFFICES ASSUME GradesInv, [AssessmentsNext]_assessmentVars PROVE GradesInv'
  OBVIOUS
<1>1. CASE UNCHANGED assessmentVars
  BY <1>1 DEF assessmentVars, GradesInv, FilesExist, ReadTruly, GradedWorkStays
<1>2. ASSUME NEW r \in Requests,
             \/ \E i \in Items, w \in Weights : CheckItem(r, i, w)
             \/ InsertItem(r) \/ RequestDies(r)
      PROVE  GradesInv'
  BY <1>2, ReadersKeep
<1>3. ASSUME NEW r \in Requests, NEW i \in Items, NEW st \in Candidates, CheckSubmission(r, i, st)
      PROVE  GradesInv'
  BY <1>3, CheckSubmissionKeeps
<1>4. ASSUME NEW r \in Requests, NEW i \in Items, NEW st \in Candidates, NEW score \in Scores,
             CheckGrade(r, i, st, score)
      PROVE  GradesInv'
  BY <1>4, CheckGradeKeeps
<1>5. ASSUME NEW r \in Requests, StoreSubmission(r) \/ StoreGrade(r) PROVE GradesInv'
  BY <1>5, StoreSubmissionKeeps, StoreGradeKeeps
<1>6. ASSUME NEW i \in Items, NEW st \in Candidates, NEW score \in Scores, SyncGrade(i, st, score)
      PROVE  GradesInv'
  BY <1>6, SyncKeeps
<1> QED
  BY <1>1, <1>2, <1>3, <1>4, <1>5, <1>6 DEF AssessmentsNext

\* Whatever uploads, gradings and synchronizations run at once, the file a grade
\* was given for is the file that is there, unless an upload and the grading passed
\* their checks before each other's writes (services.submit_file, grade_student).
THEOREM GradedWorkHolds == AssessmentsSpec => []GradedWorkStays
<1>1. AssessmentsSpec => []GradesInv
  BY AssessmentsBegin, AssessmentsStep, PTL DEF AssessmentsSpec
<1>2. GradesInv => GradedWorkStays
  BY DEF GradesInv
<1> QED
  BY <1>1, <1>2, PTL

-----------------------------------------------------------------------------
(***************************************************************************)
(* Assessments, the weights of the items.  As with the load of a student,  *)
(* what is bounded are the weights there are together with those requests  *)
(* past their check are about to add; and a student has one grade for an   *)
(* item at most, within the item's scale.                                  *)
(***************************************************************************)
HeaviestWeight == Max({0} \cup Weights)

PendingItems == {r \in Requests : request[r].pc = "create"}

PendingWeight ==
    [r \in Requests |-> IF request[r].pc = "create" THEN request[r].weight ELSE 0]

\* What the tables and the requests that are to insert an item hold.
CaTyped ==
    /\ item \in [Items -> Nat]
    /\ \A r \in Requests : request[r].pc = "create" =>
          request[r].item \in Items /\ request[r].weight \in Weights /\ request[r].weight > 0
    /\ \A key \in Items \X Candidates : \A g, h \in grade[key] : g = h

CountBound ==
    CaWeightUsed + Cardinality(PendingItems) * HeaviestWeight
       <= CaPortion + Cardinality(Requests) * HeaviestWeight

WeightBound ==
    CaWeightUsed + SumOf(PendingWeight, Requests)
       <= CaPortion + (Cardinality(Requests) - 1) * HeaviestWeight

CaInv == GradesInv /\ CaTyped /\ CountBound /\ WeightBound

LEMMA HeaviestItem ==
  HeaviestWeight \in Nat /\ \A w \in Weights : w \in Int /\ w <= HeaviestWeight
<1> DEFINE S == {0} \cup Weights
<1>1. IsFiniteSet(S)
  BY FS_AddElement, AssessmentsAssumption
<1>2. S # {} /\ \A x \in S : x \in Int
  BY AssessmentsAssumption
<1> HIDE DEF S
<1>3. Max(S) \in S /\ \A x \in S : x <= Max(S)
  BY <1>1, <1>2, LargestNumber
<1>4. Max(S) \in Int
  BY <1>2, <1>3
<1> QED
  BY <1>3, <1>4, AssessmentsAssumption DEF S, HeaviestWeight

\* The score of a set of at most one grade.
LEMMA ScoreOfOne ==
  ASSUME NEW G \in SUBSET AssessmentGrade, \A g, h \in G : g = h
  PROVE  MapThenSumSet(LAMBDA g : g.score, G) \in 0..MaxScore
<1> DEFINE P(it) == it = [s \in SUBSET G |->
                       IF s = {} THEN 0 ELSE (CHOOSE x \in s : TRUE).score + it[s \ {CHOOSE x \in s : TRUE}]]
           w == [g \in G |-> g.score]
<1>1. IsFiniteSet(G)
  <2>1. CASE G = {}
    BY <2>1, FS_EmptySet
  <2>2. CASE G # {}
    <3>1. PICK g \in G : G = {g}
      BY <2>2
    <3> QED
      BY <3>1, FS_Singleton
  <2> QED
    BY <2>1, <2>2
<1>2. PICK it : IsSum(it, w, G)
  BY <1>1, SumExists
<1>3. P(it)
  <2>1. \A s \in SUBSET G : s # {} => Pick(s) \in G /\ w[Pick(s)] = (Pick(s)).score
    BY Picked
  <2> QED
    BY <1>2, <2>1 DEF IsSum, Pick
<1> DEFINE f == CHOOSE it2 : P(it2)
<1>4. P(f)
  <2> HIDE DEF P
  <2> QED
    BY <1>3
<1>5. MapThenSumSet(LAMBDA g : g.score, G) = f[G]
  BY DEF MapThenSumSet, MapThenFoldSet
<1> HIDE DEF f, w
<1>6. f[{}] = 0
  BY <1>4
<1>7. MaxScore \in Nat
  BY AssessmentsAssumption
<1>8. CASE G = {}
  BY <1>5, <1>6, <1>7, <1>8
<1>9. CASE G # {}
  <2>1. PICK g \in G : G = {g}
    BY <1>9
  <2>2. (CHOOSE x \in G : TRUE) = g
    BY <2>1
  <2>3. f[G] = g.score + f[G \ {g}]
    BY <1>4, <1>9, <2>2
  <2>4. G \ {g} = {} /\ g.score \in 0..MaxScore
    BY <2>1 DEF AssessmentGrade
  <2> QED
    BY <1>5, <1>6, <1>7, <2>3, <2>4
<1> QED
  BY <1>8, <1>9

\* No student's CA exceeds the items'.
LEMMA CaWithinItems ==
  ASSUME item \in [Items -> Nat],
         \A key \in Items \X Candidates : grade[key] \in SUBSET AssessmentGrade,
         \A key \in Items \X Candidates : \A g, h \in grade[key] : g = h,
         NEW st \in Candidates
  PROVE  AggregateCa(st) <= MaxScore * CaWeightUsed
<1> DEFINE score(i) == MapThenSumSet(LAMBDA g : g.score, grade[<<i, st>>])
           P(it) == it = [s \in SUBSET Items |->
                       IF s = {} THEN 0
                       ELSE item[CHOOSE x \in s : TRUE] * score(CHOOSE x \in s : TRUE)
                              + it[s \ {CHOOSE x \in s : TRUE}]]
           w == [i \in Items |-> item[i] * score(i)]
<1>1. \A i \in Items : score(i) \in 0..MaxScore
  BY ScoreOfOne
<1>2. AggregateCa(st) = (CHOOSE it : P(it))[Items]
  BY DEF AggregateCa, MapThenSumSet, MapThenFoldSet
<1> HIDE DEF score
<1>3. IsFiniteSet(Items) /\ MaxScore \in Nat
  BY AssessmentsAssumption
<1>4. PICK it : IsSum(it, w, Items) /\ SumOf(w, Items) = it[Items]
  BY <1>3, SumOfIs
<1>5. \A s \in SUBSET Items : s # {} => Pick(s) \in Items /\ w[Pick(s)] = item[Pick(s)] * score(Pick(s))
  BY Picked
<1>6. P(it)
  BY <1>4, <1>5 DEF IsSum, Pick
<1> DEFINE f == CHOOSE it2 : P(it2)
<1>7. P(f)
  <2> HIDE DEF P
  <2> QED
    BY <1>6
<1>8. IsSum(f, w, Items)
  <2> HIDE DEF f, w
  <2> QED
    BY <1>5, <1>7 DEF IsSum, Pick
<1> HIDE DEF P, f
<1>9. f[Items] = SumOf(w, Items)
  BY <1>3, <1>4, <1>8, SumsAgree
<1>10. \A i \in Items : w[i] \in Int /\ item[i] \in Int /\ w[i] <= MaxScore * item[i]
  <2> SUFFICES ASSUME NEW i \in Items PROVE w[i] \in Int /\ item[i] \in Int /\ w[i] <= MaxScore * item[i]
    OBVIOUS
  <2>1. score(i) \in Nat /\ score(i) <= MaxScore /\ item[i] \in Nat
    BY <1>1, <1>3
  <2>2. score(i) * item[i] <= MaxScore * item[i]
    BY <1>3, <2>1, ProductGrows
  <2>3. item[i] * score(i) = score(i) * item[i] /\ item[i] * score(i) \in Int
    BY <2>1
  <2> QED
    BY <2>1, <2>2, <2>3
<1> HIDE DEF w
<1>11. SumOf(w, Items) <= MaxScore * SumOf(item, Items)
  BY <1>3, <1>10, SumOfScaled
<1>12. CaWeightUsed = SumOf(item, Items)
  BY DEF CaWeightUsed, SumOf, MapThenSumSet, MapThenFoldSet
<1> QED
  BY <1>2, <1>9, <1>11, <1>12 DEF f

LEMMA CaNumbers ==
  ASSUME CaTyped
  PROVE  /\ CaWeightUsed = SumOf(item, Items) /\ CaWeightUsed \in Nat
         /\ Cardinality(PendingItems) \in Nat
         /\ IsFiniteSet(PendingItems) /\ Cardinality(PendingItems) <= Cardinality(Requests)
         /\ \A r \in Requests : PendingWeight[r] \in Nat /\ PendingWeight[r] <= HeaviestWeight
<1> DEFINE used == CaWeightUsed
           it == item
<1>1. used = SumOf(it, Items)
  BY DEF CaWeightUsed, SumOf, MapThenSumSet, MapThenFoldSet
<1>2. IsFiniteSet(Items) /\ IsFiniteSet(Requests) /\ \A i \in Items : it[i] \in Nat
  BY AssessmentsAssumption DEF CaTyped
<1>3. PendingItems \subseteq Requests
  BY DEF PendingItems
<1>4. /\ IsFiniteSet(PendingItems) /\ Cardinality(PendingItems) <= Cardinality(Requests)
      /\ Cardinality(PendingItems) \in Nat
  BY <1>2, <1>3, FS_Subset, FS_CardinalityType
<1>5. \A r \in Requests : PendingWeight[r] \in Nat /\ PendingWeight[r] <= HeaviestWeight
  BY HeaviestItem DEF PendingWeight, CaTyped
<1> HIDE DEF used, it
<1>6. SumOf(it, {}) <= SumOf(it, Items) /\ SumOf(it, {}) = 0 /\ SumOf(it, Items) \in Int
  BY <1>2, SumOfSubset, SumOfEmpty, SumOfInt
<1>7. used = SumOf(it, Items) /\ used \in Nat
  BY <1>1, <1>6
<1> QED
  BY <1>4, <1>5, <1>7 DEF used, it

\* The same, after the step.
LEMMA CaNumbersNext ==
  ASSUME CaTyped'
  PROVE  /\ CaWeightUsed' = SumOf(item', Items) /\ CaWeightUsed' \in Nat
         /\ Cardinality(PendingItems') \in Nat
         /\ IsFiniteSet(PendingItems') /\ Cardinality(PendingItems') <= Cardinality(Requests)
         /\ \A r \in Requests : PendingWeight'[r] \in Nat /\ PendingWeight'[r] <= HeaviestWeight
<1> DEFINE used == CaWeightUsed'
           it == item'
<1>1. used = SumOf(it, Items)
  BY DEF CaWeightUsed, SumOf, MapThenSumSet, MapThenFoldSet
<1>2. IsFiniteSet(Items) /\ IsFiniteSet(Requests) /\ \A i \in Items : it[i] \in Nat
  BY AssessmentsAssumption DEF CaTyped
<1>3. PendingItems' \subseteq Requests
  BY DEF PendingItems
<1>4. /\ IsFiniteSet(PendingItems') /\ Cardinality(PendingItems') <= Cardinality(Requests)
      /\ Cardinality(PendingItems') \in Nat
  BY <1>2, <1>3, FS_Subset, FS_CardinalityType
<1>5. \A r \in Requests : PendingWeight'[r] \in Nat /\ PendingWeight'[r] <= HeaviestWeight
  BY HeaviestItem DEF PendingWeight, CaTyped
<1> HIDE DEF used, it
<1>6. SumOf(it, {}) <= SumOf(it, Items) /\ SumOf(it, {}) = 0 /\ SumOf(it, Items) \in Int
  BY <1>2, SumOfSubset, SumOfEmpty, SumOfInt
<1>7. used = SumOf(it, Items) /\ used \in Nat
  BY <1>1, <1>6
<1> QED
  BY <1>4, <1>5, <1>7 DEF used, it

LEMMA CaConstants ==
  /\ Cardinality(Requests) \in Nat /\ Cardinality(Requests) >= 1
  /\ CaPortion \in Nat /\ HeaviestWeight \in Nat
  /\ (Cardinality(Requests) - 1) * HeaviestWeight \in Nat
  /\ Cardinality(Requests) * HeaviestWeight \in Nat
<1>1. Cardinality(Requests) \in Nat /\ Cardinality(Requests) # 0
  BY FS_CardinalityType, FS_EmptySet, AssessmentsAssumption
<1>2. Cardinality(Requests) - 1 \in Nat
  BY <1>1
<1>3. \A m, n \in Nat : m * n \in Nat
  OBVIOUS
<1> QED
  BY <1>1, <1>2, <1>3, HeaviestItem, AssessmentsAssumption

\* Request r is not to insert an item any more: the sum and the number of those
\* that are go down by its own share.
LEMMA PendingLeaves ==
  ASSUME CaInv, CaTyped', NEW r \in Requests, NEW new, new.pc # "create",
         request' = [request EXCEPT ![r] = new]
  PROVE  /\ SumOf(PendingWeight', Requests) = SumOf(PendingWeight, Requests) - PendingWeight[r]
         /\ SumOf(PendingWeight, Requests) \in Int
         /\ request[r].pc = "create" => Cardinality(PendingItems') = Cardinality(PendingItems) - 1
         /\ request[r].pc # "create" => PendingItems' = PendingItems
<1>1. \A q \in Requests : request'[q] = IF q = r THEN new ELSE request[q]
  BY DEF CaInv, GradesInv
<1> DEFINE p == PendingWeight
           n == PendingWeight'
           R == Requests
           S == R \ {r}
<1>2. n[r] = 0 /\ \A q \in S : n[q] = p[q]
  BY <1>1 DEF PendingWeight
<1>3. \A q \in R : p[q] \in Int /\ n[q] \in Int
  BY CaNumbers, CaNumbersNext DEF CaInv
<1>4. IsFiniteSet(R) /\ IsFiniteSet(S) /\ r \in R
  BY FS_Subset, AssessmentsAssumption
<1>5. PendingItems' = PendingItems \ {r} /\ (r \in PendingItems <=> request[r].pc = "create")
  BY <1>1 DEF PendingItems
<1>6. IsFiniteSet(PendingItems)
  BY CaNumbers DEF CaInv
<1> HIDE DEF p, n, R
<1>7. SumOf(p, R) = p[r] + SumOf(p, S) /\ SumOf(n, R) = n[r] + SumOf(n, S)
  BY <1>3, <1>4, SumOfRemove
<1>8. \A q \in S : p[q] \in Int
  BY <1>3
<1> HIDE DEF S
<1>9. SumOf(n, S) = SumOf(p, S) /\ SumOf(p, S) \in Int
  BY <1>2, <1>4, <1>8, SumOfSame, SumOfInt
<1>10. SumOf(n, R) = SumOf(p, R) - p[r] /\ SumOf(p, R) \in Int
  BY <1>2, <1>3, <1>4, <1>7, <1>9
<1>11. request[r].pc = "create" => Cardinality(PendingItems') = Cardinality(PendingItems) - 1
  BY <1>5, <1>6, FS_RemoveElement
<1>12. request[r].pc # "create" => PendingItems' = PendingItems
  BY <1>5
<1> QED
  BY <1>10, <1>11, <1>12 DEF p, n, R

\* So the bounds hold when the request leaves the items alone,
LEMMA BoundsRest ==
  ASSUME CaInv, CaTyped', NEW r \in Requests, NEW new, new.pc # "create",
         request' = [request EXCEPT ![r] = new], item' = item
  PROVE  CountBound' /\ WeightBound'
<1>1. /\ CaWeightUsed' = CaWeightUsed /\ CaWeightUsed \in Nat
      /\ PendingWeight[r] \in Nat
      /\ Cardinality(PendingItems) \in Nat
      /\ Cardinality(PendingItems') \in Nat
  BY CaNumbers, CaNumbersNext DEF CaInv
<1>10. /\ SumOf(PendingWeight', Requests) = SumOf(PendingWeight, Requests) - PendingWeight[r]
       /\ SumOf(PendingWeight, Requests) \in Int
       /\ request[r].pc = "create" => Cardinality(PendingItems') = Cardinality(PendingItems) - 1
       /\ request[r].pc # "create" => PendingItems' = PendingItems
  BY PendingLeaves
<1>2. Cardinality(PendingItems') <= Cardinality(PendingItems)
  <2>1. CASE request[r].pc = "create"
    BY <1>1, <1>10, <2>1
  <2>2. CASE request[r].pc # "create"
    <3>1. Cardinality(PendingItems') = Cardinality(PendingItems)
      BY <1>10, <2>2
    <3> QED
      BY <1>1, <3>1
  <2> QED
    BY <2>1, <2>2
<1>3. Cardinality(PendingItems') * HeaviestWeight <= Cardinality(PendingItems) * HeaviestWeight
  BY <1>1, <1>2, HeaviestItem, ProductGrows
<1>4. \A m, k \in Nat : m * k \in Nat
  OBVIOUS
<1>5. /\ Cardinality(PendingItems') * HeaviestWeight \in Nat
      /\ Cardinality(PendingItems) * HeaviestWeight \in Nat
  BY <1>1, <1>4, HeaviestItem
<1>6. CountBound'
  BY <1>1, <1>3, <1>5, CaConstants DEF CaInv, CountBound, HeaviestWeight
<1>7. SumOf(PendingWeight', Requests) <= SumOf(PendingWeight, Requests)
  BY <1>1, <1>10
<1>8. SumOf(PendingWeight', Requests) \in Int /\ SumOf(PendingWeight, Requests) \in Int
  BY <1>1, <1>10
<1>9. WeightBound'
  BY <1>1, <1>7, <1>8, CaConstants DEF CaInv, WeightBound, HeaviestWeight
<1> QED
  BY <1>6, <1>9

\* and when it inserts the item it was to insert.
LEMMA BoundsInsert ==
  ASSUME CaInv, CaTyped', NEW r \in Requests, InsertItem(r), item[request[r].item] = 0
  PROVE  CountBound' /\ WeightBound'
<1> DEFINE i == request[r].item
           w == request[r].weight
<1>1. /\ request[r].pc = "create" /\ i \in Items /\ w \in Weights
      /\ item' = [item EXCEPT ![i] = w] /\ item[i] = 0
      /\ request' = [request EXCEPT ![r] = IdleRequest]
  BY DEF InsertItem, Finish, CaInv, CaTyped
<1>2. w \in Int /\ w <= HeaviestWeight /\ PendingWeight[r] = w
  BY <1>1, HeaviestItem DEF PendingWeight
<1>3. CaWeightUsed' = CaWeightUsed + w
  <2> DEFINE it == item'
             J == Items \ {i}
  <2>1. IsFiniteSet(Items) /\ IsFiniteSet(J) /\ i \in Items
    BY <1>1, FS_Subset, AssessmentsAssumption
  <2>2. /\ \A k \in Items : it[k] \in Int /\ item[k] \in Int
        /\ it[i] = w /\ \A k \in J : it[k] = item[k]
    BY <1>1 DEF CaInv, CaTyped
  <2>3. CaWeightUsed' = SumOf(it, Items) /\ CaWeightUsed = SumOf(item, Items)
    BY CaNumbers, CaNumbersNext DEF CaInv
  <2> HIDE DEF it, i, w
  <2>4. SumOf(it, Items) = it[i] + SumOf(it, J) /\ SumOf(item, Items) = item[i] + SumOf(item, J)
    BY <2>1, <2>2, SumOfRemove
  <2>5. \A k \in J : item[k] \in Int
    BY <2>2
  <2> HIDE DEF J
  <2>6. SumOf(it, J) = SumOf(item, J) /\ SumOf(item, J) \in Int
    BY <2>1, <2>2, <2>5, SumOfSame, SumOfInt
  <2> QED
    BY <1>1, <1>2, <2>2, <2>3, <2>4, <2>6
<1>4. IdleRequest.pc # "create"
  BY DEF IdleRequest
<1>5. /\ SumOf(PendingWeight', Requests) = SumOf(PendingWeight, Requests) - w
      /\ SumOf(PendingWeight, Requests) \in Int
      /\ Cardinality(PendingItems') = Cardinality(PendingItems) - 1
  BY <1>1, <1>2, <1>4, PendingLeaves
<1>6. CaWeightUsed \in Nat /\ Cardinality(PendingItems) \in Nat
  BY CaNumbers DEF CaInv
<1> HIDE DEF w, i
<1>7. \A m, h \in Int : (m - 1) * h = m * h - h /\ m * h \in Int
  OBVIOUS
<1>8. /\ Cardinality(PendingItems') * HeaviestWeight
            = Cardinality(PendingItems) * HeaviestWeight - HeaviestWeight
      /\ Cardinality(PendingItems) * HeaviestWeight \in Int
  <2> DEFINE m == Cardinality(PendingItems)
             h == HeaviestWeight
  <2>1. m \in Int /\ h \in Int /\ Cardinality(PendingItems') = m - 1
    BY <1>5, <1>6, HeaviestItem
  <2> HIDE DEF m, h
  <2>2. Cardinality(PendingItems') * h = m * h - h /\ m * h \in Int
    BY <1>7, <2>1
  <2> QED
    BY <2>2 DEF m, h
<1>9. CountBound'
  BY <1>2, <1>3, <1>6, <1>8, CaConstants DEF CaInv, CountBound, HeaviestWeight
<1>10. WeightBound'
  BY <1>2, <1>3, <1>5, <1>6, CaConstants DEF CaInv, WeightBound, HeaviestWeight
<1> QED
  BY <1>9, <1>10

\* A request that passed the check adds itself to those that are to insert.
LEMMA BoundsCheck ==
  ASSUME CaInv, CaTyped', NEW r \in Requests, NEW i \in Items, NEW w \in Weights, CheckItem(r, i, w)
  PROVE  CountBound' /\ WeightBound'
<1> DEFINE new == [IdleRequest EXCEPT !.pc = "create", !.item = i, !.weight = w]
           n == PendingWeight'
           h == HeaviestWeight
           R == Requests
           S == R \ {r}
<1>1. /\ w > 0 /\ w \in Int /\ CaWeightUsed + w <= CaPortion /\ item' = item
      /\ request' = [request EXCEPT ![r] = new]
  BY HeaviestItem DEF CheckItem
<1>2. new.pc = "create" /\ new.weight = w
  BY DEF IdleRequest
<1> HIDE DEF new
<1>3. request'[r] = new
  BY <1>1 DEF CaInv, GradesInv
<1>4. n[r] = w
  BY <1>2, <1>3 DEF PendingWeight
<1>5. \A q \in R : n[q] \in Nat /\ n[q] <= h
  BY CaNumbersNext
<1>6. /\ CaWeightUsed' = CaWeightUsed /\ CaWeightUsed \in Nat
      /\ Cardinality(PendingItems') \in Nat /\ Cardinality(PendingItems') <= Cardinality(R)
  BY <1>1, CaNumbers, CaNumbersNext DEF CaInv
<1>7. IsFiniteSet(R) /\ h \in Nat /\ r \in R
  BY AssessmentsAssumption, HeaviestItem
<1>8. Cardinality(PendingItems') * h <= Cardinality(R) * h
  BY <1>6, <1>7, CaConstants, ProductGrows
<1>9. Cardinality(PendingItems') * h \in Nat
  <2>1. \A m, k \in Nat : m * k \in Nat
    OBVIOUS
  <2> QED
    BY <1>6, <1>7, <2>1
<1>10. CountBound'
  BY <1>1, <1>6, <1>8, <1>9, CaConstants DEF CountBound, HeaviestWeight
<1> HIDE DEF n, R, h
<1>11. SumOf(n, R) = n[r] + SumOf(n, S)
  BY <1>5, <1>7, SumOfRemove
<1>12. IsFiniteSet(S) /\ Cardinality(S) = Cardinality(R) - 1 /\ \A q \in S : n[q] \in Int /\ n[q] <= h
  BY <1>5, <1>7, FS_RemoveElement
<1> HIDE DEF S
<1>13. SumOf(n, S) <= Cardinality(S) * h /\ SumOf(n, S) \in Int
  BY <1>7, <1>12, SumOfBounded, SumOfInt
<1>14. CaWeightUsed' + SumOf(n, R) <= CaPortion + (Cardinality(R) - 1) * h
  BY <1>1, <1>4, <1>6, <1>11, <1>12, <1>13, CaConstants DEF R, h
<1>15. WeightBound'
  BY <1>14 DEF WeightBound, n, R, h, HeaviestWeight
<1> QED
  BY <1>10, <1>15

LEMMA CaTypedRest ==
  ASSUME CaInv, UNCHANGED <<item, grade>>, NEW r \in Requests, NEW new,
         request' = [request EXCEPT ![r] = new], new.pc # "create"
  PROVE  CaTyped'
<1>1. \A q \in Requests : request'[q] = IF q = r THEN new ELSE request[q]
  BY DEF CaInv, GradesInv
<1> QED
  BY <1>1 DEF CaInv, CaTyped

LEMMA CaRest ==
  ASSUME CaInv, UNCHANGED <<item, grade>>, NEW r \in Requests, NEW new,
         request' = [request EXCEPT ![r] = new], new.pc # "create"
  PROVE  CaTyped' /\ CountBound' /\ WeightBound'
  BY CaTypedRest, BoundsRest

LEMMA CaCheckItem ==
  ASSUME CaInv, NEW r \in Requests, NEW i \in Items, NEW w \in Weights, CheckItem(r, i, w)
  PROVE  CaTyped' /\ CountBound' /\ WeightBound'
<1> DEFINE new == [IdleRequest EXCEPT !.pc = "create", !.item = i, !.weight = w]
<1>1. /\ w > 0 /\ UNCHANGED <<item, grade>>
      /\ request' = [request EXCEPT ![r] = new]
  BY DEF CheckItem
<1>2. new.item = i /\ new.weight = w
  BY DEF IdleRequest
<1> HIDE DEF new
<1>3. \A q \in Requests : request'[q] = IF q = r THEN new ELSE request[q]
  BY <1>1 DEF CaInv, GradesInv
<1>4. CaTyped'
  BY <1>1, <1>2, <1>3 DEF CaInv, CaTyped
<1> QED
  BY <1>4, BoundsCheck

LEMMA CaInsertItem ==
  ASSUME CaInv, NEW r \in Requests, InsertItem(r)
  PROVE  CaTyped' /\ CountBound' /\ WeightBound'
<1> DEFINE i == request[r].item
           w == request[r].weight
<1>1. /\ i \in Items /\ w \in Nat /\ UNCHANGED grade
      /\ request' = [request EXCEPT ![r] = IdleRequest]
  <2>1. i \in Items /\ w \in Weights /\ w > 0
    BY DEF InsertItem, CaInv, CaTyped
  <2>2. w \in Int
    BY <2>1, HeaviestItem
  <2> QED
    BY <2>1, <2>2 DEF InsertItem, Finish
<1>2. IdleRequest.pc # "create"
  BY DEF IdleRequest
<1>3. CASE item[i] # 0
  BY <1>1, <1>2, <1>3, CaRest DEF InsertItem
<1>4. CASE item[i] = 0
  <2>1. \A q \in Requests : request'[q] = IF q = r THEN IdleRequest ELSE request[q]
    BY <1>1 DEF CaInv, GradesInv
  <2>2. item' \in [Items -> Nat]
    BY <1>1, <1>4 DEF InsertItem, CaInv, CaTyped
  <2>3. CaTyped'
    BY <1>1, <1>2, <2>1, <2>2 DEF CaInv, CaTyped
  <2> QED
    BY <1>4, <2>3, BoundsInsert
<1> QED
  BY <1>3, <1>4

LEMMA CaStoreGrade ==
  ASSUME CaInv, NEW r \in Requests, StoreGrade(r)
  PROVE  CaTyped' /\ CountBound' /\ WeightBound'
<1> DEFINE key == <<request[r].item, request[r].student>>
<1>1. item' = item /\ request' = [request EXCEPT ![r] = IdleRequest]
  BY DEF StoreGrade, Finish
<1>2. IdleRequest.pc # "create"
  BY DEF IdleRequest
<1>3. \A q \in Requests : request'[q] = IF q = r THEN IdleRequest ELSE request[q]
  BY <1>1 DEF CaInv, GradesInv
<1>4. \A k \in Items \X Candidates : \A g, h \in grade'[k] : g = h
  <2>1. CASE grade' = grade
    BY <2>1 DEF CaInv, CaTyped
  <2>2. ASSUME NEW new, grade' = [grade EXCEPT ![key] = {new}]
        PROVE  \A k \in Items \X Candidates : \A g, h \in grade'[k] : g = h
    <3>1. \A k \in Items \X Candidates : grade'[k] = IF k = key THEN {new} ELSE grade[k]
      BY <2>2 DEF CaInv, GradesInv, FilesExist
    <3> QED
      BY <3>1 DEF CaInv, CaTyped
  <2> QED
    BY <2>1, <2>2 DEF StoreGrade
<1>5. CaTyped'
  BY <1>1, <1>2, <1>3, <1>4 DEF CaInv, CaTyped
<1> QED
  BY <1>1, <1>2, <1>5, BoundsRest

LEMMA CaSame ==
  ASSUME CaInv, UNCHANGED <<item, request>>,
         \A k \in Items \X Candidates : \A g, h \in grade'[k] : g = h
  PROVE  CaTyped' /\ CountBound' /\ WeightBound'
<1>1. CaTyped'
  BY DEF CaInv, CaTyped
<1>2. CaWeightUsed' = CaWeightUsed
  BY <1>1, CaNumbers, CaNumbersNext DEF CaInv
<1>3. PendingItems' = PendingItems /\ PendingWeight' = PendingWeight
  BY DEF PendingItems, PendingWeight
<1>4. CountBound'
  BY <1>2, <1>3 DEF CaInv, CountBound, HeaviestWeight
<1>5. WeightBound'
  BY <1>2, <1>3 DEF CaInv, WeightBound, HeaviestWeight
<1> QED
  BY <1>1, <1>4, <1>5

LEMMA CaSync ==
  ASSUME CaInv, NEW i \in Items, NEW st \in Candidates, NEW score \in Scores, SyncGrade(i, st, score)
  PROVE  CaTyped' /\ CountBound' /\ WeightBound'
<1> DEFINE key == <<i, st>>
           new == IF grade[key] = {} THEN {[score |-> score, file |-> 0, stale |-> FALSE]}
                  ELSE {[g EXCEPT !.score = score] : g \in grade[key]}
<1>1. UNCHANGED <<item, request>> /\ grade' = [grade EXCEPT ![key] = new]
  BY DEF SyncGrade
<1>2. \A g, h \in new : g = h
  BY DEF CaInv, CaTyped
<1> HIDE DEF new
<1>3. \A k \in Items \X Candidates : grade'[k] = IF k = key THEN new ELSE grade[k]
  BY <1>1 DEF CaInv, GradesInv, FilesExist
<1>4. \A k \in Items \X Candidates : \A g, h \in grade'[k] : g = h
  BY <1>2, <1>3 DEF CaInv, CaTyped
<1> QED
  BY <1>1, <1>4, CaSame

LEMMA CaBegins == AssessmentsInit => CaInv
<1> SUFFICES ASSUME AssessmentsInit PROVE CaInv
  OBVIOUS
<1>1. GradesInv
  BY AssessmentsBegin
<1>2. CaTyped
  BY DEF AssessmentsInit, CaTyped, IdleRequest
<1>3. PendingItems = {} /\ \A r \in Requests : PendingWeight[r] = 0
  BY DEF AssessmentsInit, IdleRequest, PendingItems, PendingWeight
<1> DEFINE p == PendingWeight
           it == item
<1>4. \A i \in Items : it[i] = 0
  BY DEF AssessmentsInit
<1>5. \A r \in Requests : p[r] = 0
  BY <1>3
<1>6. CaWeightUsed = SumOf(it, Items) /\ CaWeightUsed \in Nat
  BY <1>2, CaNumbers
<1>7. IsFiniteSet(Items) /\ IsFiniteSet(Requests)
  BY AssessmentsAssumption
<1> HIDE DEF p, it
<1>8. SumOf(it, Items) <= Cardinality(Items) * 0 /\ SumOf(it, Items) \in Int
  BY <1>4, <1>7, SumOfBounded, SumOfInt
<1>9. SumOf(p, Requests) <= Cardinality(Requests) * 0 /\ SumOf(p, Requests) \in Int
  BY <1>5, <1>7, SumOfBounded, SumOfInt
<1>10. Cardinality(Items) \in Nat /\ Cardinality(PendingItems) = 0
  BY <1>3, <1>7, FS_CardinalityType, FS_EmptySet
<1>11. CaWeightUsed = 0
  BY <1>6, <1>8, <1>10
<1>12. CountBound
  BY <1>10, <1>11, CaConstants DEF CountBound
<1>13. WeightBound
  BY <1>9, <1>11, CaConstants DEF WeightBound, p
<1> QED
  BY <1>1, <1>2, <1>12, <1>13 DEF CaInv

LEMMA CaStep == CaInv /\ [AssessmentsNext]_assessmentVars => CaInv'
<1> SUFFICES ASSUME CaInv, [AssessmentsNext]_assessmentVars PROVE CaTyped' /\ CountBound' /\ WeightBound'
  BY AssessmentsStep DEF CaInv
<1> DEFINE Kept == CaTyped' /\ CountBound' /\ WeightBound'
<1>1. CASE UNCHANGED assessmentVars
  <2>1. UNCHANGED <<item, request>> /\ \A k \in Items \X Candidates : \A g, h \in grade'[k] : g = h
    BY <1>1 DEF assessmentVars, CaInv, CaTyped
  <2> QED
    BY <2>1, CaSame
<1>2. ASSUME NEW r \in Requests, NEW i \in Items, NEW w \in Weights, CheckItem(r, i, w) PROVE Kept
  BY <1>2, CaCheckItem
<1>3. ASSUME NEW r \in Requests, InsertItem(r) PROVE Kept
  BY <1>3, CaInsertItem
<1>4. ASSUME NEW r \in Requests, StoreSubmission(r) \/ RequestDies(r) PROVE Kept
  <2>1. UNCHANGED <<item, grade>> /\ request' = [request EXCEPT ![r] = IdleRequest]
    BY <1>4 DEF StoreSubmission, RequestDies, Finish
  <2>2. IdleRequest.pc # "create"
    BY DEF IdleRequest
  <2> QED
    BY <2>1, <2>2, CaRest
<1>5. ASSUME NEW r \in Requests, NEW i \in Items, NEW st \in Candidates, CheckSubmission(r, i, st)
      PROVE  Kept
  <2> DEFINE new == [IdleRequest EXCEPT !.pc = "submit", !.item = i, !.student = st,
                        !.found = submission[<<i, st>>].file # 0, !.graded = grade[<<i, st>>] # {}]
  <2>1. UNCHANGED <<item, grade>> /\ request' = [request EXCEPT ![r] = new]
    BY <1>5 DEF CheckSubmission
  <2>2. new.pc # "create"
    BY DEF IdleRequest
  <2> HIDE DEF new
  <2> QED
    BY <2>1, <2>2, CaRest
<1>6. ASSUME NEW r \in Requests, NEW i \in Items, NEW st \in Candidates, NEW score \in Scores,
             CheckGrade(r, i, st, score)
      PROVE  Kept
  <2> DEFINE new == [IdleRequest EXCEPT !.pc = "grade", !.item = i, !.student = st, !.score = score,
                        !.file = submission[<<i, st>>].file, !.found = grade[<<i, st>>] # {}]
  <2>1. UNCHANGED <<item, grade>> /\ request' = [request EXCEPT ![r] = new]
    BY <1>6 DEF CheckGrade
  <2>2. new.pc # "create"
    BY DEF IdleRequest
  <2> HIDE DEF new
  <2> QED
    BY <2>1, <2>2, CaRest
<1>7. ASSUME NEW r \in Requests, StoreGrade(r) PROVE Kept
  BY <1>7, CaStoreGrade
<1>8. ASSUME NEW i \in Items, NEW st \in Candidates, NEW score \in Scores, SyncGrade(i, st, score)
      PROVE  Kept
  BY <1>8, CaSync
<1> QED
  BY <1>1, <1>2, <1>3, <1>4, <1>5, <1>6, <1>7, <1>8 DEF AssessmentsNext

LEMMA CaInvSuffices == CaInv => CaBounded
<1> SUFFICES ASSUME CaInv PROVE CaBounded
  OBVIOUS
<1>1. CountBound
  BY DEF CaInv
<1>2. CaWeightUsed <= CaPortion + (Cardinality(Requests) - 1) * HeaviestWeight
  <2> DEFINE p == PendingWeight
  <2>1. /\ \A r \in Requests : p[r] \in Nat
        /\ CaWeightUsed \in Nat
        /\ CaWeightUsed + SumOf(p, Requests) <= CaPortion + (Cardinality(Requests) - 1) * HeaviestWeight
    BY CaNumbers DEF CaInv, WeightBound
  <2> HIDE DEF p
  <2>2. SumOf(p, {}) <= SumOf(p, Requests) /\ SumOf(p, {}) = 0 /\ SumOf(p, Requests) \in Int
    BY <2>1, SumOfSubset, SumOfEmpty, SumOfInt, AssessmentsAssumption
  <2> QED
    BY <2>1, <2>2, CaConstants
<1>3. \A st \in Candidates : AggregateCa(st) <= MaxScore * CaWeightUsed
  <2>1. \A key \in Items \X Candidates : grade[key] \in SUBSET AssessmentGrade
    BY DEF CaInv, GradesInv, FilesExist
  <2> QED
    BY <2>1, CaWithinItems DEF CaInv, CaTyped
<1> QED
  BY <1>1, <1>2, <1>3 DEF CaBounded, CountBound, PendingItems, HeaviestWeight

\* The items of a course term exceed its CA weight by no more than the creations
\* that passed the check together can add, and no student's CA exceeds the items,
\* whatever is graded, regraded and synchronized (assessments.services.create_item,
\* aggregate_ca_for_student).
THEOREM CaStaysBounded == AssessmentsSpec => []CaBounded
  BY CaBegins, CaStep, CaInvSuffices, PTL DEF AssessmentsSpec

\* Types of the items and the requests; those of the other tables are in GradesInv.
LEMMA IdleRequestTyped == IdleRequest \in AssessmentRequest
<1>1. (CHOOSE i \in Items : TRUE) \in Items /\ (CHOOSE st \in Candidates : TRUE) \in Candidates
  BY AssessmentsAssumption
<1>2. 0 \in 0..MaxScore /\ 0 \in 0..MaxFiles
  BY AssessmentsAssumption
<1> QED
  BY <1>1, <1>2 DEF IdleRequest, AssessmentRequest

LEMMA RequestsTyped ==
  ASSUME AssessmentsTypeOK, NEW r \in Requests, NEW new \in AssessmentRequest,
         request' = [request EXCEPT ![r] = new], UNCHANGED item, GradesInv'
  PROVE  AssessmentsTypeOK'
  BY DEF AssessmentsTypeOK, GradesInv, FilesExist

LEMMA CheckedItemTyped ==
  ASSUME AssessmentsTypeOK, GradesInv', NEW r \in Requests, NEW i \in Items, NEW w \in Weights,
         CheckItem(r, i, w)
  PROVE  AssessmentsTypeOK'
<1> DEFINE new == [IdleRequest EXCEPT !.pc = "create", !.item = i, !.weight = w]
<1>1. new \in AssessmentRequest
  BY IdleRequestTyped DEF AssessmentRequest
<1>2. request' = [request EXCEPT ![r] = new] /\ UNCHANGED item
  BY DEF CheckItem
<1> HIDE DEF new
<1> QED
  BY <1>1, <1>2, RequestsTyped

LEMMA CheckedSubmissionTyped ==
  ASSUME AssessmentsTypeOK, GradesInv', NEW r \in Requests, NEW i \in Items, NEW st \in Candidates,
         CheckSubmission(r, i, st)
  PROVE  AssessmentsTypeOK'
<1> DEFINE new == [IdleRequest EXCEPT !.pc = "submit", !.item = i, !.student = st,
                      !.found = submission[<<i, st>>].file # 0, !.graded = grade[<<i, st>>] # {}]
<1>1. new \in AssessmentRequest
  BY IdleRequestTyped DEF AssessmentRequest
<1>2. request' = [request EXCEPT ![r] = new] /\ UNCHANGED item
  BY DEF CheckSubmission
<1> HIDE DEF new
<1> QED
  BY <1>1, <1>2, RequestsTyped

LEMMA CheckedGradeTyped ==
  ASSUME AssessmentsTypeOK, GradesInv', NEW r \in Requests, NEW i \in Items, NEW st \in Candidates,
         NEW score \in Scores, CheckGrade(r, i, st, score)
  PROVE  AssessmentsTypeOK'
<1> DEFINE file == submission[<<i, st>>].file
           new == [IdleRequest EXCEPT !.pc = "grade", !.item = i, !.student = st, !.score = score,
                      !.file = file, !.found = grade[<<i, st>>] # {}]
<1>1. score \in 0..MaxScore
  BY AssessmentsAssumption DEF CheckGrade
<1>2. file \in 0..MaxFiles
  BY DEF AssessmentsTypeOK, Submission
<1>3. new \in AssessmentRequest
  <2> HIDE DEF file
  <2> QED
    BY <1>1, <1>2, IdleRequestTyped DEF AssessmentRequest
<1>4. request' = [request EXCEPT ![r] = new] /\ UNCHANGED item
  BY DEF CheckGrade
<1> HIDE DEF new
<1> QED
  BY <1>3, <1>4, RequestsTyped

LEMMA InsertedItemTyped ==
  ASSUME AssessmentsTypeOK, GradesInv', NEW r \in Requests, InsertItem(r)
  PROVE  AssessmentsTypeOK'
<1>1. request[r].item \in Items /\ request[r].weight \in Weights \cup {0}
  BY DEF AssessmentsTypeOK, AssessmentRequest
<1>2. item' = item \/ item' = [item EXCEPT ![request[r].item] = request[r].weight]
  BY DEF InsertItem
<1>3. item' \in [Items -> Weights \cup {0}]
  BY <1>1, <1>2 DEF AssessmentsTypeOK
<1>4. request' \in [Requests -> AssessmentRequest]
  BY IdleRequestTyped DEF InsertItem, Finish, AssessmentsTypeOK
<1> QED
  BY <1>3, <1>4 DEF AssessmentsTypeOK, GradesInv, FilesExist

LEMMA AssessmentsTypesStep ==
  AssessmentsTypeOK /\ GradesInv /\ [AssessmentsNext]_assessmentVars => AssessmentsTypeOK'
<1> SUFFICES ASSUME AssessmentsTypeOK, GradesInv, GradesInv', [AssessmentsNext]_assessmentVars
             PROVE  AssessmentsTypeOK'
  BY AssessmentsStep
<1>1. CASE UNCHANGED assessmentVars
  BY <1>1 DEF assessmentVars, AssessmentsTypeOK
<1>2. ASSUME NEW r \in Requests, StoreSubmission(r) \/ StoreGrade(r) \/ RequestDies(r)
      PROVE  AssessmentsTypeOK'
  <2>1. request' = [request EXCEPT ![r] = IdleRequest] /\ UNCHANGED item
    BY <1>2 DEF StoreSubmission, StoreGrade, RequestDies, Finish
  <2> QED
    BY <2>1, IdleRequestTyped, RequestsTyped
<1>3. ASSUME NEW i \in Items, NEW st \in Candidates, NEW score \in Scores, SyncGrade(i, st, score)
      PROVE  AssessmentsTypeOK'
  BY <1>3 DEF SyncGrade, AssessmentsTypeOK, GradesInv, FilesExist
<1>4. ASSUME NEW r \in Requests, NEW i \in Items, NEW w \in Weights, CheckItem(r, i, w)
      PROVE  AssessmentsTypeOK'
  BY <1>4, CheckedItemTyped
<1>5. ASSUME NEW r \in Requests, NEW i \in Items, NEW st \in Candidates, CheckSubmission(r, i, st)
      PROVE  AssessmentsTypeOK'
  BY <1>5, CheckedSubmissionTyped
<1>6. ASSUME NEW r \in Requests, NEW i \in Items, NEW st \in Candidates, NEW score \in Scores,
             CheckGrade(r, i, st, score)
      PROVE  AssessmentsTypeOK'
  BY <1>6, CheckedGradeTyped
<1>7. ASSUME NEW r \in Requests, InsertItem(r) PROVE AssessmentsTypeOK'
  BY <1>7, InsertedItemTyped
<1> QED
  BY <1>1, <1>2, <1>3, <1>4, <1>5, <1>6, <1>7 DEF AssessmentsNext

LEMMA AssessmentsAreTyped == AssessmentsSpec => []AssessmentsTypeOK
<1>1. AssessmentsInit => AssessmentsTypeOK
  BY IdleRequestTyped, AssessmentsBegin
     DEF AssessmentsInit, AssessmentsTypeOK, GradesInv, FilesExist
<1> QED
  BY <1>1, AssessmentsBegin, AssessmentsStep, AssessmentsTypesStep, PTL DEF AssessmentsSpec

-----------------------------------------------------------------------------
(***************************************************************************)
(* Proctoring. The invariant says of every signal that reached its         *)
(* threshold who is still going to notice it, and of every evaluation that *)
(* what it is going to write is borne out by the signals.                  *)
(***************************************************************************)
\* Evaluation e will raise the flag for signals that reached a threshold.
WillRaise(e) ==
    \/ evaluation[e].pc = "events"
    \/ evaluation[e].pc = "captures" /\ (evaluation[e].reasons # {} \/ Tripped(CaptureKinds) # {})
    \/ evaluation[e].pc = "flag"

SomeoneNotices ==
    Tripped(SignalKind) # {} /\ ~interrupted /\ flag.status = "absent" =>
       \E e \in Evaluations : WillRaise(e)

ReasonsBorneOut ==
    /\ flag.reasons \subseteq Tripped(SignalKind)
    /\ flag.status # "absent" => flag.reasons # {}
    /\ flag.status \in Reviewed => flag.reviewed_by \in Reviewers
    /\ \A e \in Evaluations :
          /\ evaluation[e].reasons \subseteq Tripped(SignalKind)
          /\ evaluation[e].pc \in {"flag", "notify", "refresh"} => evaluation[e].reasons # {}
          /\ evaluation[e].pc \in {"notify", "refresh"} => flag.status # "absent"

ToldOnce ==
    /\ notices <= 1
    /\ flag.status = "absent" => notices = 0
    /\ \A e \in Evaluations : evaluation[e].pc = "notify" =>
          notices = 0 /\ \A d \in Evaluations \ {e} : evaluation[d].pc # "notify"

ProctoringInv == ProctoringTypeOK /\ SomeoneNotices /\ ReasonsBorneOut /\ ToldOnce

\* What a step may do to a flag that was reviewed.
ReviewKept ==
    flag.status \in Reviewed =>
       flag'.status \in Reviewed /\ flag'.reviewed_by \in Reviewers /\ flag'.reasons # {}

-----------------------------------------------------------------------------
LEMMA ReviewedIsThere == "absent" \notin Reviewed
  BY DEF Reviewed, CheatingFlagStatus

LEMMA IdleEvaluationTyped ==
  /\ IdleEvaluation \in Evaluation
  /\ IdleEvaluation.pc = "idle" /\ IdleEvaluation.reasons = {}
  BY DEF IdleEvaluation, Evaluation

\* Recording one more signal takes no kind below its threshold.
LEMMA TrippedGrows ==
  ASSUME ProctoringTypeOK, NEW k \in SignalKind, signals' = [signals EXCEPT ![k] = @ + 1]
  PROVE  \A kinds \in SUBSET SignalKind : Tripped(kinds) \subseteq Tripped(kinds)'
<1>1. \A j \in SignalKind : signals[j] \in Nat
  BY DEF ProctoringTypeOK
<1>2. \A j \in SignalKind : signals'[j] = IF j = k THEN signals[j] + 1 ELSE signals[j]
  BY DEF ProctoringTypeOK
<1>3. \A j \in SignalKind : Threshold[j] \in Nat
  BY ProctoringAssumption
<1>4. \A j \in SignalKind : signals[j] >= Threshold[j] => signals'[j] >= Threshold[j]
  BY <1>1, <1>2, <1>3
<1> QED
  BY <1>4 DEF Tripped

LEMMA TrippedSame == signals' = signals => \A kinds \in SUBSET SignalKind : Tripped(kinds)' = Tripped(kinds)
  BY DEF Tripped

LEMMA TrippedBoth ==
  /\ Tripped(SignalKind) = Tripped(EventKinds) \cup Tripped(CaptureKinds)
  /\ Tripped(EventKinds) \subseteq SignalKind /\ Tripped(CaptureKinds) \subseteq SignalKind
  BY DEF Tripped, SignalKind

LEMMA ProctoringBegin == ProctoringInit => ProctoringInv
<1> SUFFICES ASSUME ProctoringInit PROVE ProctoringInv
  OBVIOUS
<1>1. ProctoringTypeOK
  BY DEF ProctoringInit, ProctoringTypeOK, CheatingFlag, Evaluation, IdleEvaluation
<1>2. Tripped(SignalKind) = {}
  BY ProctoringAssumption DEF ProctoringInit, Tripped
<1> QED
  BY <1>1, <1>2, ReviewedIsThere, IdleEvaluationTyped DEF ProctoringInit, ProctoringInv, SomeoneNotices,
     ReasonsBorneOut, ToldOnce

LEMMA RecordKeeps ==
  ASSUME ProctoringInv, NEW e \in Evaluations, NEW k \in SignalKind, RecordSignal(e, k)
  PROVE  ProctoringInv' /\ ReviewKept
<1>1. \A kinds \in SUBSET SignalKind : Tripped(kinds) \subseteq Tripped(kinds)'
  BY TrippedGrows DEF RecordSignal, ProctoringInv
<1>2. /\ evaluation'[e] = [pc |-> "events", reasons |-> {}]
      /\ \A d \in Evaluations \ {e} : evaluation'[d] = evaluation[d]
  BY DEF RecordSignal, ProctoringInv, ProctoringTypeOK
<1>3. ProctoringTypeOK'
  BY DEF RecordSignal, ProctoringInv, ProctoringTypeOK, Evaluation
<1>4. SomeoneNotices'
  BY <1>2 DEF SomeoneNotices, WillRaise
<1>5. ReasonsBorneOut'
  BY <1>1, <1>2 DEF RecordSignal, ProctoringInv, ReasonsBorneOut
<1>6. ToldOnce'
  BY <1>2 DEF RecordSignal, ProctoringInv, ToldOnce
<1>7. ReviewKept
  BY ReviewedIsThere DEF RecordSignal, ProctoringInv, ReasonsBorneOut, ReviewKept
<1> QED
  BY <1>3, <1>4, <1>5, <1>6, <1>7 DEF ProctoringInv

LEMMA CountEventsKeeps ==
  ASSUME ProctoringInv, NEW e \in Evaluations, CountEvents(e)
  PROVE  ProctoringInv' /\ ReviewKept
<1>1. signals' = signals /\ \A kinds \in SUBSET SignalKind : Tripped(kinds)' = Tripped(kinds)
  BY TrippedSame DEF CountEvents
<1>2. /\ evaluation'[e] = [pc |-> "captures", reasons |-> Tripped(EventKinds)]
      /\ \A d \in Evaluations \ {e} : evaluation'[d] = evaluation[d]
  BY DEF CountEvents, ProctoringInv, ProctoringTypeOK
<1>3. ProctoringTypeOK'
  BY TrippedBoth DEF CountEvents, ProctoringInv, ProctoringTypeOK, Evaluation
<1>4. SomeoneNotices'
  <2>1. CaptureKinds \in SUBSET SignalKind /\ SignalKind \in SUBSET SignalKind
    BY DEF SignalKind
  <2> QED
    BY <1>1, <1>2, <2>1, TrippedBoth DEF SomeoneNotices, WillRaise
<1>5. ReasonsBorneOut'
  <2>1. Tripped(SignalKind)' = Tripped(SignalKind)
    BY <1>1
  <2> QED
    BY <1>2, <2>1, TrippedBoth DEF CountEvents, ProctoringInv, ReasonsBorneOut
<1>6. ToldOnce'
  BY <1>2 DEF CountEvents, ProctoringInv, ToldOnce
<1>7. ReviewKept
  BY ReviewedIsThere DEF CountEvents, ProctoringInv, ReasonsBorneOut, ReviewKept
<1> QED
  BY <1>3, <1>4, <1>5, <1>6, <1>7 DEF ProctoringInv

LEMMA CountCapturesKeeps ==
  ASSUME ProctoringInv, NEW e \in Evaluations, CountCaptures(e)
  PROVE  ProctoringInv' /\ ReviewKept
<1> DEFINE reasons == evaluation[e].reasons \cup Tripped(CaptureKinds)
<1>1. /\ Tripped(SignalKind)' = Tripped(SignalKind) /\ Tripped(CaptureKinds)' = Tripped(CaptureKinds)
      /\ UNCHANGED <<signals, flag, notices, interrupted>>
  BY TrippedSame DEF CountCaptures, SignalKind
<1>2. /\ evaluation'[e] = IF reasons = {} THEN IdleEvaluation ELSE [pc |-> "flag", reasons |-> reasons]
      /\ \A d \in Evaluations \ {e} : evaluation'[d] = evaluation[d]
      /\ evaluation[e].pc = "captures" /\ DOMAIN evaluation' = Evaluations
  BY DEF CountCaptures, ProctoringInv, ProctoringTypeOK
<1>3. reasons \subseteq Tripped(SignalKind) /\ Tripped(SignalKind) \subseteq SignalKind
  BY TrippedBoth DEF ProctoringInv, ReasonsBorneOut
<1>4. ProctoringTypeOK'
  <2>1. evaluation'[e] \in Evaluation
    BY <1>2, <1>3 DEF Evaluation, IdleEvaluation
  <2> QED
    BY <1>1, <2>1 DEF CountCaptures, ProctoringInv, ProctoringTypeOK
<1>5. SomeoneNotices'
  <2>1. ASSUME NEW d \in Evaluations, WillRaise(d) PROVE WillRaise(d)'
    BY <1>1, <1>2, <2>1 DEF WillRaise
  <2> QED
    BY <1>1, <2>1 DEF ProctoringInv, SomeoneNotices
<1>6. ReasonsBorneOut'
  BY <1>1, <1>2, <1>3 DEF ProctoringInv, ReasonsBorneOut, IdleEvaluation
<1>7. ToldOnce'
  BY <1>1, <1>2 DEF ProctoringInv, ToldOnce, IdleEvaluation
<1>8. ReviewKept
  BY <1>1, ReviewedIsThere DEF ProctoringInv, ReasonsBorneOut, ReviewKept
<1> QED
  BY <1>4, <1>5, <1>6, <1>7, <1>8 DEF ProctoringInv

LEMMA RaiseKeeps ==
  ASSUME ProctoringInv, NEW e \in Evaluations, RaiseFlag(e)
  PROVE  ProctoringInv' /\ ReviewKept
<1>1. Tripped(SignalKind)' = Tripped(SignalKind) /\ UNCHANGED <<signals, notices, interrupted>>
  BY TrippedSame DEF RaiseFlag
<1>2. /\ evaluation[e].pc = "flag" /\ evaluation[e] \in Evaluation
      /\ evaluation[e].reasons # {} /\ evaluation[e].reasons \subseteq Tripped(SignalKind)
  BY DEF RaiseFlag, ProctoringInv, ProctoringTypeOK, ReasonsBorneOut
<1>3. \A d \in Evaluations \ {e} : evaluation'[d] = evaluation[d]
  BY DEF RaiseFlag, ProctoringInv, ProctoringTypeOK
<1>4. CASE flag.status = "absent"
  <2>1. /\ flag' = [status |-> "raised", reasons |-> evaluation[e].reasons, reviewed_by |-> "nobody"]
        /\ evaluation'[e] = [evaluation[e] EXCEPT !.pc = "notify"]
        /\ evaluation' \in [Evaluations -> Evaluation]
    BY <1>2, <1>4 DEF RaiseFlag, ProctoringInv, ProctoringTypeOK, Reviewed, CheatingFlagStatus, Evaluation
  <2>2. evaluation'[e].pc = "notify" /\ evaluation'[e].reasons = evaluation[e].reasons
    BY <1>2, <2>1 DEF Evaluation
  <2>3. ProctoringTypeOK'
    BY <1>1, <1>2, <2>1 DEF ProctoringInv, ProctoringTypeOK, CheatingFlag, CheatingFlagStatus, Evaluation
  <2>4. \A d \in Evaluations : evaluation[d].pc # "notify" /\ notices = 0
    BY <1>4 DEF ProctoringInv, ReasonsBorneOut, ToldOnce
  <2> QED
    <3>1. flag.status \notin Reviewed /\ flag'.status = "raised" /\ flag'.status \notin Reviewed
      BY <1>4, <2>1, ReviewedIsThere DEF Reviewed
    <3>2. SomeoneNotices' /\ ToldOnce' /\ ReviewKept
      BY <1>1, <1>3, <2>2, <2>4, <3>1 DEF SomeoneNotices, ToldOnce, ReviewKept
    <3>3. ReasonsBorneOut'
      <4>1. /\ flag'.reasons \subseteq Tripped(SignalKind)' /\ flag'.reasons # {}
            /\ flag'.status # "absent"
        BY <1>1, <1>2, <2>1
      <4>2. ASSUME NEW d \in Evaluations
            PROVE  /\ evaluation'[d].reasons \subseteq Tripped(SignalKind)'
                   /\ evaluation'[d].pc \in {"flag", "notify", "refresh"} => evaluation'[d].reasons # {}
        BY <1>1, <1>2, <1>3, <2>2 DEF ProctoringInv, ReasonsBorneOut
      <4> QED
        BY <3>1, <4>1, <4>2 DEF ReasonsBorneOut
    <3> QED
      BY <2>3, <3>2, <3>3 DEF ProctoringInv
<1>5. CASE flag.status # "absent"
  <2>1. /\ flag' = flag /\ evaluation' \in [Evaluations -> Evaluation]
        /\ \/ evaluation'[e] = [evaluation[e] EXCEPT !.pc = "refresh"]
           \/ evaluation'[e] = IdleEvaluation
    <3>1. CASE evaluation' = [evaluation EXCEPT ![e].pc = "refresh"]
      BY <1>2, <1>5, <3>1 DEF RaiseFlag, ProctoringInv, ProctoringTypeOK, Evaluation
    <3>2. CASE evaluation' = [evaluation EXCEPT ![e] = IdleEvaluation]
      BY <1>2, <1>5, <3>2, IdleEvaluationTyped DEF RaiseFlag, ProctoringInv, ProctoringTypeOK
    <3> QED
      BY <1>5, <3>1, <3>2 DEF RaiseFlag
  <2>2. /\ evaluation'[e].pc \in {"refresh", "idle"}
        /\ evaluation'[e].reasons \in {evaluation[e].reasons, {}}
        /\ evaluation'[e].pc = "refresh" => evaluation'[e].reasons = evaluation[e].reasons
    BY <1>2, <2>1 DEF IdleEvaluation, Evaluation
  <2> QED
    BY <1>1, <1>2, <1>3, <1>5, <2>1, <2>2 DEF ProctoringInv, ProctoringTypeOK, SomeoneNotices,
       ReasonsBorneOut, ToldOnce, ReviewKept, Reviewed
<1> QED
  BY <1>4, <1>5

\* An evaluation that has raised or refreshed the flag, or dies, becomes idle.
LEMMA EndKeeps ==
  ASSUME ProctoringInv, NEW e \in Evaluations,
         NotifyFlag(e) \/ RefreshReasons(e) \/ EvaluationDies(e)
  PROVE  ProctoringInv' /\ ReviewKept
<1>1. Tripped(SignalKind)' = Tripped(SignalKind) /\ signals' = signals
  BY TrippedSame DEF NotifyFlag, RefreshReasons, EvaluationDies
<1>2. /\ evaluation'[e] = IdleEvaluation /\ evaluation' \in [Evaluations -> Evaluation]
      /\ \A d \in Evaluations \ {e} : evaluation'[d] = evaluation[d]
  BY IdleEvaluationTyped DEF NotifyFlag, RefreshReasons, EvaluationDies, ProctoringInv, ProctoringTypeOK
<1>3. IdleEvaluation.pc = "idle" /\ IdleEvaluation.reasons = {}
  BY IdleEvaluationTyped
<1>4. CASE NotifyFlag(e)
  <2>1. /\ UNCHANGED <<flag, interrupted>> /\ flag.status # "absent" /\ notices = 0
        /\ notices' \in {0, 1} /\ \A d \in Evaluations \ {e} : evaluation[d].pc # "notify"
    BY <1>4 DEF NotifyFlag, ProctoringInv, ReasonsBorneOut, ToldOnce
  <2> QED
    BY <1>1, <1>2, <1>3, <2>1 DEF ProctoringInv, ProctoringTypeOK, SomeoneNotices, ReasonsBorneOut,
       ToldOnce, ReviewKept, Reviewed
<1>5. CASE RefreshReasons(e)
  <2>1. /\ UNCHANGED <<notices, interrupted>> /\ flag.status # "absent"
        /\ evaluation[e].reasons # {} /\ evaluation[e].reasons \subseteq Tripped(SignalKind)
        /\ evaluation[e].reasons \subseteq SignalKind
    BY <1>5 DEF RefreshReasons, ProctoringInv, ReasonsBorneOut, ProctoringTypeOK, Evaluation
  <2>2. /\ flag' \in CheatingFlag /\ flag'.status = flag.status
        /\ flag'.reviewed_by = flag.reviewed_by /\ flag'.reasons = evaluation[e].reasons
    BY <1>5, <2>1 DEF RefreshReasons, ProctoringInv, ProctoringTypeOK, CheatingFlag
  <2>3. ProctoringTypeOK' /\ SomeoneNotices'
    BY <1>1, <1>2, <2>1, <2>2 DEF ProctoringInv, ProctoringTypeOK, SomeoneNotices
  <2>4. ReasonsBorneOut'
    BY <1>1, <1>2, <1>3, <2>1, <2>2 DEF ProctoringInv, ReasonsBorneOut
  <2>5. ToldOnce'
    BY <1>2, <1>3, <2>1, <2>2 DEF ProctoringInv, ToldOnce
  <2>6. ReviewKept
    BY <2>1, <2>2, ReviewedIsThere DEF ProctoringInv, ReviewKept, ReasonsBorneOut
  <2> QED
    BY <2>3, <2>4, <2>5, <2>6 DEF ProctoringInv
<1>6. CASE EvaluationDies(e)
  <2>1. UNCHANGED <<flag, notices>> /\ interrupted' = TRUE
    BY <1>6 DEF EvaluationDies
  <2>2. ProctoringTypeOK' /\ SomeoneNotices'
    BY <1>1, <1>2, <2>1 DEF ProctoringInv, ProctoringTypeOK, SomeoneNotices
  <2>3. ReasonsBorneOut'
    BY <1>1, <1>2, <1>3, <2>1 DEF ProctoringInv, ReasonsBorneOut
  <2>4. ToldOnce'
    BY <1>2, <1>3, <2>1 DEF ProctoringInv, ToldOnce
  <2>5. ReviewKept
    BY <2>1, ReviewedIsThere DEF ProctoringInv, ReviewKept, ReasonsBorneOut
  <2> QED
    BY <2>2, <2>3, <2>4, <2>5 DEF ProctoringInv
<1> QED
  BY <1>4, <1>5, <1>6

LEMMA ReviewKeeps ==
  ASSUME ProctoringInv, NEW r \in Reviewers, NEW decision \in Reviewed, Review(r, decision)
  PROVE  ProctoringInv' /\ ReviewKept
<1>1. Tripped(SignalKind)' = Tripped(SignalKind) /\ UNCHANGED <<signals, evaluation, notices, interrupted>>
  BY TrippedSame DEF Review
<1>2. /\ flag.status # "absent" /\ flag' \in CheatingFlag /\ flag'.status = decision
      /\ flag'.reviewed_by = r /\ flag'.reasons = flag.reasons
  BY DEF Review, ProctoringInv, ProctoringTypeOK, CheatingFlag, Reviewed
<1>3. decision # "absent"
  BY DEF Reviewed, CheatingFlagStatus
<1> QED
  BY <1>1, <1>2, <1>3 DEF ProctoringInv, ProctoringTypeOK, SomeoneNotices, ReasonsBorneOut, ToldOnce,
     ReviewKept, Reviewed

LEMMA ProctoringStep ==
  ProctoringInv /\ [ProctoringNext]_proctoringVars =>
    ProctoringInv' /\ (ReviewKept \/ UNCHANGED proctoringVars)
<1> SUFFICES ASSUME ProctoringInv, [ProctoringNext]_proctoringVars
             PROVE  ProctoringInv' /\ (ReviewKept \/ UNCHANGED proctoringVars)
  OBVIOUS
<1>1. CASE UNCHANGED proctoringVars
  BY <1>1 DEF proctoringVars, ProctoringInv, ProctoringTypeOK, SomeoneNotices, ReasonsBorneOut,
     ToldOnce, WillRaise, Tripped
<1>2. CASE ProctoringNext
  BY <1>2, RecordKeeps, CountEventsKeeps, CountCapturesKeeps, RaiseKeeps, EndKeeps, ReviewKeeps
     DEF ProctoringNext
<1> QED
  BY <1>1, <1>2

\* For any thresholds and any number of requests at once, no signal that reached
\* its threshold slips through and reviewers are told at most once
\* (proctoring.evaluate_attempt_for_cheating).
THEOREM SignalsAreNoticed == ProctoringSpec => [](ProctoringTypeOK /\ SignalsRaiseFlag)
<1>1. ProctoringInv => ProctoringTypeOK /\ SignalsRaiseFlag
  <2> SUFFICES ASSUME ProctoringInv PROVE SignalsRaiseFlag
    BY DEF ProctoringInv
  <2>1. (\A e \in Evaluations : evaluation[e].pc = "idle") => ~\E e \in Evaluations : WillRaise(e)
    BY DEF WillRaise
  <2> QED
    BY <2>1 DEF ProctoringInv, SomeoneNotices, ReasonsBorneOut, ToldOnce, SignalsRaiseFlag
<1> QED
  BY <1>1, ProctoringBegin, ProctoringStep, PTL DEF ProctoringSpec

\* However late an evaluation that read the flag as raised saves what it found, a
\* review stands (proctoring.dismiss_flag, escalate_flag).
THEOREM ReviewsStand == ProctoringSpec => ReviewStands
<1>1. ProctoringInv /\ [ProctoringNext]_proctoringVars =>
        [flag.status \in Reviewed =>
           /\ flag'.status \in Reviewed
           /\ flag'.reviewed_by \in Reviewers
           /\ flag'.reasons # {}]_proctoringVars
  BY ProctoringStep DEF ReviewKept
<1> QED
  BY <1>1, ProctoringBegin, ProctoringStep, PTL DEF ProctoringSpec, ReviewStands

-----------------------------------------------------------------------------
(***************************************************************************)
(* The lecturer's page.  A draft is the last mark typed until the answer   *)
(* that stored it comes, so a mark that is not marked as changed was       *)
(* recorded; what an answer is due for was recorded when it says so.       *)
(***************************************************************************)
DraftsAreTyped == \A s \in Class : drafts[s] \in {"none", typed[s]}

SettledIsRecorded ==
    \A s \in Class : typed[s] # "none" /\ drafts[s] \in {"none", saved[s]} => s \in recorded

StoredIsRecorded ==
    saving.pc = "answer" /\ saving.answer = "stored" => saving.row \in recorded

ClosedIsEmpty == ~SheetOpen => typed = NoMarks

PageInv ==
    SheetPageTypeOK /\ DraftsAreTyped /\ SettledIsRecorded /\ StoredIsRecorded /\ ClosedIsEmpty

LEMMA IdleSaveTyped == IdleSave \in Saving
<1>1. (CHOOSE s \in Class : TRUE) \in Class
  BY ScoreSheetPageAssumption
<1> QED
  BY <1>1 DEF IdleSave, Saving

LEMMA PageInit == SheetPageInit => PageInv
<1> SUFFICES ASSUME SheetPageInit PROVE PageInv
  OBVIOUS
<1>1. SheetPageTypeOK
  BY IdleSaveTyped DEF SheetPageInit, SheetPageTypeOK, NoMarks, Mark, SheetStatus
<1>2. DraftsAreTyped /\ SettledIsRecorded /\ StoredIsRecorded /\ ClosedIsEmpty
  BY DEF SheetPageInit, DraftsAreTyped, SettledIsRecorded, StoredIsRecorded, ClosedIsEmpty,
     SheetOpen, NoMarks, IdleSave
<1> QED
  BY <1>1, <1>2 DEF PageInv

LEMMA OpenKeepsPage == ASSUME PageInv, OpenSheetPage PROVE PageInv'
  BY DEF OpenSheetPage, dialog, PageInv, SheetPageTypeOK, DraftsAreTyped, SettledIsRecorded,
     StoredIsRecorded, ClosedIsEmpty, SheetOpen, NoMarks, Mark, SheetStatus

LEMMA LeaveKeepsPage == ASSUME PageInv, LeaveSheetPage PROVE PageInv'
  BY IdleSaveTyped DEF LeaveSheetPage, dialog, PageInv, SheetPageTypeOK, DraftsAreTyped, SettledIsRecorded,
     StoredIsRecorded, ClosedIsEmpty, SheetOpen, NoMarks, Mark, SheetStatus, IdleSave

LEMMA TypeKeepsPage == ASSUME PageInv, NEW s \in Class, NEW m \in Marks, TypeMark(s, m) PROVE PageInv'
  BY ScoreSheetPageAssumption DEF TypeMark, dialog, PageInv, SheetPageTypeOK, DraftsAreTyped,
     SettledIsRecorded, StoredIsRecorded, ClosedIsEmpty, SheetOpen, NoMarks, Mark

\* A save begins with the students whose drafts are valid.
LEMMA SaveKeepsPage == ASSUME PageInv, SaveDraft PROVE PageInv'
<1>1. saving' \in Saving /\ saving'.pc \in {"create", "row"}
  BY IdleSaveTyped DEF SaveDraft, dialog, IdleSave, Saving
<1> QED
  BY <1>1 DEF SaveDraft, dialog, PageInv, SheetPageTypeOK, DraftsAreTyped, SettledIsRecorded,
     StoredIsRecorded, ClosedIsEmpty, SheetOpen

LEMMA CreateKeepsPage == ASSUME PageInv, NEW lost \in BOOLEAN, CreateSheet(lost) PROVE PageInv'
<1>1. saving' \in Saving /\ saving'.pc \in {"idle", "row"}
  BY IdleSaveTyped DEF CreateSheet, dialog, IdleSave, Saving, PageInv, SheetPageTypeOK
<1>2. sheet' \in SheetStatus /\ result' \in SheetStatus \cup {"closed"}
  BY DEF CreateSheet, dialog, PageInv, SheetPageTypeOK, SheetStatus
<1>3. ~SheetOpen' => ~SheetOpen
  BY DEF CreateSheet, dialog, SheetOpen
<1> QED
  BY <1>1, <1>2, <1>3 DEF CreateSheet, dialog, PageInv, SheetPageTypeOK, DraftsAreTyped, SettledIsRecorded,
     StoredIsRecorded, ClosedIsEmpty

LEMMA SendKeepsPage == ASSUME PageInv, NEW s \in Class, SendRow(s) PROVE PageInv'
<1>1. saving' \in Saving
  BY DEF SendRow, dialog, Saving, PageInv, SheetPageTypeOK
<1>2. saving'.answer = "stored" => recorded' = recorded \cup {s} /\ saving'.row = s
  BY DEF SendRow, dialog, Saving, PageInv, SheetPageTypeOK
<1>3. marks' \in [Class -> Mark] /\ recorded \subseteq recorded' /\ recorded' \subseteq Class
  BY DEF SendRow, dialog, PageInv, SheetPageTypeOK
<1> QED
  BY <1>1, <1>2, <1>3 DEF SendRow, dialog, PageInv, SheetPageTypeOK, DraftsAreTyped, SettledIsRecorded,
     StoredIsRecorded, ClosedIsEmpty, SheetOpen

LEMMA AnswerKeepsPage == ASSUME PageInv, NEW lost \in BOOLEAN, RowAnswered(lost) PROVE PageInv'
<1>1. saving' \in Saving /\ saving'.pc \in {"idle", "row"}
  BY IdleSaveTyped DEF RowAnswered, dialog, AfterRow, IdleSave, Saving, PageInv, SheetPageTypeOK
<1>2. saving.row \in Class
  BY DEF Saving, PageInv, SheetPageTypeOK
<1>3. CASE saving.answer = "stored" /\ ~lost
  <2>1. saving.row \in recorded
    BY <1>3 DEF RowAnswered, dialog, PageInv, StoredIsRecorded
  <2>2. \A s \in Class \ {saving.row} : drafts'[s] = drafts[s] /\ saved'[s] = saved[s]
    BY <1>3 DEF RowAnswered, dialog, PageInv, SheetPageTypeOK
  <2>3. drafts'[saving.row] = "none" /\ saved' \in [Class -> Mark] /\ drafts' \in [Class -> Mark]
    BY <1>2, <1>3 DEF RowAnswered, dialog, PageInv, SheetPageTypeOK, Mark
  <2> QED
    BY <1>1, <2>1, <2>2, <2>3 DEF RowAnswered, dialog, PageInv, SheetPageTypeOK, DraftsAreTyped,
       SettledIsRecorded, StoredIsRecorded, ClosedIsEmpty, SheetOpen
<1>4. CASE ~(saving.answer = "stored" /\ ~lost)
  BY <1>1, <1>4 DEF RowAnswered, dialog, PageInv, SheetPageTypeOK, DraftsAreTyped, SettledIsRecorded,
     StoredIsRecorded, ClosedIsEmpty, SheetOpen
<1> QED
  BY <1>3, <1>4

\* Submitting, and what others do on the server, leave drafts and marks typed alone.
LEMMA OthersKeepPage ==
  ASSUME PageInv,
         \/ AskSubmit \/ CancelSubmit \/ SubmitSheet \/ ServerSubmits
         \/ OthersCreate \/ OthersMove
         \/ \E lost \in BOOLEAN : SubmitAnswered(lost)
         \/ \E s \in Class, m \in Marks : OthersRecord(s, m)
  PROVE  PageInv'
<1>1. UNCHANGED <<drafts, saved, saving, typed, recorded>>
  BY DEF AskSubmit, CancelSubmit, SubmitSheet, ServerSubmits, OthersCreate, OthersMove,
     SubmitAnswered, OthersRecord, dialog
<1>2. /\ sheet' \in SheetStatus /\ result' \in SheetStatus \cup {"closed"}
      /\ confirmSubmit' \in BOOLEAN /\ submitting' \in {"idle", "sent", "done", "refused"}
  BY DEF AskSubmit, CancelSubmit, SubmitSheet, ServerSubmits, OthersCreate, OthersMove,
     SubmitAnswered, OthersRecord, dialog,
     PageInv, SheetPageTypeOK, SheetStatus
<1>3. marks' \in [Class -> Mark]
  BY DEF AskSubmit, CancelSubmit, SubmitSheet, ServerSubmits, OthersCreate, OthersMove,
     SubmitAnswered, OthersRecord, dialog,
     PageInv, SheetPageTypeOK, Mark
<1>4. ~SheetOpen' => ~SheetOpen
  BY DEF AskSubmit, CancelSubmit, SubmitSheet, ServerSubmits, OthersCreate, OthersMove,
     SubmitAnswered, OthersRecord, SheetOpen
<1> QED
  BY <1>1, <1>2, <1>3, <1>4 DEF PageInv, SheetPageTypeOK, DraftsAreTyped, SettledIsRecorded,
     StoredIsRecorded, ClosedIsEmpty, NoMarks

LEMMA PageStep == PageInv /\ [SheetPageNext]_sheetPageVars => PageInv'
<1> SUFFICES ASSUME PageInv, [SheetPageNext]_sheetPageVars PROVE PageInv'
  OBVIOUS
<1>1. CASE UNCHANGED sheetPageVars
  BY <1>1 DEF sheetPageVars, dialog, PageInv, SheetPageTypeOK, DraftsAreTyped, SettledIsRecorded,
     StoredIsRecorded, ClosedIsEmpty, SheetOpen
<1>2. CASE SheetPageNext
  BY <1>2, OpenKeepsPage, LeaveKeepsPage, TypeKeepsPage, SaveKeepsPage, CreateKeepsPage,
     SendKeepsPage, AnswerKeepsPage, OthersKeepPage DEF SheetPageNext
<1> QED
  BY <1>1, <1>2

\* Whatever the class, the marks and the order of typing, saving, lost answers,
\* refusals and other people's work, no mark typed into the open page is lost
\* (ScoreSheetPage.tsx saveDraft), and the page and the server hold marks only.
THEOREM TypedMarksKept == SheetPageSpec => [](SheetPageTypeOK /\ TypedIsKept)
<1>1. PageInv => SheetPageTypeOK /\ TypedIsKept
  BY DEF PageInv, TypedIsKept, Dirty, DraftsAreTyped, SettledIsRecorded
<1> QED
  BY <1>1, PageInit, PageStep, PTL DEF SheetPageSpec

-----------------------------------------------------------------------------
(***************************************************************************)
(* Senate's board.  Sheets are ticked only among the rows on the screen,   *)
(* and nothing is ticked while rows are loaded or after they failed to.    *)
(***************************************************************************)
TickedIsShown ==
    /\ selected \subseteq worklist.rows
    /\ worklist.loading \/ worklist.error => selected = {}
    /\ ~worklist.loading /\ ~worklist.error => worklist.current

SenateInv == SenateBoardTypeOK /\ TickedIsShown /\ BatchIsWhatWasShown

LEMMA FirstPage == 1 \in 1..MaxPage
<1>1. MaxPage \in Nat /\ MaxPage # 0
  BY SenateBoardAssumption
<1> QED
  BY <1>1

LEMMA SenateInit == SenateBoardInit => SenateInv
<1> SUFFICES ASSUME SenateBoardInit PROVE SenateInv
  OBVIOUS
<1>1. view \in View /\ query \in Searches
  <2>1. "" \in FacultyIds /\ "" \in Searches
    BY SenateBoardAssumption DEF FacultyIds
  <2> QED
    BY <2>1, FirstPage DEF SenateBoardInit, NoView, View
<1>2. worklist \in Worklist /\ batch \in Batch
  BY DEF SenateBoardInit, Worklist, NoBatch, Batch
<1> QED
  BY <1>1, <1>2 DEF SenateBoardInit, SenateInv, SenateBoardTypeOK, TickedIsShown, BatchIsWhatWasShown,
     NoBatch

\* Turning to another view drops what was ticked.
LEMMA TurnKeepsBoard == ASSUME SenateInv, NEW v \in View, TurnTo(v) PROVE SenateInv'
<1>1. worklist' \in Worklist /\ worklist'.loading
  BY DEF TurnTo, Reloading, Worklist, SenateInv, SenateBoardTypeOK
<1> QED
  BY <1>1 DEF TurnTo, SenateInv, SenateBoardTypeOK, TickedIsShown, BatchIsWhatWasShown

LEMMA ViewsTurnTo ==
  ASSUME SenateInv,
         \/ \E f \in FacultyIds : SetFaculty(f)
         \/ \E d \in DOMAIN DepartmentFaculty \cup {""} : SetDepartment(d)
         \/ \E n \in 1..MaxPage : SetPage(n)
         \/ Debounce
  PROVE  \E v \in View : TurnTo(v)
<1>1. view \in View /\ query \in Searches /\ 1 \in 1..MaxPage
  BY FirstPage DEF SenateInv, SenateBoardTypeOK
<1>2. ASSUME NEW f \in FacultyIds, SetFaculty(f) PROVE \E v \in View : TurnTo(v)
  BY <1>1, <1>2 DEF SetFaculty, View
<1>3. ASSUME NEW d \in DOMAIN DepartmentFaculty \cup {""}, SetDepartment(d) PROVE \E v \in View : TurnTo(v)
  BY <1>1, <1>3 DEF SetDepartment, View
<1>4. ASSUME NEW n \in 1..MaxPage, SetPage(n) PROVE \E v \in View : TurnTo(v)
  BY <1>1, <1>4 DEF SetPage, View
<1>5. ASSUME Debounce PROVE \E v \in View : TurnTo(v)
  BY <1>1, <1>5 DEF Debounce, View
<1> QED
  BY <1>2, <1>3, <1>4, <1>5

LEMMA RowsKeepBoard ==
  ASSUME SenateInv, RowsFail \/ Retry \/ \E ids \in SUBSET Sheets : RowsArrive(ids)
  PROVE  SenateInv'
<1>1. ASSUME RowsFail PROVE SenateInv'
  BY <1>1 DEF RowsFail, SenateInv, SenateBoardTypeOK, Worklist, TickedIsShown, BatchIsWhatWasShown
<1>2. ASSUME Retry PROVE SenateInv'
  BY <1>2 DEF Retry, Reloading, SenateInv, SenateBoardTypeOK, Worklist, TickedIsShown, BatchIsWhatWasShown
<1>3. ASSUME NEW ids \in SUBSET Sheets, RowsArrive(ids) PROVE SenateInv'
  BY <1>3 DEF RowsArrive, SenateInv, SenateBoardTypeOK, Worklist, TickedIsShown, BatchIsWhatWasShown
<1> QED
  BY <1>1, <1>2, <1>3

LEMMA SelectKeepsBoard == ASSUME SenateInv, NEW ids \in SUBSET Sheets, Select(ids) PROVE SenateInv'
<1>1. ids # {} => RowsShown /\ ids \subseteq worklist.rows
  BY DEF Select, SenateInv, TickedIsShown
<1>2. RowsShown => ~worklist.loading /\ ~worklist.error
  BY DEF RowsShown
<1> QED
  BY <1>1, <1>2 DEF Select, SenateInv, SenateBoardTypeOK, TickedIsShown, BatchIsWhatWasShown

LEMMA RatifyKeepsBoard ==
  ASSUME SenateInv, DoRatify \/ ServerRatifies \/ \E lost \in BOOLEAN : RatifyAnswered(lost)
  PROVE  SenateInv'
<1>1. ASSUME DoRatify PROVE SenateInv'
  BY <1>1 DEF DoRatify, SelectedRows, SenateInv, SenateBoardTypeOK, Worklist, Batch, TickedIsShown, BatchIsWhatWasShown
<1>2. ASSUME ServerRatifies PROVE SenateInv'
  BY <1>2 DEF ServerRatifies, SenateInv, SenateBoardTypeOK, Batch, TickedIsShown, BatchIsWhatWasShown
<1>3. ASSUME NEW lost \in BOOLEAN, RatifyAnswered(lost) PROVE SenateInv'
  <2>1. NoBatch \in Batch /\ Reloading \in Worklist /\ Reloading.loading
    BY DEF NoBatch, Batch, Reloading, Worklist, SenateInv, SenateBoardTypeOK
  <2>2. \/ confirming' = FALSE /\ selected' = {} /\ worklist' = Reloading
        \/ UNCHANGED <<confirming, selected, worklist>>
    BY <1>3 DEF RatifyAnswered
  <2>3. SenateBoardTypeOK'
    BY <1>3, <2>1, <2>2 DEF RatifyAnswered, SenateInv, SenateBoardTypeOK
  <2>4. TickedIsShown'
    BY <2>1, <2>2 DEF SenateInv, TickedIsShown
  <2>5. BatchIsWhatWasShown'
    BY <1>3 DEF RatifyAnswered, NoBatch, SenateInv, BatchIsWhatWasShown
  <2> QED
    BY <2>3, <2>4, <2>5 DEF SenateInv
<1> QED
  BY <1>1, <1>2, <1>3

LEMMA RestKeepsBoard ==
  ASSUME SenateInv, \/ \E q \in Searches : TypeQuery(q)
                   \/ OpenConfirm \/ CancelConfirm
                   \/ \E s \in Sheets : OthersDecide(s)
  PROVE  SenateInv'
<1>1. UNCHANGED <<view, worklist, selected, batch, ratified>>
  BY DEF TypeQuery, OpenConfirm, CancelConfirm, OthersDecide
<1>2. awaiting' \subseteq Sheets /\ query' \in Searches /\ confirming' \in BOOLEAN
  BY DEF TypeQuery, OpenConfirm, CancelConfirm, OthersDecide, SenateInv, SenateBoardTypeOK
<1> QED
  BY <1>1, <1>2 DEF SenateInv, SenateBoardTypeOK, TickedIsShown, BatchIsWhatWasShown

LEMMA SenateStep == SenateInv /\ [SenateBoardNext]_senateBoardVars => SenateInv'
<1> SUFFICES ASSUME SenateInv, [SenateBoardNext]_senateBoardVars PROVE SenateInv'
  OBVIOUS
<1>1. CASE UNCHANGED senateBoardVars
  BY <1>1 DEF senateBoardVars, SenateInv, SenateBoardTypeOK, TickedIsShown, BatchIsWhatWasShown
<1>2. CASE SenateBoardNext
  BY <1>2, TurnKeepsBoard, ViewsTurnTo, RowsKeepBoard, SelectKeepsBoard, RatifyKeepsBoard,
     RestKeepsBoard DEF SenateBoardNext
<1> QED
  BY <1>1, <1>2

\* Whatever faculties, departments, sheets and searches there are, and whoever
\* else ratifies, a batch is the sheets its dialog named, loaded for the view on
\* the screen (SenateBoardPage.tsx doRatify).
THEOREM BatchesAreShown == SenateBoardSpec => [](SenateBoardTypeOK /\ BatchIsWhatWasShown)
<1>1. SenateInv => SenateBoardTypeOK /\ BatchIsWhatWasShown
  BY DEF SenateInv
<1> QED
  BY <1>1, SenateInit, SenateStep, PTL DEF SenateBoardSpec

-----------------------------------------------------------------------------
(***************************************************************************)
(* The records together.  A step of one component leaves the variables of  *)
(* the others alone, so each behaviour of the records is one of every      *)
(* component, and what was proved of the components holds side by side.    *)
(***************************************************************************)
LEMMA EachTakesTurns ==
  [RecordsNext]_recordsVars =>
     /\ [ProctoringNext]_proctoringVars /\ [GradingNext]_gradingVars
     /\ [AssessmentsNext]_assessmentVars /\ [ContentNext]_contentVars
     /\ [ReceiptsNext]_receiptsVars /\ [BoardNext]_boardVars
     /\ [SheetPageNext]_sheetPageVars /\ [SenateBoardNext]_senateBoardVars
     /\ [PapersNext]_papersVars
  BY Zenon DEF RecordsNext, recordsVars

LEMMA EachBegins ==
  RecordsInit => /\ ProctoringInit /\ GradingInit /\ AssessmentsInit /\ ContentInit
                 /\ ReceiptsInit /\ BoardInit /\ SheetPageInit /\ SenateBoardInit
                 /\ PapersInit
  BY Zenon DEF RecordsInit

LEMMA EachBehaves ==
  RecordsSpec => /\ ProctoringSpec /\ GradingSpec /\ AssessmentsSpec /\ ContentSpec
                 /\ ReceiptsSpec /\ BoardSpec /\ SheetPageSpec /\ SenateBoardSpec
                 /\ PapersSpec
  BY EachBegins, EachTakesTurns, PTL
     DEF RecordsSpec, ProctoringSpec, GradingSpec, AssessmentsSpec, ContentSpec,
         ReceiptsSpec, BoardSpec, SheetPageSpec, SenateBoardSpec, PapersSpec

\* Every table holds what its columns can and every screen what its state can,
\* for any number of users, rows and requests of each component.
THEOREM RecordsAreTyped == RecordsSpec => []RecordsTypeOK
<1>1. RecordsTypeOK <=>
         /\ ProctoringTypeOK /\ GradingTypeOK /\ AssessmentsTypeOK
         /\ ContentTypeOK /\ ReceiptsTypeOK /\ BoardTypeOK /\ SheetPageTypeOK
         /\ SenateBoardTypeOK /\ PapersTypeOK
  BY DEF RecordsTypeOK
<1> QED
  BY <1>1, EachBehaves, SignalsAreNoticed, StandingsAreTrue, AssessmentsAreTyped,
     ContentIsTyped, ReceiptsAreTyped, BoardIsTyped, TypedMarksKept, BatchesAreShown,
     PapersTyped, PTL
=============================================================================
