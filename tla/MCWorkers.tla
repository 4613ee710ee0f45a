------------------------------ MODULE MCWorkers ------------------------------
(***************************************************************************)
(* What the workers of src/backend do behind the requests, for TLC: the    *)
(* delivery of notifications, the cached result summaries, and the jobs    *)
(* users poll; and beside the imports of users, the enrolments and         *)
(* assignments, by form or by file, of users who are there.  The four      *)
(* share no row that one of them writes and call nothing of each other, so *)
(* a behaviour keeps to the scene it begins with.                          *)
(***************************************************************************)
EXTENDS Delivery, ResultCheck, Jobs, Registry, TLC

CONSTANTS k1, k2, f1, f2, s1, s2, p1, c1, c2, i1, i2, x1, q1, q2

\* Two uploads that share a matriculation number, each with rows to refuse.
MCRow(email, matric, valid) == [email |-> email, matric |-> matric, valid |-> valid]

MCFile ==
    i1 :> <<MCRow("a", "m", TRUE), MCRow("b", "n", TRUE), MCRow("c", "n", TRUE)>>
    @@ i2 :> <<MCRow("d", "m", TRUE), MCRow("b", "o", TRUE), MCRow("c", "p", FALSE)>>

\* Registry: a user of every role, with a department or a faculty and without.
MCUser(role, department, faculty) == [role |-> role, department |-> department, faculty |-> faculty]

MCAccount ==
    [ada |-> MCUser("student", "math", "none"), rep |-> MCUser("course_rep", "math", "none"),
     lec |-> MCUser("lecturer", "math", "none"),
     hod |-> MCUser("hod", "math", "none"), nohod |-> MCUser("hod", "none", "none"),
     dean |-> MCUser("dean", "none", "arts"), nodean |-> MCUser("dean", "none", "none"),
     admin |-> MCUser("school_admin", "none", "none"),
     senate |-> MCUser("senate_admin", "none", "none"),
     officer |-> MCUser("exam_officer", "none", "none"),
     adviser |-> MCUser("course_adviser", "math", "none"),
     root |-> MCUser("super_admin", "none", "none")]

MCCourseUnits == [alg |-> 3, tort |-> 3, deed |-> 2]

MCDepartmentOf == [alg |-> "math", tort |-> "law", deed |-> "law"]

MCFacultyOf == [math |-> "science", law |-> "arts"]

VARIABLE scene

workersVars == <<scene, deliveryVars, checkVars, jobsVars, registryVars>>

WorkersInit ==
    /\ scene \in {"delivery", "summaries", "jobs", "registry"}
    /\ DeliveryInit /\ ResultCheckInit /\ JobsInit /\ RegistryInit

WorkersNext ==
    /\ UNCHANGED scene
    /\ \/ scene = "delivery" /\ DeliveryNext /\ UNCHANGED <<checkVars, jobsVars, registryVars>>
       \/ scene = "summaries" /\ ResultCheckNext /\ UNCHANGED <<deliveryVars, jobsVars, registryVars>>
       \/ scene = "jobs" /\ JobsNext /\ UNCHANGED <<deliveryVars, checkVars, registryVars>>
       \/ scene = "registry" /\ RegistryNext /\ UNCHANGED <<deliveryVars, checkVars, jobsVars>>

\* Workers go on with what they took, requests with what they began, and the
\* cache drops an entry when its time is over.  No one need begin anything.
WorkersFairness ==
    /\ \A f \in Fanouts : WF_workersVars(
          scene = "delivery" /\ FanoutStep(f) /\ UNCHANGED <<scene, checkVars, jobsVars, registryVars>>)
    /\ \A s \in Senders : WF_workersVars(
          scene = "delivery" /\ DeliverStep(s) /\ UNCHANGED <<scene, checkVars, jobsVars, registryVars>>)
    /\ \A p \in Pupils : WF_workersVars(
          scene = "summaries" /\ Expire(p) /\ UNCHANGED <<scene, deliveryVars, jobsVars, registryVars>>)
    /\ \A c \in Checks : WF_workersVars(
          scene = "summaries" /\ CheckStep(c) /\ UNCHANGED <<scene, deliveryVars, jobsVars, registryVars>>)
    /\ \A j \in Imports \cup Exports : WF_workersVars(
          scene = "jobs" /\ WorkStep(j) /\ UNCHANGED <<scene, deliveryVars, checkVars, registryVars>>)

WorkersSpec == WorkersInit /\ [][WorkersNext]_workersVars /\ WorkersFairness
=============================================================================
