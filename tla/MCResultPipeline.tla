-------------------------- MODULE MCResultPipeline --------------------------
(***************************************************************************)
(* Instances of ResultPipeline for TLC.  One lecturer, one HOD, one dean   *)
(* and one senate administrator are in scope of the sheets; a second HOD   *)
(* and a dean without a faculty are not.                                   *)
(***************************************************************************)
EXTENDS ResultRefinement

CONSTANTS lec, hod, otherHod, dean, strayDean, senate, admin,
          s1, s2, st1, st2, low, high, absurd, cs, maths, science

\* Everyone: the run over the whole life of a sheet.
MCActors == {lec, hod, otherHod, dean, strayDean, senate, admin}

\* The four offices of the chain alone.
MCOffices == {lec, hod, dean, senate}

MCRoleOf == [a \in Actors |->
    CASE a = lec -> "lecturer"
      [] a \in {hod, otherHod} -> "hod"
      [] a \in {dean, strayDean} -> "dean"
      [] a = senate -> "senate_admin"
      [] a = admin -> "school_admin"]

MCDepartmentOf == [a \in Actors |->
    CASE a \in {lec, hod} -> cs [] a = otherHod -> maths [] OTHER -> None]

MCFacultyOf == [a \in Actors |-> IF a = dean THEN science ELSE None]

MCCourseDepartment == [s \in Sheets |-> cs]

MCDepartmentFaculty == [d \in Departments |-> science]

-----------------------------------------------------------------------------
\* The state in which every sheet has just been ratified with the lowest mark
\* for every student, one row each: where the life of an amendment begins.
StudentList == CHOOSE f \in [1..Cardinality(Students) -> Students] :
                  \A i, j \in DOMAIN f : f[i] = f[j] => i = j

RatifiedTrail ==
    <<Entry(lec, "result_created", 0, None, "draft")>>
    \o [i \in DOMAIN StudentList |-> Entry(lec, "score_added", i, None, low)]
    \o <<Entry(lec, "status_changed", 0, "draft", "submitted_to_hod"),
         Entry(hod, "status_changed", 0, "submitted_to_hod", "approved_by_hod"),
         Entry(dean, "status_changed", 0, "approved_by_hod", "approved_by_dean"),
         Entry(senate, "status_changed", 0, "approved_by_dean", "ratified_by_senate")>>

RatifiedInit ==
    /\ status = [s \in Sheets |-> "ratified_by_senate"]
    /\ lecturer = [s \in Sheets |-> lec]
    /\ rows = [s \in Sheets |-> [i \in DOMAIN StudentList |->
                  [student |-> StudentList[i], score |-> low,
                   is_current |-> TRUE, supersedes |-> 0]]]
    /\ amendments = [s \in Sheets |-> <<>>]
    /\ audit = [s \in Sheets |-> RatifiedTrail]
    /\ notices = [s \in Sheets |-> <<"result_published">>]
    /\ enrolled = Students \X Sheets
    /\ assigned = {lec} \X Sheets

\* The registry at rest: nothing an amendment reads is in it.
AmendmentSpec == RatifiedInit /\ [][Next /\ UNCHANGED registryVars]_vars
=============================================================================
