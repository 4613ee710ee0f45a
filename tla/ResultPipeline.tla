--------------------------- MODULE ResultPipeline ---------------------------
(***************************************************************************)
(* The results approval pipeline of src/backend/results: result sheets     *)
(* (CourseResult), their score rows (StudentScore), the amendments raised  *)
(* against ratified sheets (ResultAmendment), the audit trail              *)
(* (ResultAuditLog) and the notification tasks handed to the broker when a *)
(* transition commits.                                                     *)
(*                                                                         *)
(* Every request runs in one database transaction whose first statement    *)
(* locks the sheet (or the amendment joined to its sheet) FOR UPDATE, so   *)
(* a committed request is one action; a refused request rolls back and is  *)
(* a stuttering step.  One institution is modelled: every query is scoped  *)
(* to the actor's institution.                                             *)
(*                                                                         *)
(* Rows, amendments and audit entries carry a foreign key to their sheet   *)
(* that is set at creation and never updated: each is a sequence per       *)
(* sheet, and a row's identity is its position.                            *)
(***************************************************************************)
EXTENDS Naturals, Sequences, FiniteSets

CONSTANTS
    Sheets,             \* course terms that can have a CourseResult
    Students,
    Actors,             \* users who hold a role in the pipeline
    Scores,             \* (CA, exam) mark pairs a client may send
    ValidScores,        \* those within the course's CA and exam weights
    Departments,
    Faculties,
    RoleOf,             \* User.role
    DepartmentOf,       \* User.department, or None
    FacultyOf,          \* User.faculty, or None
    CourseDepartment,   \* CourseResult.course.department
    DepartmentFaculty,  \* Department.faculty
    None,               \* a SQL NULL
    MaxRows,            \* bound: score rows per sheet
    MaxAmendments,      \* bound: amendments per sheet
    MaxBatch,           \* bound: ids in one batch ratification
    MaxAudit            \* bound: audit entries per sheet

ResultStatus == {"draft", "submitted_to_hod", "approved_by_hod",
                 "approved_by_dean", "ratified_by_senate", "returned"}

AmendmentStatus == {"pending_hod", "approved_by_hod", "approved_by_dean",
                    "applied", "returned"}

Role == {"lecturer", "hod", "dean", "senate_admin", "school_admin"}

ASSUME RegistryAssumption ==
    /\ ValidScores \subseteq Scores
    /\ RoleOf \in [Actors -> Role]
    /\ DepartmentOf \in [Actors -> Departments \cup {None}]
    /\ FacultyOf \in [Actors -> Faculties \cup {None}]
    /\ CourseDepartment \in [Sheets -> Departments]
    /\ DepartmentFaculty \in [Departments -> Faculties]

ASSUME NoneAssumption ==
    None \notin Actors \cup Scores \cup Departments \cup Faculties
                \cup ResultStatus \cup AmendmentStatus

\* A mark is data, never one of the status words the audit trail also holds.
ASSUME MarkAssumption == Scores \cap (ResultStatus \cup AmendmentStatus) = {}

ASSUME BoundAssumption == /\ MaxRows \in Nat
                          /\ MaxAmendments \in Nat
                          /\ MaxBatch \in Nat
                          /\ MaxAudit \in Nat

VARIABLES
    status,      \* CourseResult.status of each sheet, None before creation
    lecturer,    \* CourseResult.lecturer
    rows,        \* the sheet's StudentScore rows, oldest first
    amendments,  \* the sheet's ResultAmendment rows, oldest first
    audit,       \* the sheet's ResultAuditLog entries, oldest first
    notices,     \* the sheet's notification tasks the broker has accepted
    enrolled,    \* Enrolment: <<student, sheet>> pairs
    assigned     \* CourseAssignment: <<lecturer, sheet>> pairs

sheetVars == <<status, lecturer, rows, amendments, audit, notices>>
registryVars == <<enrolled, assigned>>
vars == <<status, lecturer, rows, amendments, audit, notices, enrolled, assigned>>

LECTURER_EDITABLE_STATUSES == {"draft", "returned"}

AuditAction == {"result_created", "score_added", "score_changed",
                "score_superseded", "status_changed", "amendment_status_changed"}

AuditValue == {None} \cup ResultStatus \cup AmendmentStatus \cup ValidScores

StudentScore == [student : Students, score : ValidScores,
                 is_current : BOOLEAN, supersedes : Nat]

ResultAmendment == [student : Students, original_score : Nat, proposed : ValidScores,
                    status : AmendmentStatus, applied_score : Nat]

\* ref is the row or the amendment the entry is about, 0 when it has none.
ResultAuditLog == [action : AuditAction, actor : Actors, ref : Nat,
                   before : AuditValue, after : AuditValue]

\* Among the types: every mark stored, proposed or logged lies within the
\* course's CA and exam weights, whatever the client sent (the range checks of
\* services.record_score and raise_amendment).
TypeOK ==
    /\ status \in [Sheets -> ResultStatus \cup {None}]
    /\ lecturer \in [Sheets -> Actors \cup {None}]
    /\ rows \in [Sheets -> Seq(StudentScore)]
    /\ amendments \in [Sheets -> Seq(ResultAmendment)]
    /\ audit \in [Sheets -> Seq(ResultAuditLog)]
    /\ notices \in [Sheets -> Seq({"result_returned", "result_published"})]
    /\ enrolled \subseteq Students \X Sheets
    /\ assigned \subseteq Actors \X Sheets

-----------------------------------------------------------------------------
(***************************************************************************)
(* Scopes, the transition tables and the rows a request reads.             *)
(***************************************************************************)

OwnsResult(a, s) == lecturer[s] = a

HodScope(a, s) == /\ DepartmentOf[a] # None
                  /\ DepartmentOf[a] = CourseDepartment[s]

DeanScope(a, s) == /\ FacultyOf[a] # None
                   /\ FacultyOf[a] = DepartmentFaculty[CourseDepartment[s]]

\* The scope check the tables pair with the acting role.
InScope(a, s) == \/ RoleOf[a] = "lecturer" /\ OwnsResult(a, s)
                 \/ RoleOf[a] = "hod" /\ HodScope(a, s)
                 \/ RoleOf[a] = "dean" /\ DeanScope(a, s)
                 \/ RoleOf[a] = "senate_admin"

\* Mutant: Senate may reopen what it ratified.
TransitionsReopening ==
    { <<"draft", "submitted_to_hod", "lecturer">>,
      <<"submitted_to_hod", "approved_by_hod", "hod">>,
      <<"approved_by_hod", "approved_by_dean", "dean">>,
      <<"approved_by_dean", "ratified_by_senate", "senate_admin">>,
      <<"ratified_by_senate", "returned", "senate_admin">> }

\* <<from, to, role>>; a move that is not listed is refused.
TRANSITIONS ==
    { <<"draft", "submitted_to_hod", "lecturer">>,
      <<"returned", "submitted_to_hod", "lecturer">>,
      <<"submitted_to_hod", "approved_by_hod", "hod">>,
      <<"submitted_to_hod", "returned", "hod">>,
      <<"approved_by_hod", "approved_by_dean", "dean">>,
      <<"approved_by_hod", "returned", "dean">>,
      <<"approved_by_dean", "ratified_by_senate", "senate_admin">>,
      <<"approved_by_dean", "returned", "senate_admin">> }

\* Mutant: Senate applies what the Dean has not seen.
AmendmentsSkippingDean ==
    { <<"pending_hod", "approved_by_hod", "hod">>,
      <<"approved_by_hod", "applied", "senate_admin">> }

AMENDMENT_TRANSITIONS ==
    { <<"pending_hod", "approved_by_hod", "hod">>,
      <<"pending_hod", "returned", "hod">>,
      <<"approved_by_hod", "approved_by_dean", "dean">>,
      <<"approved_by_hod", "returned", "dean">>,
      <<"approved_by_dean", "applied", "senate_admin">>,
      <<"approved_by_dean", "returned", "senate_admin">> }

CanRaiseAmendment(a, s) == InScope(a, s) \/ RoleOf[a] = "school_admin"

LecturerCanAccessCourse(a, s) == RoleOf[a] = "lecturer" /\ <<a, s>> \in assigned

CurrentRows(s) == {i \in DOMAIN rows[s] : rows[s][i].is_current}

\* Mutant: the student filter is forgotten.
CurrentRowsOfAnyone(s, st) == CurrentRows(s)

CurrentRowsOf(s, st) == {i \in CurrentRows(s) : rows[s][i].student = st}

\* The partial unique index uniq_current_score_per_student, evaluated on the
\* rows a statement would leave behind.
UniqueCurrentScore(rs) ==
    \A i, j \in DOMAIN rs : /\ rs[i].is_current
                            /\ rs[j].is_current
                            /\ rs[i].student = rs[j].student
                            => i = j

Entry(a, action, ref, before, after) ==
    [action |-> action, actor |-> a, ref |-> ref, before |-> before, after |-> after]

Log(s, entries) ==
    /\ Len(audit[s]) + Len(entries) <= MaxAudit
    /\ audit' = [audit EXCEPT ![s] = @ \o entries]

-----------------------------------------------------------------------------
(***************************************************************************)
(* Entering scores.                                                        *)
(***************************************************************************)

CreateDraftResult(a, s) ==
    /\ LecturerCanAccessCourse(a, s)
    /\ status[s] = None                \* uniq_result_per_course_term
    /\ status' = [status EXCEPT ![s] = "draft"]
    /\ lecturer' = [lecturer EXCEPT ![s] = a]
    /\ Log(s, <<Entry(a, "result_created", 0, None, "draft")>>)
    /\ UNCHANGED <<rows, amendments, notices, registryVars>>

\* Mutant: a sheet in review still takes marks.
MayRecordInReview(a, s, st, score) ==
    /\ status[s] # "ratified_by_senate"
    /\ OwnsResult(a, s)
    /\ score \in ValidScores

\* Mutant: marks are not checked against the course weights.
MayRecordUnranged(a, s, st, score) ==
    /\ status[s] \in LECTURER_EDITABLE_STATUSES
    /\ OwnsResult(a, s)

\* The guards every score entry passes under the sheet's row lock.
MayRecord(a, s, st, score) ==
    /\ status[s] \in LECTURER_EDITABLE_STATUSES
    /\ OwnsResult(a, s)
    /\ LecturerCanAccessCourse(a, s)
    /\ <<st, s>> \in enrolled
    /\ score \in ValidScores

AddScore(a, s, st, score) ==
    /\ MayRecord(a, s, st, score)
    /\ CurrentRowsOf(s, st) = {}
    /\ Len(rows[s]) < MaxRows
    /\ rows' = [rows EXCEPT ![s] = Append(@, [student |-> st, score |-> score,
                                    is_current |-> TRUE, supersedes |-> 0])]
    /\ Log(s, <<Entry(a, "score_added", Len(rows[s]) + 1, None, score)>>)
    /\ UNCHANGED <<status, lecturer, amendments, notices, registryVars>>

\* Mutant: a correction leaves no audit entry.
ChangeScoreUnlogged(a, s, st, score) ==
    /\ MayRecord(a, s, st, score)
    /\ \E i \in CurrentRowsOf(s, st) : rows' = [rows EXCEPT ![s][i].score = score]
    /\ UNCHANGED <<status, lecturer, amendments, audit, notices, registryVars>>

ChangeScore(a, s, st, score) ==
    /\ MayRecord(a, s, st, score)
    /\ \E i \in CurrentRowsOf(s, st) :
          /\ rows' = [rows EXCEPT ![s][i].score = score]
          /\ Log(s, <<Entry(a, "score_changed", i, rows[s][i].score, score)>>)
    /\ UNCHANGED <<status, lecturer, amendments, notices, registryVars>>

RecordScore(a, s, st, score) ==
    AddScore(a, s, st, score) \/ ChangeScore(a, s, st, score)

-----------------------------------------------------------------------------
(***************************************************************************)
(* Moving a sheet.  A return carries a non-blank reason, which is not      *)
(* represented.                                                            *)
(***************************************************************************)

\* Mutant: an empty sheet can be submitted.
MayTransitionEmpty(a, s, to) ==
    /\ <<status[s], to, RoleOf[a]>> \in TRANSITIONS
    /\ InScope(a, s)

MayTransition(a, s, to) ==
    /\ <<status[s], to, RoleOf[a]>> \in TRANSITIONS
    /\ InScope(a, s)
    /\ to = "submitted_to_hod" => CurrentRows(s) # {}

\* Tasks are handed to the broker after the commit, one per sheet in turn; a
\* refused hand-over raises and drops it and every later one.
Notify(ids, accepted, kind) ==
    notices' = [s \in Sheets |->
                  IF \E k \in 1..accepted : ids[k] = s
                  THEN Append(notices[s], kind)
                  ELSE notices[s]]

Transition(a, s, to) ==
    /\ MayTransition(a, s, to)
    /\ status' = [status EXCEPT ![s] = to]
    /\ Log(s, <<Entry(a, "status_changed", 0, status[s], to)>>)
    /\ \/ /\ to = "returned"
          /\ \E accepted \in 0..1 : Notify(<<s>>, accepted, "result_returned")
       \/ /\ to = "ratified_by_senate"
          /\ \E accepted \in 0..1 : Notify(<<s>>, accepted, "result_published")
       \/ /\ to \notin {"returned", "ratified_by_senate"}
          /\ UNCHANGED notices
    /\ UNCHANGED <<lecturer, rows, amendments, registryVars>>

\* Every id passes the guarded transition; a repeated id meets its own
\* uncommitted ratification and is refused.
MayRatifyAll(a, ids) ==
    /\ \A j, k \in DOMAIN ids : ids[j] = ids[k] => j = k
    /\ \A k \in DOMAIN ids : MayTransition(a, ids[k], "ratified_by_senate")

\* Mutant: tasks are handed over inside the transaction, so the ids before the
\* one that rolls the batch back are announced.
BatchRatifyEager(a, ids) ==
    /\ ~MayRatifyAll(a, ids)
    /\ MayTransition(a, ids[1], "ratified_by_senate")
    /\ Notify(ids, 1, "result_published")
    /\ UNCHANGED <<status, lecturer, rows, amendments, audit, registryVars>>

\* One transaction over the ids in the order the client sent them.
BatchRatify(a, ids) ==
    LET batch == {ids[k] : k \in DOMAIN ids}
        ratification(s) == Entry(a, "status_changed", 0, status[s], "ratified_by_senate")
    IN
    /\ MayRatifyAll(a, ids)
    /\ \A s \in batch : Len(audit[s]) < MaxAudit
    /\ status' = [s \in Sheets |-> IF s \in batch THEN "ratified_by_senate" ELSE status[s]]
    /\ audit' = [s \in Sheets |-> IF s \in batch THEN Append(audit[s], ratification(s))
                                                 ELSE audit[s]]
    /\ \E accepted \in 0..Len(ids) : Notify(ids, accepted, "result_published")
    /\ UNCHANGED <<lecturer, rows, amendments, registryVars>>

-----------------------------------------------------------------------------
(***************************************************************************)
(* Correcting a ratified sheet.                                            *)
(***************************************************************************)

RaiseAmendment(a, s, st, proposed) ==
    /\ status[s] = "ratified_by_senate"
    /\ CanRaiseAmendment(a, s)
    /\ proposed \in ValidScores
    /\ Len(amendments[s]) < MaxAmendments
    /\ \E i \in CurrentRowsOf(s, st) :
          amendments' = [amendments EXCEPT ![s] =
              Append(@, [student |-> st, original_score |-> i, proposed |-> proposed,
                         status |-> "pending_hod", applied_score |-> 0])]
    /\ Log(s, <<Entry(a, "amendment_status_changed", Len(amendments[s]) + 1,
                      None, "pending_hod")>>)
    /\ UNCHANGED <<status, lecturer, rows, notices, registryVars>>

MayMoveAmendment(a, s, m, to) ==
    /\ <<amendments[s][m].status, to, RoleOf[a]>> \in AMENDMENT_TRANSITIONS
    /\ InScope(a, s)

MoveEntry(a, s, m, to) ==
    Entry(a, "amendment_status_changed", m, amendments[s][m].status, to)

\* Approval short of the last, or return, of amendment m.
MoveAmendment(a, s, m, to) ==
    /\ MayMoveAmendment(a, s, m, to)
    /\ to # "applied"
    /\ amendments' = [amendments EXCEPT ![s][m].status = to]
    /\ Log(s, <<MoveEntry(a, s, m, to)>>)
    /\ UNCHANGED <<status, lecturer, rows, notices, registryVars>>

\* Mutant: the new row does not point at the row it replaces.
SupersededUnlinked(rs, i, score) ==
    Append([rs EXCEPT ![i].is_current = FALSE],
           [student |-> rs[i].student, score |-> score,
            is_current |-> TRUE, supersedes |-> 0])

\* Mutant: the replaced row loses its mark.
SupersededInPlace(rs, i, score) ==
    Append([rs EXCEPT ![i].is_current = FALSE, ![i].score = score],
           [student |-> rs[i].student, score |-> score,
            is_current |-> TRUE, supersedes |-> i])

\* The rows once row i is retired in favour of one holding score.
Superseded(rs, i, score) ==
    Append([rs EXCEPT ![i].is_current = FALSE],
           [student |-> rs[i].student, score |-> score,
            is_current |-> TRUE, supersedes |-> i])

\* The last approval supersedes the row that is current now, whichever row the
\* amendment was raised against.
ApplyAmendment(a, s, m) ==
    LET st == amendments[s][m].student
        score == amendments[s][m].proposed
        new == Len(rows[s]) + 1
    IN
    /\ MayMoveAmendment(a, s, m, "applied")
    /\ Len(rows[s]) < MaxRows
    /\ \E i \in CurrentRowsOf(s, st) :
          /\ UniqueCurrentScore(Superseded(rows[s], i, score))
          /\ rows' = [rows EXCEPT ![s] = Superseded(@, i, score)]
          /\ Log(s, <<Entry(a, "score_superseded", new, rows[s][i].score, score),
                      MoveEntry(a, s, m, "applied")>>)
    /\ amendments' = [amendments EXCEPT ![s][m] =
                         [@ EXCEPT !.status = "applied", !.applied_score = new]]
    /\ UNCHANGED <<status, lecturer, notices, registryVars>>

AmendmentTransition(a, s, m, to) ==
    MoveAmendment(a, s, m, to) \/ (to = "applied" /\ ApplyAmendment(a, s, m))

-----------------------------------------------------------------------------
(***************************************************************************)
(* The registry the pipeline consults without locking it: the school admin *)
(* enrols and drops students, the HOD assigns and unassigns lecturers, at  *)
(* any stage of the sheet.                                                 *)
(***************************************************************************)

ChangeEnrolment(st, s) ==
    /\ \/ enrolled' = enrolled \cup {<<st, s>>}
       \/ enrolled' = enrolled \ {<<st, s>>}
    /\ UNCHANGED <<sheetVars, assigned>>

ChangeAssignment(a, s) ==
    /\ RoleOf[a] = "lecturer"
    /\ \/ assigned' = assigned \cup {<<a, s>>}
       \/ assigned' = assigned \ {<<a, s>>}
    /\ UNCHANGED <<sheetVars, enrolled>>

Init ==
    /\ status = [s \in Sheets |-> None]
    /\ lecturer = [s \in Sheets |-> None]
    /\ rows = [s \in Sheets |-> <<>>]
    /\ amendments = [s \in Sheets |-> <<>>]
    /\ audit = [s \in Sheets |-> <<>>]
    /\ notices = [s \in Sheets |-> <<>>]
    /\ enrolled \in SUBSET (Students \X Sheets)
    /\ assigned \in SUBSET ({a \in Actors : RoleOf[a] = "lecturer"} \X Sheets)

\* Ids reach the batch endpoint in any order, possibly repeated.
Batches == UNION {[1..n -> Sheets] : n \in 1..MaxBatch}

Next ==
    \/ \E a \in Actors, s \in Sheets : CreateDraftResult(a, s)
    \/ \E a \in Actors, s \in Sheets, st \in Students, v \in Scores : RecordScore(a, s, st, v)
    \/ \E a \in Actors, s \in Sheets, to \in ResultStatus : Transition(a, s, to)
    \/ \E a \in Actors, ids \in Batches : BatchRatify(a, ids)
    \/ \E a \in Actors, s \in Sheets, st \in Students, v \in Scores : RaiseAmendment(a, s, st, v)
    \/ \E a \in Actors, s \in Sheets : \E m \in DOMAIN amendments[s], to \in AmendmentStatus :
          AmendmentTransition(a, s, m, to)
    \/ \E st \in Students, s \in Sheets : ChangeEnrolment(st, s)
    \/ \E a \in Actors, s \in Sheets : ChangeAssignment(a, s)

Spec == Init /\ [][Next]_vars

-----------------------------------------------------------------------------
(***************************************************************************)
(* What the pipeline promises.                                             *)
(***************************************************************************)

LatestIn(S, k) == k \in S /\ \A j \in S : j <= k

ConsecutiveIn(S, j, k) == /\ j \in S
                          /\ k \in S
                          /\ j < k
                          /\ \A i \in S : i <= j \/ k <= i

EntriesWith(s, actions) == {k \in DOMAIN audit[s] : audit[s][k].action \in actions}

EntriesOn(s, actions, ref) == {k \in EntriesWith(s, actions) : audit[s][k].ref = ref}

StatusEntries(s) == EntriesWith(s, {"result_created", "status_changed"})

RowEntries(s, i) ==
    EntriesOn(s, {"score_added", "score_changed", "score_superseded"}, i)

AmendmentEntries(s, m) == EntriesOn(s, {"amendment_status_changed"}, m)

\* Each superseding row replaces an earlier row of the same student, no row is
\* replaced twice, and a row is superseded exactly when it is not current.
ScoreChain(rs) ==
    /\ UniqueCurrentScore(rs)
    /\ \A i \in DOMAIN rs : rs[i].supersedes # 0 =>
          /\ rs[i].supersedes \in 1..(i - 1)
          /\ rs[rs[i].supersedes].student = rs[i].student
          /\ ~rs[rs[i].supersedes].is_current
    /\ \A i, j \in DOMAIN rs :
          rs[i].supersedes # 0 /\ rs[i].supersedes = rs[j].supersedes => i = j
    /\ \A i \in DOMAIN rs : ~rs[i].is_current =>
          \E j \in DOMAIN rs : rs[j].supersedes = i

\* A student's rows on a sheet form one chain that ends in the single current
\* row: no correction forks the history or drops a student from it
\* (services.record_score, _apply_amendment).
ScoreHistory == \A s \in Sheets : ScoreChain(rows[s])

\* The audit trail accounts for the present: the last entry about the sheet,
\* about each row and about each amendment holds the value the table holds,
\* and each status entry starts where the previous one ended (services._log
\* in every transaction).
AuditAccounts ==
    \A s \in Sheets :
       /\ status[s] # None => StatusEntries(s) # {}
       /\ \A k \in StatusEntries(s) :
             /\ LatestIn(StatusEntries(s), k) => audit[s][k].after = status[s]
             /\ \A j \in StatusEntries(s) :
                   ConsecutiveIn(StatusEntries(s), j, k) => audit[s][k].before = audit[s][j].after
       /\ \A i \in DOMAIN rows[s] : \E k \in RowEntries(s, i) :
             /\ LatestIn(RowEntries(s, i), k)
             /\ audit[s][k].after = rows[s][i].score
       /\ \A m \in DOMAIN amendments[s] : \E k \in AmendmentEntries(s, m) :
             /\ LatestIn(AmendmentEntries(s, m), k)
             /\ audit[s][k].after = amendments[s][m].status

\* A sheet Senate ratified is the sheet its lecturer submitted: the trail ends
\* its status entries with the submission and three approvals, each by an
\* office holder in scope, and no mark was entered since the submission.
RatifiedWasExamined ==
    \A s \in Sheets : status[s] = "ratified_by_senate" =>
       \E i, j, k, l \in StatusEntries(s) :
          /\ ConsecutiveIn(StatusEntries(s), i, j)
          /\ ConsecutiveIn(StatusEntries(s), j, k)
          /\ ConsecutiveIn(StatusEntries(s), k, l)
          /\ LatestIn(StatusEntries(s), l)
          /\ audit[s][i].after = "submitted_to_hod" /\ audit[s][i].actor = lecturer[s]
          /\ audit[s][j].after = "approved_by_hod" /\ RoleOf[audit[s][j].actor] = "hod"
          /\ audit[s][k].after = "approved_by_dean" /\ RoleOf[audit[s][k].actor] = "dean"
          /\ RoleOf[audit[s][l].actor] = "senate_admin"
          /\ HodScope(audit[s][j].actor, s) /\ DeanScope(audit[s][k].actor, s)
          /\ \A n \in EntriesWith(s, {"score_added", "score_changed"}) : n < i

\* Amendments exist on ratified sheets only, and superseding rows and applied
\* amendments match one to one: the row holds the proposed mark for the
\* amendment's student (services.raise_amendment, _apply_amendment).
SupersededByAmendment ==
    \A s \in Sheets :
       /\ amendments[s] # <<>> => status[s] = "ratified_by_senate"
       /\ \A m \in DOMAIN amendments[s] :
             LET am == amendments[s][m]
             IN  IF am.status = "applied"
                 THEN /\ am.applied_score \in DOMAIN rows[s]
                      /\ rows[s][am.applied_score].supersedes # 0
                      /\ rows[s][am.applied_score].student = am.student
                      /\ rows[s][am.applied_score].score = am.proposed
                 ELSE am.applied_score = 0
       /\ \A i \in DOMAIN rows[s] : rows[s][i].supersedes # 0 =>
             \E m \in DOMAIN amendments[s] :
                /\ amendments[s][m].applied_score = i
                /\ \A n \in DOMAIN amendments[s] : amendments[s][n].applied_score = i => n = m

\* An applied amendment went through HOD, Dean and Senate, in that order and
\* each in scope, and nothing else happened to it.
AmendmentWasExamined ==
    \A s \in Sheets : \A m \in DOMAIN amendments[s] : amendments[s][m].status = "applied" =>
       \E i, j, k, l \in AmendmentEntries(s, m) :
          /\ i < j /\ j < k /\ k < l
          /\ AmendmentEntries(s, m) = {i, j, k, l}
          /\ audit[s][i].before = None
          /\ RoleOf[audit[s][j].actor] = "hod" /\ HodScope(audit[s][j].actor, s)
          /\ RoleOf[audit[s][k].actor] = "dean" /\ DeanScope(audit[s][k].actor, s)
          /\ RoleOf[audit[s][l].actor] = "senate_admin"

NoticesOf(s, kind) == {k \in DOMAIN notices[s] : notices[s][k] = kind}

StatusEntriesTo(s, to) == {k \in StatusEntries(s) : audit[s][k].after = to}

\* Nobody is told of a transition that did not commit: a publication is queued
\* at most once and only for a ratified sheet, as the last task of the sheet,
\* and returns are never announced more often than the trail records them.
NoticesFollowCommits ==
    \A s \in Sheets :
       /\ \A k \in NoticesOf(s, "result_published") :
             k = Len(notices[s]) /\ status[s] = "ratified_by_senate"
       /\ Cardinality(NoticesOf(s, "result_returned"))
             <= Cardinality(StatusEntriesTo(s, "returned"))

\* Rows are never removed or rewritten once the sheet has left the lecturer's
\* hands, and a new row then arrives only in the step that applies an
\* amendment (StudentScore.save and the triggers of migration 0004).
FrozenAfterSubmission ==
    [][\A s \in Sheets : status[s] \notin LECTURER_EDITABLE_STATUSES \cup {None} =>
         /\ \A i \in DOMAIN rows[s] :
               /\ i \in DOMAIN rows'[s]
               /\ rows'[s][i].score = rows[s][i].score
               /\ rows'[s][i].student = rows[s][i].student
         /\ rows'[s] # rows[s] =>
               \E m \in DOMAIN amendments[s] : /\ amendments[s][m].status = "approved_by_dean"
                                               /\ amendments'[s][m].status = "applied"
      ]_vars

\* What a step may never touch: an audit entry, the status and the lecturer of a
\* ratified sheet, a superseded row, and an amendment applied or returned
\* (ResultAuditLog.save, CourseResult.save, migration 0004, transition_amendment).
HistoryIsAppendOnly ==
    [][\A s \in Sheets :
         /\ Len(audit[s]) <= Len(audit'[s])
         /\ SubSeq(audit'[s], 1, Len(audit[s])) = audit[s]
         /\ status[s] = "ratified_by_senate" => /\ status'[s] = status[s]
                                                /\ lecturer'[s] = lecturer[s]
         /\ \A i \in DOMAIN rows[s] : ~rows[s][i].is_current =>
               i \in DOMAIN rows'[s] /\ rows'[s][i] = rows[s][i]
         /\ \A m \in DOMAIN amendments[s] : amendments[s][m].status \in {"applied", "returned"} =>
               m \in DOMAIN amendments'[s] /\ amendments'[s][m] = amendments[s][m]]_vars

\* ResultAmendment.original_score is "the current score row the amendment
\* corrects", which an applied amendment supersedes.
AmendmentReplacesItsOriginal ==
    \A s \in Sheets : \A m \in DOMAIN amendments[s] : amendments[s][m].status = "applied" =>
       rows[s][amendments[s][m].applied_score].supersedes = amendments[s][m].original_score
=============================================================================
