-------------------------- MODULE ResultTrailProofs --------------------------
(***************************************************************************)
(* Theorems about what ResultPipeline does to a sheet over time: its audit *)
(* trail, its amendments and its announcements; and that a sheet behaves   *)
(* like the approval chain of ApprovalChain.                               *)
(***************************************************************************)
EXTENDS ResultRefinement, ResultPipelineProofs, FiniteSetTheorems

-----------------------------------------------------------------------------
(***************************************************************************)
(* A step seen from one sheet.                                             *)
(***************************************************************************)

Untouched(s) ==
    /\ status'[s] = status[s]
    /\ lecturer'[s] = lecturer[s]
    /\ rows'[s] = rows[s]
    /\ amendments'[s] = amendments[s]
    /\ audit'[s] = audit[s]
    /\ notices'[s] = notices[s]

\* What a sheet sees of Transition, and of BatchRatify when it is in the batch.
Moved(a, s, to) ==
    /\ MayTransition(a, s, to)
    /\ status'[s] = to
    /\ audit'[s] = Append(audit[s], Entry(a, "status_changed", 0, status[s], to))
    /\ lecturer'[s] = lecturer[s]
    /\ rows'[s] = rows[s]
    /\ amendments'[s] = amendments[s]
    /\ \/ notices'[s] = notices[s]
       \/ to = "returned" /\ notices'[s] = Append(notices[s], "result_returned")
       \/ to = "ratified_by_senate" /\ notices'[s] = Append(notices[s], "result_published")

SheetStep(s) ==
    \/ Untouched(s)
    \/ \E a \in Actors : CreateDraftResult(a, s)
    \/ \E a \in Actors, st \in Students, v \in Scores : AddScore(a, s, st, v)
    \/ \E a \in Actors, st \in Students, v \in Scores : ChangeScore(a, s, st, v)
    \/ \E a \in Actors, to \in ResultStatus : Moved(a, s, to)
    \/ \E a \in Actors, st \in Students, v \in Scores : RaiseAmendment(a, s, st, v)
    \/ \E a \in Actors, m \in DOMAIN amendments[s], to \in AmendmentStatus :
          MoveAmendment(a, s, m, to)
    \/ \E a \in Actors, m \in DOMAIN amendments[s] : ApplyAmendment(a, s, m)

\* A write to one sheet's trail (services._log).
LEMMA LogOne ==
    ASSUME TypeOK, NEW s \in Sheets, NEW e, Log(s, <<e>>)
    PROVE  /\ audit'[s] = Append(audit[s], e)
           /\ \A t \in Sheets \ {s} : audit'[t] = audit[t]
<1>1. audit[s] \in Seq(ResultAuditLog)
  BY DEF TypeOK
<1>2. audit[s] \o <<e>> = Append(audit[s], e)
  BY <1>1
<1>3. QED
  BY <1>2 DEF Log, TypeOK

\* A request other than a batch leaves every other sheet alone.
LEMMA OthersUntouched ==
    ASSUME TypeOK, NEW s \in Sheets, NEW t \in Sheets \ {s}, NEW a \in Actors,
           \/ CreateDraftResult(a, s)
           \/ \E st \in Students, v \in Scores : \/ RecordScore(a, s, st, v)
                                                 \/ RaiseAmendment(a, s, st, v)
           \/ \E to \in ResultStatus : Transition(a, s, to)
           \/ \E m \in DOMAIN amendments[s], to \in AmendmentStatus :
                 AmendmentTransition(a, s, m, to)
    PROVE  Untouched(t)
<1>1. ASSUME NEW es, Log(s, es) PROVE audit'[t] = audit[t]
  BY <1>1 DEF Log, TypeOK
<1>2. ASSUME CreateDraftResult(a, s) PROVE Untouched(t)
  BY <1>1, <1>2 DEF CreateDraftResult, Untouched, TypeOK
<1>3. ASSUME NEW st \in Students, NEW v \in Scores, AddScore(a, s, st, v) PROVE Untouched(t)
  BY <1>1, <1>3 DEF AddScore, Untouched, TypeOK
<1>4. ASSUME NEW st \in Students, NEW v \in Scores, ChangeScore(a, s, st, v) PROVE Untouched(t)
  BY <1>1, <1>4 DEF ChangeScore, Untouched, TypeOK
<1>5. ASSUME NEW st \in Students, NEW v \in Scores, RaiseAmendment(a, s, st, v)
      PROVE  Untouched(t)
  BY <1>1, <1>5 DEF RaiseAmendment, Untouched, TypeOK
<1>6. ASSUME NEW to \in ResultStatus, Transition(a, s, to) PROVE Untouched(t)
  <2>1. ASSUME NEW n \in 0..1, NEW kind, Notify(<<s>>, n, kind) PROVE notices'[t] = notices[t]
    BY <2>1 DEF Notify
  <2>2. notices'[t] = notices[t]
    BY <1>6, <2>1 DEF Transition
  <2>3. QED
    BY <1>1, <1>6, <2>2 DEF Transition, Untouched, TypeOK
<1>7. ASSUME NEW m \in DOMAIN amendments[s], NEW to \in AmendmentStatus,
             MoveAmendment(a, s, m, to)
      PROVE  Untouched(t)
  BY <1>1, <1>7 DEF MoveAmendment, Untouched, TypeOK
<1>8. ASSUME NEW m \in DOMAIN amendments[s], ApplyAmendment(a, s, m) PROVE Untouched(t)
  BY <1>1, <1>8 DEF ApplyAmendment, Untouched, TypeOK
<1>9. QED
  BY <1>2, <1>3, <1>4, <1>5, <1>6, <1>7, <1>8 DEF RecordScore, AmendmentTransition

LEMMA TransitionMoves ==
    ASSUME TypeOK, NEW a \in Actors, NEW s \in Sheets, NEW to \in ResultStatus,
           Transition(a, s, to)
    PROVE  Moved(a, s, to)
<1>1. ASSUME NEW n \in 0..1, NEW kind, Notify(<<s>>, n, kind)
      PROVE  notices'[s] = notices[s] \/ notices'[s] = Append(notices[s], kind)
  BY <1>1 DEF Notify
<1>2. audit'[s] = Append(audit[s], Entry(a, "status_changed", 0, status[s], to))
  BY LogOne DEF Transition
<1>3. QED
  BY <1>1, <1>2 DEF Transition, Moved, TypeOK

LEMMA BatchMoves ==
    ASSUME TypeOK, NEW a \in Actors, NEW ids \in Batches, BatchRatify(a, ids), NEW s \in Sheets
    PROVE  Untouched(s) \/ Moved(a, s, "ratified_by_senate")
<1>1. PICK n \in 0..Len(ids) : Notify(ids, n, "result_published")
  BY DEF BatchRatify
<1>2. ids \in Seq(Sheets) /\ DOMAIN ids = 1..Len(ids)
  <2>1. PICK k \in 1..MaxBatch : ids \in [1..k -> Sheets]
    BY DEF Batches
  <2>2. k \in Nat
    BY BoundAssumption
  <2>3. QED
    BY <2>1, <2>2
<1>3. CASE \E k \in DOMAIN ids : ids[k] = s
  <2>1. MayTransition(a, s, "ratified_by_senate")
    BY <1>3 DEF BatchRatify, MayRatifyAll
  <2>2. notices'[s] = notices[s] \/ notices'[s] = Append(notices[s], "result_published")
    BY <1>1 DEF Notify
  <2>3. /\ status'[s] = "ratified_by_senate"
        /\ audit'[s] = Append(audit[s], Entry(a, "status_changed", 0, status[s],
                                              "ratified_by_senate"))
    BY <1>3 DEF BatchRatify
  <2>4. QED
    BY <2>1, <2>2, <2>3 DEF BatchRatify, Moved
<1>4. CASE ~\E k \in DOMAIN ids : ids[k] = s
  <2>1. notices'[s] = notices[s]
    BY <1>1, <1>2, <1>4 DEF Notify
  <2>2. status'[s] = status[s] /\ audit'[s] = audit[s]
    BY <1>4 DEF BatchRatify
  <2>3. QED
    BY <2>1, <2>2 DEF BatchRatify, Untouched
<1>5. QED
  BY <1>3, <1>4

\* Whatever the system does, it does one of these to a given sheet.
LEMMA EveryStep ==
    ASSUME TypeOK, [Next]_vars, NEW s \in Sheets
    PROVE  SheetStep(s)
<1>1. ASSUME UNCHANGED sheetVars PROVE Untouched(s)
  BY <1>1 DEF sheetVars, Untouched
<1>2. ASSUME NEW a \in Actors, NEW t \in Sheets,
             \/ CreateDraftResult(a, t)
             \/ \E st \in Students, v \in Scores : \/ RecordScore(a, t, st, v)
                                                   \/ RaiseAmendment(a, t, st, v)
             \/ \E to \in ResultStatus : Transition(a, t, to)
             \/ \E m \in DOMAIN amendments[t], to \in AmendmentStatus :
                   AmendmentTransition(a, t, m, to)
      PROVE  SheetStep(s)
  <2>1. CASE s # t
    BY <1>2, <2>1, OthersUntouched DEF SheetStep
  <2>2. CASE s = t
    BY <1>2, <2>2, TransitionMoves DEF SheetStep, RecordScore, AmendmentTransition
  <2>3. QED
    BY <2>1, <2>2
<1>3. ASSUME NEW a \in Actors, NEW ids \in Batches, BatchRatify(a, ids) PROVE SheetStep(s)
  BY <1>3, BatchMoves DEF SheetStep, ResultStatus
<1>4. CASE \/ \E st \in Students, t \in Sheets : ChangeEnrolment(st, t)
           \/ \E a \in Actors, t \in Sheets : ChangeAssignment(a, t)
           \/ UNCHANGED vars
  BY <1>1, <1>4 DEF ChangeEnrolment, ChangeAssignment, SheetStep, vars, sheetVars
<1>5. QED
  BY <1>2, <1>3, <1>4 DEF Next

-----------------------------------------------------------------------------
(***************************************************************************)
(* What is written is not rewritten.                                       *)
(***************************************************************************)

\* The trail after n entries were appended.
Extends(new, old, n) ==
    /\ DOMAIN new = 1..(Len(old) + n)
    /\ Len(new) = Len(old) + n
    /\ \A k \in 1..Len(old) : new[k] = old[k]

LEMMA AppendExtends ==
    ASSUME NEW T, NEW old \in Seq(T), NEW e
    PROVE  /\ Extends(Append(old, e), old, 1)
           /\ Append(old, e)[Len(old) + 1] = e
           /\ DOMAIN old = 1..Len(old) /\ Len(old) \in Nat
BY DEF Extends

LEMMA ExtensionIsPrefix ==
    ASSUME NEW T, NEW old \in Seq(T), NEW new \in Seq(T), NEW n \in Nat, Extends(new, old, n)
    PROVE  /\ Len(old) <= Len(new)
           /\ SubSeq(new, 1, Len(old)) = old
<1>1. SubSeq(new, 1, Len(old)) \in Seq(T) /\ Len(SubSeq(new, 1, Len(old))) = Len(old)
  BY DEF Extends
<1>2. \A k \in 1..Len(old) : SubSeq(new, 1, Len(old))[k] = old[k]
  BY DEF Extends
<1>3. QED
  BY <1>1, <1>2 DEF Extends

\* new is rs with row i retired in favour of a row that holds score.
Replaces(new, rs, i, score) ==
    /\ DOMAIN new = DOMAIN rs \cup {Len(rs) + 1}
    /\ \A j \in DOMAIN rs : /\ new[j].student = rs[j].student
                            /\ new[j].score = rs[j].score
                            /\ new[j].supersedes = rs[j].supersedes
                            /\ new[j].is_current <=> rs[j].is_current /\ j # i
    /\ new[Len(rs) + 1].student = rs[i].student
    /\ new[Len(rs) + 1].score = score
    /\ new[Len(rs) + 1].supersedes = i
    /\ new[Len(rs) + 1].is_current

\* What superseding a row leaves of the others (services._apply_amendment).
LEMMA SupersededReplaces ==
    ASSUME NEW rs \in Seq(StudentScore), NEW i \in DOMAIN rs, NEW score \in ValidScores
    PROVE  Replaces(Superseded(rs, i, score), rs, i, score)
<1> DEFINE retired == [rs EXCEPT ![i].is_current = FALSE]
           row == [student |-> rs[i].student, score |-> score,
                   is_current |-> TRUE, supersedes |-> i]
<1>1. \A j \in DOMAIN rs : rs[j] \in StudentScore
  OBVIOUS
<1>2. /\ retired \in Seq(StudentScore) /\ Len(retired) = Len(rs)
      /\ \A j \in DOMAIN rs : /\ retired[j].student = rs[j].student
                              /\ retired[j].score = rs[j].score
                              /\ retired[j].supersedes = rs[j].supersedes
                              /\ retired[j].is_current <=> rs[j].is_current /\ j # i
  <2>1. [rs[i] EXCEPT !.is_current = FALSE] \in StudentScore
    BY <1>1 DEF StudentScore
  <2>2. retired \in Seq(StudentScore) /\ Len(retired) = Len(rs)
    BY <2>1
  <2>3. \A j \in DOMAIN rs : j # i => retired[j] = rs[j]
    OBVIOUS
  <2>4. retired[i] = [rs[i] EXCEPT !.is_current = FALSE]
    OBVIOUS
  <2>5. /\ retired[i].student = rs[i].student
        /\ retired[i].score = rs[i].score
        /\ retired[i].supersedes = rs[i].supersedes
        /\ ~retired[i].is_current
    BY <1>1, <2>4 DEF StudentScore
  <2>6. QED
    BY <2>2, <2>3, <2>5
<1> HIDE DEF retired
<1>3. Replaces(Append(retired, row), rs, i, score)
  BY <1>2 DEF Replaces
<1>4. QED
  BY <1>3 DEF Superseded, retired

\* Every other step appends at most one entry.
LEMMA StepAppends ==
    ASSUME TypeOK, TypeOK', NEW s \in Sheets, SheetStep(s)
    PROVE  \E n \in 0..2 : Extends(audit'[s], audit[s], n)
<1>1. audit[s] \in Seq(ResultAuditLog)
  BY DEF TypeOK
<1>2. ASSUME NEW e, audit'[s] = Append(audit[s], e)
      PROVE  Extends(audit'[s], audit[s], 1)
  BY <1>1, <1>2, AppendExtends
<1>3. ASSUME NEW e, Log(s, <<e>>) PROVE Extends(audit'[s], audit[s], 1)
  BY <1>2, <1>3, LogOne
<1>4. CASE Untouched(s)
  BY <1>1, <1>4 DEF Untouched, Extends
<1>5. CASE \/ \E a \in Actors : CreateDraftResult(a, s)
           \/ \E a \in Actors, st \in Students, v \in Scores : \/ AddScore(a, s, st, v)
                                                              \/ ChangeScore(a, s, st, v)
                                                              \/ RaiseAmendment(a, s, st, v)
           \/ \E a \in Actors, m \in DOMAIN amendments[s], to \in AmendmentStatus :
                 MoveAmendment(a, s, m, to)
  <2>1. \E e : Log(s, <<e>>)
    BY <1>5 DEF CreateDraftResult, AddScore, ChangeScore, RaiseAmendment, MoveAmendment
  <2>2. QED
    BY <1>3, <2>1
<1>6. CASE \E a \in Actors, to \in ResultStatus : Moved(a, s, to)
  BY <1>2, <1>6 DEF Moved
<1>7. CASE \E a \in Actors, m \in DOMAIN amendments[s] : ApplyAmendment(a, s, m)
  BY <1>7 DEF ApplyAmendment, Log, TypeOK, Extends
<1>8. QED
  BY <1>4, <1>5, <1>6, <1>7 DEF SheetStep

\* A ratified sheet stays ratified and with its lecturer (CourseResult.save,
\* migration 0004).
LEMMA RatifiedStays ==
    ASSUME TypeOK, NEW s \in Sheets, SheetStep(s), status[s] = "ratified_by_senate"
    PROVE  status'[s] = status[s] /\ lecturer'[s] = lecturer[s]
<1>1. ASSUME NEW a \in Actors, NEW to \in ResultStatus PROVE ~MayTransition(a, s, to)
  BY DEF MayTransition, TRANSITIONS
<1>2. "ratified_by_senate" # None
  BY NoneAssumption DEF ResultStatus
<1>3. QED
  BY <1>1, <1>2 DEF SheetStep, Untouched, Moved, CreateDraftResult, AddScore, ChangeScore,
        RaiseAmendment, MoveAmendment, ApplyAmendment

\* The marks and corrections that are over: a superseded row, and an amendment
\* applied or returned.
SettledStays(s) ==
    /\ \A i \in DOMAIN rows[s] : ~rows[s][i].is_current =>
          i \in DOMAIN rows'[s] /\ rows'[s][i] = rows[s][i]
    /\ \A m \in DOMAIN amendments[s] : amendments[s][m].status \in {"applied", "returned"} =>
          m \in DOMAIN amendments'[s] /\ amendments'[s][m] = amendments[s][m]

\* Recording touches current rows only, and the transition table leads nowhere
\* from a settled amendment (services.record_score, AMENDMENT_TRANSITIONS).
LEMMA StepLeavesSettled ==
    ASSUME TypeOK, TypeOK', NEW s \in Sheets, SheetStep(s)
    PROVE  SettledStays(s)
<1>1. /\ rows[s] \in Seq(StudentScore) /\ rows'[s] \in Seq(StudentScore)
      /\ amendments[s] \in Seq(ResultAmendment) /\ amendments'[s] \in Seq(ResultAmendment)
  BY DEF TypeOK
<1>2. CASE rows'[s] = rows[s] /\ amendments'[s] = amendments[s]
  BY <1>2 DEF SettledStays
<1>3. ASSUME NEW a \in Actors, NEW st \in Students, NEW v \in Scores,
             AddScore(a, s, st, v) \/ ChangeScore(a, s, st, v)
      PROVE  SettledStays(s)
  <2>1. amendments'[s] = amendments[s]
    BY <1>3 DEF AddScore, ChangeScore
  <2>2. CASE AddScore(a, s, st, v)
    <3>1. PICK row : rows'[s] = Append(rows[s], row)
      BY <2>2 DEF AddScore, TypeOK
    <3> QED
      BY <1>1, <2>1, <3>1 DEF SettledStays
  <2>3. CASE ChangeScore(a, s, st, v)
    <3>1. PICK i \in CurrentRowsOf(s, st) : rows'[s] = [rows[s] EXCEPT ![i].score = v]
      BY <2>3 DEF ChangeScore, TypeOK
    <3>2. rows[s][i].is_current /\ \A j \in DOMAIN rows[s] : j # i => rows'[s][j] = rows[s][j]
      BY <1>1, <3>1 DEF CurrentRowsOf, CurrentRows
    <3>3. DOMAIN rows'[s] = DOMAIN rows[s]
      BY <1>1, <3>1
    <3> QED
      BY <2>1, <3>2, <3>3 DEF SettledStays
  <2> QED
    BY <1>3, <2>2, <2>3
<1>4. ASSUME NEW a \in Actors, NEW st \in Students, NEW v \in Scores, RaiseAmendment(a, s, st, v)
      PROVE  SettledStays(s)
  <2>1. rows'[s] = rows[s]
    BY <1>4 DEF RaiseAmendment
  <2>2. PICK am : amendments'[s] = Append(amendments[s], am)
    BY <1>4 DEF RaiseAmendment, TypeOK
  <2> QED
    BY <1>1, <2>1, <2>2 DEF SettledStays
<1>5. ASSUME NEW a \in Actors, NEW m \in DOMAIN amendments[s], NEW to, MayMoveAmendment(a, s, m, to)
      PROVE  amendments[s][m].status \notin {"applied", "returned"}
  BY <1>5 DEF MayMoveAmendment, AMENDMENT_TRANSITIONS
<1>6. ASSUME NEW a \in Actors, NEW m \in DOMAIN amendments[s], NEW to \in AmendmentStatus,
             MoveAmendment(a, s, m, to)
      PROVE  SettledStays(s)
  <2>1. rows'[s] = rows[s] /\ amendments[s][m].status \notin {"applied", "returned"}
    BY <1>5, <1>6 DEF MoveAmendment
  <2>2. amendments'[s] = [amendments[s] EXCEPT ![m].status = to]
    BY <1>6 DEF MoveAmendment, TypeOK
  <2>3. DOMAIN amendments'[s] = DOMAIN amendments[s]
        /\ \A n \in DOMAIN amendments[s] : n # m => amendments'[s][n] = amendments[s][n]
    BY <1>1, <2>2
  <2> QED
    BY <2>1, <2>3 DEF SettledStays
<1>7. ASSUME NEW a \in Actors, NEW m \in DOMAIN amendments[s], ApplyAmendment(a, s, m)
      PROVE  SettledStays(s)
  <2>1. amendments[s][m].status \notin {"applied", "returned"} /\ amendments[s][m] \in ResultAmendment
    BY <1>1, <1>5, <1>7 DEF ApplyAmendment
  <2>2. PICK am : amendments'[s] = [amendments[s] EXCEPT ![m] = am]
    BY <1>7 DEF ApplyAmendment, TypeOK
  <2>3. DOMAIN amendments'[s] = DOMAIN amendments[s]
        /\ \A n \in DOMAIN amendments[s] : n # m => amendments'[s][n] = amendments[s][n]
    BY <1>1, <2>2
  <2>4. PICK i \in CurrentRowsOf(s, amendments[s][m].student) :
           rows'[s] = Superseded(rows[s], i, amendments[s][m].proposed)
    BY <1>7 DEF ApplyAmendment, TypeOK
  <2>5. i \in DOMAIN rows[s] /\ rows[s][i].is_current /\ amendments[s][m].proposed \in ValidScores
    BY <2>1, <2>4 DEF CurrentRowsOf, CurrentRows, ResultAmendment
  <2>6. Replaces(rows'[s], rows[s], i, amendments[s][m].proposed)
    BY <1>1, <2>4, <2>5, SupersededReplaces
  <2>7. ASSUME NEW j \in DOMAIN rows[s], ~rows[s][j].is_current
        PROVE  j \in DOMAIN rows'[s] /\ rows'[s][j] = rows[s][j]
    <3>1. j \in DOMAIN rows'[s] /\ rows'[s][j] \in StudentScore /\ rows[s][j] \in StudentScore
      BY <1>1, <2>6 DEF Replaces
    <3>2. /\ rows'[s][j].student = rows[s][j].student
          /\ rows'[s][j].score = rows[s][j].score
          /\ rows'[s][j].supersedes = rows[s][j].supersedes
          /\ rows'[s][j].is_current = FALSE /\ rows[s][j].is_current = FALSE
      BY <2>6, <2>7, <3>1 DEF Replaces, StudentScore
    <3> QED
      BY <3>1, <3>2 DEF StudentScore
  <2> QED
    BY <2>1, <2>3, <2>7 DEF SettledStays
<1> QED
  BY <1>2, <1>3, <1>4, <1>6, <1>7 DEF SheetStep, Untouched, Moved, CreateDraftResult

\* No step removes or rewrites an audit entry, a superseded row or a settled
\* amendment, and what Senate ratified keeps its status and its lecturer
\* (ResultAuditLog.save, CourseResult.save, migration 0004, transition_amendment).
THEOREM HistoryAppended == Spec => HistoryIsAppendOnly
<1>1. TypeOK /\ TypeOK' /\ [Next]_vars =>
         \A s \in Sheets :
           /\ Len(audit[s]) <= Len(audit'[s])
           /\ SubSeq(audit'[s], 1, Len(audit[s])) = audit[s]
           /\ status[s] = "ratified_by_senate" => /\ status'[s] = status[s]
                                                  /\ lecturer'[s] = lecturer[s]
           /\ SettledStays(s)
  <2> SUFFICES ASSUME TypeOK, TypeOK', [Next]_vars, NEW s \in Sheets
               PROVE  /\ Len(audit[s]) <= Len(audit'[s])
                      /\ SubSeq(audit'[s], 1, Len(audit[s])) = audit[s]
                      /\ status[s] = "ratified_by_senate" => /\ status'[s] = status[s]
                                                             /\ lecturer'[s] = lecturer[s]
                      /\ SettledStays(s)
    OBVIOUS
  <2>1. SheetStep(s)
    BY EveryStep
  <2>2. PICK n \in 0..2 : Extends(audit'[s], audit[s], n)
    BY <2>1, StepAppends
  <2>3. audit[s] \in Seq(ResultAuditLog) /\ audit'[s] \in Seq(ResultAuditLog)
    BY DEF TypeOK
  <2>4. QED
    BY <2>1, <2>2, <2>3, ExtensionIsPrefix, RatifiedStays, StepLeavesSettled
<1>2. TypeOK /\ TypeOK' /\ [Next]_vars =>
         [\A s \in Sheets :
           /\ Len(audit[s]) <= Len(audit'[s])
           /\ SubSeq(audit'[s], 1, Len(audit[s])) = audit[s]
           /\ status[s] = "ratified_by_senate" => /\ status'[s] = status[s]
                                                  /\ lecturer'[s] = lecturer[s]
           /\ \A i \in DOMAIN rows[s] : ~rows[s][i].is_current =>
                 i \in DOMAIN rows'[s] /\ rows'[s][i] = rows[s][i]
           /\ \A m \in DOMAIN amendments[s] : amendments[s][m].status \in {"applied", "returned"} =>
                 m \in DOMAIN amendments'[s] /\ amendments'[s][m] = amendments[s][m]]_vars
  BY <1>1, Zenon DEF SettledStays
<1>3. QED
  BY <1>2, TypeCorrect, PTL DEF Spec, HistoryIsAppendOnly

\* Once a sheet has left the lecturer's hands its rows keep their marks and their
\* students, and only the application of an amendment adds one
\* (StudentScore.save, migration 0004).
THEOREM RowsFrozen == Spec => FrozenAfterSubmission
<1>1. TypeOK /\ TypeOK' /\ [Next]_vars =>
         \A s \in Sheets : status[s] \notin LECTURER_EDITABLE_STATUSES \cup {None} =>
           /\ \A i \in DOMAIN rows[s] :
                 /\ i \in DOMAIN rows'[s]
                 /\ rows'[s][i].score = rows[s][i].score
                 /\ rows'[s][i].student = rows[s][i].student
           /\ rows'[s] # rows[s] =>
                 \E m \in DOMAIN amendments[s] : /\ amendments[s][m].status = "approved_by_dean"
                                                 /\ amendments'[s][m].status = "applied"
  <2> SUFFICES ASSUME TypeOK, TypeOK', [Next]_vars, NEW s \in Sheets,
                      status[s] \notin LECTURER_EDITABLE_STATUSES \cup {None}
               PROVE  /\ \A i \in DOMAIN rows[s] :
                            /\ i \in DOMAIN rows'[s]
                            /\ rows'[s][i].score = rows[s][i].score
                            /\ rows'[s][i].student = rows[s][i].student
                      /\ rows'[s] # rows[s] =>
                            \E m \in DOMAIN amendments[s] :
                               /\ amendments[s][m].status = "approved_by_dean"
                               /\ amendments'[s][m].status = "applied"
    OBVIOUS
  <2>1. CASE rows'[s] = rows[s]
    BY <2>1
  <2>2. ASSUME NEW a \in Actors, NEW m \in DOMAIN amendments[s], ApplyAmendment(a, s, m)
        PROVE  /\ \A i \in DOMAIN rows[s] :
                     /\ i \in DOMAIN rows'[s]
                     /\ rows'[s][i].score = rows[s][i].score
                     /\ rows'[s][i].student = rows[s][i].student
               /\ amendments[s][m].status = "approved_by_dean"
               /\ amendments'[s][m].status = "applied"
    <3>1. PICK i \in CurrentRowsOf(s, amendments[s][m].student) :
             rows'[s] = Superseded(rows[s], i, amendments[s][m].proposed)
      BY <2>2 DEF ApplyAmendment, TypeOK
    <3>0. amendments[s][m] \in ResultAmendment
      BY DEF TypeOK
    <3>2. /\ i \in DOMAIN rows[s] /\ rows[s] \in Seq(StudentScore)
          /\ amendments[s][m].proposed \in ValidScores
      BY <3>0 DEF CurrentRowsOf, CurrentRows, TypeOK, ResultAmendment
    <3>3. \A j \in DOMAIN rows[s] : /\ j \in DOMAIN rows'[s]
                                    /\ rows'[s][j].score = rows[s][j].score
                                    /\ rows'[s][j].student = rows[s][j].student
      <4>1. Replaces(rows'[s], rows[s], i, amendments[s][m].proposed)
        BY <3>1, <3>2, SupersededReplaces
      <4>2. QED
        BY <4>1 DEF Replaces
    <3>4. amendments[s][m].status = "approved_by_dean"
      BY <2>2 DEF ApplyAmendment, MayMoveAmendment, AMENDMENT_TRANSITIONS
    <3>5. amendments'[s][m].status = "applied"
      <4>1. amendments[s][m] \in ResultAmendment /\ amendments[s] \in Seq(ResultAmendment)
        BY DEF TypeOK
      <4>2. QED
        BY <2>2, <4>1 DEF ApplyAmendment, TypeOK, ResultAmendment
    <3>6. QED
      BY <3>3, <3>4, <3>5
  <2>3. QED
    BY <2>1, <2>2, EveryStep
       DEF SheetStep, Untouched, Moved, CreateDraftResult, AddScore, ChangeScore, MayRecord,
           RaiseAmendment, MoveAmendment
<1>2. QED
  BY <1>1, TypeCorrect, PTL DEF Spec, FrozenAfterSubmission

-----------------------------------------------------------------------------
(***************************************************************************)
(* Sets of entries as the trail grows.                                     *)
(***************************************************************************)

\* One entry e, respectively two entries e and f, were appended.
Wrote(s, e) ==
    /\ Len(audit[s]) \in Nat /\ DOMAIN audit[s] = 1..Len(audit[s])
    /\ Extends(audit'[s], audit[s], 1)
    /\ audit'[s][Len(audit[s]) + 1] = e

WroteTwo(s, e, f) ==
    /\ Len(audit[s]) \in Nat /\ DOMAIN audit[s] = 1..Len(audit[s])
    /\ Extends(audit'[s], audit[s], 2)
    /\ audit'[s][Len(audit[s]) + 1] = e
    /\ audit'[s][Len(audit[s]) + 2] = f

LEMMA WritesOne ==
    ASSUME TypeOK, NEW s \in Sheets, NEW e,
           Log(s, <<e>>) \/ audit'[s] = Append(audit[s], e)
    PROVE  Wrote(s, e)
<1>1. audit'[s] = Append(audit[s], e)
  BY LogOne
<1>2. audit[s] \in Seq(ResultAuditLog)
  BY DEF TypeOK
<1>3. QED
  BY <1>1, <1>2, AppendExtends DEF Wrote

Matches(e, actions, ref) == e.action \in actions /\ e.ref = ref

LEMMA OneWith ==
    ASSUME NEW s, NEW e, Wrote(s, e), NEW actions
    PROVE  /\ EntriesWith(s, actions) \subseteq 1..Len(audit[s])
           /\ \A k \in 1..Len(audit[s]) : audit'[s][k] = audit[s][k]
           /\ e.action \notin actions => EntriesWith(s, actions)' = EntriesWith(s, actions)
           /\ e.action \in actions => EntriesWith(s, actions)'
                                        = EntriesWith(s, actions) \cup {Len(audit[s]) + 1}
BY DEF EntriesWith, Wrote, Extends

LEMMA OneOn ==
    ASSUME NEW s, NEW e, Wrote(s, e), NEW actions, NEW ref
    PROVE  /\ EntriesOn(s, actions, ref) \subseteq 1..Len(audit[s])
           /\ \A k \in 1..Len(audit[s]) : audit'[s][k] = audit[s][k]
           /\ ~Matches(e, actions, ref) => EntriesOn(s, actions, ref)' = EntriesOn(s, actions, ref)
           /\ Matches(e, actions, ref) => EntriesOn(s, actions, ref)'
                                     = EntriesOn(s, actions, ref) \cup {Len(audit[s]) + 1}
<1> DEFINE S == EntriesOn(s, actions, ref)
           L == Len(audit[s])
<1>1. /\ DOMAIN audit[s] = 1..L /\ DOMAIN audit'[s] = 1..(L + 1) /\ L \in Nat
      /\ \A k \in 1..L : audit'[s][k] = audit[s][k]
      /\ audit'[s][L + 1] = e
  BY DEF Wrote, Extends
<1>2. \A k : k \in S <=> k \in 1..L /\ Matches(audit[s][k], actions, ref)
  BY <1>1 DEF EntriesOn, EntriesWith, Matches
<1>3. \A k : k \in S' <=> k \in 1..(L + 1) /\ Matches(audit'[s][k], actions, ref)
  BY <1>1 DEF EntriesOn, EntriesWith, Matches
<1> HIDE DEF S, L
<1>4. \A k : k \in S' <=> \/ k \in S
                          \/ k = L + 1 /\ Matches(e, actions, ref)
  BY <1>1, <1>2, <1>3
<1>5. QED
  BY <1>1, <1>2, <1>4 DEF S, L

LEMMA TwoWith ==
    ASSUME NEW s, NEW e, NEW f, WroteTwo(s, e, f), NEW actions
    PROVE  /\ EntriesWith(s, actions) \subseteq 1..Len(audit[s])
           /\ \A k \in 1..Len(audit[s]) : audit'[s][k] = audit[s][k]
           /\ e.action \notin actions /\ f.action \notin actions
                 => EntriesWith(s, actions)' = EntriesWith(s, actions)
           /\ e.action \notin actions /\ f.action \in actions
                 => EntriesWith(s, actions)' = EntriesWith(s, actions) \cup {Len(audit[s]) + 2}
<1> DEFINE S == EntriesWith(s, actions)
           L == Len(audit[s])
<1>1. /\ DOMAIN audit[s] = 1..L /\ DOMAIN audit'[s] = 1..(L + 2) /\ L \in Nat
      /\ \A k \in 1..L : audit'[s][k] = audit[s][k]
      /\ audit'[s][L + 1] = e /\ audit'[s][L + 2] = f
  BY DEF WroteTwo, Extends
<1>2. \A k : k \in S <=> k \in 1..L /\ audit[s][k].action \in actions
  BY <1>1 DEF EntriesWith
<1>3. \A k : k \in S' <=> k \in 1..(L + 2) /\ audit'[s][k].action \in actions
  BY <1>1 DEF EntriesWith
<1> HIDE DEF S, L
<1>4. \A k : k \in S' <=> \/ k \in S
                          \/ k = L + 1 /\ e.action \in actions
                          \/ k = L + 2 /\ f.action \in actions
  BY <1>1, <1>2, <1>3
<1>5. QED
  BY <1>1, <1>2, <1>4 DEF S, L

LEMMA TwoOn ==
    ASSUME NEW s, NEW e, NEW f, WroteTwo(s, e, f), NEW actions, NEW ref
    PROVE  /\ EntriesOn(s, actions, ref) \subseteq 1..Len(audit[s])
           /\ \A k \in 1..Len(audit[s]) : audit'[s][k] = audit[s][k]
           /\ ~Matches(e, actions, ref) /\ ~Matches(f, actions, ref)
                 => EntriesOn(s, actions, ref)' = EntriesOn(s, actions, ref)
           /\ Matches(e, actions, ref) /\ ~Matches(f, actions, ref)
                 => EntriesOn(s, actions, ref)'
                       = EntriesOn(s, actions, ref) \cup {Len(audit[s]) + 1}
           /\ ~Matches(e, actions, ref) /\ Matches(f, actions, ref)
                 => EntriesOn(s, actions, ref)'
                       = EntriesOn(s, actions, ref) \cup {Len(audit[s]) + 2}
<1> DEFINE S == EntriesOn(s, actions, ref)
           L == Len(audit[s])
<1>1. /\ DOMAIN audit[s] = 1..L /\ DOMAIN audit'[s] = 1..(L + 2) /\ L \in Nat
      /\ \A k \in 1..L : audit'[s][k] = audit[s][k]
      /\ audit'[s][L + 1] = e /\ audit'[s][L + 2] = f
  BY DEF WroteTwo, Extends
<1>2. \A k : k \in S <=> k \in 1..L /\ Matches(audit[s][k], actions, ref)
  BY <1>1 DEF EntriesOn, EntriesWith, Matches
<1>3. \A k : k \in S' <=> k \in 1..(L + 2) /\ Matches(audit'[s][k], actions, ref)
  BY <1>1 DEF EntriesOn, EntriesWith, Matches
<1> HIDE DEF S, L
<1>4. \A k : k \in S' <=> \/ k \in S
                          \/ k = L + 1 /\ Matches(e, actions, ref)
                          \/ k = L + 2 /\ Matches(f, actions, ref)
  BY <1>1, <1>2, <1>3
<1>5. QED
  BY <1>1, <1>2, <1>4 DEF S, L

\* A later entry is the latest, and follows the one that was.
LEMMA LaterEntry ==
    ASSUME NEW L \in Nat, NEW S \in SUBSET (1..L), NEW n \in Nat, n > L
    PROVE  /\ \A k : LatestIn(S \cup {n}, k) <=> k = n
           /\ \A j, k : ConsecutiveIn(S, j, k) => ConsecutiveIn(S \cup {n}, j, k)
           /\ \A j : LatestIn(S, j) => ConsecutiveIn(S \cup {n}, j, n)
           /\ \A j, k : ConsecutiveIn(S \cup {n}, j, k)
                          => ConsecutiveIn(S, j, k) \/ (k = n /\ LatestIn(S, j))
<1>1. \A j \in S : j \in Nat /\ j < n
  OBVIOUS
<1>2. \A k : LatestIn(S \cup {n}, k) <=> k = n
  <2>1. LatestIn(S \cup {n}, n)
    BY <1>1 DEF LatestIn
  <2>2. ASSUME NEW k, LatestIn(S \cup {n}, k) PROVE k = n
    <3>1. k \in S \cup {n} /\ n <= k
      BY <2>2 DEF LatestIn
    <3>2. QED
      BY <1>1, <3>1
  <2>3. QED
    BY <2>1, <2>2
<1>3. ASSUME NEW j, NEW k, ConsecutiveIn(S, j, k) PROVE ConsecutiveIn(S \cup {n}, j, k)
  BY <1>1, <1>3 DEF ConsecutiveIn
<1>4. ASSUME NEW j, LatestIn(S, j) PROVE ConsecutiveIn(S \cup {n}, j, n)
  BY <1>1, <1>4 DEF LatestIn, ConsecutiveIn
<1>5. ASSUME NEW j, NEW k, ConsecutiveIn(S \cup {n}, j, k)
      PROVE  ConsecutiveIn(S, j, k) \/ (k = n /\ LatestIn(S, j))
  <2>1. j \in S \cup {n} /\ k \in S \cup {n} /\ j < k /\ \A i \in S : i <= j \/ k <= i
    BY <1>5 DEF ConsecutiveIn
  <2>2. j \in S
    BY <1>1, <2>1
  <2>3. CASE k = n
    BY <1>1, <2>1, <2>2, <2>3 DEF LatestIn
  <2>4. CASE k \in S
    BY <2>1, <2>2, <2>4 DEF ConsecutiveIn
  <2>5. QED
    BY <2>1, <2>3, <2>4
<1>6. QED
  BY <1>2, <1>3, <1>4, <1>5

-----------------------------------------------------------------------------
(***************************************************************************)
(* The trail accounts for the tables.                                      *)
(***************************************************************************)

StatusAccounted(s) ==
    /\ status[s] # None => StatusEntries(s) # {}
    /\ \A k \in StatusEntries(s) :
          /\ LatestIn(StatusEntries(s), k) => audit[s][k].after = status[s]
          /\ \A j \in StatusEntries(s) :
                ConsecutiveIn(StatusEntries(s), j, k) => audit[s][k].before = audit[s][j].after

RowAccounted(s, i) ==
    \E k \in RowEntries(s, i) : /\ LatestIn(RowEntries(s, i), k)
                               /\ audit[s][k].after = rows[s][i].score

AmendmentAccounted(s, m) ==
    \E k \in AmendmentEntries(s, m) : /\ LatestIn(AmendmentEntries(s, m), k)
                                     /\ audit[s][k].after = amendments[s][m].status

SheetAccounted(s) ==
    /\ StatusAccounted(s)
    /\ \A i \in DOMAIN rows[s] : RowAccounted(s, i)
    /\ \A m \in DOMAIN amendments[s] : AmendmentAccounted(s, m)

StatusActions == {"result_created", "status_changed"}
RowActions == {"score_added", "score_changed", "score_superseded"}

\* An entry about the sheet that starts at the old status and ends at the new one.
LEMMA StatusWritten ==
    ASSUME NEW s, NEW e, Wrote(s, e), StatusAccounted(s), e.action \in StatusActions,
           e.before = status[s], e.after = status'[s]
    PROVE  StatusAccounted(s)'
<1> DEFINE S == StatusEntries(s)
           n == Len(audit[s]) + 1
<1>1. /\ S \subseteq 1..Len(audit[s])
      /\ \A k \in S : audit'[s][k] = audit[s][k]
      /\ S' = S \cup {n}
  BY OneWith DEF StatusEntries, StatusActions
<1>2. Len(audit[s]) \in Nat /\ n \in Nat /\ n > Len(audit[s]) /\ audit'[s][n] = e
  BY DEF Wrote
<1>3. /\ \A k \in S : LatestIn(S, k) => audit[s][k].after = status[s]
      /\ \A j, k \in S : ConsecutiveIn(S, j, k) => audit[s][k].before = audit[s][j].after
  BY DEF StatusAccounted
<1>4. /\ \A k : LatestIn(S \cup {n}, k) <=> k = n
      /\ \A j, k : ConsecutiveIn(S \cup {n}, j, k)
                     => ConsecutiveIn(S, j, k) \/ (k = n /\ LatestIn(S, j))
  <2>1. S \in SUBSET (1..Len(audit[s]))
    BY <1>1
  <2> HIDE DEF S, n
  <2>2. QED
    BY <1>2, <2>1, LaterEntry
<1>5. n \notin S /\ S' # {}
  BY <1>1, <1>2
<1> HIDE DEF S, n
<1>6. ASSUME NEW k \in S', LatestIn(S', k) PROVE audit'[s][k].after = status'[s]
  BY <1>1, <1>2, <1>4, <1>6
<1>7. ASSUME NEW j \in S', NEW k \in S', ConsecutiveIn(S', j, k)
      PROVE  audit'[s][k].before = audit'[s][j].after
  <2>1. CASE ConsecutiveIn(S, j, k)
    <3>1. j \in S /\ k \in S
      BY <2>1 DEF ConsecutiveIn
    <3>2. QED
      BY <1>1, <1>3, <2>1, <3>1
  <2>2. CASE k = n /\ LatestIn(S, j)
    <3>1. j \in S
      BY <2>2 DEF LatestIn
    <3>2. QED
      BY <1>1, <1>2, <1>3, <2>2, <3>1
  <2>3. QED
    BY <1>1, <1>4, <1>7, <2>1, <2>2
<1>8. QED
  BY <1>5, <1>6, <1>7 DEF StatusAccounted, S

\* Entries about rows and amendments say nothing of the sheet.
LEMMA StatusKept ==
    ASSUME NEW s, StatusAccounted(s), status'[s] = status[s],
           \/ \E e : Wrote(s, e) /\ e.action \notin StatusActions
           \/ \E e, f : /\ WroteTwo(s, e, f)
                        /\ e.action \notin StatusActions /\ f.action \notin StatusActions
    PROVE  StatusAccounted(s)'
<1> DEFINE S == StatusEntries(s)
<1>1. /\ S \subseteq 1..Len(audit[s])
      /\ \A k \in 1..Len(audit[s]) : audit'[s][k] = audit[s][k]
      /\ S' = S
  BY OneWith, TwoWith DEF StatusEntries, StatusActions
<1>2. \A k \in S : audit'[s][k] = audit[s][k]
  BY <1>1
<1> HIDE DEF S
<1>3. /\ status[s] # None => S # {}
      /\ \A k \in S :
          /\ LatestIn(S, k) => audit[s][k].after = status[s]
          /\ \A j \in S : ConsecutiveIn(S, j, k) => audit[s][k].before = audit[s][j].after
  BY DEF StatusAccounted, S
<1>4. /\ status'[s] # None => S' # {}
      /\ \A k \in S' :
          /\ LatestIn(S', k) => audit'[s][k].after = status'[s]
          /\ \A j \in S' : ConsecutiveIn(S', j, k) => audit'[s][k].before = audit'[s][j].after
  BY <1>1, <1>2, <1>3
<1>5. QED
  BY <1>4 DEF StatusAccounted, S

\* The last entry about one row or one amendment holds value.
Accounted(s, actions, ref, value) ==
    \E k \in EntriesOn(s, actions, ref) :
       LatestIn(EntriesOn(s, actions, ref), k) /\ audit[s][k].after = value

LEMMA AccountedKept ==
    ASSUME NEW s, NEW actions, NEW ref, NEW value, Accounted(s, actions, ref, value),
           \/ \E e : Wrote(s, e) /\ ~Matches(e, actions, ref)
           \/ \E e, f : /\ WroteTwo(s, e, f)
                        /\ ~Matches(e, actions, ref) /\ ~Matches(f, actions, ref)
    PROVE  Accounted(s, actions, ref, value)'
<1> DEFINE S == EntriesOn(s, actions, ref)
<1>1. /\ S \subseteq 1..Len(audit[s])
      /\ \A k \in 1..Len(audit[s]) : audit'[s][k] = audit[s][k]
      /\ S' = S
  BY OneOn, TwoOn
<1>2. PICK k \in S : LatestIn(S, k) /\ audit[s][k].after = value
  BY DEF Accounted
<1> HIDE DEF S
<1>3. k \in S' /\ LatestIn(S', k) /\ audit'[s][k].after = value
  BY <1>1, <1>2
<1>4. QED
  BY <1>3 DEF Accounted, S

LEMMA AccountedWritten ==
    ASSUME NEW s, NEW actions, NEW ref, NEW value,
           \/ \E e : Wrote(s, e) /\ Matches(e, actions, ref) /\ e.after = value
           \/ \E e, f : /\ WroteTwo(s, e, f)
                        /\ Matches(e, actions, ref) /\ ~Matches(f, actions, ref)
                        /\ e.after = value
           \/ \E e, f : /\ WroteTwo(s, e, f)
                        /\ ~Matches(e, actions, ref) /\ Matches(f, actions, ref)
                        /\ f.after = value
    PROVE  Accounted(s, actions, ref, value)'
<1> DEFINE S == EntriesOn(s, actions, ref)
           L == Len(audit[s])
<1>1. PICK n \in {L + 1, L + 2} : S' = S \cup {n} /\ audit'[s][n].after = value
  BY OneOn, TwoOn DEF Wrote, WroteTwo
<1>2. S \in SUBSET (1..L) /\ L \in Nat
  BY OneOn, TwoOn DEF Wrote, WroteTwo
<1> HIDE DEF S, L
<1>3. n \in Nat /\ n > L
  BY <1>1, <1>2
<1>4. LatestIn(S \cup {n}, n)
  BY <1>2, <1>3, LaterEntry
<1>5. n \in S' /\ LatestIn(S', n) /\ audit'[s][n].after = value
  BY <1>1, <1>4
<1>6. QED
  BY <1>5 DEF Accounted, S

\* A row whose mark stands and of which nothing was written stays accounted for.
LEMMA RowKept ==
    ASSUME NEW s, NEW i, RowAccounted(s, i), rows'[s][i].score = rows[s][i].score,
           \/ \E e : Wrote(s, e) /\ ~Matches(e, RowActions, i)
           \/ \E e, f : /\ WroteTwo(s, e, f)
                        /\ ~Matches(e, RowActions, i) /\ ~Matches(f, RowActions, i)
    PROVE  RowAccounted(s, i)'
<1>1. PICK v : v = rows[s][i].score
  OBVIOUS
<1>2. Accounted(s, RowActions, i, v)
  BY <1>1 DEF RowAccounted, RowEntries, RowActions, Accounted
<1>3. Accounted(s, RowActions, i, v)'
  BY <1>2, AccountedKept
<1>4. QED
  BY <1>1, <1>3 DEF RowAccounted, RowEntries, RowActions, Accounted

LEMMA RowWritten ==
    ASSUME NEW s, NEW i,
           \/ \E e : Wrote(s, e) /\ Matches(e, RowActions, i) /\ e.after = rows'[s][i].score
           \/ \E e, f : /\ WroteTwo(s, e, f)
                        /\ Matches(e, RowActions, i) /\ ~Matches(f, RowActions, i)
                        /\ e.after = rows'[s][i].score
    PROVE  RowAccounted(s, i)'
<1>1. PICK v : v = rows'[s][i].score
  OBVIOUS
<1>2. Accounted(s, RowActions, i, v)'
  BY <1>1, AccountedWritten
<1>3. QED
  BY <1>1, <1>2 DEF RowAccounted, RowEntries, RowActions, Accounted

MoveActions == {"amendment_status_changed"}

LEMMA AmendmentKept ==
    ASSUME NEW s, NEW m, AmendmentAccounted(s, m),
           amendments'[s][m].status = amendments[s][m].status,
           \/ \E e : Wrote(s, e) /\ ~Matches(e, MoveActions, m)
           \/ \E e, f : /\ WroteTwo(s, e, f)
                        /\ ~Matches(e, MoveActions, m) /\ ~Matches(f, MoveActions, m)
    PROVE  AmendmentAccounted(s, m)'
<1>1. PICK v : v = amendments[s][m].status
  OBVIOUS
<1>2. Accounted(s, MoveActions, m, v)
  BY <1>1 DEF AmendmentAccounted, AmendmentEntries, MoveActions, Accounted
<1>3. Accounted(s, MoveActions, m, v)'
  BY <1>2, AccountedKept
<1>4. QED
  BY <1>1, <1>3 DEF AmendmentAccounted, AmendmentEntries, MoveActions, Accounted

LEMMA AmendmentWritten ==
    ASSUME NEW s, NEW m,
           \/ \E e : /\ Wrote(s, e) /\ Matches(e, MoveActions, m)
                     /\ e.after = amendments'[s][m].status
           \/ \E e, f : /\ WroteTwo(s, e, f)
                        /\ ~Matches(e, MoveActions, m) /\ Matches(f, MoveActions, m)
                        /\ f.after = amendments'[s][m].status
    PROVE  AmendmentAccounted(s, m)'
<1>1. PICK v : v = amendments'[s][m].status
  OBVIOUS
<1>2. Accounted(s, MoveActions, m, v)'
  BY <1>1, AccountedWritten
<1>3. QED
  BY <1>1, <1>2 DEF AmendmentAccounted, AmendmentEntries, MoveActions, Accounted

\* Only the status of the sheet, or nothing, was written.
LEMMA SheetEntryKeeps ==
    ASSUME NEW s, NEW e, SheetAccounted(s), Wrote(s, e), rows'[s] = rows[s],
           amendments'[s] = amendments[s], e.action \in StatusActions
    PROVE  /\ \A i \in DOMAIN rows'[s] : RowAccounted(s, i)'
           /\ \A m \in DOMAIN amendments'[s] : AmendmentAccounted(s, m)'
<1>1. \A i : ~Matches(e, RowActions, i) /\ ~Matches(e, MoveActions, i)
  BY DEF Matches, RowActions, MoveActions, StatusActions
<1>2. QED
  BY <1>1, RowKept, AmendmentKept DEF SheetAccounted

LEMMA CreateAccounted ==
    ASSUME TypeOK, NEW s \in Sheets, SheetAccounted(s), NEW a \in Actors,
           CreateDraftResult(a, s)
    PROVE  SheetAccounted(s)'
<1> DEFINE e == Entry(a, "result_created", 0, None, "draft")
<1>1. Wrote(s, e)
  BY WritesOne DEF CreateDraftResult
<1>2. e.action \in StatusActions /\ e.before = status[s] /\ e.after = status'[s]
  BY DEF Entry, StatusActions, CreateDraftResult, TypeOK
<1> HIDE DEF e
<1>3. StatusAccounted(s)'
  BY <1>1, <1>2, StatusWritten DEF SheetAccounted
<1>4. QED
  BY <1>1, <1>2, <1>3, SheetEntryKeeps DEF SheetAccounted, CreateDraftResult

LEMMA MovedAccounted ==
    ASSUME TypeOK, NEW s \in Sheets, SheetAccounted(s), NEW a \in Actors,
           NEW to \in ResultStatus, Moved(a, s, to)
    PROVE  SheetAccounted(s)'
<1> DEFINE e == Entry(a, "status_changed", 0, status[s], to)
<1>1. Wrote(s, e)
  BY WritesOne DEF Moved
<1>2. e.action \in StatusActions /\ e.before = status[s] /\ e.after = status'[s]
  BY DEF Entry, StatusActions, Moved
<1> HIDE DEF e
<1>3. StatusAccounted(s)'
  BY <1>1, <1>2, StatusWritten DEF SheetAccounted
<1>4. QED
  BY <1>1, <1>2, <1>3, SheetEntryKeeps DEF SheetAccounted, Moved

LEMMA AddScoreAccounted ==
    ASSUME TypeOK, NEW s \in Sheets, SheetAccounted(s), NEW a \in Actors,
           NEW st \in Students, NEW v \in Scores, AddScore(a, s, st, v)
    PROVE  SheetAccounted(s)'
<1>0. PICK last : last = Len(rows[s]) + 1
  OBVIOUS
<1> DEFINE e == Entry(a, "score_added", last, None, v)
<1>1. Wrote(s, e)
  BY <1>0, WritesOne DEF AddScore
<1>2. /\ e.action \notin StatusActions
      /\ \A i : ~Matches(e, MoveActions, i)
      /\ \A i : Matches(e, RowActions, i) <=> i = last
      /\ e.after = v
  BY DEF Entry, StatusActions, MoveActions, RowActions, Matches
<1>3. /\ DOMAIN rows'[s] = DOMAIN rows[s] \cup {last}
      /\ last \notin DOMAIN rows[s]
      /\ \A i \in DOMAIN rows[s] : rows'[s][i] = rows[s][i]
      /\ rows'[s][last].score = v
  BY <1>0 DEF AddScore, TypeOK
<1> HIDE DEF e
<1>4. StatusAccounted(s)'
  BY <1>1, <1>2, StatusKept DEF SheetAccounted, AddScore
<1>5. ASSUME NEW i \in DOMAIN rows[s] PROVE RowAccounted(s, i)'
  BY <1>1, <1>2, <1>3, RowKept DEF SheetAccounted
<1>6. RowAccounted(s, last)'
  BY <1>1, <1>2, <1>3, RowWritten
<1>7. ASSUME NEW m \in DOMAIN amendments'[s] PROVE AmendmentAccounted(s, m)'
  BY <1>1, <1>2, AmendmentKept DEF SheetAccounted, AddScore
<1>8. QED
  BY <1>3, <1>4, <1>5, <1>6, <1>7 DEF SheetAccounted

LEMMA ChangeScoreAccounted ==
    ASSUME TypeOK, NEW s \in Sheets, SheetAccounted(s), NEW a \in Actors,
           NEW st \in Students, NEW v \in Scores, ChangeScore(a, s, st, v)
    PROVE  SheetAccounted(s)'
<1>1. PICK c \in CurrentRowsOf(s, st) :
         /\ rows' = [rows EXCEPT ![s][c].score = v]
         /\ Log(s, <<Entry(a, "score_changed", c, rows[s][c].score, v)>>)
  BY DEF ChangeScore
<1> DEFINE e == Entry(a, "score_changed", c, rows[s][c].score, v)
<1>2. Wrote(s, e)
  BY <1>1, WritesOne
<1>3. /\ e.action \notin StatusActions
      /\ \A i : ~Matches(e, MoveActions, i)
      /\ \A i : Matches(e, RowActions, i) <=> i = c
      /\ e.after = v
  BY DEF Entry, StatusActions, MoveActions, RowActions, Matches
<1>4. c \in DOMAIN rows[s] /\ rows[s] \in Seq(StudentScore) /\ rows[s][c] \in StudentScore
  BY DEF CurrentRowsOf, CurrentRows, TypeOK
<1>5. /\ DOMAIN rows'[s] = DOMAIN rows[s]
      /\ \A i \in DOMAIN rows[s] \ {c} : rows'[s][i] = rows[s][i]
      /\ rows'[s][c].score = v
  BY <1>1, <1>4 DEF TypeOK, StudentScore
<1> HIDE DEF e
<1>6. StatusAccounted(s)'
  BY <1>2, <1>3, StatusKept DEF SheetAccounted, ChangeScore
<1>7. ASSUME NEW i \in DOMAIN rows[s], i # c PROVE RowAccounted(s, i)'
  BY <1>2, <1>3, <1>5, <1>7, RowKept DEF SheetAccounted
<1>8. RowAccounted(s, c)'
  BY <1>2, <1>3, <1>5, RowWritten
<1>9. ASSUME NEW m \in DOMAIN amendments'[s] PROVE AmendmentAccounted(s, m)'
  BY <1>2, <1>3, AmendmentKept DEF SheetAccounted, ChangeScore
<1>10. QED
  BY <1>5, <1>6, <1>7, <1>8, <1>9 DEF SheetAccounted

LEMMA RaiseAccounted ==
    ASSUME TypeOK, NEW s \in Sheets, SheetAccounted(s), NEW a \in Actors,
           NEW st \in Students, NEW v \in Scores, RaiseAmendment(a, s, st, v)
    PROVE  SheetAccounted(s)'
<1>0. PICK last : last = Len(amendments[s]) + 1
  OBVIOUS
<1> DEFINE e == Entry(a, "amendment_status_changed", last, None, "pending_hod")
<1>1. Wrote(s, e)
  BY <1>0, WritesOne DEF RaiseAmendment
<1>2. /\ e.action \notin StatusActions
      /\ \A i : ~Matches(e, RowActions, i)
      /\ \A i : Matches(e, MoveActions, i) <=> i = last
      /\ e.after = "pending_hod"
  BY DEF Entry, StatusActions, MoveActions, RowActions, Matches
<1>3. /\ DOMAIN amendments'[s] = DOMAIN amendments[s] \cup {last}
      /\ last \notin DOMAIN amendments[s]
      /\ \A m \in DOMAIN amendments[s] : amendments'[s][m] = amendments[s][m]
      /\ amendments'[s][last].status = "pending_hod"
  BY <1>0 DEF RaiseAmendment, TypeOK
<1> HIDE DEF e
<1>4. StatusAccounted(s)'
  BY <1>1, <1>2, StatusKept DEF SheetAccounted, RaiseAmendment
<1>5. ASSUME NEW i \in DOMAIN rows'[s] PROVE RowAccounted(s, i)'
  BY <1>1, <1>2, RowKept DEF SheetAccounted, RaiseAmendment
<1>6. ASSUME NEW m \in DOMAIN amendments[s] PROVE AmendmentAccounted(s, m)'
  BY <1>1, <1>2, <1>3, AmendmentKept DEF SheetAccounted
<1>7. AmendmentAccounted(s, last)'
  BY <1>1, <1>2, <1>3, AmendmentWritten
<1>8. QED
  BY <1>3, <1>4, <1>5, <1>6, <1>7 DEF SheetAccounted

LEMMA MoveAccounted ==
    ASSUME TypeOK, NEW s \in Sheets, SheetAccounted(s), NEW a \in Actors,
           NEW c \in DOMAIN amendments[s], NEW to \in AmendmentStatus, MoveAmendment(a, s, c, to)
    PROVE  SheetAccounted(s)'
<1> DEFINE e == MoveEntry(a, s, c, to)
<1>1. Wrote(s, e)
  BY WritesOne DEF MoveAmendment
<1>2. /\ e.action \notin StatusActions
      /\ \A i : ~Matches(e, RowActions, i)
      /\ \A i : Matches(e, MoveActions, i) <=> i = c
      /\ e.after = to
  BY DEF MoveEntry, Entry, StatusActions, MoveActions, RowActions, Matches
<1>3. amendments[s] \in Seq(ResultAmendment) /\ amendments[s][c] \in ResultAmendment
  BY DEF TypeOK
<1>4. /\ DOMAIN amendments'[s] = DOMAIN amendments[s]
      /\ \A m \in DOMAIN amendments[s] \ {c} : amendments'[s][m] = amendments[s][m]
      /\ amendments'[s][c].status = to
  BY <1>3 DEF MoveAmendment, TypeOK, ResultAmendment
<1> HIDE DEF e
<1>5. StatusAccounted(s)'
  BY <1>1, <1>2, StatusKept DEF SheetAccounted, MoveAmendment
<1>6. ASSUME NEW i \in DOMAIN rows'[s] PROVE RowAccounted(s, i)'
  BY <1>1, <1>2, RowKept DEF SheetAccounted, MoveAmendment
<1>7. ASSUME NEW m \in DOMAIN amendments[s], m # c PROVE AmendmentAccounted(s, m)'
  BY <1>1, <1>2, <1>4, <1>7, AmendmentKept DEF SheetAccounted
<1>8. AmendmentAccounted(s, c)'
  BY <1>1, <1>2, <1>4, AmendmentWritten
<1>9. QED
  BY <1>4, <1>5, <1>6, <1>7, <1>8 DEF SheetAccounted

\* What the application of an amendment writes: row i gives way to row last, which
\* holds v (services._apply_amendment and amendment_transition).
Applied(a, s, m, i, last, v) ==
    /\ i \in CurrentRowsOf(s, amendments[s][m].student)
    /\ last = Len(rows[s]) + 1
    /\ v = amendments[s][m].proposed
    /\ UniqueCurrentScore(rows'[s])
    /\ Replaces(rows'[s], rows[s], i, v)
    /\ WroteTwo(s, Entry(a, "score_superseded", last, rows[s][i].score, v),
                   MoveEntry(a, s, m, "applied"))
    /\ DOMAIN amendments'[s] = DOMAIN amendments[s]
    /\ \A n \in DOMAIN amendments[s] \ {m} : amendments'[s][n] = amendments[s][n]
    /\ amendments'[s][m] = [amendments[s][m] EXCEPT !.status = "applied",
                                                   !.applied_score = last]

LEMMA ApplyParts ==
    ASSUME TypeOK, NEW s \in Sheets, NEW a \in Actors, NEW m \in DOMAIN amendments[s],
           ApplyAmendment(a, s, m)
    PROVE  \E i, last, v : Applied(a, s, m, i, last, v)
<1>1. PICK last, v : last = Len(rows[s]) + 1 /\ v = amendments[s][m].proposed
  OBVIOUS
<1>2. PICK i \in CurrentRowsOf(s, amendments[s][m].student) :
         /\ UniqueCurrentScore(Superseded(rows[s], i, v))
         /\ rows' = [rows EXCEPT ![s] = Superseded(@, i, v)]
         /\ Log(s, <<Entry(a, "score_superseded", last, rows[s][i].score, v),
                     MoveEntry(a, s, m, "applied")>>)
  BY <1>1 DEF ApplyAmendment
<1>3. rows'[s] = Superseded(rows[s], i, v)
  BY <1>2 DEF TypeOK
<1>4. amendments[s] \in Seq(ResultAmendment) /\ amendments[s][m] \in ResultAmendment
  BY DEF TypeOK
<1>5. /\ rows[s] \in Seq(StudentScore) /\ i \in DOMAIN rows[s]
      /\ v \in ValidScores
  BY <1>1, <1>4 DEF TypeOK, CurrentRowsOf, CurrentRows, ResultAmendment
<1>6. Replaces(rows'[s], rows[s], i, v)
  BY <1>3, <1>5, SupersededReplaces
<1> DEFINE e == Entry(a, "score_superseded", last, rows[s][i].score, v)
           f == MoveEntry(a, s, m, "applied")
<1>7. audit'[s] = audit[s] \o <<e, f>> /\ audit[s] \in Seq(ResultAuditLog)
  BY <1>2 DEF Log, TypeOK
<1> HIDE DEF e, f
<1>8. WroteTwo(s, e, f)
  BY <1>7 DEF WroteTwo, Extends
<1>9. /\ DOMAIN amendments'[s] = DOMAIN amendments[s]
      /\ \A n \in DOMAIN amendments[s] \ {m} : amendments'[s][n] = amendments[s][n]
      /\ amendments'[s][m] = [amendments[s][m] EXCEPT !.status = "applied",
                                                     !.applied_score = last]
  BY <1>1, <1>4 DEF ApplyAmendment, TypeOK
<1>10. UniqueCurrentScore(rows'[s])
  BY <1>2, <1>3
<1>11. Applied(a, s, m, i, last, v)
  BY <1>1, <1>6, <1>8, <1>9, <1>10 DEF e, f, Applied
<1>12. QED
  BY <1>11

LEMMA ApplyAccounted ==
    ASSUME TypeOK, NEW s \in Sheets, SheetAccounted(s), NEW a \in Actors,
           NEW c \in DOMAIN amendments[s], ApplyAmendment(a, s, c)
    PROVE  SheetAccounted(s)'
<1>0. PICK r, last, v : Applied(a, s, c, r, last, v)
  BY ApplyParts
<1>1. /\ last = Len(rows[s]) + 1
      /\ Replaces(rows'[s], rows[s], r, v)
      /\ WroteTwo(s, Entry(a, "score_superseded", last, rows[s][r].score, v),
                     MoveEntry(a, s, c, "applied"))
      /\ DOMAIN amendments'[s] = DOMAIN amendments[s]
      /\ \A n \in DOMAIN amendments[s] \ {c} : amendments'[s][n] = amendments[s][n]
      /\ amendments'[s][c] = [amendments[s][c] EXCEPT !.status = "applied",
                                                     !.applied_score = last]
  BY <1>0 DEF Applied
<1> DEFINE e == Entry(a, "score_superseded", last, rows[s][r].score, v)
           f == MoveEntry(a, s, c, "applied")
<1>2. WroteTwo(s, e, f)
  BY <1>1
<1>3. /\ e.action \notin StatusActions /\ f.action \notin StatusActions
      /\ \A i : Matches(e, RowActions, i) <=> i = last
      /\ \A i : ~Matches(f, RowActions, i)
      /\ \A i : Matches(f, MoveActions, i) <=> i = c
      /\ \A i : ~Matches(e, MoveActions, i)
      /\ e.after = v /\ f.after = "applied"
  BY DEF MoveEntry, Entry, StatusActions, MoveActions, RowActions, Matches
<1>4. /\ DOMAIN rows'[s] = DOMAIN rows[s] \cup {last}
      /\ last \notin DOMAIN rows[s]
      /\ \A i \in DOMAIN rows[s] : rows'[s][i].score = rows[s][i].score
      /\ rows'[s][last].score = v
  BY <1>1 DEF Replaces, TypeOK
<1>5. amendments'[s][c].status = "applied"
  <2>1. amendments[s][c] \in ResultAmendment
    BY DEF TypeOK
  <2>2. QED
    BY <1>1, <2>1 DEF ResultAmendment
<1> HIDE DEF e, f
<1>6. StatusAccounted(s)'
  BY <1>2, <1>3, StatusKept DEF SheetAccounted, ApplyAmendment
<1>7. ASSUME NEW i \in DOMAIN rows[s] PROVE RowAccounted(s, i)'
  BY <1>2, <1>3, <1>4, RowKept DEF SheetAccounted
<1>8. RowAccounted(s, last)'
  BY <1>2, <1>3, <1>4, RowWritten
<1>9. ASSUME NEW m \in DOMAIN amendments[s], m # c PROVE AmendmentAccounted(s, m)'
  BY <1>1, <1>2, <1>3, <1>9, AmendmentKept DEF SheetAccounted
<1>10. AmendmentAccounted(s, c)'
  BY <1>2, <1>3, <1>5, AmendmentWritten
<1>11. QED
  BY <1>1, <1>4, <1>6, <1>7, <1>8, <1>9, <1>10 DEF SheetAccounted

\* In every reachable state the trail accounts for the tables: the last entry
\* about a sheet, a row or an amendment holds its present value, and the status
\* entries follow on one another (services._log in every transaction).
THEOREM TrailAccounts == Spec => []AuditAccounts
<1>1. Init => AuditAccounts
  BY DEF Init, AuditAccounts, StatusEntries, EntriesWith
<1>2. TypeOK /\ AuditAccounts /\ [Next]_vars => AuditAccounts'
  <2> SUFFICES ASSUME TypeOK, [Next]_vars, NEW s \in Sheets, SheetAccounted(s)
               PROVE  SheetAccounted(s)'
    BY DEF AuditAccounts, SheetAccounted, StatusAccounted, RowAccounted, AmendmentAccounted
  <2>1. CASE Untouched(s)
    <3>1. \A actions : EntriesWith(s, actions)' = EntriesWith(s, actions)
      BY <2>1 DEF Untouched, EntriesWith
    <3>2. \A actions, ref : EntriesOn(s, actions, ref)' = EntriesOn(s, actions, ref)
      BY <2>1, <3>1 DEF Untouched, EntriesOn
    <3>3. QED
      BY <2>1, <3>1, <3>2
         DEF Untouched, SheetAccounted, StatusAccounted, RowAccounted, AmendmentAccounted,
             StatusEntries, RowEntries, AmendmentEntries
  <2>2. QED
    BY <2>1, EveryStep, CreateAccounted, AddScoreAccounted, ChangeScoreAccounted, MovedAccounted,
       RaiseAccounted, MoveAccounted, ApplyAccounted DEF SheetStep
<1>3. QED
  BY <1>1, <1>2, TypeCorrect, PTL DEF Spec

-----------------------------------------------------------------------------
(***************************************************************************)
(* Superseding rows and applied amendments.  SupersededByAmendment is      *)
(* inductive once TypeOK is known.                                         *)
(***************************************************************************)

\* The part of SupersededByAmendment about one amendment.
Matched(s, m) ==
    IF amendments[s][m].status = "applied"
    THEN /\ amendments[s][m].applied_score \in DOMAIN rows[s]
         /\ rows[s][amendments[s][m].applied_score].supersedes # 0
         /\ rows[s][amendments[s][m].applied_score].student = amendments[s][m].student
         /\ rows[s][amendments[s][m].applied_score].score = amendments[s][m].proposed
    ELSE amendments[s][m].applied_score = 0

Explained(s, i) ==
    rows[s][i].supersedes # 0 =>
       \E m \in DOMAIN amendments[s] :
          /\ amendments[s][m].applied_score = i
          /\ \A n \in DOMAIN amendments[s] : amendments[s][n].applied_score = i => n = m

SheetMatched(s) ==
    /\ amendments[s] # <<>> => status[s] = "ratified_by_senate"
    /\ \A m \in DOMAIN amendments[s] : Matched(s, m)
    /\ \A i \in DOMAIN rows[s] : Explained(s, i)

\* Entering or correcting a mark happens where there is no amendment.
LEMMA RecordMatched ==
    ASSUME TypeOK, NEW s \in Sheets, SheetMatched(s), NEW a \in Actors,
           NEW st \in Students, NEW v \in Scores, RecordScore(a, s, st, v)
    PROVE  SheetMatched(s)'
<1>1. amendments'[s] = <<>> /\ amendments[s] = <<>>
  BY DEF RecordScore, AddScore, ChangeScore, MayRecord, LECTURER_EDITABLE_STATUSES, SheetMatched
<1>2. \A i \in DOMAIN rows[s] : rows[s][i].supersedes = 0
  BY <1>1 DEF SheetMatched, Explained
<1>3. \A i \in DOMAIN rows'[s] : rows'[s][i].supersedes = 0
  <2>1. CASE AddScore(a, s, st, v)
    <3>1. rows'[s] = Append(rows[s], [student |-> st, score |-> v,
                                      is_current |-> TRUE, supersedes |-> 0])
      BY <2>1 DEF AddScore, TypeOK
    <3>2. rows[s] \in Seq(StudentScore)
      BY DEF TypeOK
    <3>3. QED
      BY <1>2, <3>1, <3>2
  <2>2. CASE ChangeScore(a, s, st, v)
    <3>1. PICK c \in CurrentRowsOf(s, st) : rows' = [rows EXCEPT ![s][c].score = v]
      BY <2>2 DEF ChangeScore
    <3>2. rows[s] \in Seq(StudentScore) /\ c \in DOMAIN rows[s] /\ rows[s][c] \in StudentScore
      BY DEF TypeOK, CurrentRowsOf, CurrentRows
    <3>3. /\ DOMAIN rows'[s] = DOMAIN rows[s]
          /\ \A i \in DOMAIN rows[s] \ {c} : rows'[s][i] = rows[s][i]
          /\ rows'[s][c].supersedes = rows[s][c].supersedes
      BY <3>1, <3>2 DEF TypeOK, StudentScore
    <3>4. QED
      BY <1>2, <3>2, <3>3
  <2>3. QED
    BY <2>1, <2>2 DEF RecordScore
<1>4. QED
  BY <1>1, <1>3 DEF SheetMatched, Explained

\* Raising an amendment, or moving one short of its application, leaves
\* applied_score alone.
LEMMA RaiseMatched ==
    ASSUME TypeOK, NEW s \in Sheets, SheetMatched(s), NEW a \in Actors,
           NEW st \in Students, NEW v \in Scores, RaiseAmendment(a, s, st, v)
    PROVE  SheetMatched(s)'
<1>0. PICK last : last = Len(amendments[s]) + 1
  OBVIOUS
<1>1. /\ DOMAIN amendments'[s] = DOMAIN amendments[s] \cup {last}
      /\ last \notin DOMAIN amendments[s]
      /\ \A m \in DOMAIN amendments[s] : amendments'[s][m] = amendments[s][m]
      /\ amendments'[s][last].status = "pending_hod"
      /\ amendments'[s][last].applied_score = 0
  BY <1>0 DEF RaiseAmendment, TypeOK
<1>2. rows'[s] = rows[s] /\ status'[s] = "ratified_by_senate"
  BY DEF RaiseAmendment
<1>3. \A m \in DOMAIN amendments'[s] : Matched(s, m)'
  BY <1>1, <1>2 DEF SheetMatched, Matched
<1>4. ASSUME NEW i \in DOMAIN rows[s] PROVE Explained(s, i)'
  <2>1. i # 0
    BY DEF TypeOK
  <2>2. QED
    BY <1>1, <1>2, <2>1 DEF SheetMatched, Explained
<1>5. QED
  BY <1>2, <1>3, <1>4 DEF SheetMatched

LEMMA MoveMatched ==
    ASSUME TypeOK, NEW s \in Sheets, SheetMatched(s), NEW a \in Actors,
           NEW c \in DOMAIN amendments[s], NEW to \in AmendmentStatus, MoveAmendment(a, s, c, to)
    PROVE  SheetMatched(s)'
<1>1. amendments[s] \in Seq(ResultAmendment) /\ amendments[s][c] \in ResultAmendment
  BY DEF TypeOK
<1>2. /\ DOMAIN amendments'[s] = DOMAIN amendments[s]
      /\ \A m \in DOMAIN amendments[s] \ {c} : amendments'[s][m] = amendments[s][m]
      /\ amendments'[s][c].status = to
      /\ amendments'[s][c].applied_score = amendments[s][c].applied_score
  BY <1>1 DEF MoveAmendment, TypeOK, ResultAmendment
<1>3. /\ rows'[s] = rows[s] /\ status'[s] = status[s]
      /\ to # "applied" /\ amendments[s][c].status # "applied"
  BY DEF MoveAmendment, MayMoveAmendment, AMENDMENT_TRANSITIONS
<1>4. amendments[s] # <<>>
  OBVIOUS
<1>5. \A m \in DOMAIN amendments'[s] : Matched(s, m)'
  BY <1>2, <1>3 DEF SheetMatched, Matched
<1>6. \A m \in DOMAIN amendments[s] :
         amendments'[s][m].applied_score = amendments[s][m].applied_score
  BY <1>2
<1>7. \A i \in DOMAIN rows[s] : Explained(s, i)'
  BY <1>2, <1>3, <1>6 DEF SheetMatched, Explained
<1>8. QED
  BY <1>3, <1>4, <1>5, <1>7 DEF SheetMatched

LEMMA ApplyMatched ==
    ASSUME TypeOK, NEW s \in Sheets, SheetMatched(s), NEW a \in Actors,
           NEW c \in DOMAIN amendments[s], ApplyAmendment(a, s, c)
    PROVE  SheetMatched(s)'
<1>1. PICK r, last, v : Applied(a, s, c, r, last, v)
  BY ApplyParts
<1>2. /\ amendments[s] \in Seq(ResultAmendment) /\ amendments[s][c] \in ResultAmendment
      /\ rows[s] \in Seq(StudentScore)
  BY DEF TypeOK
<1>3. /\ DOMAIN amendments'[s] = DOMAIN amendments[s]
      /\ \A m \in DOMAIN amendments[s] \ {c} : amendments'[s][m] = amendments[s][m]
      /\ amendments'[s][c].status = "applied"
      /\ amendments'[s][c].applied_score = last
      /\ amendments'[s][c].student = amendments[s][c].student
      /\ amendments'[s][c].proposed = v
  BY <1>1, <1>2 DEF Applied, ResultAmendment
<1>4. amendments[s][c].status # "applied" /\ status'[s] = status[s] /\ amendments[s] # <<>>
  BY DEF ApplyAmendment, MayMoveAmendment, AMENDMENT_TRANSITIONS
<1>5. /\ DOMAIN rows'[s] = DOMAIN rows[s] \cup {last}
      /\ last \notin DOMAIN rows[s] /\ last # 0
      /\ \A i \in DOMAIN rows[s] : /\ rows'[s][i].student = rows[s][i].student
                                   /\ rows'[s][i].score = rows[s][i].score
                                   /\ rows'[s][i].supersedes = rows[s][i].supersedes
      /\ rows'[s][last].student = amendments[s][c].student
      /\ rows'[s][last].score = v
      /\ rows'[s][last].supersedes # 0
  BY <1>1, <1>2 DEF Applied, Replaces, CurrentRowsOf, CurrentRows
<1>6. \A m \in DOMAIN amendments[s] : Matched(s, m)
  BY DEF SheetMatched
<1>7. amendments[s][c].applied_score = 0
  BY <1>4, <1>6 DEF Matched
<1>8. ASSUME NEW m \in DOMAIN amendments[s], m # c
      PROVE  Matched(s, m)' /\ amendments'[s][m].applied_score # last
  <2>1. amendments'[s][m] = amendments[s][m] /\ Matched(s, m)
    BY <1>3, <1>6, <1>8
  <2>2. CASE amendments[s][m].status = "applied"
    BY <1>5, <2>1, <2>2 DEF Matched
  <2>3. CASE amendments[s][m].status # "applied"
    BY <1>5, <2>1, <2>3 DEF Matched
  <2> QED
    BY <2>2, <2>3
<1>9. Matched(s, c)'
  BY <1>3, <1>5 DEF Matched
<1>10. ASSUME NEW i \in DOMAIN rows[s] PROVE Explained(s, i)'
  <2> SUFFICES ASSUME rows[s][i].supersedes # 0
               PROVE  \E m \in DOMAIN amendments'[s] :
                         /\ amendments'[s][m].applied_score = i
                         /\ \A n \in DOMAIN amendments'[s] :
                               amendments'[s][n].applied_score = i => n = m
    BY <1>5 DEF Explained
  <2>1. PICK m \in DOMAIN amendments[s] :
           /\ amendments[s][m].applied_score = i
           /\ \A n \in DOMAIN amendments[s] : amendments[s][n].applied_score = i => n = m
    BY DEF SheetMatched, Explained
  <2>2. i # 0 /\ i # last
    BY <1>2, <1>5
  <2>3. QED
    BY <1>3, <1>7, <2>1, <2>2
<1>11. ASSUME NEW i, i = last PROVE Explained(s, i)'
  BY <1>3, <1>8, <1>11 DEF Explained
<1>12. QED
  BY <1>3, <1>4, <1>5, <1>8, <1>9, <1>10, <1>11 DEF SheetMatched

\* In every reachable state superseding rows and applied amendments match one to
\* one, and only ratified sheets have amendments (services.raise_amendment,
\* _apply_amendment).
THEOREM AmendmentsMatchRows == Spec => []SupersededByAmendment
<1>1. Init => SupersededByAmendment
  BY DEF Init, SupersededByAmendment
<1>2. TypeOK /\ SupersededByAmendment /\ [Next]_vars => SupersededByAmendment'
  <2> SUFFICES ASSUME TypeOK, [Next]_vars, NEW s \in Sheets, SheetMatched(s)
               PROVE  SheetMatched(s)'
    BY DEF SupersededByAmendment, SheetMatched, Matched, Explained
  <2>1. CASE Untouched(s)
    BY <2>1 DEF Untouched, SheetMatched, Matched, Explained
  <2>2. ASSUME NEW a \in Actors, CreateDraftResult(a, s) PROVE SheetMatched(s)'
    <3>1. amendments[s] = <<>>
      BY <2>2, NoneAssumption DEF CreateDraftResult, SheetMatched, ResultStatus
    <3>2. QED
      BY <2>2, <3>1 DEF CreateDraftResult, SheetMatched, Matched, Explained
  <2>3. ASSUME NEW a \in Actors, NEW to \in ResultStatus, Moved(a, s, to) PROVE SheetMatched(s)'
    <3>1. amendments[s] = <<>>
      BY <2>3 DEF Moved, MayTransition, TRANSITIONS, SheetMatched
    <3>2. QED
      BY <2>3, <3>1 DEF Moved, SheetMatched, Matched, Explained
  <2>4. QED
    BY <2>1, <2>2, <2>3, EveryStep, RecordMatched, RaiseMatched, MoveMatched, ApplyMatched
       DEF SheetStep, RecordScore
<1>3. QED
  BY <1>1, <1>2, TypeCorrect, PTL DEF Spec

-----------------------------------------------------------------------------
(***************************************************************************)
(* The examination of a sheet.  RatifiedWasExamined speaks of sheets that  *)
(* have passed every desk; the invariant says of a sheet on any desk that  *)
(* its trail ends with the desks it has passed.                            *)
(***************************************************************************)

MarkActions == {"score_added", "score_changed"}

\* The submission, after which no mark was entered.
SubmissionAt(s, i) ==
    /\ audit[s][i].after = "submitted_to_hod" /\ audit[s][i].actor = lecturer[s]
    /\ \A n \in EntriesWith(s, MarkActions) : n < i

HodApprovalAt(s, j) ==
    /\ audit[s][j].after = "approved_by_hod" /\ RoleOf[audit[s][j].actor] = "hod"
    /\ HodScope(audit[s][j].actor, s)

DeanApprovalAt(s, k) ==
    /\ audit[s][k].after = "approved_by_dean" /\ RoleOf[audit[s][k].actor] = "dean"
    /\ DeanScope(audit[s][k].actor, s)

OnHodDesk(s) ==
    \E i \in StatusEntries(s) : SubmissionAt(s, i) /\ LatestIn(StatusEntries(s), i)

OnDeanDesk(s) ==
    \E i, j \in StatusEntries(s) :
       /\ SubmissionAt(s, i) /\ HodApprovalAt(s, j)
       /\ ConsecutiveIn(StatusEntries(s), i, j) /\ LatestIn(StatusEntries(s), j)

OnSenateDesk(s) ==
    \E i, j, k \in StatusEntries(s) :
       /\ SubmissionAt(s, i) /\ HodApprovalAt(s, j) /\ DeanApprovalAt(s, k)
       /\ ConsecutiveIn(StatusEntries(s), i, j) /\ ConsecutiveIn(StatusEntries(s), j, k)
       /\ LatestIn(StatusEntries(s), k)

Public(s) ==
    \E i, j, k, l \in StatusEntries(s) :
       /\ SubmissionAt(s, i) /\ HodApprovalAt(s, j) /\ DeanApprovalAt(s, k)
       /\ RoleOf[audit[s][l].actor] = "senate_admin"
       /\ ConsecutiveIn(StatusEntries(s), i, j) /\ ConsecutiveIn(StatusEntries(s), j, k)
       /\ ConsecutiveIn(StatusEntries(s), k, l) /\ LatestIn(StatusEntries(s), l)

SheetExamined(s) ==
    /\ status[s] = "submitted_to_hod" => OnHodDesk(s)
    /\ status[s] = "approved_by_hod" => OnDeanDesk(s)
    /\ status[s] = "approved_by_dean" => OnSenateDesk(s)
    /\ status[s] = "ratified_by_senate" => Public(s)

InReview == {"submitted_to_hod", "approved_by_hod", "approved_by_dean", "ratified_by_senate"}

\* Entries that are neither about the status nor about a mark entered by hand
\* leave the examination as it was.
LEMMA ExaminedKept ==
    ASSUME NEW s, SheetExamined(s), status'[s] = status[s], lecturer'[s] = lecturer[s],
           \/ audit'[s] = audit[s]
           \/ \E e : Wrote(s, e) /\ e.action \notin StatusActions \cup MarkActions
           \/ \E e, f : /\ WroteTwo(s, e, f)
                        /\ e.action \notin StatusActions \cup MarkActions
                        /\ f.action \notin StatusActions \cup MarkActions
    PROVE  SheetExamined(s)'
<1> DEFINE S == StatusEntries(s)
           M == EntriesWith(s, MarkActions)
<1>1. /\ S' = S /\ M' = M
      /\ \A k \in S : audit'[s][k] = audit[s][k]
  <2>1. CASE audit'[s] = audit[s]
    BY <2>1 DEF StatusEntries, EntriesWith
  <2>2. ASSUME NEW e, Wrote(s, e), e.action \notin StatusActions \cup MarkActions
        PROVE  S' = S /\ M' = M /\ \A k \in S : audit'[s][k] = audit[s][k]
    BY <2>2, OneWith DEF StatusEntries, StatusActions
  <2>3. ASSUME NEW e, NEW f, WroteTwo(s, e, f), e.action \notin StatusActions \cup MarkActions,
               f.action \notin StatusActions \cup MarkActions
        PROVE  S' = S /\ M' = M /\ \A k \in S : audit'[s][k] = audit[s][k]
    BY <2>3, TwoWith DEF StatusEntries, StatusActions
  <2>4. QED
    BY <2>1, <2>2, <2>3
<1>2. \A k \in S : /\ SubmissionAt(s, k) => SubmissionAt(s, k)'
                   /\ HodApprovalAt(s, k) => HodApprovalAt(s, k)'
                   /\ DeanApprovalAt(s, k) => DeanApprovalAt(s, k)'
                   /\ audit'[s][k].actor = audit[s][k].actor
  BY <1>1 DEF SubmissionAt, HodApprovalAt, DeanApprovalAt, HodScope, DeanScope
<1> HIDE DEF S, M
<1>3. OnHodDesk(s) => OnHodDesk(s)'
  BY <1>1, <1>2 DEF OnHodDesk, S
<1>4. OnDeanDesk(s) => OnDeanDesk(s)'
  BY <1>1, <1>2 DEF OnDeanDesk, S
<1>5. OnSenateDesk(s) => OnSenateDesk(s)'
  BY <1>1, <1>2 DEF OnSenateDesk, S
<1>6. Public(s) => Public(s)'
  BY <1>1, <1>2 DEF Public, S
<1>7. QED
  BY <1>3, <1>4, <1>5, <1>6 DEF SheetExamined

\* A legal move of the sheet takes it one desk further, or back.
LEMMA MovedExamined ==
    ASSUME TypeOK, NEW s \in Sheets, SheetExamined(s), NEW a \in Actors,
           NEW to \in ResultStatus, Moved(a, s, to)
    PROVE  SheetExamined(s)'
<1> DEFINE e == Entry(a, "status_changed", 0, status[s], to)
           S == StatusEntries(s)
           M == EntriesWith(s, MarkActions)
<1>0. PICK n : n = Len(audit[s]) + 1
  OBVIOUS
<1>1. Wrote(s, e)
  BY WritesOne DEF Moved
<1>2. e.action = "status_changed" /\ e.after = to /\ e.actor = a
  BY DEF Entry
<1>3. /\ S' = S \cup {n} /\ M' = M
      /\ S \in SUBSET (1..Len(audit[s])) /\ M \subseteq 1..Len(audit[s])
      /\ \A k \in S : audit'[s][k] = audit[s][k]
      /\ audit'[s][n].after = to /\ audit'[s][n].actor = a
      /\ Len(audit[s]) \in Nat /\ n \in Nat /\ n > Len(audit[s])
  BY <1>0, <1>1, <1>2, OneWith DEF Wrote, StatusEntries, MarkActions
<1>4. lecturer'[s] = lecturer[s] /\ status'[s] = to
  BY DEF Moved
<1> HIDE DEF S, M, e
<1>5. /\ \A k : LatestIn(S', k) <=> k = n
      /\ \A j, k : ConsecutiveIn(S, j, k) => ConsecutiveIn(S', j, k)
      /\ \A j : LatestIn(S, j) => ConsecutiveIn(S', j, n)
  BY <1>3, LaterEntry
<1>6. \A k \in S : /\ SubmissionAt(s, k) => SubmissionAt(s, k)'
                   /\ HodApprovalAt(s, k) => HodApprovalAt(s, k)'
                   /\ DeanApprovalAt(s, k) => DeanApprovalAt(s, k)'
  BY <1>3, <1>4 DEF SubmissionAt, HodApprovalAt, DeanApprovalAt, HodScope, DeanScope, M
<1>7. CASE to = "submitted_to_hod"
  <2>1. lecturer[s] = a
    BY <1>7 DEF Moved, MayTransition, TRANSITIONS, InScope, OwnsResult
  <2>2. SubmissionAt(s, n)'
    BY <1>3, <1>4, <1>7, <2>1 DEF SubmissionAt, M
  <2>3. OnHodDesk(s)'
    BY <1>3, <1>5, <2>2 DEF OnHodDesk, S
  <2>4. QED
    BY <1>4, <1>7, <2>3 DEF SheetExamined
<1>8. CASE to = "approved_by_hod"
  <2>1. status[s] = "submitted_to_hod" /\ RoleOf[a] = "hod" /\ HodScope(a, s)
    BY <1>8 DEF Moved, MayTransition, TRANSITIONS, InScope
  <2>2. HodApprovalAt(s, n)'
    BY <1>3, <1>8, <2>1 DEF HodApprovalAt, HodScope
  <2>3. PICK i \in S : SubmissionAt(s, i) /\ LatestIn(S, i)
    BY <2>1 DEF SheetExamined, OnHodDesk, S
  <2>4. SubmissionAt(s, i)' /\ ConsecutiveIn(S', i, n) /\ i \in S' /\ n \in S' /\ LatestIn(S', n)
    BY <1>3, <1>5, <1>6, <2>3
  <2>5. OnDeanDesk(s)'
    BY <2>2, <2>4 DEF OnDeanDesk, S
  <2>6. QED
    BY <1>4, <1>8, <2>5 DEF SheetExamined
<1>9. CASE to = "approved_by_dean"
  <2>1. status[s] = "approved_by_hod" /\ RoleOf[a] = "dean" /\ DeanScope(a, s)
    BY <1>9 DEF Moved, MayTransition, TRANSITIONS, InScope
  <2>2. DeanApprovalAt(s, n)'
    BY <1>3, <1>9, <2>1 DEF DeanApprovalAt, DeanScope
  <2>3. PICK i, j \in S : /\ SubmissionAt(s, i) /\ HodApprovalAt(s, j)
                         /\ ConsecutiveIn(S, i, j) /\ LatestIn(S, j)
    BY <2>1 DEF SheetExamined, OnDeanDesk, S
  <2>4. /\ SubmissionAt(s, i)' /\ HodApprovalAt(s, j)'
        /\ ConsecutiveIn(S', i, j) /\ ConsecutiveIn(S', j, n) /\ LatestIn(S', n)
        /\ i \in S' /\ j \in S' /\ n \in S'
    BY <1>3, <1>5, <1>6, <2>3
  <2>5. OnSenateDesk(s)'
    BY <2>2, <2>4 DEF OnSenateDesk, S
  <2>6. QED
    BY <1>4, <1>9, <2>5 DEF SheetExamined
<1>10. CASE to = "ratified_by_senate"
  <2>1. status[s] = "approved_by_dean" /\ RoleOf[a] = "senate_admin"
    BY <1>10 DEF Moved, MayTransition, TRANSITIONS
  <2>2. PICK i, j, k \in S :
           /\ SubmissionAt(s, i) /\ HodApprovalAt(s, j) /\ DeanApprovalAt(s, k)
           /\ ConsecutiveIn(S, i, j) /\ ConsecutiveIn(S, j, k) /\ LatestIn(S, k)
    BY <2>1 DEF SheetExamined, OnSenateDesk, S
  <2>3. /\ SubmissionAt(s, i)' /\ HodApprovalAt(s, j)' /\ DeanApprovalAt(s, k)'
        /\ ConsecutiveIn(S', i, j) /\ ConsecutiveIn(S', j, k) /\ ConsecutiveIn(S', k, n)
        /\ LatestIn(S', n) /\ i \in S' /\ j \in S' /\ k \in S' /\ n \in S'
    BY <1>3, <1>5, <1>6, <2>2
  <2>4. RoleOf[audit'[s][n].actor] = "senate_admin"
    BY <1>3, <2>1
  <2>5. Public(s)'
    BY <2>3, <2>4 DEF Public, S
  <2>6. QED
    BY <1>4, <1>10, <2>5 DEF SheetExamined
<1>11. CASE to \notin InReview
  BY <1>4, <1>11 DEF SheetExamined, InReview
<1>12. QED
  BY <1>7, <1>8, <1>9, <1>10, <1>11 DEF InReview

\* Every sheet Senate ratified was submitted by its lecturer and approved by a
\* HOD, a dean and Senate in scope, with no mark entered in between
\* (services.TRANSITIONS, record_score, batch_ratify).
THEOREM RatifiedExamined == Spec => []RatifiedWasExamined
<1> DEFINE IInv == \A s \in Sheets : SheetExamined(s)
<1>1. Init => IInv
  BY NoneAssumption DEF Init, SheetExamined, ResultStatus
<1>2. TypeOK /\ IInv /\ [Next]_vars => IInv'
  <2> SUFFICES ASSUME TypeOK, [Next]_vars, NEW s \in Sheets, SheetExamined(s)
               PROVE  SheetExamined(s)'
    OBVIOUS
  <2>1. CASE Untouched(s)
    BY <2>1, ExaminedKept DEF Untouched
  <2>2. CASE status[s] \in LECTURER_EDITABLE_STATUSES /\ status'[s] = status[s]
    BY <2>2 DEF LECTURER_EDITABLE_STATUSES, SheetExamined
  <2>3. ASSUME NEW a \in Actors, CreateDraftResult(a, s) PROVE SheetExamined(s)'
    BY <2>3 DEF CreateDraftResult, TypeOK, SheetExamined
  <2>4. ASSUME NEW a \in Actors, NEW st \in Students, NEW v \in Scores,
               RaiseAmendment(a, s, st, v)
        PROVE  SheetExamined(s)'
    <3> DEFINE e == Entry(a, "amendment_status_changed", Len(amendments[s]) + 1,
                          None, "pending_hod")
    <3>1. Wrote(s, e) /\ e.action \notin StatusActions \cup MarkActions
      BY <2>4, WritesOne DEF RaiseAmendment, Entry, StatusActions, MarkActions
    <3> HIDE DEF e
    <3>2. QED
      BY <2>4, <3>1, ExaminedKept DEF RaiseAmendment
  <2>5. ASSUME NEW a \in Actors, NEW m \in DOMAIN amendments[s], NEW to \in AmendmentStatus,
               MoveAmendment(a, s, m, to)
        PROVE  SheetExamined(s)'
    <3>1. /\ Wrote(s, MoveEntry(a, s, m, to))
          /\ MoveEntry(a, s, m, to).action \notin StatusActions \cup MarkActions
      BY <2>5, WritesOne DEF MoveAmendment, MoveEntry, Entry, StatusActions, MarkActions
    <3>2. QED
      BY <2>5, <3>1, ExaminedKept DEF MoveAmendment
  <2>6. ASSUME NEW a \in Actors, NEW m \in DOMAIN amendments[s], ApplyAmendment(a, s, m)
        PROVE  SheetExamined(s)'
    <3>1. PICK i, last, v : Applied(a, s, m, i, last, v)
      BY <2>6, ApplyParts
    <3> DEFINE e == Entry(a, "score_superseded", last, rows[s][i].score, v)
               f == MoveEntry(a, s, m, "applied")
    <3>2. /\ WroteTwo(s, e, f)
          /\ e.action \notin StatusActions \cup MarkActions
          /\ f.action \notin StatusActions \cup MarkActions
      BY <3>1 DEF Applied, MoveEntry, Entry, StatusActions, MarkActions
    <3> HIDE DEF e, f
    <3>3. QED
      BY <2>6, <3>2, ExaminedKept DEF ApplyAmendment
  <2>7. QED
    BY <2>1, <2>2, <2>3, <2>4, <2>5, <2>6, EveryStep, MovedExamined
       DEF SheetStep, AddScore, ChangeScore, MayRecord
<1>3. IInv => RatifiedWasExamined
  BY DEF SheetExamined, Public, SubmissionAt, HodApprovalAt, DeanApprovalAt, MarkActions,
         RatifiedWasExamined
<1>4. QED
  BY <1>1, <1>2, <1>3, TypeCorrect, PTL DEF Spec

-----------------------------------------------------------------------------
(***************************************************************************)
(* The examination of an amendment, likewise desk by desk.  That no entry  *)
(* names an amendment that does not exist is what lets a new one start     *)
(* with an empty trail.                                                    *)
(***************************************************************************)

RaisedAt(s, i) == audit[s][i].before = None

HodAt(s, j) == RoleOf[audit[s][j].actor] = "hod" /\ HodScope(audit[s][j].actor, s)

DeanAt(s, k) == RoleOf[audit[s][k].actor] = "dean" /\ DeanScope(audit[s][k].actor, s)

SenateAt(s, l) == RoleOf[audit[s][l].actor] = "senate_admin"

PassedNobody(s, m) ==
    \E i \in AmendmentEntries(s, m) : AmendmentEntries(s, m) = {i} /\ RaisedAt(s, i)

PassedHod(s, m) ==
    \E i, j \in AmendmentEntries(s, m) :
       /\ i < j /\ AmendmentEntries(s, m) = {i, j}
       /\ RaisedAt(s, i) /\ HodAt(s, j)

PassedDean(s, m) ==
    \E i, j, k \in AmendmentEntries(s, m) :
       /\ i < j /\ j < k /\ AmendmentEntries(s, m) = {i, j, k}
       /\ RaisedAt(s, i) /\ HodAt(s, j) /\ DeanAt(s, k)

PassedSenate(s, m) ==
    \E i, j, k, l \in AmendmentEntries(s, m) :
       /\ i < j /\ j < k /\ k < l /\ AmendmentEntries(s, m) = {i, j, k, l}
       /\ RaisedAt(s, i) /\ HodAt(s, j) /\ DeanAt(s, k) /\ SenateAt(s, l)

AmendmentExamined(s, m) ==
    LET stat == amendments[s][m].status
    IN  /\ stat = "pending_hod" => PassedNobody(s, m)
        /\ stat = "approved_by_hod" => PassedHod(s, m)
        /\ stat = "approved_by_dean" => PassedDean(s, m)
        /\ stat = "applied" => PassedSenate(s, m)

AmendmentsExamined(s) ==
    /\ \A k \in EntriesWith(s, MoveActions) : audit[s][k].ref \in DOMAIN amendments[s]
    /\ \A m \in DOMAIN amendments[s] : AmendmentExamined(s, m)

\* What is written about something else leaves an amendment's trail alone.
LEMMA PassedKept ==
    ASSUME NEW s, NEW m, AmendmentExamined(s, m),
           amendments'[s][m].status = amendments[s][m].status,
           \/ audit'[s] = audit[s]
           \/ \E e : Wrote(s, e) /\ ~Matches(e, MoveActions, m)
           \/ \E e, f : /\ WroteTwo(s, e, f)
                        /\ ~Matches(e, MoveActions, m) /\ ~Matches(f, MoveActions, m)
    PROVE  AmendmentExamined(s, m)'
<1> DEFINE T == AmendmentEntries(s, m)
<1>1. T' = T /\ \A k \in T : audit'[s][k] = audit[s][k]
  <2>1. CASE audit'[s] = audit[s]
    BY <2>1 DEF AmendmentEntries, EntriesOn, EntriesWith
  <2>2. ASSUME NEW e, Wrote(s, e), ~Matches(e, MoveActions, m)
        PROVE  T' = T /\ \A k \in T : audit'[s][k] = audit[s][k]
    BY <2>2, OneOn DEF AmendmentEntries, MoveActions
  <2>3. ASSUME NEW e, NEW f, WroteTwo(s, e, f), ~Matches(e, MoveActions, m),
               ~Matches(f, MoveActions, m)
        PROVE  T' = T /\ \A k \in T : audit'[s][k] = audit[s][k]
    BY <2>3, TwoOn DEF AmendmentEntries, MoveActions
  <2>4. QED
    BY <2>1, <2>2, <2>3
<1>2. \A k \in T : /\ RaisedAt(s, k) => RaisedAt(s, k)'
                   /\ HodAt(s, k) => HodAt(s, k)'
                   /\ DeanAt(s, k) => DeanAt(s, k)'
                   /\ SenateAt(s, k) => SenateAt(s, k)'
  BY <1>1 DEF RaisedAt, HodAt, DeanAt, SenateAt, HodScope, DeanScope
<1> HIDE DEF T
<1>3. PassedNobody(s, m) => PassedNobody(s, m)'
  BY <1>1, <1>2 DEF PassedNobody, T
<1>4. PassedHod(s, m) => PassedHod(s, m)'
  BY <1>1, <1>2 DEF PassedHod, T
<1>5. PassedDean(s, m) => PassedDean(s, m)'
  BY <1>1, <1>2 DEF PassedDean, T
<1>6. PassedSenate(s, m) => PassedSenate(s, m)'
  BY <1>1, <1>2 DEF PassedSenate, T
<1>7. QED
  BY <1>3, <1>4, <1>5, <1>6 DEF AmendmentExamined

\* The entry that moves an amendment is the last of its trail.
LEMMA PassedFurther ==
    ASSUME NEW s, NEW c, NEW n, NEW a, NEW to, AmendmentExamined(s, c),
           <<amendments[s][c].status, to, RoleOf[a]>> \in AMENDMENT_TRANSITIONS, InScope(a, s),
           amendments'[s][c].status = to,
           AmendmentEntries(s, c) \subseteq 1..Len(audit[s]), Len(audit[s]) \in Nat,
           n \in Nat, n > Len(audit[s]),
           AmendmentEntries(s, c)' = AmendmentEntries(s, c) \cup {n},
           \A k \in AmendmentEntries(s, c) : audit'[s][k] = audit[s][k],
           audit'[s][n].actor = a
    PROVE  AmendmentExamined(s, c)'
<1> DEFINE T == AmendmentEntries(s, c)
<1>1. \A k \in T : /\ k < n
                   /\ RaisedAt(s, k) => RaisedAt(s, k)'
                   /\ HodAt(s, k) => HodAt(s, k)'
                   /\ DeanAt(s, k) => DeanAt(s, k)'
  BY DEF RaisedAt, HodAt, DeanAt, HodScope, DeanScope
<1>2. T' = T \cup {n}
  OBVIOUS
<1> HIDE DEF T
<1>3. CASE to = "approved_by_hod"
  <2>1. amendments[s][c].status = "pending_hod" /\ RoleOf[a] = "hod" /\ HodScope(a, s)
    BY <1>3 DEF AMENDMENT_TRANSITIONS, InScope
  <2>2. PICK i \in T : T = {i} /\ RaisedAt(s, i)
    BY <2>1 DEF AmendmentExamined, PassedNobody, T
  <2>3. HodAt(s, n)'
    BY <2>1 DEF HodAt, HodScope
  <2>4. i < n /\ T' = {i, n} /\ RaisedAt(s, i)'
    BY <1>1, <1>2, <2>2
  <2>5. PassedHod(s, c)'
    BY <2>3, <2>4 DEF PassedHod, T
  <2>6. QED
    BY <1>3, <2>5 DEF AmendmentExamined
<1>4. CASE to = "approved_by_dean"
  <2>1. amendments[s][c].status = "approved_by_hod" /\ RoleOf[a] = "dean" /\ DeanScope(a, s)
    BY <1>4 DEF AMENDMENT_TRANSITIONS, InScope
  <2>2. PICK i, j \in T : i < j /\ T = {i, j} /\ RaisedAt(s, i) /\ HodAt(s, j)
    BY <2>1 DEF AmendmentExamined, PassedHod, T
  <2>3. DeanAt(s, n)'
    BY <2>1 DEF DeanAt, DeanScope
  <2>4. i < j /\ j < n /\ T' = {i, j, n} /\ RaisedAt(s, i)' /\ HodAt(s, j)'
    BY <1>1, <1>2, <2>2
  <2>5. PassedDean(s, c)'
    BY <2>3, <2>4 DEF PassedDean, T
  <2>6. QED
    BY <1>4, <2>5 DEF AmendmentExamined
<1>5. CASE to = "applied"
  <2>1. amendments[s][c].status = "approved_by_dean" /\ RoleOf[a] = "senate_admin"
    BY <1>5 DEF AMENDMENT_TRANSITIONS
  <2>2. PICK i, j, k \in T : /\ i < j /\ j < k /\ T = {i, j, k}
                            /\ RaisedAt(s, i) /\ HodAt(s, j) /\ DeanAt(s, k)
    BY <2>1 DEF AmendmentExamined, PassedDean, T
  <2>3. SenateAt(s, n)'
    BY <2>1 DEF SenateAt
  <2>4. /\ i < j /\ j < k /\ k < n /\ T' = {i, j, k, n}
        /\ RaisedAt(s, i)' /\ HodAt(s, j)' /\ DeanAt(s, k)'
    BY <1>1, <1>2, <2>2
  <2>5. PassedSenate(s, c)'
    BY <2>3, <2>4 DEF PassedSenate, T
  <2>6. QED
    BY <1>5, <2>5 DEF AmendmentExamined
<1>6. CASE to = "returned"
  BY <1>6 DEF AmendmentExamined
<1>7. QED
  BY <1>3, <1>4, <1>5, <1>6 DEF AMENDMENT_TRANSITIONS

LEMMA RaiseExamined ==
    ASSUME TypeOK, NEW s \in Sheets, AmendmentsExamined(s), NEW a \in Actors,
           NEW st \in Students, NEW v \in Scores, RaiseAmendment(a, s, st, v)
    PROVE  AmendmentsExamined(s)'
<1>0. PICK c, n : c = Len(amendments[s]) + 1 /\ n = Len(audit[s]) + 1
  OBVIOUS
<1> DEFINE e == Entry(a, "amendment_status_changed", c, None, "pending_hod")
<1>1. Wrote(s, e)
  BY <1>0, WritesOne DEF RaiseAmendment
<1>2. /\ e.action = "amendment_status_changed" /\ e.ref = c /\ e.before = None
      /\ \A m : Matches(e, MoveActions, m) <=> m = c
  BY DEF Entry, MoveActions, Matches
<1>3. /\ DOMAIN amendments'[s] = DOMAIN amendments[s] \cup {c}
      /\ c \notin DOMAIN amendments[s]
      /\ \A m \in DOMAIN amendments[s] : amendments'[s][m] = amendments[s][m]
      /\ amendments'[s][c].status = "pending_hod"
  BY <1>0 DEF RaiseAmendment, TypeOK
<1> HIDE DEF e
<1>4. /\ EntriesWith(s, MoveActions)' = EntriesWith(s, MoveActions) \cup {n}
      /\ \A k \in EntriesWith(s, MoveActions) : audit'[s][k] = audit[s][k]
      /\ audit'[s][n] = e
  BY <1>0, <1>1, <1>2, OneWith DEF Wrote, MoveActions
<1>5. \A k \in EntriesWith(s, MoveActions)' : audit'[s][k].ref \in DOMAIN amendments'[s]
  BY <1>2, <1>3, <1>4 DEF AmendmentsExamined
<1>6. ASSUME NEW m \in DOMAIN amendments[s] PROVE AmendmentExamined(s, m)'
  BY <1>1, <1>2, <1>3, PassedKept DEF AmendmentsExamined
<1>7. AmendmentEntries(s, c) = {}
  BY <1>3 DEF AmendmentsExamined, AmendmentEntries, EntriesOn, MoveActions
<1>8. AmendmentEntries(s, c)' = {n}
  BY <1>0, <1>1, <1>2, <1>7, OneOn DEF AmendmentEntries, MoveActions
<1>9. AmendmentExamined(s, c)'
  BY <1>2, <1>3, <1>4, <1>8 DEF AmendmentExamined, PassedNobody, RaisedAt
<1>10. QED
  BY <1>3, <1>5, <1>6, <1>9 DEF AmendmentsExamined

LEMMA MoveExamined ==
    ASSUME TypeOK, NEW s \in Sheets, AmendmentsExamined(s), NEW a \in Actors,
           NEW c \in DOMAIN amendments[s], NEW to \in AmendmentStatus, MoveAmendment(a, s, c, to)
    PROVE  AmendmentsExamined(s)'
<1>0. PICK n : n = Len(audit[s]) + 1
  OBVIOUS
<1> DEFINE e == MoveEntry(a, s, c, to)
<1>1. Wrote(s, e)
  BY WritesOne DEF MoveAmendment
<1>2. /\ e.action = "amendment_status_changed" /\ e.ref = c /\ e.actor = a
      /\ \A m : Matches(e, MoveActions, m) <=> m = c
  BY DEF MoveEntry, Entry, MoveActions, Matches
<1>3. amendments[s] \in Seq(ResultAmendment) /\ amendments[s][c] \in ResultAmendment
  BY DEF TypeOK
<1>4. /\ DOMAIN amendments'[s] = DOMAIN amendments[s]
      /\ \A m \in DOMAIN amendments[s] \ {c} : amendments'[s][m] = amendments[s][m]
      /\ amendments'[s][c].status = to
  BY <1>3 DEF MoveAmendment, TypeOK, ResultAmendment
<1> HIDE DEF e
<1>5. /\ EntriesWith(s, MoveActions)' = EntriesWith(s, MoveActions) \cup {n}
      /\ \A k \in EntriesWith(s, MoveActions) : audit'[s][k] = audit[s][k]
      /\ audit'[s][n] = e /\ n \in Nat /\ Len(audit[s]) \in Nat /\ n > Len(audit[s])
  BY <1>0, <1>1, <1>2, OneWith DEF Wrote, MoveActions
<1>6. \A k \in EntriesWith(s, MoveActions)' : audit'[s][k].ref \in DOMAIN amendments'[s]
  BY <1>2, <1>4, <1>5 DEF AmendmentsExamined
<1>7. ASSUME NEW m \in DOMAIN amendments[s], m # c PROVE AmendmentExamined(s, m)'
  BY <1>1, <1>2, <1>4, <1>7, PassedKept DEF AmendmentsExamined
<1>8. /\ AmendmentEntries(s, c) \subseteq 1..Len(audit[s])
      /\ AmendmentEntries(s, c)' = AmendmentEntries(s, c) \cup {n}
      /\ \A k \in AmendmentEntries(s, c) : audit'[s][k] = audit[s][k]
  BY <1>0, <1>1, <1>2, OneOn DEF AmendmentEntries, MoveActions
<1>9. AmendmentExamined(s, c)'
  <2>1. /\ <<amendments[s][c].status, to, RoleOf[a]>> \in AMENDMENT_TRANSITIONS
        /\ InScope(a, s) /\ AmendmentExamined(s, c) /\ audit'[s][n].actor = a
    BY <1>2, <1>5 DEF MoveAmendment, MayMoveAmendment, AmendmentsExamined
  <2>2. QED
    BY <1>4, <1>5, <1>8, <2>1, PassedFurther
<1>10. QED
  BY <1>4, <1>6, <1>7, <1>9 DEF AmendmentsExamined

LEMMA ApplyExamined ==
    ASSUME TypeOK, NEW s \in Sheets, AmendmentsExamined(s), NEW a \in Actors,
           NEW c \in DOMAIN amendments[s], ApplyAmendment(a, s, c)
    PROVE  AmendmentsExamined(s)'
<1>0. PICK n : n = Len(audit[s]) + 2
  OBVIOUS
<1>1. PICK r, last, v : Applied(a, s, c, r, last, v)
  BY ApplyParts
<1> DEFINE e == Entry(a, "score_superseded", last, rows[s][r].score, v)
           f == MoveEntry(a, s, c, "applied")
<1>2. WroteTwo(s, e, f)
  BY <1>1 DEF Applied
<1>3. /\ e.action = "score_superseded" /\ \A m : ~Matches(e, MoveActions, m)
      /\ f.action = "amendment_status_changed" /\ f.ref = c /\ f.actor = a
      /\ \A m : Matches(f, MoveActions, m) <=> m = c
  BY DEF MoveEntry, Entry, MoveActions, Matches
<1>4. /\ DOMAIN amendments'[s] = DOMAIN amendments[s]
      /\ \A m \in DOMAIN amendments[s] \ {c} : amendments'[s][m] = amendments[s][m]
      /\ amendments'[s][c].status = "applied"
  <2>1. amendments[s][c] \in ResultAmendment
    BY DEF TypeOK
  <2>2. QED
    BY <1>1, <2>1 DEF Applied, ResultAmendment
<1> HIDE DEF e, f
<1>5. /\ EntriesWith(s, MoveActions)' = EntriesWith(s, MoveActions) \cup {n}
      /\ \A k \in EntriesWith(s, MoveActions) : audit'[s][k] = audit[s][k]
      /\ audit'[s][n] = f /\ n \in Nat /\ Len(audit[s]) \in Nat /\ n > Len(audit[s])
  BY <1>0, <1>2, <1>3, TwoWith DEF WroteTwo, MoveActions
<1>6. \A k \in EntriesWith(s, MoveActions)' : audit'[s][k].ref \in DOMAIN amendments'[s]
  BY <1>3, <1>4, <1>5 DEF AmendmentsExamined
<1>7. ASSUME NEW m \in DOMAIN amendments[s], m # c PROVE AmendmentExamined(s, m)'
  BY <1>2, <1>3, <1>4, <1>7, PassedKept DEF AmendmentsExamined
<1>8. /\ AmendmentEntries(s, c) \subseteq 1..Len(audit[s])
      /\ AmendmentEntries(s, c)' = AmendmentEntries(s, c) \cup {n}
      /\ \A k \in AmendmentEntries(s, c) : audit'[s][k] = audit[s][k]
  BY <1>0, <1>2, <1>3, TwoOn DEF AmendmentEntries, MoveActions
<1>9. AmendmentExamined(s, c)'
  <2>1. /\ <<amendments[s][c].status, "applied", RoleOf[a]>> \in AMENDMENT_TRANSITIONS
        /\ InScope(a, s) /\ AmendmentExamined(s, c) /\ audit'[s][n].actor = a
    BY <1>3, <1>5 DEF ApplyAmendment, MayMoveAmendment, AmendmentsExamined
  <2>2. QED
    BY <1>4, <1>5, <1>8, <2>1, PassedFurther
<1>10. QED
  BY <1>4, <1>6, <1>7, <1>9 DEF AmendmentsExamined

\* What is not about amendments leaves all of them alone.
LEMMA AmendmentsUntouched ==
    ASSUME NEW s, AmendmentsExamined(s), amendments'[s] = amendments[s],
           audit'[s] = audit[s] \/ \E e : Wrote(s, e) /\ e.action \notin MoveActions
    PROVE  AmendmentsExamined(s)'
<1>1. \A m \in DOMAIN amendments[s] : AmendmentExamined(s, m)'
  BY PassedKept DEF AmendmentsExamined, Matches
<1>2. /\ EntriesWith(s, MoveActions)' = EntriesWith(s, MoveActions)
      /\ \A k \in EntriesWith(s, MoveActions) : audit'[s][k] = audit[s][k]
  <2>1. CASE audit'[s] = audit[s]
    BY <2>1 DEF EntriesWith
  <2>2. CASE \E e : Wrote(s, e) /\ e.action \notin MoveActions
    BY <2>2, OneWith DEF MoveActions
  <2>3. QED
    BY <2>1, <2>2
<1>3. QED
  BY <1>1, <1>2 DEF AmendmentsExamined

\* Every applied amendment was raised, then approved by a HOD, a dean and Senate,
\* each in scope, and nothing else happened to it (AMENDMENT_TRANSITIONS).
THEOREM AppliedExamined == Spec => []AmendmentWasExamined
<1> DEFINE IInv == \A s \in Sheets : AmendmentsExamined(s)
<1>1. Init => IInv
  BY DEF Init, AmendmentsExamined, EntriesWith
<1>2. TypeOK /\ IInv /\ [Next]_vars => IInv'
  <2> SUFFICES ASSUME TypeOK, [Next]_vars, NEW s \in Sheets, AmendmentsExamined(s)
               PROVE  AmendmentsExamined(s)'
    OBVIOUS
  <2>1. CASE Untouched(s)
    BY <2>1, AmendmentsUntouched DEF Untouched
  <2>2. ASSUME NEW e, e.action \notin MoveActions, amendments'[s] = amendments[s],
               Log(s, <<e>>) \/ audit'[s] = Append(audit[s], e)
        PROVE  AmendmentsExamined(s)'
    BY <2>2, WritesOne, AmendmentsUntouched
  <2>3. ASSUME NEW a \in Actors, CreateDraftResult(a, s) PROVE AmendmentsExamined(s)'
    BY <2>2, <2>3 DEF CreateDraftResult, Entry, MoveActions
  <2>4. ASSUME NEW a \in Actors, NEW st \in Students, NEW v \in Scores, AddScore(a, s, st, v)
        PROVE  AmendmentsExamined(s)'
    BY <2>2, <2>4 DEF AddScore, Entry, MoveActions
  <2>5. ASSUME NEW a \in Actors, NEW st \in Students, NEW v \in Scores, ChangeScore(a, s, st, v)
        PROVE  AmendmentsExamined(s)'
    <3>1. PICK i \in CurrentRowsOf(s, st) :
             Log(s, <<Entry(a, "score_changed", i, rows[s][i].score, v)>>)
      BY <2>5 DEF ChangeScore
    <3>2. PICK e : e = Entry(a, "score_changed", i, rows[s][i].score, v)
      OBVIOUS
    <3>3. Log(s, <<e>>) /\ e.action \notin MoveActions
      BY <3>1, <3>2 DEF Entry, MoveActions
    <3>4. amendments'[s] = amendments[s]
      BY <2>5 DEF ChangeScore
    <3>5. QED
      BY <2>2, <3>2, <3>3, <3>4
  <2>6. ASSUME NEW a \in Actors, NEW to \in ResultStatus, Moved(a, s, to)
        PROVE  AmendmentsExamined(s)'
    <3>1. PICK e : e = Entry(a, "status_changed", 0, status[s], to)
      OBVIOUS
    <3>2. audit'[s] = Append(audit[s], e) /\ e.action \notin MoveActions
      BY <2>6, <3>1 DEF Moved, Entry, MoveActions
    <3>3. amendments'[s] = amendments[s]
      BY <2>6 DEF Moved
    <3>4. QED
      BY <2>2, <3>2, <3>3
  <2>7. QED
    BY <2>1, <2>3, <2>4, <2>5, <2>6, EveryStep, RaiseExamined, MoveExamined, ApplyExamined
       DEF SheetStep
<1>3. IInv => AmendmentWasExamined
  BY DEF AmendmentsExamined, AmendmentExamined, PassedSenate, RaisedAt, HodAt, DeanAt, SenateAt,
         AmendmentWasExamined
<1>4. QED
  BY <1>1, <1>2, <1>3, TypeCorrect, PTL DEF Spec

-----------------------------------------------------------------------------
(***************************************************************************)
(* Announcements.                                                          *)
(***************************************************************************)

\* The part of NoticesFollowCommits about one sheet.
Announced(s) ==
    /\ \A k \in NoticesOf(s, "result_published") :
          k = Len(notices[s]) /\ status[s] = "ratified_by_senate"
    /\ Cardinality(NoticesOf(s, "result_returned")) <= Cardinality(StatusEntriesTo(s, "returned"))

\* The sets counted are finite, and grow by one element at most.
LEMMA CountedFinite ==
    ASSUME TypeOK, NEW s \in Sheets
    PROVE  /\ IsFiniteSet(NoticesOf(s, "result_returned"))
           /\ IsFiniteSet(StatusEntriesTo(s, "returned"))
<1>1. notices[s] \in Seq({"result_returned", "result_published"}) /\ audit[s] \in Seq(ResultAuditLog)
  BY DEF TypeOK
<1>2. IsFiniteSet(1..Len(notices[s])) /\ IsFiniteSet(1..Len(audit[s]))
  BY <1>1, FS_Interval
<1>3. NoticesOf(s, "result_returned") \subseteq 1..Len(notices[s])
  BY <1>1 DEF NoticesOf
<1>4. StatusEntriesTo(s, "returned") \subseteq 1..Len(audit[s])
  BY <1>1 DEF StatusEntriesTo, StatusEntries, EntriesWith
<1>5. QED
  BY <1>2, <1>3, <1>4, FS_Subset

LEMMA OneMore ==
    ASSUME NEW S, IsFiniteSet(S), NEW x
    PROVE  /\ Cardinality(S) \in Nat
           /\ Cardinality(S \cup {x}) \in Nat
           /\ Cardinality(S \cup {x}) <= Cardinality(S) + 1
           /\ x \notin S => Cardinality(S \cup {x}) = Cardinality(S) + 1
<1>1. Cardinality(S) \in Nat
  BY FS_CardinalityType
<1>2. Cardinality(S \cup {x}) = IF x \in S THEN Cardinality(S) ELSE Cardinality(S) + 1
  BY FS_AddElement
<1>3. QED
  BY <1>1, <1>2

\* One more task of a kind is one more task of that kind.
LEMMA NoticeAppended ==
    ASSUME TypeOK, NEW s \in Sheets, NEW kind, notices'[s] = Append(notices[s], kind)
    PROVE  /\ Len(notices[s]) \in Nat
           /\ Len(notices'[s]) = Len(notices[s]) + 1
           /\ \A k : NoticesOf(s, k) \subseteq 1..Len(notices[s])
           /\ \A k : k # kind => NoticesOf(s, k)' = NoticesOf(s, k)
           /\ NoticesOf(s, kind)' = NoticesOf(s, kind) \cup {Len(notices[s]) + 1}
<1>1. notices[s] \in Seq({"result_returned", "result_published"})
  BY DEF TypeOK
<1>2. /\ DOMAIN notices[s] = 1..Len(notices[s]) /\ Len(notices[s]) \in Nat
      /\ DOMAIN notices'[s] = 1..(Len(notices[s]) + 1)
      /\ Len(notices'[s]) = Len(notices[s]) + 1
      /\ \A k \in 1..Len(notices[s]) : notices'[s][k] = notices[s][k]
      /\ notices'[s][Len(notices[s]) + 1] = kind
  BY <1>1
<1>3. QED
  BY <1>2 DEF NoticesOf

\* A status entry adds to the entries that lead to its status, and to no others.
LEMMA EntryToAppended ==
    ASSUME TypeOK, NEW s \in Sheets, NEW e, Wrote(s, e), NEW to
    PROVE  /\ StatusEntriesTo(s, to) \subseteq 1..Len(audit[s])
           /\ e.action \notin StatusActions \/ e.after # to
                 => StatusEntriesTo(s, to)' = StatusEntriesTo(s, to)
           /\ e.action \in StatusActions /\ e.after = to
                 => StatusEntriesTo(s, to)' = StatusEntriesTo(s, to) \cup {Len(audit[s]) + 1}
<1> DEFINE S == StatusEntries(s)
<1>1. /\ S \subseteq 1..Len(audit[s])
      /\ \A k \in 1..Len(audit[s]) : audit'[s][k] = audit[s][k]
      /\ e.action \notin StatusActions => S' = S
      /\ e.action \in StatusActions => S' = S \cup {Len(audit[s]) + 1}
      /\ audit'[s][Len(audit[s]) + 1] = e
  BY OneWith DEF StatusEntries, StatusActions, Wrote
<1>2. /\ StatusEntriesTo(s, to) = {k \in S : audit[s][k].after = to}
      /\ StatusEntriesTo(s, to)' = {k \in S' : audit'[s][k].after = to}
  BY DEF StatusEntriesTo
<1> HIDE DEF S
<1>3. QED
  BY <1>1, <1>2

LEMMA MovedAnnounced ==
    ASSUME TypeOK, NEW s \in Sheets, Announced(s), NEW a \in Actors, NEW to \in ResultStatus,
           Moved(a, s, to)
    PROVE  Announced(s)'
<1> DEFINE e == Entry(a, "status_changed", 0, status[s], to)
           R == NoticesOf(s, "result_returned")
           E == StatusEntriesTo(s, "returned")
           P == NoticesOf(s, "result_published")
<1>1. Wrote(s, e) /\ e.action \in StatusActions /\ e.after = to
  BY WritesOne DEF Moved, Entry, StatusActions
<1> HIDE DEF e
<1>2. IsFiniteSet(R) /\ IsFiniteSet(E)
  BY CountedFinite
<1>3. P = {}
  BY DEF Moved, MayTransition, TRANSITIONS, Announced
<1>4. Cardinality(R) \in Nat /\ Cardinality(E) \in Nat /\ Cardinality(R) <= Cardinality(E)
  BY <1>2, OneMore DEF Announced
<1>5. Len(audit[s]) + 1 \notin 1..Len(audit[s])
  BY <1>1 DEF Wrote
<1>6. CASE to = "returned"
  <2>1. PICK n : n = Len(audit[s]) + 1
    OBVIOUS
  <2>2. E' = E \cup {n} /\ n \notin E
    <3>1. E \subseteq 1..Len(audit[s])
      BY <1>1, EntryToAppended
    <3>2. E' = E \cup {Len(audit[s]) + 1}
      BY <1>1, <1>6, EntryToAppended
    <3> HIDE DEF E
    <3>3. QED
      BY <1>5, <2>1, <3>1, <3>2
  <2>3. (R' = R \/ \E l : R' = R \cup {l}) /\ P' = P
    <3>1. CASE notices'[s] = notices[s]
      BY <3>1 DEF NoticesOf
    <3>2. CASE notices'[s] = Append(notices[s], "result_returned")
      <4>1. R' = R \cup {Len(notices[s]) + 1}
        BY <3>2, NoticeAppended
      <4>2. \A k : k # "result_returned" => NoticesOf(s, k)' = NoticesOf(s, k)
        BY <3>2, NoticeAppended
      <4>3. "result_published" # "result_returned"
        OBVIOUS
      <4>4. P' = P
        BY <4>2, <4>3
      <4>5. QED
        BY <4>1, <4>4
    <3>3. QED
      BY <1>6, <3>1, <3>2 DEF Moved
  <2> HIDE DEF E, R, P
  <2>4. Cardinality(E') = Cardinality(E) + 1
    BY <1>2, <2>2, OneMore
  <2>5. Cardinality(R') \in Nat /\ Cardinality(R') <= Cardinality(R) + 1
    BY <1>2, <1>4, <2>3, OneMore
  <2>6. P' = {} /\ Cardinality(R') <= Cardinality(E')
    BY <1>3, <1>4, <2>3, <2>4, <2>5
  <2>7. QED
    BY <2>6 DEF Announced, E, R, P
<1>7. CASE to # "returned"
  <2>1. E' = E
    BY <1>1, <1>7, EntryToAppended
  <2>2. CASE notices'[s] = notices[s]
    <3>1. R' = R /\ P' = P
      BY <2>2 DEF NoticesOf
    <3> HIDE DEF E, R, P
    <3>2. P' = {} /\ Cardinality(R') <= Cardinality(E')
      BY <1>3, <1>4, <2>1, <3>1
    <3>3. QED
      BY <3>2 DEF Announced, E, R, P
  <2>3. CASE to = "ratified_by_senate" /\ notices'[s] = Append(notices[s], "result_published")
    <3>1. R' = R
      <4>1. \A k : k # "result_published" => NoticesOf(s, k)' = NoticesOf(s, k)
        BY <2>3, NoticeAppended
      <4>2. "result_returned" # "result_published"
        OBVIOUS
      <4>3. QED
        BY <4>1, <4>2
    <3>2. P' = P \cup {Len(notices[s]) + 1}
      BY <2>3, NoticeAppended
    <3>3. Len(notices'[s]) = Len(notices[s]) + 1
      BY <2>3, NoticeAppended
    <3>4. status'[s] = "ratified_by_senate"
      BY <2>3 DEF Moved
    <3> HIDE DEF E, R, P
    <3>5. P' = {Len(notices'[s])} /\ Cardinality(R') <= Cardinality(E')
      BY <1>3, <1>4, <2>1, <3>1, <3>2, <3>3
    <3>6. QED
      BY <3>4, <3>5 DEF Announced, E, R, P
  <2>4. QED
    BY <1>7, <2>2, <2>3 DEF Moved
<1>8. QED
  BY <1>6, <1>7

\* A step that announces nothing and moves no sheet.
LEMMA SilentAnnounced ==
    ASSUME TypeOK, NEW s \in Sheets, Announced(s), notices'[s] = notices[s],
           status[s] = "ratified_by_senate" => status'[s] = "ratified_by_senate",
           StatusEntriesTo(s, "returned")' = StatusEntriesTo(s, "returned")
    PROVE  Announced(s)'
<1>1. \A k : NoticesOf(s, k)' = NoticesOf(s, k)
  BY DEF NoticesOf
<1>2. QED
  BY <1>1 DEF Announced

\* In every reachable state a publication was announced at most once, as the last
\* task of a sheet that is ratified, and no more returns than the trail records
\* (services._notify_transition, batch_ratify).
THEOREM NoticesFollow == Spec => []NoticesFollowCommits
<1>1. Init => NoticesFollowCommits
  <2> SUFFICES ASSUME Init, NEW s \in Sheets PROVE Announced(s)
    BY DEF NoticesFollowCommits, Announced
  <2>1. NoticesOf(s, "result_published") = {} /\ NoticesOf(s, "result_returned") = {}
    BY DEF Init, NoticesOf
  <2>2. StatusEntriesTo(s, "returned") = {}
    BY DEF Init, StatusEntriesTo, StatusEntries, EntriesWith
  <2>3. Cardinality(NoticesOf(s, "result_returned")) <= Cardinality(StatusEntriesTo(s, "returned"))
    <3>1. Cardinality({}) = 0
      BY FS_EmptySet
    <3>2. QED
      BY <2>1, <2>2, <3>1
  <2>4. QED
    BY <2>1, <2>3 DEF Announced
<1>2. TypeOK /\ NoticesFollowCommits /\ [Next]_vars => NoticesFollowCommits'
  <2> SUFFICES ASSUME TypeOK, [Next]_vars, NEW s \in Sheets, Announced(s) PROVE Announced(s)'
    BY DEF NoticesFollowCommits, Announced
  <2> DEFINE E == StatusEntriesTo(s, "returned")
  <2>1. SheetStep(s)
    BY EveryStep
  <2>2. status[s] = "ratified_by_senate" => status'[s] = "ratified_by_senate"
    BY <2>1, RatifiedStays
  <2>3. ASSUME NEW e, Log(s, <<e>>), e.action \notin StatusActions \/ e.after # "returned",
               notices'[s] = notices[s]
        PROVE  Announced(s)'
    <3>1. E' = E
      BY <2>3, WritesOne, EntryToAppended
    <3>2. QED
      BY <2>2, <2>3, <3>1, SilentAnnounced
  <2>4. CASE Untouched(s)
    <3>1. E' = E
      BY <2>4 DEF Untouched, StatusEntriesTo, StatusEntries, EntriesWith
    <3>2. QED
      BY <2>2, <2>4, <3>1, SilentAnnounced DEF Untouched
  <2>5. ASSUME NEW a \in Actors, CreateDraftResult(a, s) PROVE Announced(s)'
    BY <2>3, <2>5 DEF CreateDraftResult, Entry
  <2>6. ASSUME NEW a \in Actors, NEW st \in Students, NEW v \in Scores, AddScore(a, s, st, v)
        PROVE  Announced(s)'
    BY <2>3, <2>6 DEF AddScore, Entry, StatusActions
  <2>7. ASSUME NEW a \in Actors, NEW st \in Students, NEW v \in Scores, ChangeScore(a, s, st, v)
        PROVE  Announced(s)'
    <3>1. PICK i \in CurrentRowsOf(s, st) :
             Log(s, <<Entry(a, "score_changed", i, rows[s][i].score, v)>>)
      BY <2>7 DEF ChangeScore
    <3>2. PICK e : e = Entry(a, "score_changed", i, rows[s][i].score, v)
      OBVIOUS
    <3>3. Log(s, <<e>>) /\ e.action \notin StatusActions
      BY <3>1, <3>2 DEF Entry, StatusActions
    <3>4. QED
      BY <2>3, <2>7, <3>2, <3>3 DEF ChangeScore
  <2>8. ASSUME NEW a \in Actors, NEW st \in Students, NEW v \in Scores,
               RaiseAmendment(a, s, st, v)
        PROVE  Announced(s)'
    BY <2>3, <2>8 DEF RaiseAmendment, Entry, StatusActions
  <2>9. ASSUME NEW a \in Actors, NEW m \in DOMAIN amendments[s], NEW to \in AmendmentStatus,
               MoveAmendment(a, s, m, to)
        PROVE  Announced(s)'
    BY <2>3, <2>9 DEF MoveAmendment, MoveEntry, Entry, StatusActions
  <2>10. ASSUME NEW a \in Actors, NEW m \in DOMAIN amendments[s], ApplyAmendment(a, s, m)
         PROVE  Announced(s)'
    <3>1. PICK i, last, v : Applied(a, s, m, i, last, v)
      BY <2>10, ApplyParts
    <3> DEFINE e == Entry(a, "score_superseded", last, rows[s][i].score, v)
               f == MoveEntry(a, s, m, "applied")
    <3>2. WroteTwo(s, e, f) /\ e.action \notin StatusActions /\ f.action \notin StatusActions
      BY <3>1 DEF Applied, MoveEntry, Entry, StatusActions
    <3> HIDE DEF e, f
    <3>3. /\ StatusEntries(s)' = StatusEntries(s)
          /\ \A k \in StatusEntries(s) : audit'[s][k] = audit[s][k]
      BY <3>2, TwoWith DEF StatusEntries, StatusActions
    <3>4. E' = E
      BY <3>3 DEF StatusEntriesTo
    <3>5. QED
      BY <2>2, <2>10, <3>4, SilentAnnounced DEF ApplyAmendment
  <2>11. QED
    BY <2>1, <2>4, <2>5, <2>6, <2>7, <2>8, <2>9, <2>10, MovedAnnounced DEF SheetStep
<1>3. QED
  BY <1>1, <1>2, TypeCorrect, PTL DEF Spec

-----------------------------------------------------------------------------
(***************************************************************************)
(* ResultPipeline implements ApprovalChain, for every instance: each step  *)
(* of the pipeline is a step of the chain, or is invisible to it.          *)
(***************************************************************************)

\* What the chain sees.
DeskView == [s \in Sheets |-> DeskOf(status[s])]

MarksView == [s \in Sheets |-> [st \in Students |-> CurrentMark(s, st)]]

PetitionsOn(ams) == [m \in DOMAIN ams |-> PetitionOf(ams[m])]

PetitionsView == [s \in Sheets |-> PetitionsOn(amendments[s])]

LEMMA Views ==
    /\ Chain!chainVars = <<DeskView, MarksView, PetitionsView>>
    /\ UNCHANGED <<DeskView, MarksView, PetitionsView>> => UNCHANGED Chain!chainVars
BY DEF Chain!chainVars, DeskView, MarksView, PetitionsView, PetitionsOn

-----------------------------------------------------------------------------
(***************************************************************************)
(* Desks.                                                                  *)
(***************************************************************************)

\* Every status lies on one desk (CourseResult.Status).
LEMMA Desks ==
    /\ DeskOf(None) = "nowhere"
    /\ DeskOf("draft") = "lecturer" /\ DeskOf("returned") = "lecturer"
    /\ DeskOf("submitted_to_hod") = "hod"
    /\ DeskOf("approved_by_hod") = "dean"
    /\ DeskOf("approved_by_dean") = "senate"
    /\ DeskOf("ratified_by_senate") = "public"
<1>1. \A stat \in ResultStatus : stat # None
  BY NoneAssumption
<1>2. QED
  BY <1>1 DEF DeskOf, LECTURER_EDITABLE_STATUSES, ResultStatus

LEMMA PetitionDesks ==
    /\ PetitionDeskOf("pending_hod") = "hod"
    /\ PetitionDeskOf("approved_by_hod") = "dean"
    /\ PetitionDeskOf("approved_by_dean") = "senate"
    /\ PetitionDeskOf("applied") = "granted"
    /\ PetitionDeskOf("returned") = "refused"
BY DEF PetitionDeskOf

-----------------------------------------------------------------------------
(***************************************************************************)
(* Marks.  CurrentMark chooses among the current rows of a student; the    *)
(* unique index makes the choice irrelevant.                               *)
(***************************************************************************)

CurrentIn(rs, st, i) == i \in DOMAIN rs /\ rs[i].is_current /\ rs[i].student = st

MarkIn(rs, st) ==
    LET current == {i \in {j \in DOMAIN rs : rs[j].is_current} : rs[i].student = st}
    IN  IF current = {} THEN None ELSE rs[CHOOSE i \in current : TRUE].score

LEMMA MarkOfRows ==
    ASSUME NEW s, NEW st
    PROVE  /\ CurrentMark(s, st) = MarkIn(rows[s], st)
           /\ CurrentMark(s, st)' = MarkIn(rows'[s], st)
BY DEF CurrentMark, MarkIn, CurrentRowsOf, CurrentRows

LEMMA MarkIs ==
    ASSUME NEW rs, NEW st, NEW i, UniqueCurrentScore(rs), CurrentIn(rs, st, i)
    PROVE  MarkIn(rs, st) = rs[i].score
<1> DEFINE current == {k \in {j \in DOMAIN rs : rs[j].is_current} : rs[k].student = st}
<1>1. i \in current /\ \A k \in current : k = i
  BY DEF CurrentIn, UniqueCurrentScore
<1>2. (CHOOSE k \in current : TRUE) = i
  BY <1>1
<1>3. QED
  BY <1>1, <1>2 DEF MarkIn

LEMMA MarkAbsent ==
    ASSUME NEW rs, NEW st, \A i : ~CurrentIn(rs, st, i)
    PROVE  MarkIn(rs, st) = None
BY DEF MarkIn, CurrentIn

\* Two versions of the rows show a student the same mark.
LEMMA SameMark ==
    ASSUME NEW rs, NEW new, NEW st, UniqueCurrentScore(rs), UniqueCurrentScore(new),
           \A i : CurrentIn(rs, st, i) <=> CurrentIn(new, st, i),
           \A i : CurrentIn(rs, st, i) => new[i].score = rs[i].score
    PROVE  MarkIn(new, st) = MarkIn(rs, st)
<1>1. CASE \E i : CurrentIn(rs, st, i)
  <2>1. PICK i : CurrentIn(rs, st, i)
    BY <1>1
  <2>2. MarkIn(rs, st) = rs[i].score
    BY <2>1, MarkIs
  <2>3. MarkIn(new, st) = new[i].score
    BY <2>1, MarkIs
  <2>4. QED
    BY <2>1, <2>2, <2>3
<1>2. CASE \A i : ~CurrentIn(rs, st, i)
  BY <1>2, MarkAbsent
<1>3. QED
  BY <1>1, <1>2

\* One student's mark on one sheet changed.
LEMMA OneMark ==
    ASSUME NEW s \in Sheets, NEW st \in Students, NEW v,
           \A t \in Sheets \ {s} : rows'[t] = rows[t],
           MarkIn(rows'[s], st) = v,
           \A ot \in Students \ {st} : MarkIn(rows'[s], ot) = MarkIn(rows[s], ot)
    PROVE  MarksView' = [MarksView EXCEPT ![s][st] = v]
<1>1. MarksView = [t \in Sheets |-> [ot \in Students |-> MarkIn(rows[t], ot)]]
  BY MarkOfRows DEF MarksView
<1>2. MarksView' = [t \in Sheets |-> [ot \in Students |-> MarkIn(rows'[t], ot)]]
  BY MarkOfRows DEF MarksView
<1>3. QED
  BY <1>1, <1>2

LEMMA NoMark ==
    ASSUME rows' = rows
    PROVE  MarksView' = MarksView
<1>1. MarksView = [t \in Sheets |-> [ot \in Students |-> MarkIn(rows[t], ot)]]
  BY MarkOfRows DEF MarksView
<1>2. MarksView' = [t \in Sheets |-> [ot \in Students |-> MarkIn(rows'[t], ot)]]
  BY MarkOfRows DEF MarksView
<1>3. QED
  BY <1>1, <1>2

-----------------------------------------------------------------------------
(***************************************************************************)
(* The lecturer's desk.                                                    *)
(***************************************************************************)

LEMMA Enters ==
    ASSUME NEW s \in Sheets, NEW st \in Students, NEW v \in ValidScores,
           status[s] \in LECTURER_EDITABLE_STATUSES, status' = status, amendments' = amendments,
           MarksView' = [MarksView EXCEPT ![s][st] = v]
    PROVE  Chain!ChainNext
<1>1. DeskView[s] = "lecturer"
  BY Desks DEF DeskView, LECTURER_EDITABLE_STATUSES
<1>2. DeskView' = DeskView /\ PetitionsView' = PetitionsView
  BY DEF DeskView, PetitionsView
<1>3. Chain!Enter(s, st, v)
  BY <1>1, <1>2 DEF Chain!Enter, DeskView, MarksView, PetitionsView, PetitionsOn
<1>4. QED
  BY <1>3 DEF Chain!ChainNext

\* A first mark (services.record_score).
LEMMA AddScoreEnters ==
    ASSUME TypeOK, ScoreHistory, ScoreHistory', NEW a \in Actors, NEW s \in Sheets,
           NEW st \in Students, NEW v \in Scores, AddScore(a, s, st, v)
    PROVE  Chain!ChainNext
<1> DEFINE rs == rows[s]
           new == rows'[s]
<1>1. PICK last : last = Len(rows[s]) + 1
  OBVIOUS
<1>2. /\ DOMAIN new = DOMAIN rs \cup {last} /\ last \notin DOMAIN rs
      /\ \A i \in DOMAIN rs : new[i] = rs[i]
      /\ new[last].student = st /\ new[last].is_current /\ new[last].score = v
      /\ \A t \in Sheets \ {s} : rows'[t] = rows[t]
  BY <1>1 DEF AddScore, TypeOK
<1>3. \A i : ~CurrentIn(rs, st, i)
  BY DEF AddScore, CurrentRowsOf, CurrentRows, CurrentIn
<1>4. UniqueCurrentScore(rs) /\ UniqueCurrentScore(new)
  BY DEF ScoreHistory, ScoreChain
<1> HIDE DEF rs, new
<1>5. MarkIn(new, st) = v
  <2>1. CurrentIn(new, st, last)
    BY <1>2 DEF CurrentIn
  <2>2. QED
    BY <1>2, <1>4, <2>1, MarkIs
<1>6. ASSUME NEW ot \in Students \ {st} PROVE MarkIn(new, ot) = MarkIn(rs, ot)
  <2>1. /\ \A i : CurrentIn(rs, ot, i) <=> CurrentIn(new, ot, i)
        /\ \A i : CurrentIn(rs, ot, i) => new[i].score = rs[i].score
    BY <1>2 DEF CurrentIn
  <2>2. QED
    BY <1>4, <2>1, SameMark
<1>7. MarksView' = [MarksView EXCEPT ![s][st] = v]
  BY <1>2, <1>5, <1>6, OneMark DEF rs, new
<1>8. QED
  BY <1>7, Enters DEF AddScore, MayRecord

\* A correction in place (services.record_score).
LEMMA ChangeScoreEnters ==
    ASSUME TypeOK, ScoreHistory, ScoreHistory', NEW a \in Actors, NEW s \in Sheets,
           NEW st \in Students, NEW v \in Scores, ChangeScore(a, s, st, v)
    PROVE  Chain!ChainNext
<1> DEFINE rs == rows[s]
           new == rows'[s]
<1>1. PICK c \in CurrentRowsOf(s, st) : rows' = [rows EXCEPT ![s][c].score = v]
  BY DEF ChangeScore
<1>2. rs \in Seq(StudentScore) /\ CurrentIn(rs, st, c) /\ rs[c] \in StudentScore
  BY DEF TypeOK, CurrentRowsOf, CurrentRows, CurrentIn
<1>3. /\ DOMAIN new = DOMAIN rs
      /\ \A i \in DOMAIN rs \ {c} : new[i] = rs[i]
      /\ new[c].student = st /\ new[c].is_current /\ new[c].score = v
      /\ \A t \in Sheets \ {s} : rows'[t] = rows[t]
  BY <1>1, <1>2 DEF TypeOK, StudentScore, CurrentIn
<1>4. UniqueCurrentScore(rs) /\ UniqueCurrentScore(new)
  BY DEF ScoreHistory, ScoreChain
<1> HIDE DEF rs, new
<1>5. MarkIn(new, st) = v
  <2>1. CurrentIn(new, st, c)
    BY <1>2, <1>3 DEF CurrentIn
  <2>2. QED
    BY <1>3, <1>4, <2>1, MarkIs
<1>6. ASSUME NEW ot \in Students \ {st} PROVE MarkIn(new, ot) = MarkIn(rs, ot)
  <2>1. /\ \A i : CurrentIn(rs, ot, i) <=> CurrentIn(new, ot, i)
        /\ \A i : CurrentIn(rs, ot, i) => new[i].score = rs[i].score
    BY <1>2, <1>3 DEF CurrentIn
  <2>2. QED
    BY <1>4, <2>1, SameMark
<1>7. MarksView' = [MarksView EXCEPT ![s][st] = v]
  BY <1>3, <1>5, <1>6, OneMark DEF rs, new
<1>8. QED
  BY <1>7, Enters DEF ChangeScore, MayRecord

\* A new sheet (services.create_draft_result).
LEMMA CreateOpens ==
    ASSUME TypeOK, NEW a \in Actors, NEW s \in Sheets, CreateDraftResult(a, s)
    PROVE  Chain!ChainNext
<1>1. DeskView[s] = "nowhere"
  BY Desks DEF CreateDraftResult, DeskView
<1>2. DeskView' = [DeskView EXCEPT ![s] = "lecturer"]
  BY Desks DEF CreateDraftResult, DeskView, TypeOK
<1>3. MarksView' = MarksView /\ PetitionsView' = PetitionsView
  BY NoMark DEF CreateDraftResult, PetitionsView
<1>4. Chain!Open(s)
  BY <1>1, <1>2, <1>3 DEF Chain!Open, DeskView, MarksView, PetitionsView, PetitionsOn
<1>5. QED
  BY <1>4 DEF Chain!ChainNext

-----------------------------------------------------------------------------
(***************************************************************************)
(* Moving a sheet.                                                         *)
(***************************************************************************)

LEMMA TransitionForwards ==
    ASSUME TypeOK, ScoreHistory, NEW a \in Actors, NEW s \in Sheets, NEW to \in ResultStatus,
           Transition(a, s, to)
    PROVE  Chain!ChainNext
<1>1. MarksView' = MarksView /\ PetitionsView' = PetitionsView
  BY NoMark DEF Transition, PetitionsView
<1>2. DeskView' = [DeskView EXCEPT ![s] = DeskOf(to)] /\ DeskView[s] = DeskOf(status[s])
  BY DEF Transition, DeskView, TypeOK
<1>3. CASE to = "submitted_to_hod"
  <2>1. PICK i : i \in CurrentRows(s)
    BY <1>3 DEF Transition, MayTransition
  <2>2. rows[s] \in Seq(StudentScore) /\ rows[s][i] \in StudentScore
    BY <2>1 DEF TypeOK, CurrentRows
  <2>3. PICK st \in Students : st = rows[s][i].student
    BY <2>2 DEF StudentScore
  <2>4. CurrentMark(s, st) = rows[s][i].score
    <3>1. UniqueCurrentScore(rows[s]) /\ CurrentIn(rows[s], st, i)
      BY <2>1, <2>3 DEF ScoreHistory, ScoreChain, CurrentRows, CurrentIn
    <3>2. QED
      BY <3>1, MarkIs, MarkOfRows
  <2>5. MarksView[s][st] # None
    BY <2>2, <2>4, RegistryAssumption, NoneAssumption DEF MarksView, StudentScore
  <2>6. DeskView[s] = "lecturer"
    BY <1>2, <1>3, Desks DEF Transition, MayTransition, TRANSITIONS
  <2>7. Chain!Submit(s)
    BY <1>1, <1>2, <1>3, <2>5, <2>6, Desks
       DEF Chain!Submit, DeskView, MarksView, PetitionsView, PetitionsOn
  <2>8. QED
    BY <2>7 DEF Chain!ChainNext
<1>4. CASE to \in {"approved_by_hod", "approved_by_dean"}
  <2>1. \/ DeskView[s] = "hod" /\ DeskView' = [DeskView EXCEPT ![s] = "dean"]
        \/ DeskView[s] = "dean" /\ DeskView' = [DeskView EXCEPT ![s] = "senate"]
    BY <1>2, <1>4, Desks DEF Transition, MayTransition, TRANSITIONS
  <2>2. Chain!Forward(s)
    BY <1>1, <2>1 DEF Chain!Forward, DeskView, MarksView, PetitionsView, PetitionsOn
  <2>3. QED
    BY <2>2 DEF Chain!ChainNext
<1>5. CASE to = "ratified_by_senate"
  <2>1. DeskView[s] = "senate" /\ DeskView' = [DeskView EXCEPT ![s] = "public"]
    BY <1>2, <1>5, Desks DEF Transition, MayTransition, TRANSITIONS
  <2>2. DeskView' = [t \in Sheets |-> IF t \in {s} THEN "public" ELSE DeskView[t]]
    BY <2>1 DEF DeskView
  <2>3. Chain!Publish({s})
    BY <1>1, <2>1, <2>2 DEF Chain!Publish, DeskView, MarksView, PetitionsView, PetitionsOn
  <2>4. QED
    BY <2>3 DEF Chain!ChainNext
<1>6. CASE to = "returned"
  <2>1. DeskView[s] \in {"hod", "dean", "senate"} /\ DeskView' = [DeskView EXCEPT ![s] = "lecturer"]
    BY <1>2, <1>6, Desks DEF Transition, MayTransition, TRANSITIONS
  <2>2. Chain!SendBack(s)
    BY <1>1, <2>1 DEF Chain!SendBack, DeskView, MarksView, PetitionsView, PetitionsOn
  <2>3. QED
    BY <2>2 DEF Chain!ChainNext
<1>7. QED
  BY <1>3, <1>4, <1>5, <1>6 DEF Transition, MayTransition, TRANSITIONS

LEMMA BatchPublishes ==
    ASSUME TypeOK, NEW a \in Actors, NEW ids \in Batches, BatchRatify(a, ids)
    PROVE  Chain!ChainNext
<1> DEFINE batch == {ids[k] : k \in DOMAIN ids}
<1>1. MarksView' = MarksView /\ PetitionsView' = PetitionsView
  BY NoMark DEF BatchRatify, PetitionsView
<1>2. batch \in SUBSET Sheets
  BY DEF Batches
<1>3. \A s \in batch : status[s] = "approved_by_dean"
  BY DEF BatchRatify, MayRatifyAll, MayTransition, TRANSITIONS
<1>4. status' = [s \in Sheets |-> IF s \in batch THEN "ratified_by_senate" ELSE status[s]]
  BY DEF BatchRatify
<1> HIDE DEF batch
<1>5. \A s \in batch : DeskView[s] = "senate"
  BY <1>2, <1>3, Desks DEF DeskView
<1>6. DeskView' = [s \in Sheets |-> IF s \in batch THEN "public" ELSE DeskView[s]]
  BY <1>4, Desks DEF DeskView
<1>7. Chain!Publish(batch)
  BY <1>1, <1>5, <1>6 DEF Chain!Publish, DeskView, MarksView, PetitionsView, PetitionsOn
<1>8. QED
  BY <1>2, <1>7 DEF Chain!ChainNext

-----------------------------------------------------------------------------
(***************************************************************************)
(* Petitions.                                                              *)
(***************************************************************************)

\* Appending, entry by entry.
LEMMA AppendAsFunction ==
    ASSUME NEW T, NEW old \in Seq(T), NEW n \in Nat, Len(old) = n, NEW e
    PROVE  Append(old, e) = [m \in 1..(n + 1) |-> IF m \in 1..n THEN old[m] ELSE e]
<1> DEFINE U == T \cup {e}
           new == [m \in 1..(n + 1) |-> IF m \in 1..n THEN old[m] ELSE e]
<1>1. old \in [1..n -> T]
  OBVIOUS
<1>2. new \in [1..(n + 1) -> U]
  BY <1>1
<1>3. old \in Seq(U) /\ e \in U
  BY <1>1
<1> HIDE DEF U
<1>4. /\ Append(old, e) \in Seq(U) /\ Len(Append(old, e)) = n + 1
      /\ \A m \in 1..(n + 1) : Append(old, e)[m] = IF m \in 1..n THEN old[m] ELSE e
  BY <1>3
<1>5. Append(old, e) \in [1..(n + 1) -> U]
  <2>1. ASSUME NEW q \in Seq(U), Len(q) = n + 1 PROVE q \in [1..(n + 1) -> U]
    BY <2>1
  <2>2. QED
    BY <1>4, <2>1
<1>6. QED
  BY <1>2, <1>4, <1>5

LEMMA PetitionsAppend ==
    ASSUME NEW ams \in Seq(ResultAmendment), NEW am
    PROVE  PetitionsOn(Append(ams, am)) = Append(PetitionsOn(ams), PetitionOf(am))
<1> DEFINE n == Len(ams)
           T == {PetitionOf(ams[m]) : m \in 1..n}
           old == PetitionsOn(ams)
<1>1. DOMAIN ams = 1..n /\ n \in Nat
  OBVIOUS
<1>2. old \in [1..n -> T] /\ \A m \in 1..n : old[m] = PetitionOf(ams[m])
  BY <1>1 DEF PetitionsOn
<1>3. old \in Seq(T) /\ Len(old) = n
  BY <1>1, <1>2
<1>4. /\ DOMAIN Append(ams, am) = 1..(n + 1)
      /\ \A m \in 1..n : Append(ams, am)[m] = ams[m]
      /\ Append(ams, am)[n + 1] = am
  OBVIOUS
<1>5. PetitionsOn(Append(ams, am))
        = [m \in 1..(n + 1) |-> IF m \in 1..n THEN old[m] ELSE PetitionOf(am)]
  BY <1>1, <1>2, <1>4 DEF PetitionsOn
<1> HIDE DEF old, n, T
<1>6. Append(old, PetitionOf(am))
        = [m \in 1..(n + 1) |-> IF m \in 1..n THEN old[m] ELSE PetitionOf(am)]
  BY <1>1, <1>3, AppendAsFunction
<1>7. QED
  BY <1>5, <1>6 DEF old

\* One amendment of sheet s, amendment c, took status to and nothing else of the
\* amendments readers see changed.
AmendmentMovedTo(s, c, to) ==
    /\ \A t \in Sheets \ {s} : amendments'[t] = amendments[t]
    /\ DOMAIN amendments'[s] = DOMAIN amendments[s]
    /\ \A m \in DOMAIN amendments[s] \ {c} : amendments'[s][m] = amendments[s][m]
    /\ amendments'[s][c].student = amendments[s][c].student
    /\ amendments'[s][c].proposed = amendments[s][c].proposed
    /\ amendments'[s][c].status = to

\* Seen from the chain: petition c of sheet s went to desk d and no other moved.
PetitionMovedTo(s, c, d) ==
    /\ PetitionsView' = [PetitionsView EXCEPT ![s][c].desk = d]
    /\ PetitionsView[s][c] = PetitionOf(amendments[s][c])
    /\ c \in DOMAIN PetitionsView[s]

LEMMA PetitionMoved ==
    ASSUME TypeOK, NEW s \in Sheets, NEW c \in DOMAIN amendments[s], NEW to,
           AmendmentMovedTo(s, c, to)
    PROVE  PetitionMovedTo(s, c, PetitionDeskOf(to))
<1>1. PetitionsOn(amendments'[s])
        = [PetitionsOn(amendments[s]) EXCEPT ![c].desk = PetitionDeskOf(to)]
  BY DEF AmendmentMovedTo, PetitionsOn, PetitionOf
<1>2. \A t \in Sheets \ {s} : PetitionsOn(amendments'[t]) = PetitionsOn(amendments[t])
  BY DEF AmendmentMovedTo
<1>3. PetitionsView' = [PetitionsView EXCEPT ![s][c].desk = PetitionDeskOf(to)]
  BY <1>1, <1>2 DEF PetitionsView
<1>4. QED
  BY <1>3 DEF PetitionMovedTo, PetitionsView, PetitionsOn

\* Raising an amendment is asking (services.raise_amendment).
LEMMA RaiseAsks ==
    ASSUME TypeOK, ScoreHistory, NEW a \in Actors, NEW s \in Sheets, NEW st \in Students,
           NEW v \in Scores, RaiseAmendment(a, s, st, v)
    PROVE  Chain!ChainNext
<1>1. PICK i \in CurrentRowsOf(s, st) :
         amendments' = [amendments EXCEPT ![s] =
              Append(@, [student |-> st, original_score |-> i, proposed |-> v,
                         status |-> "pending_hod", applied_score |-> 0])]
  BY DEF RaiseAmendment
<1> DEFINE am == [student |-> st, original_score |-> i, proposed |-> v,
                  status |-> "pending_hod", applied_score |-> 0]
<1>2. amendments[s] \in Seq(ResultAmendment) /\ amendments'[s] = Append(amendments[s], am)
  BY <1>1 DEF TypeOK
<1>3. PetitionOf(am) = [student |-> st, mark |-> v, desk |-> "hod"]
  BY PetitionDesks DEF PetitionOf
<1> HIDE DEF am
<1>4. PetitionsOn(amendments'[s]) = Append(PetitionsOn(amendments[s]), PetitionOf(am))
  BY <1>2, PetitionsAppend
<1>5. \A t \in Sheets \ {s} : amendments'[t] = amendments[t]
  BY <1>1 DEF TypeOK
<1>6. PetitionsView' = [PetitionsView EXCEPT ![s] =
                           Append(@, [student |-> st, mark |-> v, desk |-> "hod"])]
  BY <1>3, <1>4, <1>5 DEF PetitionsView
<1>7. MarksView' = MarksView /\ DeskView' = DeskView
  BY NoMark DEF RaiseAmendment, DeskView
<1>8. DeskView[s] = "public"
  BY Desks DEF RaiseAmendment, DeskView
<1>9. MarksView[s][st] # None
  <2>1. rows[s] \in Seq(StudentScore) /\ i \in DOMAIN rows[s] /\ rows[s][i] \in StudentScore
    BY DEF TypeOK, CurrentRowsOf, CurrentRows
  <2>2. UniqueCurrentScore(rows[s]) /\ CurrentIn(rows[s], st, i)
    BY DEF ScoreHistory, ScoreChain, CurrentRowsOf, CurrentRows, CurrentIn
  <2>3. CurrentMark(s, st) = rows[s][i].score
    BY <2>2, MarkIs, MarkOfRows
  <2>4. QED
    BY <2>1, <2>3, RegistryAssumption, NoneAssumption DEF MarksView, StudentScore
<1>10. Chain!Ask(s, st, v)
  BY <1>6, <1>7, <1>8, <1>9 DEF Chain!Ask, DeskView, MarksView, PetitionsView, PetitionsOn
<1>11. v \in ValidScores
  BY DEF RaiseAmendment
<1>12. QED
  BY <1>10, <1>11 DEF Chain!ChainNext

\* Moving an amendment short of its application passes or refuses the petition.
LEMMA MovePasses ==
    ASSUME TypeOK, NEW a \in Actors, NEW s \in Sheets, NEW c \in DOMAIN amendments[s],
           NEW to \in AmendmentStatus, MoveAmendment(a, s, c, to)
    PROVE  Chain!ChainNext
<1>1. amendments[s] \in Seq(ResultAmendment) /\ amendments[s][c] \in ResultAmendment
  BY DEF TypeOK
<1>2. AmendmentMovedTo(s, c, to)
  BY <1>1 DEF AmendmentMovedTo, MoveAmendment, TypeOK, ResultAmendment
<1>0. PetitionMovedTo(s, c, PetitionDeskOf(to))
  BY <1>2, PetitionMoved
<1>3. /\ PetitionsView' = [PetitionsView EXCEPT ![s][c].desk = PetitionDeskOf(to)]
      /\ PetitionsView[s][c].desk = PetitionDeskOf(amendments[s][c].status)
      /\ c \in DOMAIN PetitionsView[s]
  BY <1>0 DEF PetitionMovedTo, PetitionOf
<1>4. MarksView' = MarksView /\ DeskView' = DeskView
  BY NoMark DEF MoveAmendment, DeskView
<1>5. <<amendments[s][c].status, to, RoleOf[a]>> \in AMENDMENT_TRANSITIONS /\ to # "applied"
  BY DEF MoveAmendment, MayMoveAmendment
<1>6. CASE to \in {"approved_by_hod", "approved_by_dean"}
  <2>1. \/ /\ PetitionsView[s][c].desk = "hod"
           /\ PetitionsView' = [PetitionsView EXCEPT ![s][c].desk = "dean"]
        \/ /\ PetitionsView[s][c].desk = "dean"
           /\ PetitionsView' = [PetitionsView EXCEPT ![s][c].desk = "senate"]
    BY <1>3, <1>5, <1>6, PetitionDesks DEF AMENDMENT_TRANSITIONS
  <2>2. Chain!Pass(s, c)
    BY <1>4, <2>1 DEF Chain!Pass, DeskView, MarksView, PetitionsView, PetitionsOn
  <2>3. QED
    BY <1>3, <2>2 DEF Chain!ChainNext, PetitionsView, PetitionsOn
<1>7. CASE to = "returned"
  <2>1. /\ PetitionsView[s][c].desk \in {"hod", "dean", "senate"}
        /\ PetitionsView' = [PetitionsView EXCEPT ![s][c].desk = "refused"]
    BY <1>3, <1>5, <1>7, PetitionDesks DEF AMENDMENT_TRANSITIONS
  <2>2. Chain!Refuse(s, c)
    BY <1>4, <2>1 DEF Chain!Refuse, DeskView, MarksView, PetitionsView, PetitionsOn
  <2>3. QED
    BY <1>3, <2>2 DEF Chain!ChainNext, PetitionsView, PetitionsOn
<1>8. QED
  BY <1>5, <1>6, <1>7 DEF AMENDMENT_TRANSITIONS

\* Applying an amendment grants the petition: whatever row is retired, the mark
\* readers see becomes the one asked for (services._apply_amendment).
LEMMA ApplyGrants ==
    ASSUME TypeOK, ScoreHistory, ScoreHistory', NEW a \in Actors, NEW s \in Sheets,
           NEW c \in DOMAIN amendments[s], ApplyAmendment(a, s, c)
    PROVE  Chain!ChainNext
<1> DEFINE rs == rows[s]
           new == rows'[s]
<1>1. PICK r, last, v : Applied(a, s, c, r, last, v)
  BY ApplyParts
<1>2. amendments[s] \in Seq(ResultAmendment) /\ amendments[s][c] \in ResultAmendment
  BY DEF TypeOK
<1>3. PICK st \in Students : st = amendments[s][c].student
  BY <1>2 DEF ResultAmendment
<1>4. /\ AmendmentMovedTo(s, c, "applied")
      /\ \A t \in Sheets \ {s} : rows'[t] = rows[t]
  BY <1>1, <1>2 DEF AmendmentMovedTo, ApplyAmendment, Applied, TypeOK, ResultAmendment
<1>5. /\ PetitionsView' = [PetitionsView EXCEPT ![s][c].desk = "granted"]
      /\ PetitionsView[s][c].desk = "senate"
      /\ PetitionsView[s][c].student = st /\ PetitionsView[s][c].mark = v
      /\ c \in DOMAIN PetitionsView[s]
  <2>1. PetitionMovedTo(s, c, PetitionDeskOf("applied"))
    BY <1>4, PetitionMoved
  <2>2. amendments[s][c].status = "approved_by_dean" /\ amendments[s][c].proposed = v
    BY <1>1 DEF ApplyAmendment, Applied, MayMoveAmendment, AMENDMENT_TRANSITIONS
  <2>3. /\ PetitionsView' = [PetitionsView EXCEPT ![s][c].desk = "granted"]
        /\ c \in DOMAIN PetitionsView[s]
    BY <2>1, PetitionDesks DEF PetitionMovedTo
  <2>4. PetitionsView[s][c] = [student |-> st, mark |-> v, desk |-> "senate"]
    BY <1>3, <2>1, <2>2, PetitionDesks DEF PetitionMovedTo, PetitionOf
  <2>5. QED
    BY <2>3, <2>4
<1>6. /\ DOMAIN new = DOMAIN rs \cup {last} /\ last \notin DOMAIN rs
      /\ \A i \in DOMAIN rs : /\ new[i].student = rs[i].student
                              /\ new[i].score = rs[i].score
                              /\ new[i].is_current <=> rs[i].is_current /\ i # r
      /\ CurrentIn(rs, st, r)
      /\ new[last].student = st /\ new[last].is_current /\ new[last].score = v
  BY <1>1, <1>3 DEF Applied, Replaces, CurrentRowsOf, CurrentRows, CurrentIn, TypeOK
<1>7. UniqueCurrentScore(rs) /\ UniqueCurrentScore(new)
  BY DEF ScoreHistory, ScoreChain
<1> HIDE DEF rs, new
<1>8. MarkIn(new, st) = v
  <2>1. CurrentIn(new, st, last)
    BY <1>6 DEF CurrentIn
  <2>2. QED
    BY <1>6, <1>7, <2>1, MarkIs
<1>9. ASSUME NEW ot \in Students \ {st} PROVE MarkIn(new, ot) = MarkIn(rs, ot)
  <2>1. /\ \A i : CurrentIn(rs, ot, i) <=> CurrentIn(new, ot, i)
        /\ \A i : CurrentIn(rs, ot, i) => new[i].score = rs[i].score
    BY <1>6 DEF CurrentIn
  <2>2. QED
    BY <1>7, <2>1, SameMark
<1>10. MarksView' = [MarksView EXCEPT ![s][st] = v]
  BY <1>4, <1>8, <1>9, OneMark DEF rs, new
<1>11. DeskView' = DeskView
  BY DEF ApplyAmendment, DeskView
<1>12. Chain!Grant(s, c)
  <2>1. MarksView' = [MarksView EXCEPT ![s][PetitionsView[s][c].student] = PetitionsView[s][c].mark]
    BY <1>5, <1>10
  <2>2. QED
    BY <1>5, <1>11, <2>1 DEF Chain!Grant, DeskView, MarksView, PetitionsView, PetitionsOn
<1>13. QED
  BY <1>5, <1>12 DEF Chain!ChainNext, PetitionsView, PetitionsOn

-----------------------------------------------------------------------------

LEMMA InitIsChainInit == Init => Chain!ChainInit
<1> SUFFICES ASSUME Init PROVE Chain!ChainInit
  OBVIOUS
<1>1. DeskView = [s \in Sheets |-> "nowhere"]
  BY Desks DEF Init, DeskView
<1>2. MarksView = [s \in Sheets |-> [st \in Students |-> None]]
  <2>1. \A s \in Sheets : \A st, i : ~CurrentIn(rows[s], st, i)
    BY DEF Init, CurrentIn
  <2>2. \A s \in Sheets, st \in Students : CurrentMark(s, st) = None
    BY <2>1, MarkAbsent, MarkOfRows
  <2>3. QED
    BY <2>2 DEF MarksView
<1>3. PetitionsView = [s \in Sheets |-> <<>>]
  BY DEF Init, PetitionsView, PetitionsOn
<1>4. QED
  BY <1>1, <1>2, <1>3 DEF Chain!ChainInit, DeskView, MarksView, PetitionsView, PetitionsOn

LEMMA StepIsChainStep ==
    ASSUME TypeOK, ScoreHistory, ScoreHistory', [Next]_vars
    PROVE  [Chain!ChainNext]_(Chain!chainVars)
<1>1. ASSUME UNCHANGED <<status, rows, amendments>> PROVE UNCHANGED Chain!chainVars
  <2>1. UNCHANGED <<DeskView, MarksView, PetitionsView>>
    BY <1>1, NoMark DEF DeskView, PetitionsView
  <2>2. QED
    BY <2>1, Views
<1>2. CASE \/ \E st \in Students, s \in Sheets : ChangeEnrolment(st, s)
           \/ \E a \in Actors, s \in Sheets : ChangeAssignment(a, s)
           \/ UNCHANGED vars
  BY <1>1, <1>2 DEF ChangeEnrolment, ChangeAssignment, sheetVars, vars
<1>3. QED
  BY <1>2, CreateOpens, AddScoreEnters, ChangeScoreEnters, TransitionForwards, BatchPublishes,
     RaiseAsks, MovePasses, ApplyGrants DEF Next, RecordScore, AmendmentTransition

\* The pipeline is an approval chain: what readers see of a sheet changes only by
\* opening, entering on the lecturer's desk, moving from desk to desk, publishing
\* after the last, and granting petitions that passed every desk
\* (the whole of results/services.py).
THEOREM PipelineImplementsChain == Spec => ImplementsChain
<1>1. Spec => [](TypeOK /\ ScoreHistory)
  BY TypeCorrect, ScoreHistoryHolds, PTL
<1>2. TypeOK /\ ScoreHistory /\ (TypeOK /\ ScoreHistory)' /\ [Next]_vars
         => [Chain!ChainNext]_(Chain!chainVars)
  BY StepIsChainStep
<1>3. QED
  BY <1>1, <1>2, InitIsChainInit, PTL DEF Spec, Chain!ChainSpec, ImplementsChain
=============================================================================
