------------------------ MODULE ResultPipelineProofs ------------------------
(***************************************************************************)
(* Theorems about ResultPipeline for every set of sheets, students, actors *)
(* and marks and every bound.                                              *)
(***************************************************************************)
EXTENDS ResultPipeline, TLAPS

\* An audit write keeps the trail well typed (services._log).
LEMMA LogType ==
    ASSUME audit \in [Sheets -> Seq(ResultAuditLog)], NEW s \in Sheets,
           NEW entries \in Seq(ResultAuditLog), Log(s, entries)
    PROVE  audit' \in [Sheets -> Seq(ResultAuditLog)]
<1>1. audit[s] \o entries \in Seq(ResultAuditLog)
  OBVIOUS
<1>2. QED
  BY <1>1 DEF Log

\* An entry with well-typed parts is a row of the audit table (services._log).
LEMMA EntryType ==
    ASSUME NEW a \in Actors, NEW action \in AuditAction, NEW ref \in Nat,
           NEW before \in AuditValue, NEW after \in AuditValue
    PROVE  <<Entry(a, action, ref, before, after)>> \in Seq(ResultAuditLog)
<1>1. Entry(a, action, ref, before, after) \in ResultAuditLog
  BY DEF Entry, ResultAuditLog
<1>2. QED
  BY <1>1

\* Handing tasks to the broker keeps the queue well typed (_notify_transition).
LEMMA NotifyType ==
    ASSUME notices \in [Sheets -> Seq({"result_returned", "result_published"})],
           NEW ids, NEW n, NEW kind \in {"result_returned", "result_published"},
           Notify(ids, n, kind)
    PROVE  notices' \in [Sheets -> Seq({"result_returned", "result_published"})]
BY DEF Notify

\* The legal moves lead to statuses (TRANSITIONS, AMENDMENT_TRANSITIONS).
LEMMA TransitionTargets ==
    /\ \A from, to, role : <<from, to, role>> \in TRANSITIONS =>
          from \in ResultStatus /\ to \in ResultStatus
    /\ \A from, to, role : <<from, to, role>> \in AMENDMENT_TRANSITIONS =>
          from \in AmendmentStatus /\ to \in AmendmentStatus
BY DEF TRANSITIONS, AMENDMENT_TRANSITIONS, ResultStatus, AmendmentStatus

\* A status change of one sheet keeps the sheet's state well typed
\* (services.transition_result).
LEMMA TransitionType ==
    ASSUME TypeOK, NEW a \in Actors, NEW s \in Sheets, NEW to \in ResultStatus,
           Transition(a, s, to)
    PROVE  TypeOK'
<1>1. status[s] \in AuditValue /\ to \in AuditValue
  BY TransitionTargets DEF Transition, MayTransition, AuditValue
<1>2. audit' \in [Sheets -> Seq(ResultAuditLog)]
  BY <1>1, EntryType, LogType DEF TypeOK, Transition, AuditAction
<1>3. notices' \in [Sheets -> Seq({"result_returned", "result_published"})]
  BY NotifyType DEF TypeOK, Transition
<1>4. QED
  BY <1>2, <1>3 DEF TypeOK, Transition, registryVars

\* Superseding a row keeps the rows well typed (services._apply_amendment).
LEMMA SupersededType ==
    ASSUME NEW rs \in Seq(StudentScore), NEW i \in DOMAIN rs, NEW score \in ValidScores
    PROVE  Superseded(rs, i, score) \in Seq(StudentScore)
<1>1. rs[i] \in StudentScore /\ i \in Nat
  OBVIOUS
<1>2. [rs[i] EXCEPT !.is_current = FALSE] \in StudentScore
  BY <1>1 DEF StudentScore
<1>3. [rs EXCEPT ![i].is_current = FALSE] \in Seq(StudentScore)
  BY <1>2
<1>4. [student |-> rs[i].student, score |-> score,
       is_current |-> TRUE, supersedes |-> i] \in StudentScore
  BY <1>1 DEF StudentScore
<1>5. QED
  BY <1>3, <1>4 DEF Superseded

-----------------------------------------------------------------------------
(***************************************************************************)
(* Type correctness.                                                       *)
(***************************************************************************)

LEMMA InitType == Init => TypeOK
BY DEF Init, TypeOK

\* Score entry writes well-typed rows (services.record_score).
LEMMA AddScoreType ==
    ASSUME TypeOK, NEW a \in Actors, NEW s \in Sheets, NEW st \in Students,
           NEW v \in Scores, AddScore(a, s, st, v)
    PROVE  TypeOK'
<1>1. v \in ValidScores /\ v \in AuditValue /\ None \in AuditValue
  BY DEF AddScore, MayRecord, AuditValue
<1>2. Len(rows[s]) + 1 \in Nat
  BY DEF TypeOK
<1>3. audit' \in [Sheets -> Seq(ResultAuditLog)]
  BY <1>1, <1>2, EntryType, LogType DEF AddScore, TypeOK, AuditAction
<1>4. [student |-> st, score |-> v, is_current |-> TRUE, supersedes |-> 0] \in StudentScore
  BY <1>1 DEF StudentScore
<1>5. rows' \in [Sheets -> Seq(StudentScore)]
  BY <1>4 DEF AddScore, TypeOK
<1>6. QED
  BY <1>3, <1>5 DEF AddScore, TypeOK, registryVars

LEMMA ChangeScoreType ==
    ASSUME TypeOK, NEW a \in Actors, NEW s \in Sheets, NEW st \in Students,
           NEW v \in Scores, ChangeScore(a, s, st, v)
    PROVE  TypeOK'
<1>1. PICK i \in CurrentRowsOf(s, st) :
         /\ rows' = [rows EXCEPT ![s][i].score = v]
         /\ Log(s, <<Entry(a, "score_changed", i, rows[s][i].score, v)>>)
  BY DEF ChangeScore
<1>2. i \in DOMAIN rows[s] /\ i \in Nat /\ rows[s][i] \in StudentScore
  BY DEF CurrentRowsOf, CurrentRows, TypeOK
<1>3. v \in ValidScores
  BY DEF ChangeScore, MayRecord
<1>4. v \in AuditValue /\ rows[s][i].score \in AuditValue
  BY <1>2, <1>3 DEF AuditValue, StudentScore
<1>5. audit' \in [Sheets -> Seq(ResultAuditLog)]
  BY <1>1, <1>2, <1>4, EntryType, LogType DEF TypeOK, AuditAction
<1>6. [rows[s][i] EXCEPT !.score = v] \in StudentScore
  BY <1>2, <1>3 DEF StudentScore
<1>7. [rows[s] EXCEPT ![i].score = v] \in Seq(StudentScore)
  BY <1>2, <1>6 DEF TypeOK
<1>8. rows' \in [Sheets -> Seq(StudentScore)]
  BY <1>1, <1>7 DEF TypeOK
<1>9. QED
  BY <1>5, <1>8 DEF ChangeScore, TypeOK, registryVars

LEMMA BatchType ==
    ASSUME TypeOK, NEW a \in Actors, NEW ids \in Batches, BatchRatify(a, ids)
    PROVE  TypeOK'
<1> DEFINE batch == {ids[k] : k \in DOMAIN ids}
<1>1. status' \in [Sheets -> ResultStatus \cup {None}]
  BY DEF BatchRatify, TypeOK, ResultStatus
<1>2. ASSUME NEW s \in batch
      PROVE  status[s] \in ResultStatus
  BY <1>2, TransitionTargets DEF BatchRatify, MayRatifyAll, MayTransition
<1>3. ASSUME NEW s \in Sheets, s \in batch
      PROVE  Entry(a, "status_changed", 0, status[s], "ratified_by_senate") \in ResultAuditLog
  BY <1>2, <1>3 DEF Entry, ResultAuditLog, AuditAction, AuditValue, ResultStatus
<1>4. audit' \in [Sheets -> Seq(ResultAuditLog)]
  BY <1>3 DEF BatchRatify, TypeOK
<1>5. notices' \in [Sheets -> Seq({"result_returned", "result_published"})]
  BY NotifyType DEF BatchRatify, TypeOK
<1>6. QED
  BY <1>1, <1>4, <1>5 DEF BatchRatify, TypeOK, registryVars

LEMMA RaiseType ==
    ASSUME TypeOK, NEW a \in Actors, NEW s \in Sheets, NEW st \in Students,
           NEW v \in Scores, RaiseAmendment(a, s, st, v)
    PROVE  TypeOK'
<1>1. PICK i \in CurrentRowsOf(s, st) :
         amendments' = [amendments EXCEPT ![s] =
              Append(@, [student |-> st, original_score |-> i, proposed |-> v,
                         status |-> "pending_hod", applied_score |-> 0])]
  BY DEF RaiseAmendment
<1>2. i \in Nat /\ v \in ValidScores
  BY DEF CurrentRowsOf, CurrentRows, TypeOK, RaiseAmendment
<1>3. [student |-> st, original_score |-> i, proposed |-> v,
       status |-> "pending_hod", applied_score |-> 0] \in ResultAmendment
  BY <1>2 DEF ResultAmendment, AmendmentStatus
<1>4. amendments' \in [Sheets -> Seq(ResultAmendment)]
  BY <1>1, <1>3 DEF TypeOK
<1>5. Len(amendments[s]) + 1 \in Nat
  BY DEF TypeOK
<1>6. audit' \in [Sheets -> Seq(ResultAuditLog)]
  BY <1>5, EntryType, LogType DEF RaiseAmendment, TypeOK, AuditAction, AuditValue, AmendmentStatus
<1>7. QED
  BY <1>4, <1>6 DEF RaiseAmendment, TypeOK, registryVars

LEMMA MoveEntryType ==
    ASSUME TypeOK, NEW a \in Actors, NEW s \in Sheets, NEW m \in DOMAIN amendments[s],
           NEW to \in AmendmentStatus
    PROVE  MoveEntry(a, s, m, to) \in ResultAuditLog
<1>1. amendments[s][m] \in ResultAmendment /\ m \in Nat
  BY DEF TypeOK
<1>2. QED
  BY <1>1 DEF MoveEntry, Entry, ResultAuditLog, AuditAction, AuditValue, ResultAmendment

LEMMA MoveAmendmentType ==
    ASSUME TypeOK, NEW a \in Actors, NEW s \in Sheets, NEW m \in DOMAIN amendments[s],
           NEW to \in AmendmentStatus, MoveAmendment(a, s, m, to)
    PROVE  TypeOK'
<1>1. amendments[s][m] \in ResultAmendment
  BY DEF TypeOK
<1>2. [amendments[s][m] EXCEPT !.status = to] \in ResultAmendment
  BY <1>1 DEF ResultAmendment
<1>3. amendments' \in [Sheets -> Seq(ResultAmendment)]
  BY <1>2 DEF MoveAmendment, TypeOK
<1>4. <<MoveEntry(a, s, m, to)>> \in Seq(ResultAuditLog)
  BY MoveEntryType
<1>5. audit' \in [Sheets -> Seq(ResultAuditLog)]
  BY <1>4, LogType DEF MoveAmendment, TypeOK
<1>6. QED
  BY <1>3, <1>5 DEF MoveAmendment, TypeOK, registryVars

LEMMA ApplyAmendmentType ==
    ASSUME TypeOK, NEW a \in Actors, NEW s \in Sheets, NEW m \in DOMAIN amendments[s],
           ApplyAmendment(a, s, m)
    PROVE  TypeOK'
<1> DEFINE st == amendments[s][m].student
           score == amendments[s][m].proposed
           new == Len(rows[s]) + 1
<1>1. amendments[s][m] \in ResultAmendment /\ new \in Nat
  BY DEF TypeOK
<1>2. score \in ValidScores
  BY <1>1 DEF ResultAmendment
<1>3. PICK i \in CurrentRowsOf(s, st) :
         /\ rows' = [rows EXCEPT ![s] = Superseded(@, i, score)]
         /\ Log(s, <<Entry(a, "score_superseded", new, rows[s][i].score, score),
                     MoveEntry(a, s, m, "applied")>>)
  BY DEF ApplyAmendment
<1>4. i \in DOMAIN rows[s] /\ rows[s] \in Seq(StudentScore) /\ rows[s][i] \in StudentScore
  BY DEF CurrentRowsOf, CurrentRows, TypeOK
<1>5. rows' \in [Sheets -> Seq(StudentScore)]
  BY <1>2, <1>3, <1>4, SupersededType DEF TypeOK
<1>6. Entry(a, "score_superseded", new, rows[s][i].score, score) \in ResultAuditLog
  BY <1>1, <1>2, <1>4 DEF Entry, ResultAuditLog, AuditAction, AuditValue, StudentScore
<1>7. MoveEntry(a, s, m, "applied") \in ResultAuditLog
  BY MoveEntryType DEF AmendmentStatus
<1>8. audit' \in [Sheets -> Seq(ResultAuditLog)]
  <2>1. <<Entry(a, "score_superseded", new, rows[s][i].score, score),
          MoveEntry(a, s, m, "applied")>> \in Seq(ResultAuditLog)
    BY <1>6, <1>7
  <2>2. QED
    BY <1>3, <2>1, LogType DEF TypeOK
<1>9. [amendments[s][m] EXCEPT !.status = "applied", !.applied_score = new] \in ResultAmendment
  BY <1>1 DEF ResultAmendment, AmendmentStatus
<1>10. amendments' \in [Sheets -> Seq(ResultAmendment)]
  BY <1>1, <1>9 DEF ApplyAmendment, TypeOK
<1>11. QED
  BY <1>5, <1>8, <1>10 DEF ApplyAmendment, TypeOK, registryVars

LEMMA RegistryType ==
    ASSUME TypeOK,
           \/ \E st \in Students, s \in Sheets : ChangeEnrolment(st, s)
           \/ \E a \in Actors, s \in Sheets : ChangeAssignment(a, s)
    PROVE  TypeOK'
BY DEF ChangeEnrolment, ChangeAssignment, TypeOK, sheetVars

\* Every reachable state is well typed: in particular no stored, proposed or
\* logged mark is outside the course's weights (results/services.py).
THEOREM TypeCorrect == Spec => []TypeOK
<1>1. TypeOK /\ [Next]_vars => TypeOK'
  <2> SUFFICES ASSUME TypeOK, [Next]_vars PROVE TypeOK'
    OBVIOUS
  <2>1. ASSUME NEW a \in Actors, NEW s \in Sheets, CreateDraftResult(a, s)
        PROVE  TypeOK'
    <3>1. audit' \in [Sheets -> Seq(ResultAuditLog)]
      BY <2>1, EntryType, LogType
         DEF CreateDraftResult, TypeOK, AuditAction, AuditValue, ResultStatus
    <3>2. QED
      BY <2>1, <3>1 DEF CreateDraftResult, TypeOK, ResultStatus, registryVars
  <2>2. ASSUME NEW a \in Actors, NEW s \in Sheets, NEW st \in Students, NEW v \in Scores,
               RecordScore(a, s, st, v)
        PROVE  TypeOK'
    BY <2>2, AddScoreType, ChangeScoreType DEF RecordScore
  <2>3. ASSUME NEW a \in Actors, NEW s \in Sheets, NEW to \in ResultStatus, Transition(a, s, to)
        PROVE  TypeOK'
    BY <2>3, TransitionType
  <2>4. ASSUME NEW a \in Actors, NEW ids \in Batches, BatchRatify(a, ids)
        PROVE  TypeOK'
    BY <2>4, BatchType
  <2>5. ASSUME NEW a \in Actors, NEW s \in Sheets, NEW st \in Students, NEW v \in Scores,
               RaiseAmendment(a, s, st, v)
        PROVE  TypeOK'
    BY <2>5, RaiseType
  <2>6. ASSUME NEW a \in Actors, NEW s \in Sheets, NEW m \in DOMAIN amendments[s],
               NEW to \in AmendmentStatus, AmendmentTransition(a, s, m, to)
        PROVE  TypeOK'
    BY <2>6, MoveAmendmentType, ApplyAmendmentType DEF AmendmentTransition
  <2>7. CASE UNCHANGED vars
    BY <2>7 DEF vars, TypeOK
  <2>8. QED
    BY <2>1, <2>2, <2>3, <2>4, <2>5, <2>6, <2>7, RegistryType DEF Next
<1>2. QED
  BY InitType, <1>1, PTL DEF Spec

-----------------------------------------------------------------------------
(***************************************************************************)
(* The history of a student's score.  ScoreHistory is inductive: each of   *)
(* the three ways rows change preserves ScoreChain.                        *)
(***************************************************************************)

\* A first row for a student without a current one (services.record_score).
LEMMA AppendKeepsChain ==
    ASSUME NEW rs \in Seq(StudentScore), ScoreChain(rs), NEW st \in Students,
           NEW score \in ValidScores,
           \A i \in DOMAIN rs : rs[i].is_current => rs[i].student # st
    PROVE  ScoreChain(Append(rs, [student |-> st, score |-> score,
                                  is_current |-> TRUE, supersedes |-> 0]))
<1> DEFINE row == [student |-> st, score |-> score, is_current |-> TRUE, supersedes |-> 0]
           new == Append(rs, row)
<1> SUFFICES ScoreChain(new)
  OBVIOUS
<1>1. /\ DOMAIN new = DOMAIN rs \cup {Len(rs) + 1}
      /\ DOMAIN rs = 1..Len(rs)
      /\ \A i \in DOMAIN rs : new[i] = rs[i]
      /\ new[Len(rs) + 1].student = st
      /\ new[Len(rs) + 1].supersedes = 0
      /\ new[Len(rs) + 1].is_current
  OBVIOUS
<1> HIDE DEF new
<1>2. UniqueCurrentScore(new)
  <2> SUFFICES ASSUME NEW i \in DOMAIN new, NEW j \in DOMAIN new, new[i].is_current,
                      new[j].is_current, new[i].student = new[j].student
               PROVE  i = j
    BY DEF UniqueCurrentScore
  <2>1. CASE i \in DOMAIN rs /\ j \in DOMAIN rs
    BY <2>1, <1>1 DEF ScoreChain, UniqueCurrentScore
  <2>2. CASE i = Len(rs) + 1 \/ j = Len(rs) + 1
    BY <2>2, <1>1
  <2>3. QED
    BY <2>1, <2>2, <1>1
<1>3. QED
  BY <1>1, <1>2 DEF ScoreChain

\* Correcting a mark in place (services.record_score).
LEMMA RescoreKeepsChain ==
    ASSUME NEW rs \in Seq(StudentScore), ScoreChain(rs), NEW i \in DOMAIN rs,
           NEW score \in ValidScores
    PROVE  ScoreChain([rs EXCEPT ![i].score = score])
<1> DEFINE new == [rs EXCEPT ![i].score = score]
<1> SUFFICES ScoreChain(new)
  OBVIOUS
<1>1. /\ DOMAIN new = DOMAIN rs
      /\ \A j \in DOMAIN rs : /\ new[j].student = rs[j].student
                              /\ new[j].is_current <=> rs[j].is_current
                              /\ new[j].supersedes = rs[j].supersedes
  <2>1. ASSUME NEW j \in DOMAIN rs PROVE rs[j] \in StudentScore
    OBVIOUS
  <2>2. QED
    BY <2>1 DEF StudentScore
<1> HIDE DEF new
<1>2. UniqueCurrentScore(new)
  BY <1>1 DEF ScoreChain, UniqueCurrentScore
<1>3. \A j \in DOMAIN new : ~new[j].is_current => \E k \in DOMAIN new : new[k].supersedes = j
  <2>1. \A j \in DOMAIN rs : ~rs[j].is_current => \E k \in DOMAIN rs : rs[k].supersedes = j
    BY DEF ScoreChain
  <2>2. QED
    BY <1>1, <2>1
<1>4. \A j, k \in DOMAIN new :
         new[j].supersedes # 0 /\ new[j].supersedes = new[k].supersedes => j = k
  <2>1. \A j, k \in DOMAIN rs :
           rs[j].supersedes # 0 /\ rs[j].supersedes = rs[k].supersedes => j = k
    BY DEF ScoreChain
  <2>2. QED
    BY <1>1, <2>1
<1>5. \A j \in DOMAIN new : new[j].supersedes # 0 =>
         /\ new[j].supersedes \in 1..(j - 1)
         /\ new[new[j].supersedes].student = new[j].student
         /\ ~new[new[j].supersedes].is_current
  <2> SUFFICES ASSUME NEW j \in DOMAIN rs, rs[j].supersedes # 0
               PROVE  /\ rs[j].supersedes \in 1..(j - 1)
                      /\ new[rs[j].supersedes].student = rs[j].student
                      /\ ~new[rs[j].supersedes].is_current
    BY <1>1
  <2>1. /\ rs[j].supersedes \in DOMAIN rs
        /\ rs[j].supersedes \in 1..(j - 1)
        /\ rs[rs[j].supersedes].student = rs[j].student
        /\ ~rs[rs[j].supersedes].is_current
    BY DEF ScoreChain
  <2>2. QED
    BY <1>1, <2>1
<1>6. QED
  BY <1>2, <1>3, <1>4, <1>5 DEF ScoreChain

\* Retiring the current row in favour of a new one (services._apply_amendment).
LEMMA SupersededKeepsChain ==
    ASSUME NEW rs \in Seq(StudentScore), ScoreChain(rs), NEW i \in DOMAIN rs,
           rs[i].is_current, NEW score \in ValidScores,
           UniqueCurrentScore(Superseded(rs, i, score))
    PROVE  ScoreChain(Superseded(rs, i, score))
<1> DEFINE new == Superseded(rs, i, score)
           last == Len(rs) + 1
<1> SUFFICES ScoreChain(new)
  OBVIOUS
<1>1. /\ DOMAIN new = DOMAIN rs \cup {last}
      /\ DOMAIN rs = 1..Len(rs)
      /\ \A j \in DOMAIN rs : /\ new[j].student = rs[j].student
                              /\ new[j].supersedes = rs[j].supersedes
                              /\ new[j].is_current <=> rs[j].is_current /\ j # i
      /\ new[last].student = rs[i].student
      /\ new[last].supersedes = i
      /\ new[last].is_current
  <2> DEFINE retired == [rs EXCEPT ![i].is_current = FALSE]
  <2>1. ASSUME NEW j \in DOMAIN rs PROVE rs[j] \in StudentScore
    OBVIOUS
  <2>2. /\ retired \in Seq(StudentScore)
        /\ Len(retired) = Len(rs)
        /\ \A j \in DOMAIN rs : /\ retired[j].student = rs[j].student
                                /\ retired[j].supersedes = rs[j].supersedes
                                /\ retired[j].is_current <=> rs[j].is_current /\ j # i
    <3>1. [rs[i] EXCEPT !.is_current = FALSE] \in StudentScore
      BY <2>1 DEF StudentScore
    <3>2. retired \in Seq(StudentScore) /\ Len(retired) = Len(rs)
      BY <3>1
    <3>3. \A j \in DOMAIN rs : j # i => retired[j] = rs[j]
      OBVIOUS
    <3>4. retired[i] = [rs[i] EXCEPT !.is_current = FALSE]
      OBVIOUS
    <3>5. /\ retired[i].student = rs[i].student
          /\ retired[i].supersedes = rs[i].supersedes
          /\ ~retired[i].is_current
      BY <2>1, <3>4 DEF StudentScore
    <3>6. QED
      BY <3>2, <3>3, <3>5
  <2>3. new = Append(retired, [student |-> rs[i].student, score |-> score,
                               is_current |-> TRUE, supersedes |-> i])
    BY DEF Superseded
  <2> HIDE DEF retired, new
  <2>4. ASSUME NEW q \in Seq(StudentScore), NEW x
        PROVE  /\ DOMAIN q = 1..Len(q) /\ DOMAIN Append(q, x) = DOMAIN q \cup {Len(q) + 1}
               /\ \A j \in DOMAIN q : Append(q, x)[j] = q[j]
               /\ Append(q, x)[Len(q) + 1] = x
    OBVIOUS
  <2>5. DOMAIN rs = 1..Len(rs) /\ DOMAIN retired = DOMAIN rs
    BY <2>2
  <2>6. /\ DOMAIN new = DOMAIN rs \cup {last}
        /\ \A j \in DOMAIN rs : new[j] = retired[j]
        /\ new[last] = [student |-> rs[i].student, score |-> score,
                         is_current |-> TRUE, supersedes |-> i]
    BY <2>2, <2>3, <2>4, <2>5
  <2>7. QED
    BY <2>2, <2>5, <2>6
<1>2. i \in 1..Len(rs) /\ last \in Nat /\ Len(rs) \in Nat
  OBVIOUS
<1>0. UniqueCurrentScore(new)
  OBVIOUS
<1> HIDE DEF new
<1>3. ASSUME NEW j \in DOMAIN new, new[j].supersedes # 0
      PROVE  /\ new[j].supersedes \in 1..(j - 1)
             /\ new[new[j].supersedes].student = new[j].student
             /\ ~new[new[j].supersedes].is_current
  <2>1. CASE j = last
    BY <2>1, <1>1, <1>2
  <2>2. CASE j \in DOMAIN rs
    <3>1. rs[j].supersedes \in 1..(j - 1) /\ rs[j].supersedes \in DOMAIN rs
      BY <1>1, <1>3, <2>2 DEF ScoreChain
    <3>2. QED
      BY <1>1, <1>3, <2>2, <3>1 DEF ScoreChain
  <2>3. QED
    BY <2>1, <2>2, <1>1
<1>4. ASSUME NEW j \in DOMAIN new, NEW k \in DOMAIN new,
             new[j].supersedes # 0, new[j].supersedes = new[k].supersedes
      PROVE  j = k
  BY <1>1, <1>2, <1>4 DEF ScoreChain
<1>5. ASSUME NEW j \in DOMAIN new, ~new[j].is_current
      PROVE  \E k \in DOMAIN new : new[k].supersedes = j
  <2>1. j \in DOMAIN rs
    BY <1>1, <1>5
  <2>2. CASE j = i
    BY <2>2, <1>1
  <2>3. CASE j # i
    <3>1. PICK k \in DOMAIN rs : rs[k].supersedes = j
      BY <2>1, <2>3, <1>1, <1>5 DEF ScoreChain
    <3>2. QED
      BY <3>1, <1>1
  <2>4. QED
    BY <2>2, <2>3
<1>6. QED
  BY <1>0, <1>3, <1>4, <1>5 DEF ScoreChain

\* Every reachable state keeps one unforked history per student and sheet,
\* ending in the single current score.
THEOREM ScoreHistoryHolds == Spec => []ScoreHistory
<1>1. Init => ScoreHistory
  BY DEF Init, ScoreHistory, ScoreChain, UniqueCurrentScore
<1>2. TypeOK /\ ScoreHistory /\ [Next]_vars => ScoreHistory'
  <2> SUFFICES ASSUME TypeOK, ScoreHistory, [Next]_vars PROVE ScoreHistory'
    OBVIOUS
  <2>1. ASSUME UNCHANGED rows PROVE ScoreHistory'
    BY <2>1 DEF ScoreHistory
  <2>2. ASSUME NEW a \in Actors, NEW s \in Sheets, NEW st \in Students, NEW v \in Scores,
               AddScore(a, s, st, v)
        PROVE  ScoreHistory'
    <3>1. v \in ValidScores /\ rows[s] \in Seq(StudentScore)
      BY <2>2 DEF AddScore, MayRecord, TypeOK
    <3>2. \A i \in DOMAIN rows[s] : rows[s][i].is_current => rows[s][i].student # st
      BY <2>2 DEF AddScore, CurrentRowsOf, CurrentRows
    <3>3. ScoreChain(rows'[s])
      BY <2>2, <3>1, <3>2, AppendKeepsChain DEF AddScore, TypeOK, ScoreHistory
    <3>4. QED
      BY <2>2, <3>3 DEF AddScore, TypeOK, ScoreHistory
  <2>3. ASSUME NEW a \in Actors, NEW s \in Sheets, NEW st \in Students, NEW v \in Scores,
               ChangeScore(a, s, st, v)
        PROVE  ScoreHistory'
    <3>1. PICK i \in CurrentRowsOf(s, st) : rows' = [rows EXCEPT ![s][i].score = v]
      BY <2>3 DEF ChangeScore
    <3>2. /\ v \in ValidScores
          /\ rows[s] \in Seq(StudentScore)
          /\ i \in DOMAIN rows[s]
      BY <2>3 DEF ChangeScore, MayRecord, TypeOK, CurrentRowsOf, CurrentRows
    <3>3. ScoreChain(rows'[s])
      BY <3>1, <3>2, RescoreKeepsChain DEF TypeOK, ScoreHistory
    <3>4. QED
      BY <3>1, <3>3 DEF TypeOK, ScoreHistory
  <2>4. ASSUME NEW a \in Actors, NEW s \in Sheets, NEW m \in DOMAIN amendments[s],
               ApplyAmendment(a, s, m)
        PROVE  ScoreHistory'
    <3> DEFINE score == amendments[s][m].proposed
    <3>1. PICK i \in CurrentRowsOf(s, amendments[s][m].student) :
             /\ UniqueCurrentScore(Superseded(rows[s], i, score))
             /\ rows' = [rows EXCEPT ![s] = Superseded(@, i, score)]
      BY <2>4 DEF ApplyAmendment
    <3>2. amendments[s][m] \in ResultAmendment
      BY DEF TypeOK
    <3>3. /\ score \in ValidScores
          /\ rows[s] \in Seq(StudentScore)
          /\ i \in DOMAIN rows[s]
          /\ rows[s][i].is_current
      BY <3>2 DEF TypeOK, ResultAmendment, CurrentRowsOf, CurrentRows
    <3>4. ScoreChain(rows'[s])
      BY <3>1, <3>3, SupersededKeepsChain DEF TypeOK, ScoreHistory
    <3>5. QED
      BY <3>1, <3>4 DEF TypeOK, ScoreHistory
  <2>5. QED
    BY <2>1, <2>2, <2>3, <2>4
       DEF Next, vars, CreateDraftResult, RecordScore, Transition, BatchRatify, RaiseAmendment,
           AmendmentTransition, MoveAmendment, ChangeEnrolment, ChangeAssignment, sheetVars
<1>3. QED
  BY <1>1, <1>2, TypeCorrect, PTL DEF Spec
=============================================================================
