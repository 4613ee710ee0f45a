--------------------------- MODULE CbtAttemptProofs ---------------------------
(***************************************************************************)
(* Theorems of CbtAttempt: its types, that the score of a settled attempt  *)
(* is the score of the answers stored with it, that CA items hold only     *)
(* such scores, that a settled attempt is final, that attempts end in      *)
(* time, that an expired one in hand is settled, and that they are         *)
(* sittings.                                                               *)
(***************************************************************************)
EXTENDS CbtRefinement, TLAPS

LEMMA InitHolds == Init => IInv
<1> SUFFICES ASSUME Init PROVE IInv
  OBVIOUS
<1>1. TypeOK
  BY ExamAssumption DEF Init, TypeOK, Request, Pc, IdleRequest, Linker
<1>2. RequestsInOrder /\ HoldersInOrder /\ ResultOnItsWay /\ LinkersInOrder
  BY DEF Init, RequestsInOrder, HoldersInOrder, ResultOnItsWay, LinkersInOrder,
         IdleRequest, Unlocked
<1>3. ScoreMatchesAnswers /\ CaGradesAreEarned
  BY DEF Init, ScoreMatchesAnswers, CaGradesAreEarned, Settled, Started
<1> QED
  BY <1>1, <1>2, <1>3 DEF IInv

-----------------------------------------------------------------------------
(***************************************************************************)
(* Steps in which one request goes on and nothing else happens.            *)
(***************************************************************************)

\* What a request may become: whoever knows a student knows one who exists,
\* and whoever works on an attempt has seen it started.
InOrder(new) == /\ new \in Request
                /\ new.pc # "idle" => new.student \in Students
                /\ new.pc = "creating" => clock >= OpensAt
                /\ new.pc \notin {"idle", "creating"} => Started(new.student)

LEMMA RequestStep ==
  ASSUME IInv, NEW r \in Requests, NEW new, InOrder(new),
         request[r].pc # "committing",
         request' = [request EXCEPT ![r] = new],
         UNCHANGED <<clock, attemptVars, queue, caVars>>
  PROVE  IInv'
<1>1. request \in [Requests -> Request]
  BY DEF IInv, TypeOK
<1>2. \A q \in Requests : request'[q] = IF q = r THEN new ELSE request[q]
  BY <1>1
<1>3. TypeOK'
  BY <1>1 DEF IInv, TypeOK, InOrder, attemptVars, caVars
<1>4. RequestsInOrder'
  <2> SUFFICES ASSUME NEW q \in Requests PROVE RequestsInOrder!(q)'
    BY DEF RequestsInOrder
  <2> QED
    BY <1>2 DEF IInv, RequestsInOrder, InOrder, Started, attemptVars
<1>5. HoldersInOrder'
  BY <1>2 DEF IInv, HoldersInOrder, Unlocked, attemptVars
<1>6. ResultOnItsWay' /\ LinkersInOrder' /\ ScoreMatchesAnswers' /\ CaGradesAreEarned'
  BY DEF IInv, ResultOnItsWay, LinkersInOrder, ScoreMatchesAnswers, CaGradesAreEarned,
         Unlocked, InProgress, Started, Settled, attemptVars, caVars
<1> QED
  BY <1>3, <1>4, <1>5, <1>6 DEF IInv

LEMMA IdleInOrder == InOrder(IdleRequest)
  BY DEF InOrder, IdleRequest, Request, Pc

LEMMA LoadedInOrder ==
  ASSUME NEW st \in Students, NEW kind \in {"view", "save", "submit"}, Started(st)
  PROVE  InOrder(Loaded(st, kind))
  BY DEF InOrder, Loaded, Request, Pc, InProgress, Started

LEMMA GotoInOrder ==
  ASSUME IInv, NEW r \in Requests, request[r].pc \notin {"idle", "creating"},
         NEW pc \in Pc \ {"idle", "creating"}
  PROVE  /\ InOrder([request[r] EXCEPT !.pc = pc])
         /\ Goto(r, pc) => request' = [request EXCEPT ![r] = [request[r] EXCEPT !.pc = pc]]
<1>1. request[r] \in Request
  BY DEF IInv, TypeOK
<1>2. request[r].student \in Students /\ Started(request[r].student)
  BY DEF IInv, RequestsInOrder
<1> QED
  BY <1>1, <1>2 DEF InOrder, Goto, Request

LEMMA StartKeeps ==
  ASSUME IInv, NEW r \in Requests, NEW st \in Students, StartAttempt(r, st)
  PROVE  IInv'
<1>1. request[r].pc # "committing"
  BY DEF StartAttempt
<1>2. CASE Started(st)
  BY <1>1, <1>2, RequestStep, LoadedInOrder DEF StartAttempt
<1>3. CASE ~Started(st)
  <2> DEFINE new == [pc |-> "creating", kind |-> "view", student |-> st, saw_open |-> FALSE]
  <2>1. InOrder(new)
    BY <1>3, ExamAssumption DEF StartAttempt, InOrder, Request, Pc, IInv, TypeOK
  <2> QED
    BY <1>1, <1>3, <2>1, RequestStep DEF StartAttempt
<1> QED
  BY <1>2, <1>3

LEMMA LoadKeeps ==
  ASSUME IInv, NEW r \in Requests, NEW st \in Students,
         NEW kind \in {"view", "save", "submit"}, LoadAttempt(r, st, kind)
  PROVE  IInv'
  BY RequestStep, LoadedInOrder DEF LoadAttempt

LEMMA CheckKeeps ==
  ASSUME IInv, NEW r \in Requests, CheckDeadline(r)
  PROVE  IInv'
<1>1. request[r].pc = "loaded" /\ UNCHANGED <<clock, attemptVars, queue, caVars>>
  BY DEF CheckDeadline
<1>2. \/ Finish(r)
      \/ \E pc \in {"submitting", "expired", "admitted"} : Goto(r, pc)
  BY DEF CheckDeadline
<1>3. CASE Finish(r)
  BY <1>1, <1>3, RequestStep, IdleInOrder DEF Finish
<1>4. ASSUME NEW pc \in {"submitting", "expired", "admitted"}, Goto(r, pc)
      PROVE  IInv'
  <2>1. pc \in Pc \ {"idle", "creating"}
    BY DEF Pc
  <2>2. /\ InOrder([request[r] EXCEPT !.pc = pc])
        /\ request' = [request EXCEPT ![r] = [request[r] EXCEPT !.pc = pc]]
    BY <1>1, <1>4, <2>1, GotoInOrder
  <2> QED
    BY <1>1, <2>2, RequestStep
<1> QED
  BY <1>2, <1>3, <1>4

-----------------------------------------------------------------------------
(***************************************************************************)
(* Finalization: the answers are graded under the lock, the end is         *)
(* recorded, and the result is committed or rolled back.                   *)
(***************************************************************************)

\* f is about to settle st with the outcome of the answers stored now.
Ready(st, f) ==
    /\ f \in Finalization
    /\ f.result.paper = attempt[st].paper
    /\ f.result.deadline = attempt[st].deadline
    /\ f.result.score = Awarded(f.result.paper, answers[st])
    /\ f.result.requires_manual_grading = ManualPending(f.result.paper, answers[st])
    /\ f.result.status # "in_progress" =>
          (f.result.status = "graded") = ~f.result.requires_manual_grading
    /\ f.item # None => f.result.status = "graded"

LEMMA ManualIsBoolean ==
  ASSUME NEW paper, NEW given
  PROVE  ManualPending(paper, given) \in BOOLEAN
  BY DEF ManualPending

LEMMA AwardedOnPaper ==
  ASSUME NEW paper, NEW given
  PROVE  Awarded(paper, given) \subseteq paper
  BY DEF Awarded

LEMMA FinalizeIsReady ==
  ASSUME IInv, NEW p \in Requests \cup Workers, NEW st \in Students,
         NEW auto \in BOOLEAN, InProgress(st), Finalize(p, st, auto)
  PROVE  \E f : /\ Ready(st, f)
                /\ f.holder = p
                /\ tx' = [tx EXCEPT ![st] = f]
<1> DEFINE paper == attempt[st].paper
           manual == ManualPending(paper, answers[st])
           row == [attempt[st] EXCEPT !.score = Awarded(paper, answers[st]),
                                      !.requires_manual_grading = manual]
           f == [holder |-> p, auto |-> auto, item |-> None, result |-> row]
<1>1. attempt[st] \in ExamAttempt /\ attempt[st].status = "in_progress"
  BY DEF IInv, TypeOK, InProgress, Started
<1>2. manual \in BOOLEAN /\ Awarded(paper, answers[st]) \in SUBSET Questions
  BY <1>1, ManualIsBoolean, AwardedOnPaper DEF ExamAttempt
<1> HIDE DEF manual
<1>3. row \in ExamAttempt
  BY <1>1, <1>2 DEF ExamAttempt
<1>4. /\ row.paper = paper
      /\ row.deadline = attempt[st].deadline
      /\ row.status = "in_progress"
      /\ row.score = Awarded(paper, answers[st])
      /\ row.requires_manual_grading = manual
  BY <1>1 DEF ExamAttempt
<1>5. f \in Finalization
  BY <1>3 DEF Finalization
<1>6. Ready(st, f)
  <2> HIDE DEF row
  <2>1. f.result = row /\ f.item = None
    OBVIOUS
  <2> QED
    BY <1>4, <1>5, <2>1 DEF Ready, manual, paper
<1>7. tx' = [tx EXCEPT ![st] = f]
  BY DEF Finalize, manual
<1> QED
  BY <1>6, <1>7

\* Taking the row lock, or working on under it, keeps all but the order of
\* holders, which depends on who takes it.
LEMMA LockStep ==
  ASSUME IInv, NEW st \in Students, InProgress(st), NEW f, Ready(st, f), tx' = [tx EXCEPT ![st] = f],
         request' \in [Requests -> Request], RequestsInOrder',
         UNCHANGED <<clock, attempt, answers, queue, caVars>>,
         HoldersInOrder'
  PROVE  IInv'
<1>1. \A s \in Students : tx'[s] = IF s = st THEN f ELSE tx[s]
  BY DEF IInv, TypeOK
<1>2. TypeOK'
  BY DEF IInv, TypeOK, Ready, caVars
<1>3. ResultOnItsWay'
  <2> SUFFICES ASSUME NEW s \in Students, tx'[s] # None
               PROVE  ResultOnItsWay!(s)'
    BY DEF ResultOnItsWay, Unlocked
  <2>1. CASE s = st
    BY <1>1, <2>1 DEF Ready, InProgress, Started
  <2>2. CASE s # st
    BY <1>1, <2>2 DEF IInv, ResultOnItsWay, Unlocked, InProgress, Started
  <2> QED
    BY <2>1, <2>2
<1>4. LinkersInOrder' /\ ScoreMatchesAnswers' /\ CaGradesAreEarned'
  BY DEF IInv, LinkersInOrder, ScoreMatchesAnswers, CaGradesAreEarned,
         InProgress, Started, Settled, caVars
<1> QED
  BY <1>2, <1>3, <1>4 DEF IInv

\* A request that goes from pc to committing on behalf of its student.
LEMMA RequestLocks ==
  ASSUME IInv, NEW r \in Requests, request[r].pc \in {"expired", "submitting"},
         NEW auto \in BOOLEAN, InProgress(request[r].student), Unlocked(request[r].student),
         Finalize(r, request[r].student, auto), Goto(r, "committing"),
         UNCHANGED <<clock, attempt, answers, queue, caVars>>
  PROVE  IInv'
<1> DEFINE st == request[r].student
           new == [request[r] EXCEPT !.pc = "committing"]
<1>1. st \in Students /\ Started(st)
  BY DEF IInv, RequestsInOrder
<1>2. PICK f : Ready(st, f) /\ f.holder = r /\ tx' = [tx EXCEPT ![st] = f]
  BY <1>1, FinalizeIsReady
<1>3. InOrder(new) /\ request' = [request EXCEPT ![r] = new]
  BY GotoInOrder DEF Pc
<1>4. request \in [Requests -> Request] /\ request[r] \in Request
  BY DEF IInv, TypeOK
<1>5. /\ request' \in [Requests -> Request]
      /\ \A q \in Requests : request'[q] = IF q = r THEN new ELSE request[q]
  BY <1>3, <1>4 DEF InOrder
<1>6. new.pc = "committing" /\ new.student = st
  BY <1>4 DEF Request
<1>7. RequestsInOrder'
  <2> SUFFICES ASSUME NEW q \in Requests PROVE RequestsInOrder!(q)'
    BY DEF RequestsInOrder
  <2> HIDE DEF new
  <2> QED
    BY <1>3, <1>5 DEF IInv, RequestsInOrder, InOrder, Started
<1>8. HoldersInOrder'
  <2> SUFFICES ASSUME NEW s \in Students, tx'[s] # None PROVE HoldersInOrder!(s)'
    BY DEF HoldersInOrder, Unlocked
  <2> HIDE DEF new
  <2>1. CASE s = st
    BY <1>1, <1>2, <1>5, <1>6, <2>1 DEF IInv, TypeOK
  <2>2. CASE s # st
    <3>1. tx'[s] = tx[s]
      BY <1>1, <1>2, <2>2 DEF IInv, TypeOK
    <3> QED
      BY <1>5, <1>6, <3>1 DEF IInv, HoldersInOrder, Unlocked
  <2> QED
    BY <2>1, <2>2
<1> QED
  BY <1>1, <1>2, <1>5, <1>7, <1>8, LockStep

LEMMA FinalizeIfExpiredKeeps ==
  ASSUME IInv, NEW r \in Requests, FinalizeIfExpired(r)
  PROVE  IInv'
<1>1. CASE InProgress(request[r].student) /\ Expired(request[r].student)
  BY <1>1, RequestLocks DEF FinalizeIfExpired
<1>2. CASE ~(InProgress(request[r].student) /\ Expired(request[r].student))
  BY <1>2, RequestStep, IdleInOrder DEF FinalizeIfExpired, Finish, attemptVars
<1> QED
  BY <1>1, <1>2

LEMMA SubmitKeeps ==
  ASSUME IInv, NEW r \in Requests, SubmitAttempt(r)
  PROVE  IInv'
<1>1. CASE InProgress(request[r].student)
  <2>1. Expired(request[r].student) \in BOOLEAN
    BY DEF Expired, Started
  <2> QED
    BY <1>1, <2>1, RequestLocks DEF SubmitAttempt
<1>2. CASE ~InProgress(request[r].student)
  BY <1>2, RequestStep, IdleInOrder DEF SubmitAttempt, Finish, attemptVars
<1> QED
  BY <1>1, <1>2

LEMMA SweepFinalizeKeeps ==
  ASSUME IInv, NEW w \in Workers, SweepFinalize(w)
  PROVE  IInv'
<1> DEFINE st == Head(queue[w])
<1>1. st \in Students /\ queue[w] # <<>> /\ InProgress(st) /\ Unlocked(st)
  BY DEF SweepFinalize, IInv, TypeOK
<1>a. Finalize(w, st, TRUE)
  BY DEF SweepFinalize
<1>2. PICK f : Ready(st, f) /\ f.holder = w /\ tx' = [tx EXCEPT ![st] = f]
  <2> HIDE DEF st
  <2> QED
    BY <1>1, <1>a, FinalizeIsReady
<1>3. UNCHANGED <<clock, attempt, answers, request, queue, caVars>>
  BY DEF SweepFinalize
<1>4. request' \in [Requests -> Request] /\ RequestsInOrder'
  BY <1>3 DEF IInv, TypeOK, RequestsInOrder, Started
<1>5. HoldersInOrder'
  BY <1>1, <1>2, <1>3 DEF IInv, TypeOK, HoldersInOrder, Unlocked
<1> QED
  BY <1>1, <1>2, <1>3, <1>4, <1>5, LockStep

\* The finalization goes on under the lock it holds.
LEMMA RecordEndKeeps ==
  ASSUME IInv, NEW st \in Students, RecordEnd(st)
  PROVE  IInv'
<1> DEFINE old == tx[st]
           row == tx[st].result
           status == EndStatus(old.auto, row.requires_manual_grading)
           new == [row EXCEPT !.submitted_at = clock, !.status = status]
           f == [old EXCEPT !.result = new, !.item = ItemToSync(status)]
<1>1. /\ old # None
      /\ UNCHANGED <<clock, attempt, answers, request, queue, caVars>>
      /\ tx' = [tx EXCEPT ![st].result = new, ![st].item = ItemToSync(status)]
  BY DEF RecordEnd, Unlocked
<1>2. old \in Finalization /\ row \in ExamAttempt
  BY <1>1 DEF IInv, TypeOK, Finalization
<1>3. tx' = [tx EXCEPT ![st] = f]
  BY <1>1, <1>2 DEF IInv, TypeOK, Finalization
<1>4. /\ InProgress(st)
      /\ row.paper = attempt[st].paper
      /\ row.deadline = attempt[st].deadline
      /\ row.score = Awarded(row.paper, answers[st])
      /\ row.requires_manual_grading = ManualPending(row.paper, answers[st])
  BY <1>1 DEF IInv, ResultOnItsWay, Unlocked
<1>5. row.requires_manual_grading \in BOOLEAN /\ old.auto \in BOOLEAN
  BY <1>2 DEF ExamAttempt, Finalization
<1>6. /\ status \in AttemptStatus /\ status # "in_progress"
      /\ (status = "graded") = ~row.requires_manual_grading
  BY <1>5 DEF EndStatus, AttemptStatus
<1>7. ItemToSync(status) \in Items \cup {None}
      /\ (ItemToSync(status) # None => status = "graded")
  BY DEF ItemToSync, IInv, TypeOK
<1> HIDE DEF status
<1>8. /\ new \in ExamAttempt
      /\ new.paper = row.paper /\ new.deadline = row.deadline /\ new.status = status
      /\ new.score = row.score /\ new.requires_manual_grading = row.requires_manual_grading
  BY <1>2, <1>6 DEF ExamAttempt, IInv, TypeOK
<1> HIDE DEF new
<1>9. /\ f \in Finalization /\ f.result = new
      /\ f.item = ItemToSync(status) /\ f.holder = old.holder
  BY <1>2, <1>7, <1>8 DEF Finalization
<1> HIDE DEF f
<1>10. Ready(st, f)
  BY <1>4, <1>6, <1>7, <1>8, <1>9 DEF Ready
<1>11. HoldersInOrder'
  <2>1. \A s \in Students : (tx'[s] # None) = (tx[s] # None)
           /\ (tx[s] # None => tx'[s].holder = tx[s].holder)
    BY <1>1, <1>3, <1>9, NoneAssumption DEF IInv, TypeOK
  <2> QED
    BY <1>1, <2>1 DEF IInv, HoldersInOrder, Unlocked
<1>12. request' \in [Requests -> Request] /\ RequestsInOrder'
  BY <1>1 DEF IInv, TypeOK, RequestsInOrder, Started
<1> QED
  BY <1>1, <1>3, <1>4, <1>10, <1>11, <1>12, LockStep

LEMMA CreateKeeps ==
  ASSUME IInv, NEW r \in Requests, CreateAttempt(r)
  PROVE  IInv'
<1> DEFINE st == request[r].student
<1>1. request[r].pc = "creating" /\ st \in Students /\ clock >= OpensAt
  BY DEF CreateAttempt, IInv, RequestsInOrder
<1>2. CASE Started(st)
  <2>1. request' = [request EXCEPT ![r] = Loaded(st, "view")]
    BY <1>2 DEF CreateAttempt
  <2> QED
    BY <1>1, <1>2, <2>1, RequestStep, LoadedInOrder DEF CreateAttempt, attemptVars
<1>3. CASE ~Started(st)
  <2>1. PICK paper \in Papers : attempt' = [attempt EXCEPT ![st] = NewAttempt(paper)]
    BY <1>3 DEF CreateAttempt
  <2>2. Finish(r) /\ UNCHANGED <<clock, answers, tx, queue, caVars>>
    BY <1>3 DEF CreateAttempt
  <2>3. Deadline \in OpensAt..ClosesAt
    BY <1>1, ExamAssumption DEF Deadline, IInv, TypeOK
  <2>4. NewAttempt(paper) \in ExamAttempt
    BY <2>3 DEF NewAttempt, ExamAttempt, Papers, AttemptStatus
  <2>5. NewAttempt(paper) # None /\ NewAttempt(paper).status = "in_progress"
    BY <2>4, NoneAssumption DEF NewAttempt
  <2>6. attempt'[st] = NewAttempt(paper)
        /\ \A s \in Students \ {st} : attempt'[s] = attempt[s]
    BY <1>1, <2>1 DEF IInv, TypeOK
  <2>7. \A q \in Requests : request'[q] = IF q = r THEN IdleRequest ELSE request[q]
    BY <2>2 DEF Finish, IInv, TypeOK
  <2>8. attempt[st] = None /\ tx[st] = None
    BY <1>1, <1>3 DEF IInv, ResultOnItsWay, Started, InProgress, Unlocked
  <2>9. TypeOK'
    BY <1>1, <2>1, <2>2, <2>4, IdleInOrder DEF IInv, TypeOK, Finish, caVars, InOrder
  <2>10. RequestsInOrder'
    <3> SUFFICES ASSUME NEW q \in Requests PROVE RequestsInOrder!(q)'
      BY DEF RequestsInOrder
    <3>1. CASE q = r
      BY <2>7, <3>1 DEF IdleRequest
    <3>2. CASE q # r
      BY <2>2, <2>5, <2>6, <2>7, <3>2 DEF IInv, RequestsInOrder, Started
    <3> QED
      BY <3>1, <3>2
  <2>11. HoldersInOrder'
    BY <1>1, <2>2, <2>7 DEF IInv, HoldersInOrder, Unlocked
  <2>12. ResultOnItsWay' /\ ScoreMatchesAnswers'
    BY <1>1, <2>2, <2>5, <2>6, <2>8
       DEF IInv, ResultOnItsWay, ScoreMatchesAnswers, Settled, InProgress, Started, Unlocked
  <2>13. LinkersInOrder'
    BY <2>2, <2>6, <2>8 DEF IInv, LinkersInOrder, TypeOK, Linker, Started, caVars
  <2>14. CaGradesAreEarned'
    BY <2>2, <2>6, <2>8 DEF IInv, CaGradesAreEarned, Started, caVars
  <2> QED
    BY <2>9, <2>10, <2>11, <2>12, <2>13, <2>14 DEF IInv
<1> QED
  BY <1>2, <1>3

LEMMA SaveKeeps ==
  ASSUME IInv, NEW r \in Requests, NEW items \in Batches, SaveAnswers(r, items)
  PROVE  IInv'
<1> DEFINE st == request[r].student
<1>1. request[r].pc = "admitted" /\ Unlocked(st) /\ st \in Students
  BY DEF SaveAnswers, IInv, RequestsInOrder
<1>2. CASE UNCHANGED answers
  BY <1>1, <1>2, RequestStep, IdleInOrder DEF SaveAnswers, Finish, attemptVars
<1>3. CASE InProgress(st) /\ answers' = [answers EXCEPT ![st] = Stored(@, items)]
  <2>1. Finish(r) /\ UNCHANGED <<clock, attempt, tx, queue, caVars>>
    BY DEF SaveAnswers
  <2>2. \A q \in DOMAIN items : items[q] \in Responses
    BY DEF Batches
  <2>3. Stored(answers[st], items) \in [Questions -> Responses \cup {None}]
    BY <1>1, <2>2 DEF Stored, IInv, TypeOK
  <2>4. \A s \in Students \ {st} : answers'[s] = answers[s]
    BY <1>1, <1>3 DEF IInv, TypeOK
  <2>5. \A q \in Requests : request'[q] = IF q = r THEN IdleRequest ELSE request[q]
    BY <2>1 DEF Finish, IInv, TypeOK
  <2>6. TypeOK'
    BY <1>1, <1>3, <2>1, <2>3, IdleInOrder DEF IInv, TypeOK, Finish, caVars, InOrder
  <2>7. RequestsInOrder'
    <3> SUFFICES ASSUME NEW q \in Requests PROVE RequestsInOrder!(q)'
      BY DEF RequestsInOrder
    <3> QED
      BY <2>1, <2>5 DEF IdleRequest, IInv, RequestsInOrder, Started
  <2>8. HoldersInOrder'
    BY <1>1, <2>1, <2>5 DEF IInv, HoldersInOrder, Unlocked
  <2>9. ResultOnItsWay' /\ ScoreMatchesAnswers'
    BY <1>1, <1>3, <2>1, <2>4
       DEF IInv, ResultOnItsWay, ScoreMatchesAnswers, Settled, InProgress, Started, Unlocked
  <2>10. LinkersInOrder' /\ CaGradesAreEarned'
    BY <2>1 DEF IInv, LinkersInOrder, CaGradesAreEarned, Started, caVars
  <2> QED
    BY <2>6, <2>7, <2>8, <2>9, <2>10 DEF IInv
<1> QED
  BY <1>2, <1>3 DEF SaveAnswers

\* Releasing the lock of st leaves the other holders, their requests and
\* their queues as they were.
LEMMA ReleaseStep ==
  ASSUME IInv, NEW st \in Students, ~Unlocked(st), NEW left \in Seq(Students),
         Release(tx[st].holder, left), tx' = [tx EXCEPT ![st] = None],
         clock' = clock, \A s \in Students : Started(s) => Started(s)'
  PROVE  /\ request' \in [Requests -> Request]
         /\ queue' \in [Workers -> Seq(Students)]
         /\ RequestsInOrder'
         /\ HoldersInOrder'
<1>1. /\ \A q \in Requests : request'[q] = IF q = tx[st].holder THEN IdleRequest ELSE request[q]
      /\ \A w \in Workers : queue'[w] = IF w = tx[st].holder THEN left ELSE queue[w]
  BY DEF Release
<1>2. request' \in [Requests -> Request]
  <2>1. \A q \in Requests : request[q] \in Request
    BY DEF IInv, TypeOK
  <2>2. IdleRequest \in Request
    BY IdleInOrder DEF InOrder
  <2> QED
    BY <2>1, <2>2 DEF Release
<1>3. queue' \in [Workers -> Seq(Students)]
  BY DEF Release, IInv, TypeOK
<1>4. RequestsInOrder'
  <2> SUFFICES ASSUME NEW q \in Requests PROVE RequestsInOrder!(q)'
    BY DEF RequestsInOrder
  <2>1. CASE q = tx[st].holder
    BY <1>1, <2>1 DEF IdleRequest
  <2>2. CASE q # tx[st].holder
    BY <1>1, <2>2 DEF IInv, RequestsInOrder
  <2> QED
    BY <2>1, <2>2
<1>5. HoldersInOrder'
  <2> SUFFICES ASSUME NEW s \in Students, tx'[s] # None PROVE HoldersInOrder!(s)'
    BY DEF HoldersInOrder, Unlocked
  <2>1. s # st /\ tx'[s] = tx[s]
    BY DEF IInv, TypeOK
  <2>2. CASE tx[s].holder \in Requests
    <3>1. tx[s].holder \notin Workers
      BY <2>2, NoneAssumption
    <3>2. request[tx[s].holder].pc = "committing" /\ request[tx[s].holder].student = s
      BY <2>1, <3>1 DEF IInv, HoldersInOrder, Unlocked
    <3>3. tx[s].holder # tx[st].holder
      BY <2>1, <2>2, <3>1, <3>2 DEF IInv, HoldersInOrder
    <3> QED
      BY <1>1, <2>1, <2>2, <3>2, <3>3
  <2>3. CASE tx[s].holder \in Workers
    <3>1. tx[s].holder \notin Requests
      BY <2>3, NoneAssumption
    <3>2. queue[tx[s].holder] # <<>> /\ Head(queue[tx[s].holder]) = s
      BY <2>1, <3>1 DEF IInv, HoldersInOrder, Unlocked
    <3>3. tx[s].holder # tx[st].holder
      BY <2>1, <2>3, <3>1, <3>2 DEF IInv, HoldersInOrder
    <3> QED
      BY <1>1, <2>1, <2>3, <3>2, <3>3
  <2> QED
    BY <2>1, <2>2, <2>3 DEF IInv, HoldersInOrder, Unlocked
<1> QED
  BY <1>2, <1>3, <1>4, <1>5

LEMMA AbortKeeps ==
  ASSUME IInv, NEW st \in Students, Abort(st)
  PROVE  IInv'
<1>1. ~Unlocked(st) /\ tx' = [tx EXCEPT ![st] = None] /\ Release(tx[st].holder, <<>>)
      /\ UNCHANGED <<clock, attempt, answers, caVars>>
  BY DEF Abort
<1>2. /\ request' \in [Requests -> Request]
      /\ queue' \in [Workers -> Seq(Students)]
      /\ RequestsInOrder'
      /\ HoldersInOrder'
  <2>1. <<>> \in Seq(Students) /\ \A s \in Students : Started(s) => Started(s)'
    BY <1>1 DEF Started
  <2> QED
    BY <1>1, <2>1, ReleaseStep
<1>3. TypeOK'
  BY <1>1, <1>2 DEF IInv, TypeOK, caVars
<1>4. \A s \in Students : tx'[s] # None => tx'[s] = tx[s]
  BY <1>1 DEF IInv, TypeOK
<1>5. ResultOnItsWay'
  BY <1>1, <1>4 DEF IInv, ResultOnItsWay, Unlocked, InProgress, Started
<1>6. LinkersInOrder' /\ ScoreMatchesAnswers' /\ CaGradesAreEarned'
  BY <1>1 DEF IInv, LinkersInOrder, ScoreMatchesAnswers, CaGradesAreEarned,
         InProgress, Started, Settled, caVars
<1> QED
  BY <1>2, <1>3, <1>5, <1>6 DEF IInv

LEMMA CommitKeeps ==
  ASSUME IInv, NEW st \in Students, Commit(st)
  PROVE  IInv'
<1> DEFINE f == tx[st]
<1>1. /\ f # None
      /\ attempt' = [attempt EXCEPT ![st] = f.result]
      /\ tx' = [tx EXCEPT ![st] = None]
      /\ UNCHANGED <<clock, answers, link, linker>>
  BY DEF Commit, Unlocked
<1>2. f \in Finalization /\ f.result \in ExamAttempt /\ f.item \in Items \cup {None}
  BY <1>1 DEF IInv, TypeOK, Finalization
<1>3. /\ InProgress(st)
      /\ f.result.paper = attempt[st].paper
      /\ f.result.status # "in_progress"
      /\ f.result.score = Awarded(f.result.paper, answers[st])
      /\ f.result.requires_manual_grading = ManualPending(f.result.paper, answers[st])
      /\ (f.result.status = "graded") = ~f.result.requires_manual_grading
      /\ f.item # None => f.result.status = "graded"
  BY <1>1 DEF IInv, ResultOnItsWay, Unlocked, Commit
<1>4. f.result # None
  BY <1>2, NoneAssumption
<1>5. /\ attempt'[st] = f.result
      /\ \A s \in Students \ {st} : attempt'[s] = attempt[s]
      /\ \A s \in Students : tx'[s] # None => s # st /\ tx'[s] = tx[s]
  BY <1>1 DEF IInv, TypeOK
<1>6. /\ request' \in [Requests -> Request]
      /\ queue' \in [Workers -> Seq(Students)]
      /\ RequestsInOrder'
      /\ HoldersInOrder'
  <2>1. \A s \in Students : Started(s) => Started(s)'
    BY <1>4, <1>5 DEF Started
  <2>2. PICK left \in Seq(Students) : Release(f.holder, left)
    <3>1. CASE f.holder \in Workers /\ Release(f.holder, Tail(queue[f.holder]))
      <4>1. queue[f.holder] # <<>> /\ queue[f.holder] \in Seq(Students)
        BY <1>1, <3>1, NoneAssumption DEF IInv, HoldersInOrder, TypeOK, Unlocked
      <4>2. Tail(queue[f.holder]) \in Seq(Students)
        BY <4>1
      <4> QED
        BY <3>1, <4>2
    <3>2. CASE Release(f.holder, <<>>)
      <4>1. <<>> \in Seq(Students)
        OBVIOUS
      <4> QED
        BY <3>2, <4>1
    <3> QED
      BY <3>1, <3>2 DEF Commit
  <2> QED
    BY <1>1, <2>1, <2>2, ReleaseStep DEF Unlocked
<1>7. \A i \in Items, s \in Students :
         grades'[i][s] = IF i = f.item /\ s = st THEN f.result.score ELSE grades[i][s]
  BY DEF Commit, IInv, TypeOK
<1>8. TypeOK'
  <2>1. f.result.score \in SUBSET Questions
    BY <1>2 DEF ExamAttempt
  <2>2. grades' \in [Items -> [Students -> (SUBSET Questions) \cup {None}]]
    BY <2>1 DEF Commit, IInv, TypeOK
  <2>3. attempt' \in [Students -> ExamAttempt \cup {None}]
        /\ tx' \in [Students -> Finalization \cup {None}]
    BY <1>1, <1>2 DEF IInv, TypeOK
  <2> QED
    BY <1>1, <1>6, <2>2, <2>3 DEF IInv, TypeOK
<1> HIDE DEF f
<1>9. ResultOnItsWay'
  BY <1>1, <1>5 DEF IInv, ResultOnItsWay, Unlocked, InProgress, Started
<1>10. ScoreMatchesAnswers'
  BY <1>1, <1>3, <1>5 DEF IInv, ScoreMatchesAnswers, Settled, InProgress, Started
<1>11. \A s \in Students : Started(s) /\ attempt[s].status = "graded" => s # st
  BY <1>3 DEF InProgress
<1>12. LinkersInOrder'
  <2>1. \A l \in Linkers : \A s \in linker[l].left : s \in Students
    BY DEF IInv, TypeOK, Linker
  <2> QED
    BY <1>1, <1>5, <1>11, <2>1 DEF IInv, LinkersInOrder, Started
<1>13. CaGradesAreEarned'
  <2> SUFFICES ASSUME NEW i \in Items, NEW s \in Students, grades'[i][s] # None
               PROVE  attempt'[s] # None /\ attempt'[s].status = "graded"
                      /\ grades'[i][s] = attempt'[s].score
    BY DEF CaGradesAreEarned, Started
  <2>1. CASE i = f.item /\ s = st
    <3>1. f.item # None
      BY <2>1, NoneAssumption
    <3> QED
      BY <1>3, <1>4, <1>5, <1>7, <2>1, <3>1
  <2>2. CASE ~(i = f.item /\ s = st)
    BY <1>5, <1>7, <1>11, <2>2 DEF IInv, CaGradesAreEarned, Started
  <2> QED
    BY <2>1, <2>2
<1> QED
  BY <1>6, <1>8, <1>9, <1>10, <1>12, <1>13 DEF IInv

-----------------------------------------------------------------------------
(***************************************************************************)
(* The sweep's queue, the link to a CA item and the clock.                 *)
(***************************************************************************)

LEMMA GatherKeeps ==
  ASSUME IInv, NEW w \in Workers, SweepGather(w)
  PROVE  IInv'
<1>1. PICK n \in 1..Limit : \E q \in [1..n -> Students] : queue' = [queue EXCEPT ![w] = q]
  BY DEF SweepGather
<1>2. PICK q \in [1..n -> Students] : queue' = [queue EXCEPT ![w] = q]
  BY <1>1
<1>3. queue[w] = <<>> /\ UNCHANGED <<clock, attempt, answers, tx, request, caVars>>
  BY DEF SweepGather, attemptVars
<1>4. q \in Seq(Students)
  BY ExamAssumption
<1>5. TypeOK'
  BY <1>2, <1>3, <1>4 DEF IInv, TypeOK, caVars
<1>6. \A v \in Workers : queue[v] # <<>> => queue'[v] = queue[v]
  BY <1>2, <1>3 DEF IInv, TypeOK
<1>7. RequestsInOrder' /\ HoldersInOrder'
  BY <1>3, <1>6 DEF IInv, RequestsInOrder, HoldersInOrder, Unlocked, Started
<1>8. ResultOnItsWay' /\ LinkersInOrder' /\ ScoreMatchesAnswers' /\ CaGradesAreEarned'
  BY <1>3 DEF IInv, ResultOnItsWay, LinkersInOrder, ScoreMatchesAnswers, CaGradesAreEarned,
         Unlocked, InProgress, Started, Settled, caVars
<1> QED
  BY <1>5, <1>7, <1>8 DEF IInv

LEMMA SkipKeeps ==
  ASSUME IInv, NEW w \in Workers, SweepSkip(w)
  PROVE  IInv'
<1>1. /\ queue[w] # <<>>
      /\ ~Busy(w)
      /\ queue' = [queue EXCEPT ![w] = Tail(@)]
      /\ UNCHANGED <<clock, attempt, answers, tx, request, caVars>>
  BY DEF SweepSkip, attemptVars
<1>2. Tail(queue[w]) \in Seq(Students)
  BY <1>1 DEF IInv, TypeOK
<1>3. TypeOK'
  BY <1>1, <1>2 DEF IInv, TypeOK, caVars
<1>4. \A v \in Workers \ {w} : queue'[v] = queue[v]
  BY <1>1 DEF IInv, TypeOK
<1>5. RequestsInOrder' /\ HoldersInOrder'
  BY <1>1, <1>4 DEF IInv, RequestsInOrder, HoldersInOrder, Busy, Unlocked, Started
<1>6. ResultOnItsWay' /\ LinkersInOrder' /\ ScoreMatchesAnswers' /\ CaGradesAreEarned'
  BY <1>1 DEF IInv, ResultOnItsWay, LinkersInOrder, ScoreMatchesAnswers, CaGradesAreEarned,
         Unlocked, InProgress, Started, Settled, caVars
<1> QED
  BY <1>3, <1>5, <1>6 DEF IInv

\* Linking touches the link, the grades and the linking requests only.
LEMMA LinkStep ==
  ASSUME IInv, UNCHANGED <<clock, attemptVars, request, queue>>,
         link' \in Items \cup {None},
         grades' \in [Items -> [Students -> (SUBSET Questions) \cup {None}]],
         linker' \in [Linkers -> Linker],
         LinkersInOrder', CaGradesAreEarned'
  PROVE  IInv'
<1>1. TypeOK'
  BY DEF IInv, TypeOK, attemptVars
<1>2. RequestsInOrder' /\ HoldersInOrder' /\ ResultOnItsWay' /\ ScoreMatchesAnswers'
  BY DEF IInv, RequestsInOrder, HoldersInOrder, ResultOnItsWay, ScoreMatchesAnswers,
         Unlocked, InProgress, Started, Settled, attemptVars
<1> QED
  BY <1>1, <1>2 DEF IInv

LEMMA LinkExamKeeps ==
  ASSUME IInv, NEW l \in Linkers, NEW i \in Items, LinkExam(l, i)
  PROVE  IInv'
<1>1. linker' \in [Linkers -> Linker]
  BY DEF LinkExam, IInv, TypeOK, Linker
<1>2. LinkersInOrder'
  BY NoneAssumption DEF LinkExam, IInv, TypeOK, Linker, LinkersInOrder, Started, attemptVars
<1>3. CaGradesAreEarned'
  BY DEF LinkExam, IInv, CaGradesAreEarned, Started, attemptVars
<1> QED
  BY <1>1, <1>2, <1>3, LinkStep DEF LinkExam, IInv, TypeOK

LEMMA LinkSelectKeeps ==
  ASSUME IInv, NEW l \in Linkers, LinkSelect(l)
  PROVE  IInv'
<1>1. linker' \in [Linkers -> Linker]
  BY DEF LinkSelect, IInv, TypeOK, Linker
<1>2. LinkersInOrder'
  BY DEF LinkSelect, IInv, TypeOK, Linker, LinkersInOrder, Started, attemptVars
<1>3. CaGradesAreEarned'
  BY DEF LinkSelect, IInv, CaGradesAreEarned, Started, attemptVars
<1> QED
  BY <1>1, <1>2, <1>3, LinkStep DEF LinkSelect, IInv, TypeOK

LEMMA LinkSyncKeeps ==
  ASSUME IInv, NEW l \in Linkers, LinkSync(l)
  PROVE  IInv'
<1>1. linker[l].pc = "syncing" /\ UNCHANGED <<clock, attemptVars, request, queue, link>>
  BY DEF LinkSync
<1>2. CASE UNCHANGED grades /\ linker' = [linker EXCEPT ![l].pc = "idle"]
  <2>1. linker' \in [Linkers -> Linker] /\ LinkersInOrder'
    <3>1. linker' \in [Linkers -> Linker]
      BY <1>2 DEF IInv, TypeOK, Linker
    <3>2. linker'[l].pc = "idle" /\ \A m \in Linkers \ {l} : linker'[m] = linker[m]
      BY <1>2, <3>1 DEF IInv, TypeOK, Linker
    <3>3. linker'[l].left = linker[l].left /\ link' = link
      BY <1>1, <1>2 DEF IInv, TypeOK, Linker
    <3>4. \A st : Started(st)' = Started(st) /\ attempt'[st] = attempt[st]
      BY <1>1 DEF Started, attemptVars
    <3> QED
      BY <3>1, <3>2, <3>3, <3>4 DEF IInv, LinkersInOrder
  <2>2. CaGradesAreEarned'
    BY <1>1, <1>2 DEF IInv, CaGradesAreEarned, Started, attemptVars
  <2> QED
    BY <1>1, <1>2, <2>1, <2>2, LinkStep DEF IInv, TypeOK
<1>3. ASSUME NEW st \in linker[l].left,
             linker' = [linker EXCEPT ![l].left = @ \ {st}],
             grades' = [grades EXCEPT ![link][st] = attempt[st].score]
      PROVE  IInv'
  <2>1. st \in Students /\ link \in Items
    BY <1>1 DEF IInv, TypeOK, Linker, LinkersInOrder
  <2>2. Started(st) /\ attempt[st].status = "graded" /\ attempt[st] \in ExamAttempt
    BY <2>1 DEF IInv, TypeOK, LinkersInOrder, Started
  <2>3. linker' \in [Linkers -> Linker] /\ LinkersInOrder'
    BY <1>1, <1>3 DEF IInv, TypeOK, Linker, LinkersInOrder, Started, attemptVars
  <2>4. grades' \in [Items -> [Students -> (SUBSET Questions) \cup {None}]]
    BY <1>3, <2>1, <2>2 DEF IInv, TypeOK, ExamAttempt
  <2>5. \A i \in Items, s \in Students :
           grades'[i][s] = IF i = link /\ s = st THEN attempt[st].score ELSE grades[i][s]
    BY <1>3, <2>1 DEF IInv, TypeOK
  <2>6. CaGradesAreEarned'
    BY <1>1, <2>2, <2>5 DEF IInv, CaGradesAreEarned, Started, attemptVars
  <2> QED
    BY <1>1, <2>3, <2>4, <2>6, LinkStep DEF IInv, TypeOK
<1> QED
  BY <1>2, <1>3 DEF LinkSync

LEMMA TickKeeps ==
  ASSUME IInv, Tick
  PROVE  IInv'
<1>1. clock' = clock + 1 /\ clock < Horizon /\ UNCHANGED <<attemptVars, request, queue, caVars>>
  BY DEF Tick
<1>2. TypeOK'
  BY <1>1, ExamAssumption DEF IInv, TypeOK, attemptVars, caVars
<1>3. RequestsInOrder'
  BY <1>1, ExamAssumption DEF IInv, TypeOK, RequestsInOrder, Started, attemptVars
<1>4. HoldersInOrder' /\ ResultOnItsWay' /\ LinkersInOrder' /\ ScoreMatchesAnswers'
      /\ CaGradesAreEarned'
  BY <1>1 DEF IInv, HoldersInOrder, ResultOnItsWay, LinkersInOrder, ScoreMatchesAnswers,
         CaGradesAreEarned, Unlocked, InProgress, Started, Settled, attemptVars, caVars
<1> QED
  BY <1>2, <1>3, <1>4 DEF IInv

LEMMA StutterKeeps == IInv /\ UNCHANGED vars => IInv'
  BY DEF vars, IInv, TypeOK, RequestsInOrder, HoldersInOrder, ResultOnItsWay, LinkersInOrder,
         ScoreMatchesAnswers, CaGradesAreEarned, Unlocked, InProgress, Started, Settled

-----------------------------------------------------------------------------
LEMMA NextKeeps == IInv /\ [Next]_vars => IInv'
<1> SUFFICES ASSUME IInv, [Next]_vars PROVE IInv'
  OBVIOUS
<1>1. ASSUME NEW r \in Requests, NEW st \in Students, StartAttempt(r, st) PROVE IInv'
  BY <1>1, StartKeeps
<1>2. ASSUME NEW r \in Requests, NEW st \in Students,
             NEW kind \in {"view", "save", "submit"}, LoadAttempt(r, st, kind)
      PROVE  IInv'
  BY <1>2, LoadKeeps
<1>3. ASSUME NEW r \in Requests, NEW items \in Batches, SaveAnswers(r, items) PROVE IInv'
  BY <1>3, SaveKeeps
<1>4. ASSUME NEW r \in Requests,
             \/ CreateAttempt(r) \/ CheckDeadline(r) \/ FinalizeIfExpired(r) \/ SubmitAttempt(r)
      PROVE  IInv'
  BY <1>4, CreateKeeps, CheckKeeps, FinalizeIfExpiredKeeps, SubmitKeeps
<1>5. ASSUME NEW st \in Students, RecordEnd(st) \/ Commit(st) \/ Abort(st) PROVE IInv'
  BY <1>5, RecordEndKeeps, CommitKeeps, AbortKeeps
<1>6. ASSUME NEW w \in Workers, SweepGather(w) \/ SweepFinalize(w) \/ SweepSkip(w) PROVE IInv'
  BY <1>6, GatherKeeps, SweepFinalizeKeeps, SkipKeeps
<1>7. ASSUME NEW l \in Linkers, NEW i \in Items, LinkExam(l, i) PROVE IInv'
  BY <1>7, LinkExamKeeps
<1>8. ASSUME NEW l \in Linkers, LinkSelect(l) \/ LinkSync(l) PROVE IInv'
  BY <1>8, LinkSelectKeeps, LinkSyncKeeps
<1>9. CASE Tick
  BY <1>9, TickKeeps
<1>10. CASE UNCHANGED vars
  BY <1>10, StutterKeeps
<1> QED
  BY <1>1, <1>2, <1>3, <1>4, <1>5, <1>6, <1>7, <1>8, <1>9, <1>10 DEF Next

LEMMA InvariantHolds == Spec => []IInv
  BY InitHolds, NextKeeps, PTL DEF Spec

\* Every reachable state is well typed: deadlines stay within the exam's
\* window and answers within the bank (cbt/services.py).
THEOREM AttemptTypeCorrect == Spec => []TypeOK
<1>1. IInv => TypeOK
  BY DEF IInv
<1> QED
  BY <1>1, InvariantHolds, PTL

\* The score of a settled attempt is the score of the answers stored with it,
\* for any number of requests and sweeps (services._finalize).
THEOREM ScoresMatch == Spec => []ScoreMatchesAnswers
<1>1. IInv => ScoreMatchesAnswers
  BY DEF IInv
<1> QED
  BY <1>1, InvariantHolds, PTL

\* Only the committed score of a graded attempt reaches a CA item
\* (ca.sync_ca_grade_for_attempt).
THEOREM CaGradesEarned == Spec => []CaGradesAreEarned
<1>1. IInv => CaGradesAreEarned
  BY DEF IInv
<1> QED
  BY <1>1, InvariantHolds, PTL

-----------------------------------------------------------------------------
(***************************************************************************)
(* Finality: the three steps that write an attempt or its answers each     *)
(* find it unsettled.                                                      *)
(***************************************************************************)

\* What a step may never do to st.
Final(st) == Settled(st) => attempt'[st] = attempt[st] /\ answers'[st] = answers[st]

LEMMA CreateIsFinal ==
  ASSUME IInv, NEW r \in Requests, CreateAttempt(r), NEW s \in Students
  PROVE  Final(s)
<1>1. answers' = answers
  BY DEF CreateAttempt
<1>2. attempt \in [Students -> ExamAttempt \cup {None}]
  BY DEF IInv, TypeOK
<1>3. CASE Started(request[r].student)
  BY <1>1, <1>3 DEF CreateAttempt, Final
<1>4. CASE ~Started(request[r].student)
  <2>1. PICK paper \in Papers :
           attempt' = [attempt EXCEPT ![request[r].student] = NewAttempt(paper)]
    BY <1>4 DEF CreateAttempt
  <2> QED
    BY <1>1, <1>2, <1>4, <2>1 DEF Final, Settled
<1> QED
  BY <1>3, <1>4

LEMMA SaveIsFinal ==
  ASSUME IInv, NEW r \in Requests, NEW items \in Batches, SaveAnswers(r, items),
         NEW s \in Students
  PROVE  Final(s)
<1>1. attempt' = attempt /\ answers \in [Students -> [Questions -> Responses \cup {None}]]
  BY DEF SaveAnswers, IInv, TypeOK
<1>2. CASE InProgress(request[r].student) /\ DOMAIN items \subseteq attempt[request[r].student].paper
  BY <1>1, <1>2 DEF SaveAnswers, Final, Settled
<1>3. CASE UNCHANGED answers
  BY <1>1, <1>3 DEF Final
<1> QED
  BY <1>2, <1>3 DEF SaveAnswers

LEMMA CommitIsFinal ==
  ASSUME IInv, NEW st \in Students, Commit(st), NEW s \in Students
  PROVE  Final(s)
<1>1. answers' = answers /\ attempt' = [attempt EXCEPT ![st] = tx[st].result]
  BY DEF Commit
<1>2. InProgress(st)
  BY DEF Commit, IInv, ResultOnItsWay
<1> QED
  BY <1>1, <1>2 DEF IInv, TypeOK, Final, Settled

LEMMA NextIsFinal == IInv /\ [Next]_vars => \A s \in Students : Final(s)
<1> SUFFICES ASSUME IInv, [Next]_vars, NEW s \in Students PROVE Final(s)
  OBVIOUS
<1>1. ASSUME NEW r \in Requests, CreateAttempt(r) PROVE Final(s)
  BY <1>1, CreateIsFinal
<1>2. ASSUME NEW r \in Requests, NEW items \in Batches, SaveAnswers(r, items) PROVE Final(s)
  BY <1>2, SaveIsFinal
<1>3. ASSUME NEW st \in Students, Commit(st) PROVE Final(s)
  BY <1>3, CommitIsFinal
<1>4. ASSUME UNCHANGED <<attempt, answers>> PROVE Final(s)
  BY <1>4 DEF Final
<1>5. ASSUME NEW r \in Requests,
             \/ \E st \in Students : StartAttempt(r, st)
             \/ \E st \in Students, kind \in {"view", "save", "submit"} : LoadAttempt(r, st, kind)
             \/ CheckDeadline(r) \/ FinalizeIfExpired(r) \/ SubmitAttempt(r)
      PROVE  Final(s)
  BY <1>4, <1>5 DEF StartAttempt, LoadAttempt, CheckDeadline, FinalizeIfExpired,
                    SubmitAttempt, attemptVars
<1>6. ASSUME NEW st \in Students, RecordEnd(st) \/ Abort(st) PROVE Final(s)
  BY <1>4, <1>6 DEF RecordEnd, Abort
<1>7. ASSUME NEW w \in Workers, SweepGather(w) \/ SweepFinalize(w) \/ SweepSkip(w)
      PROVE  Final(s)
  BY <1>4, <1>7 DEF SweepGather, SweepFinalize, SweepSkip, attemptVars
<1>8. ASSUME NEW l \in Linkers,
             (\E i \in Items : LinkExam(l, i)) \/ LinkSelect(l) \/ LinkSync(l)
      PROVE  Final(s)
  BY <1>4, <1>8 DEF LinkExam, LinkSelect, LinkSync, attemptVars
<1>9. CASE Tick \/ UNCHANGED vars
  BY <1>4, <1>9 DEF Tick, attemptVars, vars
<1> QED
  BY <1>1, <1>2, <1>3, <1>5, <1>6, <1>7, <1>8, <1>9 DEF Next

\* A settled attempt and its answers never change again, however many
\* requests and sweeps still hold what they read of it
\* (services._lock_in_progress).
THEOREM SettledFinal == Spec => SettledIsFinal
<1>1. IInv /\ [Next]_vars =>
         [\A st \in Students : Settled(st) =>
             attempt'[st] = attempt[st] /\ answers'[st] = answers[st]]_vars
  BY NextIsFinal DEF Final
<1> QED
  BY <1>1, InvariantHolds, PTL DEF Spec, SettledIsFinal

-----------------------------------------------------------------------------
(***************************************************************************)
(* How attempts end.  Whoever holds a lock at or before the deadline is a  *)
(* submission, and stays one until it commits: nobody else moves a request *)
(* that holds a lock, and the clock only moves on.                         *)
(***************************************************************************)
SubmitsToSubmit(r) == request[r].pc = "submitting" => request[r].kind = "submit"

\* A row that says its end was automatic bears an end after the deadline.
EndsTruly(row) == row.status = "auto_submitted" => row.submitted_at > row.deadline

TimelyLock(st) ==
    ~Unlocked(st) =>
       /\ tx[st].auto => Expired(st)
       /\ ~tx[st].auto => EndedByStudent(st)
       /\ EndsTruly(tx[st].result)

TimelyEnd(st) == Settled(st) => EndsTruly(attempt[st])

TimeInv ==
    /\ \A r \in Requests : SubmitsToSubmit(r)
    /\ \A st \in Students : TimelyLock(st) /\ TimelyEnd(st)

LEMMA TimeInvSuffices == TimeInv => EndsInTime
<1> SUFFICES ASSUME TimeInv, NEW st \in Students PROVE EndsInTime!(st)
  BY DEF EndsInTime
<1> QED
  BY DEF TimeInv, TimelyLock, TimelyEnd, EndsTruly

\* A request that holds a lock is committing, and holds no other.
LEMMA HoldersCommit ==
  ASSUME IInv, NEW st \in Students, ~Unlocked(st), tx[st].holder \in Requests
  PROVE  request[tx[st].holder].pc = "committing" /\ request[tx[st].holder].student = st
  BY ExamAssumption, NoneAssumption DEF IInv, HoldersInOrder

\* What is true of the lock of st stays so as long as its holder is the same
\* kind of request and its attempt is the same.
LEMMA LockStaysTimely ==
  ASSUME IInv, TimeInv, NEW st \in Students, tx'[st] = tx[st],
         clock' \in Nat, clock' >= clock,
         ~Unlocked(st) => attempt'[st] = attempt[st],
         ~Unlocked(st) /\ tx[st].holder \in Requests =>
            request'[tx[st].holder].kind = request[tx[st].holder].kind
  PROVE  TimelyLock(st)'
<1> SUFFICES ASSUME ~Unlocked(st) PROVE TimelyLock(st)'
  BY DEF TimelyLock, Unlocked
<1>1. TimelyLock(st)
  BY DEF TimeInv
<1>2. Started(st) /\ attempt[st].deadline \in Nat /\ clock \in Nat
  BY ExamAssumption DEF IInv, TypeOK, ResultOnItsWay, InProgress, Started, ExamAttempt
<1>3. Expired(st) => Expired(st)'
  BY <1>2 DEF Expired, Started
<1> QED
  BY <1>1, <1>3 DEF TimelyLock, Unlocked, EndsTruly, EndedByStudent

\* The attempts a step may touch: those unlocked, which it leaves unsettled.
OnlyUnsettled == \A st \in Students : \/ attempt'[st] = attempt[st]
                                      \/ Unlocked(st) /\ ~Settled(st)'

\* Steps that take no lock.
LEMMA NoLockIsTimely ==
  ASSUME IInv, TimeInv,
         \A r \in Requests : SubmitsToSubmit(r)',
         \A r \in Requests : request[r].pc = "committing" => request'[r].kind = request[r].kind,
         tx' = tx, clock' \in Nat, clock' >= clock, OnlyUnsettled
  PROVE  TimeInv'
<1>1. ASSUME NEW st \in Students PROVE TimelyLock(st)'
  <2>1. ~Unlocked(st) => attempt'[st] = attempt[st]
    BY DEF OnlyUnsettled
  <2>2. ~Unlocked(st) /\ tx[st].holder \in Requests =>
           request'[tx[st].holder].kind = request[tx[st].holder].kind
    BY HoldersCommit
  <2> QED
    BY <2>1, <2>2, LockStaysTimely
<1>2. ASSUME NEW st \in Students PROVE TimelyEnd(st)'
  BY DEF OnlyUnsettled, TimeInv, TimelyEnd, EndsTruly, Settled, Started, InProgress
<1> QED
  BY <1>1, <1>2 DEF TimeInv

LEMMA ClockStands == ASSUME IInv, clock' = clock PROVE clock' \in Nat /\ clock' >= clock
  BY ExamAssumption DEF IInv, TypeOK

\* One request goes on.
LEMMA RequestIsTimely ==
  ASSUME IInv, TimeInv, NEW r \in Requests, NEW new,
         request[r].pc # "committing",
         new.pc = "submitting" => new.kind = "submit",
         request' = [request EXCEPT ![r] = new],
         tx' = tx, clock' = clock, OnlyUnsettled
  PROVE  TimeInv'
<1>1. \A q \in Requests : request'[q] = IF q = r THEN new ELSE request[q]
  BY DEF IInv, TypeOK
<1>2. \A q \in Requests : SubmitsToSubmit(q)'
  BY <1>1 DEF SubmitsToSubmit, TimeInv
<1> QED
  BY <1>1, <1>2, ClockStands, NoLockIsTimely

\* r is moved on to pc, its kind stays.
LEMMA GotoKeepsKind ==
  ASSUME IInv, NEW r \in Requests, NEW pc \in Pc, Goto(r, pc)
  PROVE  /\ request' = [request EXCEPT ![r] = [request[r] EXCEPT !.pc = pc]]
         /\ [request[r] EXCEPT !.pc = pc].pc = pc
         /\ [request[r] EXCEPT !.pc = pc].kind = request[r].kind
<1>1. request[r] \in Request
  BY DEF IInv, TypeOK
<1> QED
  BY <1>1 DEF Goto, Request

LEMMA StartIsTimely ==
  ASSUME IInv, TimeInv, NEW r \in Requests, NEW st \in Students, StartAttempt(r, st)
  PROVE  TimeInv'
<1>1. PICK new \in {Loaded(st, "view"),
                    [pc |-> "creating", kind |-> "view", student |-> st, saw_open |-> FALSE]} :
         request' = [request EXCEPT ![r] = new]
  BY DEF StartAttempt
<1>2. new.pc # "submitting"
  BY <1>1 DEF Loaded
<1> QED
  BY <1>1, <1>2, RequestIsTimely DEF StartAttempt, attemptVars, OnlyUnsettled

LEMMA LoadIsTimely ==
  ASSUME IInv, TimeInv, NEW r \in Requests, NEW st \in Students,
         NEW kind \in {"view", "save", "submit"}, LoadAttempt(r, st, kind)
  PROVE  TimeInv'
<1>1. Loaded(st, kind).pc # "submitting"
  BY DEF Loaded
<1> QED
  BY <1>1, RequestIsTimely DEF LoadAttempt, attemptVars, OnlyUnsettled

LEMMA FinishIsTimely ==
  ASSUME IInv, TimeInv, NEW r \in Requests, request[r].pc # "committing", Finish(r), tx' = tx,
         clock' = clock, OnlyUnsettled
  PROVE  TimeInv'
<1>1. IdleRequest.pc # "submitting"
  BY DEF IdleRequest
<1> QED
  BY <1>1, RequestIsTimely DEF Finish

LEMMA CheckIsTimely == ASSUME IInv, TimeInv, NEW r \in Requests, CheckDeadline(r) PROVE TimeInv'
<1>1. request[r].pc = "loaded" /\ UNCHANGED <<clock, tx>> /\ OnlyUnsettled
  BY DEF CheckDeadline, attemptVars, OnlyUnsettled
<1>2. CASE Finish(r)
  BY <1>1, <1>2, FinishIsTimely
<1>3. ASSUME NEW pc \in {"submitting", "expired", "admitted"}, Goto(r, pc),
             pc = "submitting" => request[r].kind = "submit"
      PROVE  TimeInv'
  <2>1. pc \in Pc
    BY DEF Pc
  <2> DEFINE new == [request[r] EXCEPT !.pc = pc]
  <2>2. request' = [request EXCEPT ![r] = new] /\ new.pc = pc /\ new.kind = request[r].kind
    BY <1>3, <2>1, GotoKeepsKind
  <2> HIDE DEF new
  <2>3. request[r].pc # "committing" /\ (new.pc = "submitting" => new.kind = "submit")
    BY <1>1, <1>3, <2>2
  <2> QED
    BY <1>1, <2>2, <2>3, RequestIsTimely
<1> QED
  BY <1>2, <1>3 DEF CheckDeadline

LEMMA CreateIsTimely == ASSUME IInv, TimeInv, NEW r \in Requests, CreateAttempt(r) PROVE TimeInv'
<1> DEFINE st == request[r].student
<1>1. /\ request[r].pc = "creating" /\ UNCHANGED <<clock, tx>>
      /\ attempt \in [Students -> ExamAttempt \cup {None}]
  BY DEF CreateAttempt, IInv, TypeOK
<1>2. CASE ~Started(st)
  <2>1. PICK paper : attempt' = [attempt EXCEPT ![st] = NewAttempt(paper)]
    BY <1>2 DEF CreateAttempt
  <2>2. NewAttempt(paper).status = "in_progress"
    BY DEF NewAttempt
  <2>3. Unlocked(st)
    BY <1>1, <1>2 DEF IInv, RequestsInOrder, ResultOnItsWay, InProgress
  <2>4. OnlyUnsettled
    BY <1>1, <2>1, <2>2, <2>3 DEF OnlyUnsettled, Settled, InProgress, Started
  <2> QED
    BY <1>1, <1>2, <2>4, FinishIsTimely DEF CreateAttempt
<1>3. CASE Started(st)
  <2>1. Loaded(st, "view").pc # "submitting"
    BY DEF Loaded
  <2> QED
    BY <1>1, <1>3, <2>1, RequestIsTimely DEF CreateAttempt, OnlyUnsettled
<1> QED
  BY <1>2, <1>3

LEMMA SaveIsTimely ==
  ASSUME IInv, TimeInv, NEW r \in Requests, NEW items \in Batches, SaveAnswers(r, items)
  PROVE  TimeInv'
  BY FinishIsTimely DEF SaveAnswers, OnlyUnsettled

\* A lock is taken by p, which calls the end automatic if the deadline has
\* passed.
LEMMA LockIsTimely ==
  ASSUME IInv, TimeInv, NEW p \in Requests \cup Workers, NEW st \in Students, NEW auto \in BOOLEAN,
         InProgress(st), Unlocked(st), Finalize(p, st, auto), auto <=> Expired(st),
         ~Expired(st) => p \in Requests /\ request'[p].kind = "submit",
         \A r \in Requests : SubmitsToSubmit(r)',
         \A r \in Requests : request[r].pc = "committing" => request'[r].kind = request[r].kind,
         UNCHANGED <<clock, attempt>>
  PROVE  TimeInv'
<1>1. attempt[st] \in ExamAttempt /\ attempt[st].status = "in_progress"
  BY DEF IInv, TypeOK, InProgress, Started
<1>2. /\ tx'[st].result.status = "in_progress" /\ tx'[st].auto = auto /\ tx'[st].holder = p
      /\ \A s \in Students \ {st} : tx'[s] = tx[s]
  BY <1>1 DEF Finalize, IInv, TypeOK, ExamAttempt
<1>3. Expired(st)' = Expired(st)
  BY DEF Expired, Started
<1>4. TimelyLock(st)'
  BY <1>2, <1>3 DEF TimelyLock, EndsTruly, EndedByStudent
<1>5. ASSUME NEW s \in Students \ {st} PROVE TimelyLock(s)'
  <2>1. ~Unlocked(s) /\ tx[s].holder \in Requests =>
           request'[tx[s].holder].kind = request[tx[s].holder].kind
    BY HoldersCommit
  <2> QED
    BY <1>2, <2>1, ClockStands, LockStaysTimely
<1>6. \A s \in Students : TimelyEnd(s)'
  BY DEF TimeInv, TimelyEnd, EndsTruly, Settled, Started, InProgress
<1> QED
  BY <1>4, <1>5, <1>6 DEF TimeInv

\* The end is stamped later than it was decided on.
LEMMA RecordEndIsTimely == ASSUME IInv, TimeInv, NEW st \in Students, RecordEnd(st) PROVE TimeInv'
<1> DEFINE row == tx[st].result
           status == EndStatus(tx[st].auto, row.requires_manual_grading)
<1>1. /\ ~Unlocked(st) /\ UNCHANGED <<clock, attempt, request>>
      /\ tx' = [tx EXCEPT ![st].result = [row EXCEPT !.submitted_at = clock, !.status = status],
                           ![st].item = ItemToSync(status)]
  BY DEF RecordEnd
<1>2. tx[st] \in Finalization /\ row \in ExamAttempt /\ row.deadline = attempt[st].deadline
  BY <1>1 DEF IInv, TypeOK, ResultOnItsWay, Unlocked, Finalization
<1>3. /\ tx'[st].auto = tx[st].auto /\ tx'[st].holder = tx[st].holder
      /\ tx'[st].result.submitted_at = clock /\ tx'[st].result.deadline = row.deadline
      /\ tx'[st].result.status = status
      /\ \A s \in Students \ {st} : tx'[s] = tx[s]
  BY <1>1, <1>2 DEF IInv, TypeOK, Finalization, ExamAttempt
<1>4. TimelyLock(st) /\ Expired(st)' = Expired(st)
  BY <1>1 DEF TimeInv, Expired, Started
<1>5. status = "auto_submitted" => tx[st].auto
  BY <1>2 DEF EndStatus, Finalization
<1> HIDE DEF status, row
<1>6. TimelyLock(st)'
  BY <1>1, <1>2, <1>3, <1>4, <1>5 DEF TimelyLock, EndsTruly, EndedByStudent, Unlocked, Expired
<1>7. \A s \in Students \ {st} : TimelyLock(s)'
  BY <1>1, <1>3, ClockStands, LockStaysTimely
<1>8. \A s \in Students : TimelyEnd(s)' /\ \A r \in Requests : SubmitsToSubmit(r)'
  BY <1>1 DEF TimeInv, TimelyEnd, EndsTruly, Settled, Started, InProgress, SubmitsToSubmit
<1> QED
  BY <1>6, <1>7, <1>8 DEF TimeInv

LEMMA RequestLockIsTimely ==
  ASSUME IInv, TimeInv, NEW r \in Requests, NEW auto \in BOOLEAN,
         request[r].pc \in {"expired", "submitting"},
         InProgress(request[r].student), Unlocked(request[r].student),
         Finalize(r, request[r].student, auto), auto <=> Expired(request[r].student),
         ~Expired(request[r].student) => request[r].kind = "submit",
         Goto(r, "committing"), UNCHANGED <<clock, attempt>>
  PROVE  TimeInv'
<1> DEFINE new == [request[r] EXCEPT !.pc = "committing"]
<1>1. "committing" \in Pc /\ request[r].student \in Students
  BY DEF Pc, IInv, RequestsInOrder
<1>2. request' = [request EXCEPT ![r] = new] /\ new.pc = "committing" /\ new.kind = request[r].kind
  BY <1>1, GotoKeepsKind
<1>3. \A q \in Requests : request'[q] = IF q = r THEN new ELSE request[q]
  BY <1>2 DEF IInv, TypeOK
<1> HIDE DEF new
<1>4. \A q \in Requests : SubmitsToSubmit(q)'
  BY <1>2, <1>3 DEF SubmitsToSubmit, TimeInv
<1>5. \A q \in Requests : request[q].pc = "committing" => request'[q].kind = request[q].kind
  BY <1>2, <1>3
<1>6. ~Expired(request[r].student) => request'[r].kind = "submit"
  BY <1>2, <1>3
<1> QED
  BY <1>1, <1>4, <1>5, <1>6, LockIsTimely

LEMMA FinalizeIfExpiredIsTimely ==
  ASSUME IInv, TimeInv, NEW r \in Requests, FinalizeIfExpired(r) PROVE TimeInv'
<1>1. CASE InProgress(request[r].student) /\ Expired(request[r].student)
  BY <1>1, RequestLockIsTimely DEF FinalizeIfExpired
<1>2. CASE ~(InProgress(request[r].student) /\ Expired(request[r].student))
  BY <1>2, FinishIsTimely DEF FinalizeIfExpired, OnlyUnsettled
<1> QED
  BY <1>1, <1>2

LEMMA SubmitIsTimely == ASSUME IInv, TimeInv, NEW r \in Requests, SubmitAttempt(r) PROVE TimeInv'
<1>1. CASE InProgress(request[r].student)
  <2>1. Expired(request[r].student) \in BOOLEAN
    BY DEF Expired, Started
  <2>2. request[r].kind = "submit"
    BY DEF SubmitAttempt, TimeInv, SubmitsToSubmit
  <2> QED
    BY <1>1, <2>1, <2>2, RequestLockIsTimely DEF SubmitAttempt
<1>2. CASE ~InProgress(request[r].student)
  BY <1>2, FinishIsTimely DEF SubmitAttempt, OnlyUnsettled
<1> QED
  BY <1>1, <1>2

LEMMA SweepIsTimely == ASSUME IInv, TimeInv, NEW w \in Workers, SweepFinalize(w) PROVE TimeInv'
<1>1. Head(queue[w]) \in Students
  BY DEF SweepFinalize, IInv, TypeOK
<1>2. \A r \in Requests : SubmitsToSubmit(r)'
  BY DEF SweepFinalize, TimeInv, SubmitsToSubmit
<1>3. Expired(Head(queue[w])) /\ UNCHANGED <<clock, request, attempt>>
  BY DEF SweepFinalize
<1> QED
  BY <1>1, <1>2, <1>3, LockIsTimely DEF SweepFinalize

\* A lock is given up, by a commit that leaves the result or by a rollback.
LEMMA ReleaseIsTimely ==
  ASSUME IInv, TimeInv, NEW st \in Students, ~Unlocked(st), tx' = [tx EXCEPT ![st] = None],
         NEW left, Release(tx[st].holder, left), clock' = clock,
         attempt' = attempt \/ attempt' = [attempt EXCEPT ![st] = tx[st].result]
  PROVE  TimeInv'
<1>1. /\ \A r \in Requests : request'[r] = IF r = tx[st].holder THEN IdleRequest ELSE request[r]
      /\ \A s \in Students : tx'[s] = IF s = st THEN None ELSE tx[s]
      /\ \A s \in Students \ {st} : attempt'[s] = attempt[s]
      /\ attempt'[st] = attempt[st] \/ attempt'[st] = tx[st].result
  BY DEF Release, IInv, TypeOK
<1>2. \A r \in Requests : SubmitsToSubmit(r)'
  BY <1>1 DEF SubmitsToSubmit, TimeInv, IdleRequest
<1>3. ASSUME NEW s \in Students PROVE TimelyLock(s)'
  <2>1. CASE s = st
    BY <1>1, <2>1 DEF TimelyLock, Unlocked
  <2>2. CASE s # st
    <3>1. attempt'[s] = attempt[s] /\ tx'[s] = tx[s]
      BY <1>1, <2>2
    <3>2. ~Unlocked(s) /\ tx[s].holder \in Requests => tx[s].holder # tx[st].holder
      BY <2>2, HoldersCommit
    <3>3. ~Unlocked(s) /\ tx[s].holder \in Requests => request'[tx[s].holder] = request[tx[s].holder]
      BY <1>1, <3>2
    <3> QED
      BY <3>1, <3>3, ClockStands, LockStaysTimely
  <2> QED
    BY <2>1, <2>2
<1>4. ASSUME NEW s \in Students PROVE TimelyEnd(s)'
  <2>1. TimelyEnd(s) /\ TimelyLock(s)
    BY DEF TimeInv
  <2> QED
    BY <1>1, <2>1 DEF TimelyEnd, TimelyLock, EndsTruly, Settled, Started, InProgress
<1> QED
  BY <1>2, <1>3, <1>4 DEF TimeInv

LEMMA CommitIsTimely == ASSUME IInv, TimeInv, NEW st \in Students, Commit(st) \/ Abort(st) PROVE TimeInv'
<1>1. CASE Commit(st)
  BY <1>1, ReleaseIsTimely DEF Commit
<1>2. CASE Abort(st)
  BY <1>2, ReleaseIsTimely DEF Abort
<1> QED
  BY <1>1, <1>2

LEMMA RestIsTimely ==
  ASSUME IInv, TimeInv, UNCHANGED <<attempt, tx, request>>, clock' \in Nat, clock' >= clock
  PROVE  TimeInv'
<1>1. OnlyUnsettled /\ \A r \in Requests : SubmitsToSubmit(r)'
  BY DEF OnlyUnsettled, TimeInv, SubmitsToSubmit
<1> QED
  BY <1>1, NoLockIsTimely

LEMMA NextIsTimely == IInv /\ TimeInv /\ [Next]_vars => TimeInv'
<1> SUFFICES ASSUME IInv, TimeInv, [Next]_vars PROVE TimeInv'
  OBVIOUS
<1>1. ASSUME NEW r \in Requests, NEW st \in Students, StartAttempt(r, st) PROVE TimeInv'
  BY <1>1, StartIsTimely
<1>2. ASSUME NEW r \in Requests, NEW st \in Students,
             NEW kind \in {"view", "save", "submit"}, LoadAttempt(r, st, kind)
      PROVE  TimeInv'
  BY <1>2, LoadIsTimely
<1>3. ASSUME NEW r \in Requests, NEW items \in Batches, SaveAnswers(r, items) PROVE TimeInv'
  BY <1>3, SaveIsTimely
<1>4. ASSUME NEW r \in Requests,
             \/ CreateAttempt(r) \/ CheckDeadline(r) \/ FinalizeIfExpired(r) \/ SubmitAttempt(r)
      PROVE  TimeInv'
  BY <1>4, CreateIsTimely, CheckIsTimely, FinalizeIfExpiredIsTimely, SubmitIsTimely
<1>5. ASSUME NEW st \in Students, RecordEnd(st) \/ Commit(st) \/ Abort(st) PROVE TimeInv'
  BY <1>5, RecordEndIsTimely, CommitIsTimely
<1>6. ASSUME NEW w \in Workers, SweepFinalize(w) PROVE TimeInv'
  BY <1>6, SweepIsTimely
<1>7. ASSUME \/ \E w \in Workers : SweepGather(w) \/ SweepSkip(w)
             \/ \E l \in Linkers, i \in Items : LinkExam(l, i)
             \/ \E l \in Linkers : LinkSelect(l) \/ LinkSync(l)
             \/ Tick \/ UNCHANGED vars
      PROVE  TimeInv'
  <2>1. UNCHANGED <<attempt, tx, request>>
    BY <1>7 DEF SweepGather, SweepSkip, LinkExam, LinkSelect, LinkSync, Tick, vars, attemptVars
  <2>2. clock' = clock \/ clock' = clock + 1
    BY <1>7 DEF SweepGather, SweepSkip, LinkExam, LinkSelect, LinkSync, Tick, vars
  <2>3. clock' \in Nat /\ clock' >= clock
    BY <2>2, ExamAssumption DEF IInv, TypeOK
  <2> QED
    BY <2>1, <2>3, RestIsTimely
<1> QED
  BY <1>1, <1>2, <1>3, <1>4, <1>5, <1>6, <1>7 DEF Next

LEMMA InitIsTimely == Init => TimeInv
  BY DEF Init, TimeInv, SubmitsToSubmit, TimelyLock, TimelyEnd, IdleRequest, Unlocked, Settled, Started

\* Whoever races whom, an attempt is ended before its deadline only by its
\* student, and an end is called automatic only after the deadline, although
\* the clock is read once to decide and again to stamp it
\* (services.submit_attempt, finalize_if_expired, finalize_expired_attempts).
THEOREM EndsAreTimely == Spec => []EndsInTime
<1>1. Spec => []TimeInv
  BY InitIsTimely, NextIsTimely, InvariantHolds, PTL DEF Spec
<1> QED
  BY <1>1, TimeInvSuffices, InvariantHolds, PTL

-----------------------------------------------------------------------------
(***************************************************************************)
(* Who takes up an expired attempt does not let go of it unsettled.  A     *)
(* request that loaded the attempt saw it open if it still is, so it finds *)
(* the deadline passed; a sweep that skips it leaves it to the holder of   *)
(* the lock.                                                               *)
(***************************************************************************)
SawOpen(r) == request[r].pc = "loaded" /\ InProgress(request[r].student) => request[r].saw_open

SeenInv == \A r \in Requests : SawOpen(r)

\* A step that moves r alone, where it moves it to leaves SawOpen true, and
\* opens no attempt that others have loaded.
LEMMA MoveSees ==
  ASSUME IInv, SeenInv, NEW r \in Requests, NEW new, request' = [request EXCEPT ![r] = new],
         new.pc = "loaded" /\ InProgress(new.student)' => new.saw_open,
         \A st \in Students : Started(st) /\ InProgress(st)' => InProgress(st)
  PROVE  SeenInv'
<1>1. \A q \in Requests : request'[q] = IF q = r THEN new ELSE request[q]
  BY DEF IInv, TypeOK
<1>2. ASSUME NEW q \in Requests \ {r}, request[q].pc = "loaded"
      PROVE  request[q].student \in Students /\ Started(request[q].student)
  BY <1>2 DEF IInv, RequestsInOrder
<1>3. ASSUME NEW q \in Requests PROVE SawOpen(q)'
  <2>1. CASE q = r
    BY <1>1, <2>1 DEF SawOpen, InProgress, Started
  <2>2. CASE q # r
    <3>1. SawOpen(q) /\ request'[q] = request[q]
      BY <1>1, <2>2 DEF SeenInv
    <3> QED
      BY <1>2, <2>2, <3>1 DEF SawOpen, InProgress, Started
  <2> QED
    BY <2>1, <2>2
<1> QED
  BY <1>3 DEF SeenInv

\* A step that opens nothing, and after which whatever is loaded was so before.
LEMMA NothingLoaded ==
  ASSUME IInv, SeenInv,
         \A r \in Requests : request'[r].pc = "loaded" => request'[r] = request[r],
         \A st \in Students : Started(st) /\ InProgress(st)' => InProgress(st)
  PROVE  SeenInv'
<1> SUFFICES ASSUME NEW r \in Requests, request'[r].pc = "loaded" PROVE SawOpen(r)'
  BY DEF SeenInv, SawOpen
<1>1. request'[r] = request[r] /\ request[r].pc = "loaded"
  OBVIOUS
<1>2. request[r].student \in Students /\ Started(request[r].student)
  BY <1>1 DEF IInv, RequestsInOrder
<1> QED
  BY <1>1, <1>2 DEF SeenInv, SawOpen, InProgress, Started

LEMMA LoadedSees ==
  ASSUME NEW st \in Students, NEW kind, attempt' = attempt, NEW new, new = Loaded(st, kind)
  PROVE  new.pc = "loaded" /\ InProgress(new.student)' => new.saw_open
  BY DEF Loaded, InProgress, Started

LEMMA StartSees ==
  ASSUME IInv, SeenInv, NEW r \in Requests, NEW st \in Students,
         \/ StartAttempt(r, st)
         \/ \E kind \in {"view", "save", "submit"} : LoadAttempt(r, st, kind)
  PROVE  SeenInv'
<1>1. attempt' = attempt /\ \A s \in Students : InProgress(s)' = InProgress(s)
  BY DEF StartAttempt, LoadAttempt, attemptVars, InProgress, Started
<1>2. ASSUME NEW kind, request' = [request EXCEPT ![r] = Loaded(st, kind)] PROVE SeenInv'
  <2>1. PICK new : new = Loaded(st, kind)
    OBVIOUS
  <2> QED
    BY <1>1, <1>2, <2>1, LoadedSees, MoveSees
<1>3. ASSUME request' = [request EXCEPT ![r] =
                [pc |-> "creating", kind |-> "view", student |-> st, saw_open |-> FALSE]]
      PROVE  SeenInv'
  BY <1>1, <1>3, MoveSees
<1> QED
  BY <1>2, <1>3 DEF StartAttempt, LoadAttempt

LEMMA CreateSees ==
  ASSUME IInv, SeenInv, NEW r \in Requests, CreateAttempt(r) PROVE SeenInv'
<1> DEFINE st == request[r].student
<1>1. CASE Started(st)
  <2>1. request' = [request EXCEPT ![r] = Loaded(st, "view")] /\ attempt' = attempt
    BY <1>1 DEF CreateAttempt
  <2>2. \A s \in Students : InProgress(s)' = InProgress(s)
    BY <2>1 DEF InProgress, Started
  <2>3. PICK new : new = Loaded(st, "view")
    OBVIOUS
  <2> QED
    BY <1>1, <2>1, <2>2, <2>3, LoadedSees, MoveSees DEF CreateAttempt, IInv, RequestsInOrder
<1>2. CASE ~Started(st)
  <2>1. PICK paper : attempt' = [attempt EXCEPT ![st] = NewAttempt(paper)]
    BY <1>2 DEF CreateAttempt
  <2>2. request' = [request EXCEPT ![r] = IdleRequest] /\ IdleRequest.pc # "loaded"
    BY <1>2 DEF CreateAttempt, Finish, IdleRequest
  <2>3. \A s \in Students : Started(s) /\ InProgress(s)' => InProgress(s)
    BY <1>2, <2>1 DEF IInv, TypeOK, InProgress, Started
  <2> QED
    BY <2>2, <2>3, MoveSees
<1> QED
  BY <1>1, <1>2

\* Requests that go on after they loaded the attempt.
LEMMA GoOnSees ==
  ASSUME IInv, SeenInv, NEW r \in Requests,
         \/ CheckDeadline(r) \/ FinalizeIfExpired(r) \/ SubmitAttempt(r)
         \/ \E items \in Batches : SaveAnswers(r, items)
  PROVE  SeenInv'
<1>1. \A s \in Students : InProgress(s)' = InProgress(s)
  BY DEF CheckDeadline, FinalizeIfExpired, SubmitAttempt, SaveAnswers, attemptVars, InProgress, Started
<1>2. Finish(r) \/ \E pc \in Pc \ {"loaded"} : Goto(r, pc)
  BY DEF CheckDeadline, FinalizeIfExpired, SubmitAttempt, SaveAnswers, Pc
<1>3. CASE Finish(r)
  <2>1. IdleRequest.pc # "loaded"
    BY DEF IdleRequest
  <2> QED
    BY <1>1, <1>3, <2>1, MoveSees DEF Finish
<1>4. ASSUME NEW pc \in Pc \ {"loaded"}, Goto(r, pc) PROVE SeenInv'
  <2> DEFINE new == [request[r] EXCEPT !.pc = pc]
  <2>1. request' = [request EXCEPT ![r] = new] /\ new.pc # "loaded"
    BY <1>4, GotoKeepsKind
  <2> HIDE DEF new
  <2> QED
    BY <1>1, <2>1, MoveSees
<1> QED
  BY <1>2, <1>3, <1>4

LEMMA ReleaseSees ==
  ASSUME IInv, SeenInv, NEW st \in Students, RecordEnd(st) \/ Commit(st) \/ Abort(st)
  PROVE  SeenInv'
<1>1. \A r \in Requests : request'[r].pc = "loaded" => request'[r] = request[r]
  <2>1. request' = request \/ \E left : Release(tx[st].holder, left)
    BY DEF RecordEnd, Commit, Abort
  <2> QED
    BY <2>1 DEF Release, IdleRequest
<1>2. attempt' = attempt \/ attempt' = [attempt EXCEPT ![st] = tx[st].result]
  BY DEF RecordEnd, Commit, Abort
<1>3. InProgress(st) \/ attempt' = attempt
  BY DEF RecordEnd, Commit, Abort, IInv, ResultOnItsWay
<1>4. \A s \in Students : InProgress(s)' => InProgress(s)
  BY <1>2, <1>3 DEF IInv, TypeOK, InProgress, Started
<1> QED
  BY <1>1, <1>4, NothingLoaded

LEMMA NextSees == IInv /\ SeenInv /\ [Next]_vars => SeenInv'
<1> SUFFICES ASSUME IInv, SeenInv, [Next]_vars PROVE SeenInv'
  OBVIOUS
<1>1. ASSUME NEW r \in Requests, NEW st \in Students,
             \/ StartAttempt(r, st)
             \/ \E kind \in {"view", "save", "submit"} : LoadAttempt(r, st, kind)
      PROVE  SeenInv'
  BY <1>1, StartSees
<1>2. ASSUME NEW r \in Requests, CreateAttempt(r) PROVE SeenInv'
  BY <1>2, CreateSees
<1>3. ASSUME NEW r \in Requests,
             \/ CheckDeadline(r) \/ FinalizeIfExpired(r) \/ SubmitAttempt(r)
             \/ \E items \in Batches : SaveAnswers(r, items)
      PROVE  SeenInv'
  BY <1>3, GoOnSees
<1>4. ASSUME NEW st \in Students, RecordEnd(st) \/ Commit(st) \/ Abort(st) PROVE SeenInv'
  BY <1>4, ReleaseSees
<1>5. ASSUME UNCHANGED <<attempt, request>> PROVE SeenInv'
  BY <1>5 DEF SeenInv, SawOpen, InProgress, Started
<1>6. ASSUME \/ \E w \in Workers : SweepGather(w) \/ SweepFinalize(w) \/ SweepSkip(w)
             \/ \E l \in Linkers, i \in Items : LinkExam(l, i)
             \/ \E l \in Linkers : LinkSelect(l) \/ LinkSync(l)
             \/ Tick \/ UNCHANGED vars
      PROVE  SeenInv'
  <2>1. UNCHANGED <<attempt, request>>
    BY <1>6 DEF SweepGather, SweepFinalize, SweepSkip, LinkExam, LinkSelect, LinkSync, Tick,
                vars, attemptVars
  <2> QED
    BY <1>5, <2>1
<1> QED
  BY <1>1, <1>2, <1>3, <1>4, <1>6 DEF Next

LEMMA InitSees == Init => SeenInv
  BY DEF Init, SeenInv, SawOpen, IdleRequest

\* The two ways to have st in hand.
Holding(r, st) ==
    request[r].student = st /\ request[r].pc \in {"loaded", "expired", "submitting", "committing"}

Gathered(w, st) == \E k \in DOMAIN queue[w] : queue[w][k] = st

LEMMA Hands ==
  ASSUME NEW st \in Students
  PROVE  /\ InHand(st) <=> \/ \E w \in Workers : Gathered(w, st)
                           \/ \E r \in Requests : Holding(r, st)
         /\ InHand(st)' <=> \/ \E w \in Workers : Gathered(w, st)'
                            \/ \E r \in Requests : Holding(r, st)'
  BY DEF InHand, Holding, Gathered

\* The sweeps stand, and a request goes on in a way that keeps st in its hand.
LEMMA RequestHolds ==
  ASSUME IInv, NEW st \in Students, InHand(st), queue' = queue, NEW r \in Requests, NEW new,
         request' = [request EXCEPT ![r] = new],
         Holding(r, st) => new.student = st /\ new.pc \in {"expired", "submitting", "committing"}
  PROVE  InHand(st)'
<1>1. \A q \in Requests : request'[q] = IF q = r THEN new ELSE request[q]
  BY DEF IInv, TypeOK
<1>2. \A w \in Workers : Gathered(w, st) => Gathered(w, st)'
  BY DEF Gathered
<1>3. \A q \in Requests : Holding(q, st) => Holding(q, st)'
  BY <1>1 DEF Holding
<1> QED
  BY <1>2, <1>3, Hands

\* r had not loaded anything, or was past the deadline check.
LEMMA OthersHold ==
  ASSUME IInv, NEW st \in Students, InHand(st), NEW r \in Requests,
         \/ \E s \in Students : StartAttempt(r, s)
         \/ \E s \in Students, kind \in {"view", "save", "submit"} : LoadAttempt(r, s, kind)
         \/ CreateAttempt(r)
         \/ \E items \in Batches : SaveAnswers(r, items)
  PROVE  InHand(st)'
<1>1. ~Holding(r, st) /\ queue' = queue
  BY DEF StartAttempt, LoadAttempt, CreateAttempt, SaveAnswers, Holding
<1>2. \E new : request' = [request EXCEPT ![r] = new]
  BY DEF StartAttempt, LoadAttempt, CreateAttempt, SaveAnswers, Finish
<1> QED
  BY <1>1, <1>2, RequestHolds

LEMMA CheckHolds ==
  ASSUME IInv, SeenInv, NEW st \in Students, InHand(st), InProgress(st), Expired(st),
         NEW r \in Requests, CheckDeadline(r) \/ FinalizeIfExpired(r) \/ SubmitAttempt(r)
  PROVE  InHand(st)'
<1>1. queue' = queue /\ request[r] \in Request
  BY DEF CheckDeadline, FinalizeIfExpired, SubmitAttempt, IInv, TypeOK
<1>2. CASE ~Holding(r, st)
  <2>1. \E new : request' = [request EXCEPT ![r] = new]
    BY <1>1 DEF CheckDeadline, FinalizeIfExpired, SubmitAttempt, Finish, Goto
  <2> QED
    BY <1>1, <1>2, <2>1, RequestHolds
<1>3. CASE Holding(r, st)
  <2>1. PICK pc \in {"expired", "submitting", "committing"} : Goto(r, pc)
    <3>1. request[r].student = st /\ SawOpen(r)
      BY <1>3 DEF Holding, SeenInv
    <3> QED
      BY <3>1 DEF CheckDeadline, FinalizeIfExpired, SubmitAttempt, SawOpen
  <2> DEFINE new == [request[r] EXCEPT !.pc = pc]
  <2>2. new.pc = pc /\ new.student = request[r].student /\ request' = [request EXCEPT ![r] = new]
    BY <1>1, <2>1 DEF Request, Goto
  <2> HIDE DEF new
  <2>3. new.student = st /\ new.pc \in {"expired", "submitting", "committing"}
    BY <1>3, <2>2 DEF Holding
  <2> QED
    BY <1>1, <2>2, <2>3, RequestHolds
<1> QED
  BY <1>2, <1>3

\* What is left of a queue holds whatever was not at its head.
LEMMA RestOfQueue ==
  ASSUME NEW S, NEW q \in Seq(S), q # <<>>, NEW k \in DOMAIN q, q[k] # Head(q)
  PROVE  \E j \in DOMAIN Tail(q) : Tail(q)[j] = q[k]
<1>1. k \in 2..Len(q)
  OBVIOUS
<1>2. k - 1 \in DOMAIN Tail(q) /\ Tail(q)[k - 1] = q[k]
  BY <1>1
<1> QED
  BY <1>2

\* Whoever has locked st has it in hand.
LEMMA LockedIsHeld ==
  ASSUME IInv, NEW st \in Students, ~Unlocked(st)
  PROVE  \/ tx[st].holder \in Requests /\ Holding(tx[st].holder, st)
         \/ /\ tx[st].holder \in Workers /\ Gathered(tx[st].holder, st)
            /\ Head(queue[tx[st].holder]) = st
<1>1. CASE tx[st].holder \in Requests
  BY <1>1, HoldersCommit DEF Holding
<1>2. CASE tx[st].holder \in Workers /\ tx[st].holder \notin Requests
  <2> DEFINE q == queue[tx[st].holder]
  <2>1. q # <<>> /\ Head(q) = st /\ q \in Seq(Students)
    BY <1>2 DEF IInv, TypeOK, HoldersInOrder
  <2>2. 1 \in DOMAIN q /\ q[1] = st
    BY <2>1
  <2> QED
    BY <1>2, <2>1, <2>2 DEF Gathered
<1> QED
  BY <1>1, <1>2 DEF IInv, HoldersInOrder

LEMMA SkipHolds ==
  ASSUME IInv, NEW st \in Students, InHand(st), InProgress(st), Expired(st),
         NEW w \in Workers, SweepSkip(w)
  PROVE  InHand(st)'
<1>1. /\ queue[w] # <<>> /\ queue[w] \in Seq(Students) /\ ~Busy(w)
      /\ request' = request
      /\ queue'[w] = Tail(queue[w]) /\ \A v \in Workers \ {w} : queue'[v] = queue[v]
      /\ Unlocked(Head(queue[w])) => ~(InProgress(Head(queue[w])) /\ Expired(Head(queue[w])))
  BY DEF SweepSkip, IInv, TypeOK
<1>2. \A r \in Requests : Holding(r, st) => Holding(r, st)'
  BY <1>1 DEF Holding
<1>3. \A v \in Workers \ {w} : Gathered(v, st) => Gathered(v, st)'
  BY <1>1 DEF Gathered
<1>4. CASE Gathered(w, st) /\ Head(queue[w]) # st
  <2>1. PICK k \in DOMAIN queue[w] : queue[w][k] = st
    BY <1>4 DEF Gathered
  <2>2. Gathered(w, st)'
    BY <1>1, <1>4, <2>1, RestOfQueue DEF Gathered
  <2> QED
    BY <2>2, Hands
<1>5. CASE Head(queue[w]) = st
  <2>1. ~Unlocked(st)
    BY <1>1, <1>5
  <2>2. tx[st].holder # w
    BY <1>1, <2>1 DEF Busy
  <2> QED
    BY <1>2, <1>3, <2>1, <2>2, LockedIsHeld, Hands
<1> QED
  BY <1>2, <1>3, <1>4, <1>5, Hands

LEMMA GatherHolds ==
  ASSUME IInv, NEW st \in Students, InHand(st), NEW w \in Workers, SweepGather(w)
  PROVE  InHand(st)'
<1>1. /\ queue[w] = <<>> /\ request' = request
      /\ \A v \in Workers \ {w} : queue'[v] = queue[v]
  BY DEF SweepGather, IInv, TypeOK
<1>2. \A r \in Requests : Holding(r, st) => Holding(r, st)'
  BY <1>1 DEF Holding
<1>3. \A v \in Workers : Gathered(v, st) => Gathered(v, st)'
  BY <1>1 DEF Gathered
<1> QED
  BY <1>2, <1>3, Hands

LEMMA CommitHolds ==
  ASSUME IInv, NEW st \in Students, InHand(st), NEW s \in Students, Commit(s)
  PROVE  InHand(st)' \/ Settled(st)'
<1> DEFINE p == tx[s].holder
<1>1. ~Unlocked(s)
  BY DEF Commit
<1>2. CASE s = st
  <2>1. /\ attempt'[st] = tx[st].result /\ tx[st].result \in ExamAttempt
        /\ tx[st].result.status # "in_progress"
    BY <1>1, <1>2 DEF Commit, IInv, TypeOK, Unlocked, Finalization
  <2> QED
    BY <2>1, NoneAssumption DEF Settled, InProgress, Started
<1>3. CASE s # st
  <2>1. PICK left : /\ Release(p, left)
                    /\ p \in Workers => left = Tail(queue[p])
    BY NoneAssumption DEF Commit
  <2>2. /\ \A r \in Requests \ {p} : request'[r] = request[r]
        /\ \A w \in Workers \ {p} : queue'[w] = queue[w]
        /\ p \in Workers => queue'[p] = Tail(queue[p])
    BY <2>1 DEF Release
  <2>3. ASSUME NEW r \in Requests, Holding(r, st) PROVE Holding(r, st)'
    <3>1. r # p
      BY <1>1, <1>3, <2>3, HoldersCommit DEF Holding
    <3> QED
      BY <2>2, <2>3, <3>1 DEF Holding
  <2>4. ASSUME NEW w \in Workers, Gathered(w, st) PROVE Gathered(w, st)'
    <3>1. CASE w = p
      <4>1. p \notin Requests
        BY <3>1, NoneAssumption
      <4>2. queue[w] \in Seq(Students) /\ queue[w] # <<>> /\ Head(queue[w]) = s
        BY <1>1, <3>1, <4>1 DEF IInv, TypeOK, HoldersInOrder
      <4>3. PICK k \in DOMAIN queue[w] : queue[w][k] = st
        BY <2>4 DEF Gathered
      <4>4. PICK j \in DOMAIN Tail(queue[w]) : Tail(queue[w])[j] = st
        BY <1>3, <4>2, <4>3, RestOfQueue
      <4>5. queue'[w] = Tail(queue[w])
        BY <2>2, <3>1
      <4> QED
        BY <4>4, <4>5 DEF Gathered
    <3>2. CASE w # p
      BY <2>2, <2>4, <3>2 DEF Gathered
    <3> QED
      BY <3>1, <3>2
  <2> QED
    BY <2>3, <2>4, Hands
<1> QED
  BY <1>2, <1>3

\* What a step may never do to st.
KeptOrSettled(st) ==
    InProgress(st) /\ Expired(st) /\ InHand(st) /\ ~InHand(st)' =>
       Settled(st)' \/ \E s \in Students : Abort(s)

LEMMA NextHolds == IInv /\ SeenInv /\ [Next]_vars => \A st \in Students : KeptOrSettled(st)
<1> SUFFICES ASSUME IInv, SeenInv, [Next]_vars, NEW st \in Students,
                    InProgress(st), Expired(st), InHand(st)
             PROVE  InHand(st)' \/ Settled(st)' \/ \E s \in Students : Abort(s)
  BY DEF KeptOrSettled
<1>1. ASSUME NEW r \in Requests,
             \/ \E s \in Students : StartAttempt(r, s)
             \/ \E s \in Students, kind \in {"view", "save", "submit"} : LoadAttempt(r, s, kind)
             \/ CreateAttempt(r)
             \/ \E items \in Batches : SaveAnswers(r, items)
      PROVE  InHand(st)'
  BY <1>1, OthersHold
<1>2. ASSUME NEW r \in Requests, CheckDeadline(r) \/ FinalizeIfExpired(r) \/ SubmitAttempt(r)
      PROVE  InHand(st)'
  BY <1>2, CheckHolds
<1>3. ASSUME NEW s \in Students, Commit(s) PROVE InHand(st)' \/ Settled(st)'
  BY <1>3, CommitHolds
<1>4. ASSUME NEW w \in Workers, SweepGather(w) \/ SweepSkip(w) PROVE InHand(st)'
  BY <1>4, GatherHolds, SkipHolds
<1>5. ASSUME UNCHANGED <<request, queue>> PROVE InHand(st)'
  BY <1>5 DEF InHand
<1>6. ASSUME \/ \E s \in Students : RecordEnd(s)
             \/ \E w \in Workers : SweepFinalize(w)
             \/ \E l \in Linkers, i \in Items : LinkExam(l, i)
             \/ \E l \in Linkers : LinkSelect(l) \/ LinkSync(l)
             \/ Tick \/ UNCHANGED vars
      PROVE  InHand(st)'
  <2>1. UNCHANGED <<request, queue>>
    BY <1>6 DEF RecordEnd, SweepFinalize, LinkExam, LinkSelect, LinkSync, Tick, vars
  <2> QED
    BY <1>5, <2>1
<1> QED
  BY <1>1, <1>2, <1>3, <1>4, <1>6 DEF Next

\* However requests, sweeps and crashes interleave, an attempt past its
\* deadline that somebody took up is not let go of unsettled, unless somebody
\* died (services.finalize_if_expired, finalize_expired_attempts).
THEOREM ExpiredNotLetGo == Spec => ExpiredIsNotLetGo
<1>1. Spec => []SeenInv
  BY InitSees, NextSees, InvariantHolds, PTL DEF Spec
<1>2. IInv /\ SeenInv /\ [Next]_vars =>
         [\A st \in Students :
             InProgress(st) /\ Expired(st) /\ InHand(st) /\ ~InHand(st)' =>
                Settled(st)' \/ \E s \in Students : Abort(s)]_vars
  BY NextHolds DEF KeptOrSettled
<1> QED
  BY <1>1, <1>2, InvariantHolds, PTL DEF Spec, ExpiredIsNotLetGo

-----------------------------------------------------------------------------
(***************************************************************************)
(* CbtAttempt implements Sitting, for every instance: creating an attempt  *)
(* is sitting down, storing answers is answering, committing a             *)
(* finalization is closing, and every other step stutters.                 *)
(***************************************************************************)

\* The exam's view of a step that leaves attempts and answers alone.
LEMMA Invisible ==
  ASSUME UNCHANGED <<attempt, answers>>
  PROVE  UNCHANGED Exam!sittingVars
<1>1. \A st \in Students : /\ PaperOf(st)' = PaperOf(st)
                           /\ ResultRecorded(st)' = ResultRecorded(st)
  BY DEF PaperOf, ResultRecorded, Settled, InProgress, Started
<1> QED
  BY <1>1 DEF Exam!sittingVars

LEMMA InitSits == Init => Exam!SittingInit
  BY DEF Init, Exam!SittingInit, PaperOf, ResultRecorded, Settled, Started

LEMMA CreateSits ==
  ASSUME IInv, NEW r \in Requests, CreateAttempt(r)
  PROVE  Exam!SittingNext \/ UNCHANGED Exam!sittingVars
<1>1. request[r].pc = "creating" /\ clock >= OpensAt
  BY DEF CreateAttempt, IInv, RequestsInOrder
<1>a. PICK st \in Students : st = request[r].student
  BY <1>1 DEF IInv, RequestsInOrder
<1>2. CASE Started(st)
  BY <1>a, <1>2, Invisible DEF CreateAttempt
<1>3. CASE ~Started(st)
  <2>1. PICK paper \in Papers : attempt' = [attempt EXCEPT ![st] = NewAttempt(paper)]
    BY <1>a, <1>3 DEF CreateAttempt
  <2>2. answers' = answers
    BY DEF CreateAttempt
  <2>3. NewAttempt(paper) # None
    <3>1. Deadline \in OpensAt..ClosesAt
      BY <1>1, ExamAssumption DEF Deadline, IInv, TypeOK
    <3>2. NewAttempt(paper) \in ExamAttempt
      BY <3>1 DEF NewAttempt, ExamAttempt, Papers, AttemptStatus
    <3> QED
      BY <3>2, NoneAssumption
  <2>4. /\ attempt'[st] = NewAttempt(paper)
        /\ \A s \in Students \ {st} : attempt'[s] = attempt[s]
    BY <1>1, <2>1 DEF IInv, TypeOK
  <2>5. /\ PaperOf(st) = None /\ PaperOf(st)' = paper
        /\ ResultRecorded(st)' = ResultRecorded(st)
    BY <1>3, <2>3, <2>4
       DEF PaperOf, ResultRecorded, Settled, InProgress, Started, NewAttempt
  <2>6. \A s \in Students \ {st} : PaperOf(s)' = PaperOf(s) /\ ResultRecorded(s)' = ResultRecorded(s)
    BY <2>4 DEF PaperOf, ResultRecorded, Settled, InProgress, Started
  <2>7. Exam!Sit(st, paper)
    BY <1>1, <2>2, <2>5, <2>6 DEF Exam!Sit
  <2> QED
    BY <1>1, <2>7 DEF Exam!SittingNext
<1> QED
  BY <1>2, <1>3

LEMMA SaveAnswersSits ==
  ASSUME IInv, NEW r \in Requests, NEW items \in Batches, SaveAnswers(r, items)
  PROVE  Exam!SittingNext \/ UNCHANGED Exam!sittingVars
<1> DEFINE st == request[r].student
           new == Stored(answers[st], items)
<1>1. attempt' = attempt
  BY DEF SaveAnswers
<1>2. st \in Students
  BY DEF SaveAnswers, IInv, RequestsInOrder
<1>3. CASE UNCHANGED answers
  BY <1>1, <1>3, Invisible
<1>4. CASE /\ InProgress(st)
           /\ DOMAIN items \subseteq attempt[st].paper
           /\ answers' = [answers EXCEPT ![st] = new]
  <2>1. \A s \in Students : PaperOf(s)' = PaperOf(s) /\ ResultRecorded(s)' = ResultRecorded(s)
    BY <1>1 DEF PaperOf, ResultRecorded, Settled, InProgress, Started
  <2>2. PaperOf(st) = attempt[st].paper /\ PaperOf(st) # None /\ ResultRecorded(st) = None
    <3>1. attempt[st].paper \in SUBSET Questions
      BY <1>2, <1>4 DEF IInv, TypeOK, InProgress, Started, ExamAttempt
    <3> QED
      BY <1>4, <3>1, NoneAssumption DEF PaperOf, ResultRecorded, Settled, InProgress
  <2>3. new \in [Questions -> Responses \cup {None}]
    <3>1. \A q \in DOMAIN items : items[q] \in Responses
      BY DEF Batches
    <3>2. answers[st] \in [Questions -> Responses \cup {None}]
      BY <1>2 DEF IInv, TypeOK
    <3> QED
      BY <3>1, <3>2 DEF Stored
  <2>4. \A q \in Questions \ PaperOf(st) : new[q] = answers[st][q]
    BY <1>4, <2>2 DEF Stored
  <2>5. Exam!Answer(st, new)
    BY <1>2, <1>4, <2>1, <2>2, <2>4 DEF Exam!Answer
  <2> QED
    BY <1>2, <2>3, <2>5 DEF Exam!SittingNext
<1> QED
  BY <1>3, <1>4 DEF SaveAnswers

LEMMA CommitSits ==
  ASSUME IInv, NEW st \in Students, Commit(st)
  PROVE  Exam!SittingNext
<1> DEFINE row == tx[st].result
<1>1. /\ answers' = answers
      /\ attempt' = [attempt EXCEPT ![st] = row]
      /\ ~Unlocked(st)
  BY DEF Commit
<1>2. /\ InProgress(st)
      /\ row.paper = attempt[st].paper
      /\ row.status # "in_progress"
      /\ row.score = Awarded(row.paper, answers[st])
      /\ row.requires_manual_grading = ManualPending(row.paper, answers[st])
  BY <1>1 DEF IInv, ResultOnItsWay, Commit
<1>3. row \in ExamAttempt /\ row # None
  BY <1>1, NoneAssumption DEF IInv, TypeOK, Unlocked, Finalization
<1>4. attempt'[st] = row /\ \A s \in Students \ {st} : attempt'[s] = attempt[s]
  BY <1>1 DEF IInv, TypeOK
<1>5. /\ PaperOf(st) = attempt[st].paper /\ PaperOf(st)' = PaperOf(st)
      /\ PaperOf(st) # None
      /\ ResultRecorded(st) = None
  <2>1. row.paper \in SUBSET Questions
    BY <1>3 DEF ExamAttempt
  <2> QED
    BY <1>2, <1>3, <1>4, <2>1, NoneAssumption
       DEF PaperOf, ResultRecorded, Settled, InProgress, Started
<1>6. ResultRecorded(st)' = Outcome(PaperOf(st), answers[st])
  BY <1>1, <1>2, <1>3, <1>4, <1>5
     DEF ResultRecorded, Settled, InProgress, Started, Outcome
<1>7. \A s \in Students \ {st} : PaperOf(s)' = PaperOf(s) /\ ResultRecorded(s)' = ResultRecorded(s)
  BY <1>4 DEF PaperOf, ResultRecorded, Settled, InProgress, Started
<1>8. Exam!Close(st)
  BY <1>1, <1>5, <1>6, <1>7 DEF Exam!Close
<1> QED
  BY <1>8 DEF Exam!SittingNext

LEMMA NextSits == IInv /\ [Next]_vars => [Exam!SittingNext]_Exam!sittingVars
<1> SUFFICES ASSUME IInv, [Next]_vars
             PROVE  Exam!SittingNext \/ UNCHANGED Exam!sittingVars
  OBVIOUS
<1> DEFINE Goal == Exam!SittingNext \/ UNCHANGED Exam!sittingVars
<1>1. ASSUME NEW r \in Requests, CreateAttempt(r) PROVE Goal
  BY <1>1, CreateSits
<1>2. ASSUME NEW r \in Requests, NEW items \in Batches, SaveAnswers(r, items) PROVE Goal
  BY <1>2, SaveAnswersSits
<1>3. ASSUME NEW st \in Students, Commit(st) PROVE Goal
  BY <1>3, CommitSits
<1>4. ASSUME UNCHANGED <<attempt, answers>> PROVE Goal
  BY <1>4, Invisible
<1> HIDE DEF Goal
<1>5. ASSUME NEW r \in Requests,
             \/ \E st \in Students : StartAttempt(r, st)
             \/ \E st \in Students, kind \in {"view", "save", "submit"} : LoadAttempt(r, st, kind)
             \/ CheckDeadline(r) \/ FinalizeIfExpired(r) \/ SubmitAttempt(r)
      PROVE  Goal
  BY <1>4, <1>5 DEF StartAttempt, LoadAttempt, CheckDeadline, FinalizeIfExpired,
                    SubmitAttempt, attemptVars
<1>6. ASSUME NEW st \in Students, RecordEnd(st) \/ Abort(st) PROVE Goal
  BY <1>4, <1>6 DEF RecordEnd, Abort
<1>7. ASSUME NEW w \in Workers, SweepGather(w) \/ SweepFinalize(w) \/ SweepSkip(w)
      PROVE  Goal
  BY <1>4, <1>7 DEF SweepGather, SweepFinalize, SweepSkip, attemptVars
<1>8. ASSUME NEW l \in Linkers,
             (\E i \in Items : LinkExam(l, i)) \/ LinkSelect(l) \/ LinkSync(l)
      PROVE  Goal
  BY <1>4, <1>8 DEF LinkExam, LinkSelect, LinkSync, attemptVars
<1>9. ASSUME Tick \/ UNCHANGED vars PROVE Goal
  BY <1>4, <1>9 DEF Tick, attemptVars, vars
<1>10. Goal
  BY <1>1, <1>2, <1>3, <1>5, <1>6, <1>7, <1>8, <1>9 DEF Next
<1> QED
  BY <1>10 DEF Goal

\* Every behaviour of requests, sweeps, crashes and links looks to the student
\* like a sitting: one paper, answers until it is closed, one result of these
\* answers (the attempt life cycle of cbt/services.py).
THEOREM AttemptImplementsSitting == Spec => ImplementsSitting
<1>1. IInv /\ [Next]_vars => [Exam!SittingNext]_Exam!sittingVars
  BY NextSits
<1> QED
  BY <1>1, InitSits, InvariantHolds, PTL DEF Spec, ImplementsSitting, Exam!SittingSpec
=============================================================================
