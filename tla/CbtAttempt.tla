----------------------------- MODULE CbtAttempt -----------------------------
(***************************************************************************)
(* One exam of src/backend/cbt and its students' attempts against the      *)
(* server's clock: starting and resuming, saving answers, submitting, the  *)
(* finalization a request performs when it meets an expired attempt, the   *)
(* periodic sweep, and the link that feeds graded attempts into a          *)
(* Continuous Assessment item.                                             *)
(*                                                                         *)
(* A request is split where it waits for the attempt's row lock, and a     *)
(* finalization where it has graded the answers and reads the clock again  *)
(* and where its transaction commits: what it wrote is held in tx until    *)
(* then, and until then nobody else gets the lock.                         *)
(*                                                                         *)
(* A score is the set of questions that were awarded their marks.          *)
(***************************************************************************)
EXTENDS Naturals, Sequences, FiniteSets

CONSTANTS
    Students,
    Enrolled,      \* those enrolled in the exam's course and term
    Questions,     \* the pool of the exam's banks
    ShortAnswer,   \* those a human must mark
    NumQuestions,  \* Exam.num_questions
    OpensAt,
    ClosesAt,
    Duration,      \* Exam.duration_minutes
    Requests,      \* requests of students the server handles at once
    Workers,       \* workers that run the sweep
    Linkers,       \* requests of lecturers that link the exam
    Items,         \* CA items of the same term
    Limit,         \* attempts per sweep
    None,          \* a SQL NULL, a missing row
    Horizon        \* bound: the last instant

ASSUME ExamAssumption ==
    /\ Enrolled \subseteq Students
    /\ ShortAnswer \subseteq Questions
    /\ NumQuestions \in Nat \ {0}
    /\ OpensAt \in Nat
    /\ ClosesAt \in Nat
    /\ OpensAt < ClosesAt
    /\ Duration \in Nat \ {0}
    /\ Limit \in Nat \ {0}
    /\ Horizon \in Nat

AttemptStatus == {"in_progress", "submitted", "auto_submitted", "graded"}

\* What can be stored of an answer, as far as grading tells answers apart.
Responses == {"right", "wrong", "blank"}

ExamAttempt == [paper : SUBSET Questions, deadline : OpensAt..ClosesAt,
                status : AttemptStatus, submitted_at : 0..Horizon \cup {None},
                score : SUBSET Questions, requires_manual_grading : BOOLEAN]

\* A finalization not yet committed: whose it is, whether it was decided to be
\* an automatic one, the attempt it will leave and the CA item it synchronizes.
Finalization == [holder : Requests \cup Workers, auto : BOOLEAN,
                 result : ExamAttempt, item : Items \cup {None}]

Pc == {"idle", "creating", "loaded", "expired", "admitted", "submitting", "committing"}

\* saw_open is what the request read of the status when it loaded the attempt.
Request == [pc : Pc, kind : {"view", "save", "submit"},
            student : Students \cup {None}, saw_open : BOOLEAN]

Linker == [pc : {"idle", "linked", "syncing"}, left : SUBSET Students]

ASSUME NoneAssumption ==
    /\ None \notin Students \cup Items \cup Responses
    /\ \A p \in SUBSET Questions : p # None
    /\ \A n \in 0..Horizon : n # None
    /\ \A row \in ExamAttempt : row # None
    /\ \A f \in Finalization : f # None
    /\ Requests \cap Workers = {}

VARIABLES
    clock,     \* timezone.now()
    attempt,   \* each student's ExamAttempt with its AttemptQuestion rows
    answers,   \* each student's Answer rows
    tx,        \* the finalization that holds the attempt's row lock
    request,   \* the requests of students under way
    queue,     \* the candidates left to each sweep
    link,      \* Exam.assessment_item
    grades,    \* AssessmentGrade of each item and student
    linker     \* the linking requests under way

attemptVars == <<attempt, answers, tx>>
caVars == <<link, grades, linker>>
vars == <<clock, attempt, answers, tx, request, queue, link, grades, linker>>

\* Among the types: a deadline lies within the exam's window, and a stored
\* answer is to a question of the bank (services.start_attempt, _upsert_answer).
TypeOK ==
    /\ clock \in 0..Horizon
    /\ attempt \in [Students -> ExamAttempt \cup {None}]
    /\ answers \in [Students -> [Questions -> Responses \cup {None}]]
    /\ tx \in [Students -> Finalization \cup {None}]
    /\ request \in [Requests -> Request]
    /\ queue \in [Workers -> Seq(Students)]
    /\ link \in Items \cup {None}
    /\ grades \in [Items -> [Students -> (SUBSET Questions) \cup {None}]]
    /\ linker \in [Linkers -> Linker]

-----------------------------------------------------------------------------
Started(st) == attempt[st] # None

InProgress(st) == Started(st) /\ attempt[st].status = "in_progress"

Expired(st) == Started(st) /\ clock > attempt[st].deadline

\* FOR UPDATE waits until nobody holds the row.
Unlocked(st) == tx[st] = None

IdleRequest == [pc |-> "idle", kind |-> "view", student |-> None, saw_open |-> FALSE]

Goto(r, pc) == request' = [request EXCEPT ![r].pc = pc]

Finish(r) == request' = [request EXCEPT ![r] = IdleRequest]

Loaded(st, kind) ==
    [pc |-> "loaded", kind |-> kind, student |-> st, saw_open |-> InProgress(st)]

Papers == {p \in SUBSET Questions : Cardinality(p) = NumQuestions}

\* Mutant: the exam may close before the attempt does.
DeadlineUncapped == clock + Duration

Deadline == IF clock + Duration < ClosesAt THEN clock + Duration ELSE ClosesAt

ManualPending(paper, given) ==
    \E q \in paper \cap ShortAnswer : given[q] \notin {None, "blank"}

Awarded(paper, given) == {q \in paper \ ShortAnswer : given[q] = "right"}

\* Mutant: an attempt that awaits marking is synchronized too.
ItemToSyncUngraded(status) == link

\* Only a graded attempt reaches the linked item.
ItemToSync(status) == IF status = "graded" THEN link ELSE None

\* _finalize on behalf of p, under the row lock, as far as the answers are
\* graded.  Whether it is automatic was decided by the clock of this moment.
Finalize(p, st, auto) ==
    LET paper == attempt[st].paper
    IN  tx' = [tx EXCEPT ![st] =
            [holder |-> p,
             auto |-> auto,
             item |-> None,
             result |-> [attempt[st] EXCEPT
                !.score = Awarded(paper, answers[st]),
                !.requires_manual_grading = ManualPending(paper, answers[st])]]]

\* How an attempt ends.
EndStatus(auto, manual) ==
    IF ~manual THEN "graded" ELSE IF auto THEN "auto_submitted" ELSE "submitted"

-----------------------------------------------------------------------------
(***************************************************************************)
(* Starting and resuming.                                                  *)
(***************************************************************************)

StartAttempt(r, st) ==
    /\ request[r].pc = "idle"
    /\ \/ /\ Started(st)
          /\ request' = [request EXCEPT ![r] = Loaded(st, "view")]
       \/ /\ ~Started(st)
          /\ st \in Enrolled
          /\ OpensAt <= clock
          /\ clock <= ClosesAt
          /\ request' = [request EXCEPT ![r] =
                [pc |-> "creating", kind |-> "view", student |-> st, saw_open |-> FALSE]]
    /\ UNCHANGED <<clock, attemptVars, queue, caVars>>

NewAttempt(paper) ==
    [paper |-> paper, deadline |-> Deadline, status |-> "in_progress",
     submitted_at |-> None, score |-> {}, requires_manual_grading |-> FALSE]

\* Mutant: a second first request draws the paper anew.
CreateAttemptTwice(r) ==
    LET st == request[r].student
    IN  /\ request[r].pc = "creating"
        /\ \E paper \in Papers : attempt' = [attempt EXCEPT ![st] = NewAttempt(paper)]
        /\ Finish(r)
        /\ UNCHANGED <<clock, answers, tx, queue, caVars>>

\* get_or_create, after the checks of a request that found no attempt.
CreateAttempt(r) ==
    LET st == request[r].student
    IN  /\ request[r].pc = "creating"
        /\ \/ /\ ~Started(st)
              /\ \E paper \in Papers : attempt' = [attempt EXCEPT ![st] = NewAttempt(paper)]
              /\ Finish(r)
           \/ /\ Started(st)
              /\ request' = [request EXCEPT ![r] = Loaded(st, "view")]
              /\ UNCHANGED attempt
        /\ UNCHANGED <<clock, answers, tx, queue, caVars>>

-----------------------------------------------------------------------------
(***************************************************************************)
(* Requests on an attempt.                                                 *)
(***************************************************************************)

LoadAttempt(r, st, kind) ==
    /\ request[r].pc = "idle"
    /\ Started(st)
    /\ request' = [request EXCEPT ![r] = Loaded(st, kind)]
    /\ UNCHANGED <<clock, attemptVars, queue, caVars>>

\* Mutant: a view of an expired attempt is answered without settling it.
CheckDeadlineOfSaves(r) ==
    LET expired == request[r].saw_open /\ Expired(request[r].student)
    IN  /\ request[r].pc = "loaded"
        /\ \/ /\ request[r].kind = "submit"
              /\ Goto(r, "submitting")
           \/ /\ request[r].kind = "save"
              /\ request[r].saw_open
              /\ IF expired THEN Goto(r, "expired") ELSE Goto(r, "admitted")
           \/ /\ request[r].kind = "view" \/ ~request[r].saw_open
              /\ request[r].kind # "submit"
              /\ Finish(r)
        /\ UNCHANGED <<clock, attemptVars, queue, caVars>>

\* finalize_if_expired before it locks, and what follows when it has nothing
\* to do: a view ends, a save is refused or admitted.  A submission goes
\* straight for the lock.
CheckDeadline(r) ==
    LET expired == request[r].saw_open /\ Expired(request[r].student)
    IN  /\ request[r].pc = "loaded"
        /\ \/ /\ request[r].kind = "submit"
              /\ Goto(r, "submitting")
           \/ /\ request[r].kind # "submit"
              /\ expired
              /\ Goto(r, "expired")
           \/ /\ request[r].kind = "save"
              /\ request[r].saw_open
              /\ ~expired
              /\ Goto(r, "admitted")
           \/ /\ request[r].kind = "view" \/ ~request[r].saw_open
              /\ request[r].kind # "submit"
              /\ ~expired
              /\ Finish(r)
        /\ UNCHANGED <<clock, attemptVars, queue, caVars>>

\* The rest of finalize_if_expired.  Either way the attempt is settled when
\* the request goes on, so a save is then refused.
FinalizeIfExpired(r) ==
    LET st == request[r].student
    IN  /\ request[r].pc = "expired"
        /\ Unlocked(st)
        /\ \/ /\ InProgress(st)
              /\ Expired(st)
              /\ Finalize(r, st, TRUE)
              /\ Goto(r, "committing")
           \/ /\ ~(InProgress(st) /\ Expired(st))
              /\ Finish(r)
              /\ UNCHANGED tx
        /\ UNCHANGED <<clock, attempt, answers, queue, caVars>>

Batches == UNION {[qs -> Responses] : qs \in (SUBSET Questions) \ {{}}}

Stored(given, items) ==
    [q \in Questions |-> IF q \in DOMAIN items THEN items[q] ELSE given[q]]

\* Mutant: the status is not read again under the lock.
SaveAnswersUnchecked(r, items) ==
    LET st == request[r].student
    IN  /\ request[r].pc = "admitted"
        /\ Unlocked(st)
        /\ DOMAIN items \subseteq attempt[st].paper
        /\ answers' = [answers EXCEPT ![st] = Stored(@, items)]
        /\ Finish(r)
        /\ UNCHANGED <<clock, attempt, tx, queue, caVars>>

\* Mutant: the row is read without FOR UPDATE.
SaveAnswersUnlocked(r, items) ==
    LET st == request[r].student
    IN  /\ request[r].pc = "admitted"
        /\ InProgress(st)
        /\ DOMAIN items \subseteq attempt[st].paper
        /\ answers' = [answers EXCEPT ![st] = Stored(@, items)]
        /\ Finish(r)
        /\ UNCHANGED <<clock, attempt, tx, queue, caVars>>

\* The locked part of save_answer and save_answers_batch: refused when the
\* attempt was settled meanwhile, and as a whole when one question is not on
\* the paper.
SaveAnswers(r, items) ==
    LET st == request[r].student
    IN  /\ request[r].pc = "admitted"
        /\ Unlocked(st)
        /\ \/ /\ InProgress(st)
              /\ DOMAIN items \subseteq attempt[st].paper
              /\ answers' = [answers EXCEPT ![st] = Stored(@, items)]
           \/ /\ ~(InProgress(st) /\ DOMAIN items \subseteq attempt[st].paper)
              /\ UNCHANGED answers
        /\ Finish(r)
        /\ UNCHANGED <<clock, attempt, tx, queue, caVars>>

\* A settled attempt is returned as it is.
SubmitAttempt(r) ==
    LET st == request[r].student
    IN  /\ request[r].pc = "submitting"
        /\ Unlocked(st)
        /\ \/ /\ InProgress(st)
              /\ Finalize(r, st, Expired(st))
              /\ Goto(r, "committing")
           \/ /\ ~InProgress(st)
              /\ Finish(r)
              /\ UNCHANGED tx
        /\ UNCHANGED <<clock, attempt, answers, queue, caVars>>

-----------------------------------------------------------------------------
(***************************************************************************)
(* The end of a finalization, and the sweep.                               *)
(***************************************************************************)

\* The holder goes on: a request is over, a sweep has done its candidate.
Release(p, sweepLeft) ==
    /\ request' = [r \in Requests |-> IF r = p THEN IdleRequest ELSE request[r]]
    /\ queue' = [w \in Workers |-> IF w = p THEN sweepLeft ELSE queue[w]]

\* The rest of _finalize: the end is stamped with a second reading of the
\* clock, and the exam's link is read to synchronize a graded attempt.
RecordEnd(st) ==
    LET row == tx[st].result
        status == EndStatus(tx[st].auto, row.requires_manual_grading)
    IN  /\ ~Unlocked(st)
        /\ row.status = "in_progress"
        /\ tx' = [tx EXCEPT ![st].result = [row EXCEPT !.submitted_at = clock, !.status = status],
                            ![st].item = ItemToSync(status)]
        /\ UNCHANGED <<clock, attempt, answers, request, queue, caVars>>

Commit(st) ==
    /\ ~Unlocked(st)
    /\ tx[st].result.status # "in_progress"
    /\ attempt' = [attempt EXCEPT ![st] = tx[st].result]
    /\ grades' = [i \in Items |-> IF i = tx[st].item
                                  THEN [grades[i] EXCEPT ![st] = tx[st].result.score]
                                  ELSE grades[i]]
    /\ tx' = [tx EXCEPT ![st] = None]
    /\ \/ /\ tx[st].holder \in Workers
          /\ Release(tx[st].holder, Tail(queue[tx[st].holder]))
       \/ /\ tx[st].holder \in Requests
          /\ Release(tx[st].holder, <<>>)
    /\ UNCHANGED <<clock, answers, link, linker>>

\* The process dies and the database rolls its transaction back.
Abort(st) ==
    /\ ~Unlocked(st)
    /\ tx' = [tx EXCEPT ![st] = None]
    /\ Release(tx[st].holder, <<>>)
    /\ UNCHANGED <<clock, attempt, answers, caVars>>

Busy(w) == \E st \in Students : ~Unlocked(st) /\ tx[st].holder = w

Candidates == {st \in Students : InProgress(st) /\ attempt[st].deadline <= clock}

\* The first Limit candidates in the order of their deadlines.
IsSelection(q) ==
    LET chosen == {q[k] : k \in DOMAIN q}
    IN  /\ chosen \subseteq Candidates
        /\ Cardinality(chosen) = Len(q)
        /\ Len(q) = Limit \/ chosen = Candidates
        /\ \A j, k \in DOMAIN q : j < k => attempt[q[j]].deadline <= attempt[q[k]].deadline
        /\ \A st \in Candidates \ chosen, k \in DOMAIN q :
              attempt[q[k]].deadline <= attempt[st].deadline

SweepGather(w) ==
    /\ queue[w] = <<>>
    /\ \E n \in 1..Limit : \E q \in [1..n -> Students] :
          /\ IsSelection(q)
          /\ queue' = [queue EXCEPT ![w] = q]
    /\ UNCHANGED <<clock, attemptVars, request, caVars>>

\* Mutant: an attempt is settled at its deadline, not after it.
SweepFinalizeEarly(w) ==
    LET st == Head(queue[w])
    IN  /\ queue[w] # <<>>
        /\ ~Busy(w)
        /\ Unlocked(st) /\ InProgress(st) /\ clock >= attempt[st].deadline
        /\ Finalize(w, st, TRUE)
        /\ UNCHANGED <<clock, attempt, answers, request, queue, caVars>>

\* The next candidate, locked with SKIP LOCKED and read again.
SweepFinalize(w) ==
    LET st == Head(queue[w])
    IN  /\ queue[w] # <<>>
        /\ ~Busy(w)
        /\ Unlocked(st) /\ InProgress(st) /\ Expired(st)
        /\ Finalize(w, st, TRUE)
        /\ UNCHANGED <<clock, attempt, answers, request, queue, caVars>>

SweepSkip(w) ==
    LET st == Head(queue[w])
    IN  /\ queue[w] # <<>>
        /\ ~Busy(w)
        /\ ~(Unlocked(st) /\ InProgress(st) /\ Expired(st))
        /\ queue' = [queue EXCEPT ![w] = Tail(@)]
        /\ UNCHANGED <<clock, attemptVars, request, caVars>>

-----------------------------------------------------------------------------
(***************************************************************************)
(* Linking the exam to a CA item: three statements, each its own           *)
(* transaction, followed by one upsert per graded attempt.                 *)
(***************************************************************************)

LinkExam(l, i) ==
    /\ linker[l].pc = "idle"
    /\ link' = i
    /\ linker' = [linker EXCEPT ![l].pc = "linked"]
    /\ UNCHANGED <<clock, attemptVars, request, queue, grades>>

LinkSelect(l) ==
    /\ linker[l].pc = "linked"
    /\ linker' = [linker EXCEPT ![l] =
          [pc |-> "syncing",
           left |-> {st \in Students : Started(st) /\ attempt[st].status = "graded"}]]
    /\ UNCHANGED <<clock, attemptVars, request, queue, link, grades>>

LinkSync(l) ==
    /\ linker[l].pc = "syncing"
    /\ \/ /\ linker[l].left = {}
          /\ linker' = [linker EXCEPT ![l].pc = "idle"]
          /\ UNCHANGED grades
       \/ \E st \in linker[l].left :
             /\ linker' = [linker EXCEPT ![l].left = @ \ {st}]
             /\ grades' = [grades EXCEPT ![link][st] = attempt[st].score]
    /\ UNCHANGED <<clock, attemptVars, request, queue, link>>

Tick ==
    /\ clock < Horizon
    /\ clock' = clock + 1
    /\ UNCHANGED <<attemptVars, request, queue, caVars>>

-----------------------------------------------------------------------------
Init ==
    /\ clock = 0
    /\ attempt = [st \in Students |-> None]
    /\ answers = [st \in Students |-> [q \in Questions |-> None]]
    /\ tx = [st \in Students |-> None]
    /\ request = [r \in Requests |-> IdleRequest]
    /\ queue = [w \in Workers |-> <<>>]
    /\ link = None
    /\ grades = [i \in Items |-> [st \in Students |-> None]]
    /\ linker = [l \in Linkers |-> [pc |-> "idle", left |-> {}]]

Next ==
    \/ \E r \in Requests, st \in Students : StartAttempt(r, st)
    \/ \E r \in Requests : CreateAttempt(r)
    \/ \E r \in Requests, st \in Students, kind \in {"view", "save", "submit"} :
          LoadAttempt(r, st, kind)
    \/ \E r \in Requests : CheckDeadline(r)
    \/ \E r \in Requests : FinalizeIfExpired(r)
    \/ \E r \in Requests, items \in Batches : SaveAnswers(r, items)
    \/ \E r \in Requests : SubmitAttempt(r)
    \/ \E st \in Students : RecordEnd(st)
    \/ \E st \in Students : Commit(st)
    \/ \E st \in Students : Abort(st)
    \/ \E w \in Workers : SweepGather(w)
    \/ \E w \in Workers : SweepFinalize(w)
    \/ \E w \in Workers : SweepSkip(w)
    \/ \E l \in Linkers, i \in Items : LinkExam(l, i)
    \/ \E l \in Linkers : LinkSelect(l)
    \/ \E l \in Linkers : LinkSync(l)
    \/ Tick

Spec == Init /\ [][Next]_vars

\* A request or a sweep that has begun goes on, those who wait for a row lock
\* get it in turn, and a finalization that is tried again and again is not
\* killed every time.  Nobody has to begin: nothing is assumed of students, of
\* lecturers, or of whatever should queue the sweep.
Fairness ==
    /\ \A r \in Requests : /\ WF_vars(CheckDeadline(r))
                            /\ SF_vars(FinalizeIfExpired(r))
                            /\ SF_vars(SubmitAttempt(r))
    /\ \A w \in Workers : WF_vars(SweepFinalize(w) \/ SweepSkip(w))
    /\ \A st \in Students : SF_vars(RecordEnd(st)) /\ SF_vars(Commit(st))

FairSpec == Spec /\ Fairness

-----------------------------------------------------------------------------
(***************************************************************************)
(* What an attempt promises.                                               *)
(***************************************************************************)

Settled(st) == Started(st) /\ ~InProgress(st)

\* The score of a settled attempt is the score of the answers that are stored,
\* although they were read before the finalization committed; it is graded
\* unless a short answer awaits marking (services._finalize under
\* _lock_in_progress).
ScoreMatchesAnswers ==
    \A st \in Students : Settled(st) =>
       /\ attempt[st].score = Awarded(attempt[st].paper, answers[st])
       /\ attempt[st].requires_manual_grading = ManualPending(attempt[st].paper, answers[st])
       /\ (attempt[st].status = "graded") = ~attempt[st].requires_manual_grading

\* Finalization happens exactly once: whatever requests and sweeps are still
\* under way, a settled attempt and its answers never change again
\* (services._lock_in_progress).
SettledIsFinal ==
    [][\A st \in Students : Settled(st) =>
          attempt'[st] = attempt[st] /\ answers'[st] = answers[st]]_vars

EndedByStudent(st) ==
    tx[st].holder \in Requests /\ request[tx[st].holder].kind = "submit"

\* Until the deadline has passed only the student ends the attempt: whoever
\* else is ending it, or calls the end automatic, acts after the deadline, and
\* an automatic end on record is later than the deadline.  The converse is not
\* promised: the end is stamped after the answers are graded, so a submission
\* made in time may bear a later one (services.submit_attempt,
\* finalize_if_expired, finalize_expired_attempts, _finalize).
EndsInTime ==
    \A st \in Students :
       /\ ~Unlocked(st) => IF tx[st].auto THEN Expired(st) ELSE EndedByStudent(st)
       /\ Settled(st) /\ attempt[st].status = "auto_submitted" =>
             attempt[st].submitted_at > attempt[st].deadline

\* A grade on a CA item is the score of a graded attempt, never of one that is
\* in progress, awaits marking or was rolled back (ca.sync_ca_grade_for_attempt).
CaGradesAreEarned ==
    \A i \in Items, st \in Students : grades[i][st] # None =>
       /\ Started(st)
       /\ attempt[st].status = "graded"
       /\ grades[i][st] = attempt[st].score

\* What holds between the rows and the processes at work on them, which the
\* promises above rest on.
RequestsInOrder ==
    \A r \in Requests :
       /\ request[r].pc # "idle" => request[r].student \in Students
       /\ request[r].pc = "creating" => clock >= OpensAt
       /\ request[r].pc \notin {"idle", "creating"} => Started(request[r].student)

HoldersInOrder ==
    \A st \in Students : ~Unlocked(st) =>
       \/ /\ tx[st].holder \in Requests
          /\ request[tx[st].holder].pc = "committing"
          /\ request[tx[st].holder].student = st
       \/ /\ tx[st].holder \in Workers
          /\ queue[tx[st].holder] # <<>>
          /\ Head(queue[tx[st].holder]) = st

\* What a finalization is about to commit.
ResultOnItsWay ==
    \A st \in Students : ~Unlocked(st) =>
       LET row == tx[st].result
       IN  /\ InProgress(st)
           /\ row.paper = attempt[st].paper
           /\ row.deadline = attempt[st].deadline
           /\ row.score = Awarded(row.paper, answers[st])
           /\ row.requires_manual_grading = ManualPending(row.paper, answers[st])
           /\ row.status # "in_progress" =>
                 (row.status = "graded") = ~row.requires_manual_grading
           /\ tx[st].item # None => row.status = "graded"

LinkersInOrder ==
    \A l \in Linkers :
       /\ linker[l].pc # "idle" => link # None
       /\ \A st \in linker[l].left : Started(st) /\ attempt[st].status = "graded"

IInv == /\ TypeOK
        /\ RequestsInOrder
        /\ HoldersInOrder
        /\ ResultOnItsWay
        /\ LinkersInOrder
        /\ ScoreMatchesAnswers
        /\ CaGradesAreEarned

\* A sweep has gathered the attempt, or a request has loaded it and not yet
\* passed the deadline check or got the lock.
InHand(st) ==
    \/ \E w \in Workers : \E k \in DOMAIN queue[w] : queue[w][k] = st
    \/ \E r \in Requests :
          /\ request[r].student = st
          /\ request[r].pc \in {"loaded", "expired", "submitting", "committing"}

\* Whoever takes up an attempt past its deadline, be it a sweep or any request
\* of its student, sees to it that the attempt is settled: the last one to have
\* it in hand lets go of it settled, unless a process died.  Whether anyone
\* takes it up is not promised: a sweep comes only if something queues it
\* (services.finalize_if_expired, finalize_expired_attempts).
ExpiredIsNotLetGo ==
    [][\A st \in Students :
          InProgress(st) /\ Expired(st) /\ InHand(st) /\ ~InHand(st)' =>
             Settled(st)' \/ \E s \in Students : Abort(s)]_vars

\* "Rejected once the server deadline has passed": no answer is stored after
\* the deadline of its attempt (services.save_answer, save_answers_batch).
NoLateAnswers ==
    [][\A st \in Students : answers'[st] # answers[st] => clock <= attempt[st].deadline]_vars

\* "Graded attempts sync into the assessments CA aggregation": when nobody is
\* linking or finalizing, a graded attempt of a linked exam has its grade on
\* the item (ca.link_exam_to_ca_item, services._finalize).
LinkedScoresArrive ==
    (link # None /\ (\A l \in Linkers : linker[l].pc = "idle") /\ (\A st \in Students : Unlocked(st)))
    => \A st \in Students : Started(st) /\ attempt[st].status = "graded" =>
          grades[link][st] # None
=============================================================================
