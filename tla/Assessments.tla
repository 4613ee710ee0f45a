----------------------------- MODULE Assessments -----------------------------
(***************************************************************************)
(* The CA items of one course term (src/backend/assessments): created      *)
(* against the course's CA weight, submitted to, graded by a lecturer or   *)
(* by the CBT link, and summed into the CA a lecturer takes to the sheet.  *)
(*                                                                         *)
(* Requests run in autocommit without locks.  What a request read before   *)
(* it writes is what its first step saw; the table may have changed since. *)
(***************************************************************************)
EXTENDS Integers, FiniteSets, FiniteSetsExt

CONSTANTS
    Items,        \* titles, unique within the course term
    Weights,      \* weights a lecturer may ask for
    CaPortion,    \* course.effective_ca_weight
    Candidates,   \* enrolled students
    MaxScore,     \* the mark scale of every item
    Scores,       \* scores a lecturer may enter, or an exam produce
    MaxFiles,     \* bound: uploads for one item by one student
    Requests      \* requests handled at once

ASSUME AssessmentsAssumption ==
    /\ Weights \subseteq Int /\ IsFiniteSet(Weights)
    /\ CaPortion \in Nat
    /\ MaxScore \in Nat \ {0}
    /\ Scores \subseteq Int
    /\ MaxFiles \in Nat
    /\ IsFiniteSet(Items) /\ IsFiniteSet(Requests)
    /\ Items # {} /\ Candidates # {} /\ Requests # {}

\* Files are numbered in the order they were stored, 0 for no submission.
\* overtaken: the file went in although a grade had come after its check.
Submission == [file : 0..MaxFiles, overtaken : BOOLEAN]

\* file is the one a lecturer graded, 0 for a grade without a submission.
\* stale: another file had come by the time the grade was stored.
AssessmentGrade ==
    [score : 0..MaxScore, file : 0..MaxFiles, stale : BOOLEAN]

AssessmentRequest ==
    [pc : {"idle", "create", "submit", "grade"}, item : Items, weight : Weights \cup {0},
     student : Candidates, score : 0..MaxScore, file : 0..MaxFiles,
     found : BOOLEAN, graded : BOOLEAN]

VARIABLES
    item,         \* the weight of each item, 0 before it is created
    submission,
    grade,        \* a set of at most one grade
    request

assessmentVars == <<item, submission, grade, request>>

AssessmentsTypeOK ==
    /\ item \in [Items -> Weights \cup {0}]
    /\ submission \in [Items \X Candidates -> Submission]
    /\ grade \in [Items \X Candidates -> SUBSET AssessmentGrade]
    /\ request \in [Requests -> AssessmentRequest]

-----------------------------------------------------------------------------
IdleRequest ==
    [pc |-> "idle", item |-> CHOOSE i \in Items : TRUE, weight |-> 0,
     student |-> CHOOSE st \in Candidates : TRUE, score |-> 0, file |-> 0,
     found |-> FALSE, graded |-> FALSE]

CaWeightUsed == MapThenSumSet(LAMBDA i : item[i], Items)

\* aggregate_ca_for_student, in MaxScore-ths of a percentage point.
AggregateCa(st) ==
    MapThenSumSet(LAMBDA i : item[i] * MapThenSumSet(LAMBDA g : g.score, grade[<<i, st>>]), Items)

Finish(r) == request' = [request EXCEPT ![r] = IdleRequest]

\* Mutant: the new item's own weight is left out of the comparison.
CheckItemUsed(r, i, w) ==
    /\ request[r].pc = "idle"
    /\ w > 0 /\ CaWeightUsed <= CaPortion
    /\ item[i] = 0
    /\ request' = [request EXCEPT ![r] = [IdleRequest EXCEPT !.pc = "create", !.item = i,
                                                             !.weight = w]]
    /\ UNCHANGED <<item, submission, grade>>

\* create_item up to its insert.
CheckItem(r, i, w) ==
    /\ request[r].pc = "idle"
    /\ w > 0 /\ CaWeightUsed + w <= CaPortion
    /\ item[i] = 0
    /\ request' = [request EXCEPT ![r] = [IdleRequest EXCEPT !.pc = "create", !.item = i,
                                                             !.weight = w]]
    /\ UNCHANGED <<item, submission, grade>>

\* The insert; uniq_item_title_per_course_term refuses a second item.
InsertItem(r) ==
    /\ request[r].pc = "create"
    /\ item' = IF item[request[r].item] = 0
               THEN [item EXCEPT ![request[r].item] = request[r].weight] ELSE item
    /\ Finish(r)
    /\ UNCHANGED <<submission, grade>>

-----------------------------------------------------------------------------
\* Mutant: graded work may be replaced.
CheckSubmissionGraded(r, i, st) ==
    /\ request[r].pc = "idle"
    /\ item[i] # 0
    /\ request' = [request EXCEPT ![r] = [IdleRequest EXCEPT !.pc = "submit", !.item = i,
                       !.student = st, !.found = submission[<<i, st>>].file # 0,
                       !.graded = grade[<<i, st>>] # {}]]
    /\ UNCHANGED <<item, submission, grade>>

\* submit_file up to its write: a submission that was graded stays.
CheckSubmission(r, i, st) ==
    /\ request[r].pc = "idle"
    /\ item[i] # 0
    /\ submission[<<i, st>>].file # 0 => grade[<<i, st>>] = {}
    /\ request' = [request EXCEPT ![r] = [IdleRequest EXCEPT !.pc = "submit", !.item = i,
                       !.student = st, !.found = submission[<<i, st>>].file # 0,
                       !.graded = grade[<<i, st>>] # {}]]
    /\ UNCHANGED <<item, submission, grade>>

\* The write: a new row, which uniq_submission_per_student_item may refuse, or
\* a new file in the row that was found.
StoreSubmission(r) ==
    LET key == <<request[r].item, request[r].student>>
    IN  /\ request[r].pc = "submit"
        /\ submission[key].file < MaxFiles
        /\ submission' = IF request[r].found \/ submission[key].file = 0
                         THEN [submission EXCEPT ![key] =
                                 [file |-> @.file + 1,
                                  overtaken |-> ~request[r].graded /\ grade[key] # {}]]
                         ELSE submission
        /\ Finish(r)
        /\ UNCHANGED <<item, grade>>

-----------------------------------------------------------------------------
\* Mutant: a score is not compared with the item's scale.
CheckGradeUnranged(r, i, st, score) ==
    /\ request[r].pc = "idle"
    /\ item[i] # 0
    /\ request' = [request EXCEPT ![r] = [IdleRequest EXCEPT !.pc = "grade", !.item = i,
                       !.student = st, !.score = score, !.file = submission[<<i, st>>].file,
                       !.found = grade[<<i, st>>] # {}]]
    /\ UNCHANGED <<item, submission, grade>>

\* grade_student up to its write.
CheckGrade(r, i, st, score) ==
    /\ request[r].pc = "idle"
    /\ item[i] # 0
    /\ 0 <= score /\ score <= MaxScore
    /\ request' = [request EXCEPT ![r] = [IdleRequest EXCEPT !.pc = "grade", !.item = i,
                       !.student = st, !.score = score, !.file = submission[<<i, st>>].file,
                       !.found = grade[<<i, st>>] # {}]]
    /\ UNCHANGED <<item, submission, grade>>

\* The write: a new row, which uniq_grade_per_student_item may refuse, or all
\* fields of the row that was found.
StoreGrade(r) ==
    LET key == <<request[r].item, request[r].student>>
    IN  /\ request[r].pc = "grade"
        /\ grade' = IF request[r].found \/ grade[key] = {}
                    THEN [grade EXCEPT ![key] = {[score |-> request[r].score,
                                                  file |-> request[r].file,
                                                  stale |-> submission[key].file # request[r].file]}]
                    ELSE grade
        /\ Finish(r)
        /\ UNCHANGED <<item, submission>>

\* sync_ca_grade_for_attempt upserts in one transaction and keeps the submission.
SyncGrade(i, st, score) ==
    /\ item[i] # 0
    /\ 0 <= score /\ score <= MaxScore
    /\ grade' = [grade EXCEPT ![<<i, st>>] =
          IF @ = {} THEN {[score |-> score, file |-> 0, stale |-> FALSE]}
          ELSE {[g EXCEPT !.score = score] : g \in @}]
    /\ UNCHANGED <<item, submission, request>>

\* The request dies with its process.
RequestDies(r) ==
    /\ request[r].pc # "idle"
    /\ Finish(r)
    /\ UNCHANGED <<item, submission, grade>>

-----------------------------------------------------------------------------
AssessmentsInit ==
    /\ item = [i \in Items |-> 0]
    /\ submission = [key \in Items \X Candidates |-> [file |-> 0, overtaken |-> FALSE]]
    /\ grade = [key \in Items \X Candidates |-> {}]
    /\ request = [r \in Requests |-> IdleRequest]

AssessmentsNext ==
    \/ \E r \in Requests :
          \/ \E i \in Items, w \in Weights : CheckItem(r, i, w)
          \/ InsertItem(r)
          \/ \E i \in Items, st \in Candidates : CheckSubmission(r, i, st)
          \/ StoreSubmission(r)
          \/ \E i \in Items, st \in Candidates, score \in Scores : CheckGrade(r, i, st, score)
          \/ StoreGrade(r)
          \/ RequestDies(r)
    \/ \E i \in Items, st \in Candidates, score \in Scores : SyncGrade(i, st, score)

AssessmentsSpec == AssessmentsInit /\ [][AssessmentsNext]_assessmentVars

-----------------------------------------------------------------------------
(***************************************************************************)
(* What the CA of a course term keeps.                                     *)
(***************************************************************************)

\* "All items together may not exceed the CA weight" is checked without a lock,
\* so two creations may break it.  What create_item does keep: the items exceed
\* the CA weight by no more than the requests that passed the check together can
\* add, and the CA of no student exceeds the items (aggregate_ca_for_student).
CaBounded ==
    LET heaviest == Max({0} \cup Weights)
        pending == {r \in Requests : request[r].pc = "create"}
    IN  /\ CaWeightUsed + Cardinality(pending) * heaviest
              <= CaPortion + Cardinality(Requests) * heaviest
        /\ CaWeightUsed <= CaPortion + (Cardinality(Requests) - 1) * heaviest
        /\ \A st \in Candidates : AggregateCa(st) <= MaxScore * CaWeightUsed

\* Graded work stays what was graded: the file a grade was given for differs
\* from the file there is only when an upload and the grading ran at the same
\* time, each past its check before the other's write
\* (services.submit_file, services.grade_student).
GradedWorkStays ==
    \A key \in Items \X Candidates : \A g \in grade[key] :
       (g.file # 0 /\ submission[key].file # g.file) => submission[key].overtaken \/ g.stale
=============================================================================
