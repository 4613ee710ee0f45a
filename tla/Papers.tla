------------------------------- MODULE Papers -------------------------------
(***************************************************************************)
(* What the questions of src/backend/cbt go through: written into banks,   *)
(* drawn into a student's paper, shown in that paper's own order, answered *)
(* by the place an option is shown at, and graded against their key.  The  *)
(* clock and the row locks of an attempt are CbtAttempt.tla.               *)
(*                                                                         *)
(* Requests are one step each, but for the creation of an exam: its row,   *)
(* its banks and the check of its pool are statements of their own.        *)
(*                                                                         *)
(* Options and texts are numbers.  A key and a response are sets of them:  *)
(* one option, several options, 0 or 1 for false or true, the accepted     *)
(* texts or the text given; an empty response is a blank text.             *)
(***************************************************************************)
EXTENDS Integers, FiniteSets, Sequences

CONSTANTS
    Banks,           \* QuestionBank rows of one course
    MaxQuestions,    \* bound: questions ever written
    Payloads,        \* the questions managers post
    Normal,          \* normalize_text, of each text; 0 when nothing is left
    Exams,
    Forms,           \* the settings exams are created with
    Sitters,         \* students enrolled in the course and term
    Raw              \* the answers browsers send

QuestionType == {"mcq", "multi", "true_false", "fill_blank", "short_answer"}

CHOICE_TYPES == {"mcq", "multi"}

Texts == DOMAIN Normal

\* A question as it is posted, and as it is stored once it was accepted.
Question == [type : QuestionType, options : Nat, key : SUBSET Nat]

ExamForm == [banks : SUBSET Banks, num_questions : Nat,
             shuffle_questions : BOOLEAN, shuffle_options : BOOLEAN]

ASSUME PapersAssumption ==
    /\ MaxQuestions \in Nat
    /\ Payloads \subseteq Question
    /\ Forms \subseteq ExamForm
    /\ Texts \subseteq Nat /\ Normal \in [Texts -> Nat]
    /\ Raw \subseteq SUBSET Nat
    /\ IsFiniteSet(Banks)

\* Rows of Question by the order they were created in.
BankQuestion == [bank : Banks, question : Question]

AttemptQuestion == [question : 1..MaxQuestions, option_order : Seq(Nat)]

NoForm == [banks |-> {}, num_questions |-> 0, shuffle_questions |-> FALSE,
           shuffle_options |-> FALSE]

\* An exam row, its banks, and how far the request that creates it has come.
Exam == [stage : {"none", "row", "banks", "accepted", "refused", "abandoned"},
         form : ExamForm, banks : SUBSET Banks]

Grading == [settled : BOOLEAN, awarded : SUBSET (1..MaxQuestions), manual : BOOLEAN]

VARIABLES
    pool,       \* the questions written, in the order of created_at
    exam,       \* the Exam rows
    paper,      \* AttemptQuestion rows of each attempt, in order; none, no attempt
    response,   \* Answer.response of each attempt and question answered
    ticked,     \* what the student chose there, of what the screen showed
    grading,    \* of a settled attempt, the questions that earned their marks, and
                \* whether one waits for a human
    told,       \* what the students were told of the exams
    reply       \* how the last post of a question was answered

papersVars == <<pool, exam, paper, response, ticked, grading, told, reply>>

Attempts == Exams \X Sitters

NoExam == [stage |-> "none", form |-> NoForm, banks |-> {}]

DrawnInto(t) == {paper[t][k].question : k \in DOMAIN paper[t]}

NotGraded == [settled |-> FALSE, awarded |-> {}, manual |-> FALSE]

\* Among the types: an option order names options the question has.
PapersTypeOK ==
    /\ pool \in Seq(BankQuestion) /\ Len(pool) <= MaxQuestions
    /\ exam \in [Exams -> Exam]
    /\ paper \in [Attempts -> Seq(AttemptQuestion)]
    /\ DOMAIN response = Attempts /\ DOMAIN ticked = Attempts
    /\ \A t \in Attempts :
          /\ response[t] \in [DOMAIN response[t] -> SUBSET Nat]
          /\ ticked[t] \in [DOMAIN response[t] -> SUBSET Nat]
          /\ DOMAIN response[t] \subseteq DrawnInto(t)
    /\ grading \in [Attempts -> Grading]
    /\ told \subseteq {"scheduled", "opened"} \X Exams
    /\ reply \in {"none", "invalid", "error"}

-----------------------------------------------------------------------------
(***************************************************************************)
(* Authoring.                                                              *)
(***************************************************************************)

Option(q) == 0..(q.options - 1)

\* _validate_question_payload
Accepted(q) ==
    CASE q.type = "mcq"          -> q.options >= 2 /\ \E i \in Option(q) : q.key = {i}
      [] q.type = "multi"        -> q.options >= 2 /\ q.key # {} /\ q.key \subseteq Option(q)
      [] q.type = "true_false"   -> q.key \in {{0}, {1}}
      [] q.type = "fill_blank"   -> q.key # {} /\ q.key \subseteq {t \in Texts : Normal[t] # 0}
      [] q.type = "short_answer" -> TRUE

\* What is kept of it: no options but for a choice, no key for a human to mark.
Stored(q) ==
    [type |-> q.type,
     options |-> IF q.type \in CHOICE_TYPES THEN q.options ELSE 0,
     key |-> IF q.type = "short_answer" THEN {} ELSE q.key]

\* create_question
CreateQuestion(b, q) ==
    /\ Len(pool) < MaxQuestions
    /\ Accepted(q)
    /\ pool' = Append(pool, [bank |-> b, question |-> Stored(q)])
    /\ UNCHANGED <<exam, paper, response, ticked, grading, told, reply>>

\* BankQuestionsView.post.  The serializer requires the bank in the body, and the
\* view then passes it to create_question twice.
PostQuestion(q, namesBank) ==
    /\ reply' = IF namesBank THEN "error" ELSE "invalid"
    /\ UNCHANGED <<pool, exam, paper, response, ticked, grading, told>>

\* bank_question_pool: the questions of the exam's banks, by id.
PoolOf(e) == {n \in DOMAIN pool : pool[n].bank \in exam[e].banks}

\* create_exam up to its insert.
CreateExam(e, form) ==
    /\ exam[e].stage = "none"
    /\ form.banks # {} /\ form.num_questions > 0
    /\ exam' = [exam EXCEPT ![e] = [stage |-> "row", form |-> form, banks |-> {}]]
    /\ UNCHANGED <<pool, paper, response, ticked, grading, told, reply>>

\* exam.banks.set
SetBanks(e) ==
    /\ exam[e].stage = "row"
    /\ exam' = [exam EXCEPT ![e].stage = "banks", ![e].banks = exam[e].form.banks]
    /\ UNCHANGED <<pool, paper, response, ticked, grading, told, reply>>

\* Mutant: the pool is measured by every question of the course.
CheckPoolOfCourse(e) ==
    /\ exam[e].stage = "banks"
    /\ Len(pool) >= exam[e].form.num_questions
    /\ exam' = [exam EXCEPT ![e].stage = "accepted"]
    /\ told' = told \cup {<<"scheduled", e>>}
    /\ UNCHANGED <<pool, paper, response, ticked, grading, reply>>

\* The rest of create_exam: a refusal leaves what was written where it is.
CheckPool(e) ==
    LET filled == Cardinality(PoolOf(e)) >= exam[e].form.num_questions
    IN  /\ exam[e].stage = "banks"
        /\ exam' = [exam EXCEPT ![e].stage = IF filled THEN "accepted" ELSE "refused"]
        /\ told' = IF filled THEN told \cup {<<"scheduled", e>>} ELSE told
        /\ UNCHANGED <<pool, paper, response, ticked, grading, reply>>

\* The process dies between two statements.
CreateExamDies(e) ==
    /\ exam[e].stage \in {"row", "banks"}
    /\ exam' = [exam EXCEPT ![e].stage = "abandoned"]
    /\ UNCHANGED <<pool, paper, response, ticked, grading, told, reply>>

\* notify_opened_exams: every row whose window has begun, once.
AnnounceOpened(e) ==
    /\ exam[e].stage # "none"
    /\ <<"opened", e>> \notin told
    /\ told' = told \cup {<<"opened", e>>}
    /\ UNCHANGED <<pool, exam, paper, response, ticked, grading, reply>>

-----------------------------------------------------------------------------
(***************************************************************************)
(* The paper.                                                              *)
(***************************************************************************)

\* Mutant: the questions are drawn one by one and put back.
DrawsRepeating(e) == [1..exam[e].form.num_questions -> PoolOf(e)]

\* A sample of the pool, in the order of the bank unless it is shuffled.
Draws(e) ==
    {d \in [1..exam[e].form.num_questions -> PoolOf(e)] :
        \A j, k \in DOMAIN d : j < k =>
           d[j] # d[k] /\ (exam[e].form.shuffle_questions \/ d[j] < d[k])}

\* _option_order
OptionOrders(q, shuffle) ==
    IF q.type \notin CHOICE_TYPES THEN {<<>>}
    ELSE IF ~shuffle THEN {[p \in 1..q.options |-> p - 1]}
    ELSE {o \in [1..q.options -> Option(q)] : \A i, j \in DOMAIN o : o[i] = o[j] => i = j}

\* An order of options for each question drawn.
OrdersOf(e, d) ==
    LET orders(k) == OptionOrders(pool[d[k]].question, exam[e].form.shuffle_options)
    IN  {o \in [DOMAIN d -> UNION {orders(k) : k \in DOMAIN d}] :
           \A k \in DOMAIN d : o[k] \in orders(k)}

\* start_attempt of one who has none, with assemble_attempt_questions: when the
\* pool is too small the transaction is rolled back.
StartAttempt(e, st) ==
    /\ exam[e].stage # "none"
    /\ paper[<<e, st>>] = <<>>
    /\ \E d \in Draws(e) : \E orders \in OrdersOf(e, d) :
          paper' = [paper EXCEPT ![<<e, st>>] =
             [k \in DOMAIN d |-> [question |-> d[k], option_order |-> orders[k]]]]
    /\ UNCHANGED <<pool, exam, response, ticked, grading, told, reply>>

-----------------------------------------------------------------------------
(***************************************************************************)
(* Answers.  A screen shows the options of a question in the order of its  *)
(* row and sends back the places, from 0, of those the student ticked.     *)
(***************************************************************************)

QuestionAt(t, k) == pool[paper[t][k].question].question

\* Mutant: the places are stored as they are sent.
ToStoredAsSent(q, order, raw) == raw

\* _to_stored_response
ToStored(q, order, raw) ==
    IF q.type \in CHOICE_TYPES THEN {order[p + 1] : p \in raw} ELSE raw

\* What _to_stored_response lets pass; several places for a single choice, a
\* place beyond the options and a text for a truth value are refused.
Taken(q, order, raw) ==
    LET places == 0..(Len(order) - 1)
    IN  CASE q.type = "mcq"        -> \E p \in places : raw = {p}
          [] q.type = "multi"      -> raw \subseteq places
          [] q.type = "true_false" -> raw \in {{0}, {1}}
          [] OTHER                 -> raw = {} \/ \E x \in Texts : raw = {x}

\* AttemptQuestionSerializer.get_options, at the places the student ticked.
OnScreen(q, order, raw) ==
    IF q.type \in CHOICE_TYPES
    THEN {order[p + 1] : p \in {x \in raw : order[x + 1] \in Option(q)}}
    ELSE raw

Upserted(given, n, r) ==
    [m \in DOMAIN given \cup {n} |-> IF m = n THEN r ELSE given[m]]

\* save_answer and _upsert_answer, to the question of row k.
SaveAnswer(t, k, raw) ==
    LET row == paper[t][k]
        q == QuestionAt(t, k)
    IN  /\ ~grading[t].settled
        /\ Taken(q, row.option_order, raw)
        /\ response' = [response EXCEPT ![t] =
              Upserted(@, row.question, ToStored(q, row.option_order, raw))]
        /\ ticked' = [ticked EXCEPT ![t] =
              Upserted(@, row.question, OnScreen(q, row.option_order, raw))]
        /\ UNCHANGED <<pool, exam, paper, grading, told, reply>>

\* grading._is_correct
Correct(q, r) ==
    IF q.type = "fill_blank" THEN \E x \in r, a \in q.key : Normal[x] = Normal[a]
    ELSE r = q.key

Answered(t) == {k \in DOMAIN paper[t] : paper[t][k].question \in DOMAIN response[t]}

\* submit_attempt, finalize_if_expired or the sweep, by way of _grade_objective.
Settle(t) ==
    LET given(k) == response[t][paper[t][k].question]
        short(k) == QuestionAt(t, k).type = "short_answer"
        right == {k \in Answered(t) : ~short(k) /\ Correct(QuestionAt(t, k), given(k))}
    IN  /\ paper[t] # <<>>
        /\ ~grading[t].settled
        /\ grading' = [grading EXCEPT ![t] =
              [settled |-> TRUE, awarded |-> {paper[t][k].question : k \in right},
               manual |-> \E k \in Answered(t) : short(k) /\ given(k) # {}]]
        /\ UNCHANGED <<pool, exam, paper, response, ticked, told, reply>>

-----------------------------------------------------------------------------
PapersInit ==
    /\ pool = <<>>
    /\ exam = [e \in Exams |-> NoExam]
    /\ paper = [t \in Attempts |-> <<>>]
    /\ response = [t \in Attempts |-> <<>>]
    /\ ticked = [t \in Attempts |-> <<>>]
    /\ grading = [t \in Attempts |-> NotGraded]
    /\ told = {}
    /\ reply = "none"

PapersNext ==
    \/ \E b \in Banks, q \in Payloads : CreateQuestion(b, q)
    \/ \E e \in Exams :
          \/ \E form \in Forms : CreateExam(e, form)
          \/ SetBanks(e)
          \/ CheckPool(e)
          \/ CreateExamDies(e)
          \/ AnnounceOpened(e)
          \/ \E st \in Sitters : StartAttempt(e, st)
    \/ \E t \in Attempts :
          \/ \E k \in DOMAIN paper[t], raw \in Raw : SaveAnswer(t, k, raw)
          \/ Settle(t)

PapersSpec == PapersInit /\ [][PapersNext]_papersVars

\* With the posts of managers, none of which changes a row.
PostsNext == PapersNext \/ \E q \in Payloads, namesBank \in BOOLEAN : PostQuestion(q, namesBank)

PostsSpec == PapersInit /\ [][PostsNext]_papersVars

-----------------------------------------------------------------------------
\* Every paper that was handed out is whole, however the banks have grown and
\* whatever became of the request that created the exam: as many questions as the
\* exam asks for, none twice, each from its banks, in the order of the bank where
\* that was asked for, and with the options of a choice in some order of all of
\* them (assembly.assemble_attempt_questions).
PapersAreWhole ==
    \A e \in Exams, st \in Sitters :
       LET rows == paper[<<e, st>>]
       IN  rows # <<>> =>
              /\ Len(rows) = exam[e].form.num_questions
              /\ \A j, k \in DOMAIN rows : j < k =>
                    /\ rows[j].question # rows[k].question
                    /\ exam[e].form.shuffle_questions \/ rows[j].question < rows[k].question
              /\ \A k \in DOMAIN rows :
                    /\ rows[k].question \in PoolOf(e)
                    /\ rows[k].option_order \in OptionOrders(QuestionAt(<<e, st>>, k),
                                                             exam[e].form.shuffle_options)

\* Students who were told that an exam is scheduled find enough questions to draw
\* from when they start it (services.create_exam, whose pool check comes after the
\* insert and before the notification).
ScheduledExamsCanBeSat ==
    \A e \in Exams : <<"scheduled", e>> \in told =>
       Cardinality(PoolOf(e)) >= exam[e].form.num_questions

\* The marks of a settled attempt are those of the questions at which the options
\* ticked on the screen, in whatever order it showed them, are exactly those of
\* the key, by the last answer to each; and it waits for a human just when a short
\* answer has text (services._to_stored_response, _grade_objective).
TickedIsGraded ==
    \A t \in Attempts : grading[t].settled =>
       LET chosen(k) == ticked[t][paper[t][k].question]
           short(k) == QuestionAt(t, k).type = "short_answer"
       IN  /\ \A k \in DOMAIN paper[t] :
                 paper[t][k].question \in grading[t].awarded <=>
                    /\ k \in Answered(t)
                    /\ ~short(k)
                    /\ Correct(QuestionAt(t, k), chosen(k))
           /\ grading[t].manual <=> \E k \in Answered(t) : short(k) /\ chosen(k) # {}

-----------------------------------------------------------------------------
\* "The computer-based test ... is now open. Sign in to start your attempt.":
\* who was told so of an exam its lecturer was answered about can start it
\* (tasks.notify_opened_exams, messages._exam_opened).
OpenedExamsCanBeSat ==
    \A e \in Exams : <<"opened", e>> \in told /\ exam[e].stage \in {"accepted", "refused"} =>
       Cardinality(PoolOf(e)) >= exam[e].form.num_questions

\* "Present options in this attempt's display order; the client refers to them by
\* position in this list": read so, the answers a resume returns are the ones the
\* student ticked (views.AttemptDetailView, serializers.AnswerEchoSerializer).
EchoShowsTicked ==
    \A t \in Attempts : \A k \in Answered(t) :
       LET row == paper[t][k]
           echoed == response[t][row.question]
       IN  QuestionAt(t, k).type \in CHOICE_TYPES =>
              /\ echoed \subseteq 0..(Len(row.option_order) - 1)
              /\ OnScreen(QuestionAt(t, k), row.option_order, echoed) = ticked[t][row.question]

\* "List/add questions in a bank.": a post that names its bank and carries a
\* question the bank accepts adds a question (views.BankQuestionsView).
PostedQuestionsAreAdded ==
    [][\A q \in Payloads :
          PostQuestion(q, TRUE) /\ Accepted(q) => Len(pool') = Len(pool) + 1]_papersVars
=============================================================================
