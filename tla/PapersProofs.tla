---------------------------- MODULE PapersProofs ----------------------------
(***************************************************************************)
(* Proofs about Papers: the papers handed out are whole, the exams that    *)
(* were scheduled can be sat, and marks are given for what was ticked.     *)
(***************************************************************************)
EXTENDS Papers, FiniteSetTheorems, TLAPS

(***************************************************************************)
(* The invariant.  An exam has no banks before they are set, so no paper   *)
(* is drawn while its row is bare, and a paper pins the banks it was drawn *)
(* from.  A stored answer is what was ticked, whether settled or not.      *)
(***************************************************************************)
Whole(e, st) ==
    LET rows == paper[<<e, st>>]
    IN  rows # <<>> =>
           /\ Len(rows) = exam[e].form.num_questions
           /\ \A j, k \in DOMAIN rows : j < k =>
                 /\ rows[j].question # rows[k].question
                 /\ exam[e].form.shuffle_questions \/ rows[j].question < rows[k].question
           /\ \A k \in DOMAIN rows :
                 /\ rows[k].question \in PoolOf(e)
                 /\ rows[k].option_order \in OptionOrders(QuestionAt(<<e, st>>, k),
                                                          exam[e].form.shuffle_options)

BanksAreSetOnce(e) ==
    /\ exam[e].stage # "none" => exam[e].form.num_questions > 0
    /\ exam[e].stage \in {"none", "row"} => exam[e].banks = {}

Promised(e) ==
    <<"scheduled", e>> \in told =>
       /\ exam[e].stage = "accepted"
       /\ Cardinality(PoolOf(e)) >= exam[e].form.num_questions

AsTicked(t) == \A n \in DOMAIN response[t] : response[t][n] = ticked[t][n]

Graded(t) ==
    LET chosen(k) == ticked[t][paper[t][k].question]
        short(k) == QuestionAt(t, k).type = "short_answer"
    IN  /\ \A k \in DOMAIN paper[t] :
              paper[t][k].question \in grading[t].awarded <=>
                 /\ k \in Answered(t)
                 /\ ~short(k)
                 /\ Correct(QuestionAt(t, k), chosen(k))
        /\ grading[t].manual <=> \E k \in Answered(t) : short(k) /\ chosen(k) # {}

MarkedWhenSettled(t) == grading[t].settled => paper[t] # <<>> /\ Graded(t)

PapersInv ==
    /\ PapersTypeOK
    /\ \A e \in Exams, st \in Sitters : Whole(e, st)
    /\ \A e \in Exams : BanksAreSetOnce(e) /\ Promised(e)
    /\ \A t \in Attempts : AsTicked(t) /\ MarkedWhenSettled(t)

LEMMA PapersInvSuffices == PapersInv => PapersTypeOK /\ PapersAreWhole /\ ScheduledExamsCanBeSat /\ TickedIsGraded
<1>1. PapersInv => PapersAreWhole
  BY DEF PapersInv, PapersAreWhole, Whole
<1>2. PapersInv => ScheduledExamsCanBeSat
  BY DEF PapersInv, ScheduledExamsCanBeSat, Promised
<1>3. PapersInv => TickedIsGraded
  BY DEF PapersInv, TickedIsGraded, MarkedWhenSettled, Graded
<1> QED
  BY <1>1, <1>2, <1>3 DEF PapersInv

(***************************************************************************)
(* The types.                                                              *)
(***************************************************************************)
LEMMA FormTyped == NoForm \in ExamForm /\ NoExam \in Exam /\ NotGraded \in Grading
  BY DEF NoForm, ExamForm, NoExam, Exam, NotGraded, Grading

LEMMA StoredTyped == ASSUME NEW q \in Question PROVE Stored(q) \in Question
  BY DEF Stored, Question, QuestionType

LEMMA QuestionsAreFinite ==
  ASSUME NEW rows \in Seq(BankQuestion), NEW S \in SUBSET DOMAIN rows
  PROVE  IsFiniteSet(S) /\ Cardinality(S) \in Nat
<1>1. S \subseteq 1..Len(rows) /\ IsFiniteSet(1..Len(rows))
  BY FS_Interval
<1> QED
  BY <1>1, FS_Subset, FS_CardinalityType

LEMMA PoolTyped ==
  ASSUME PapersTypeOK, NEW e \in Exams
  PROVE  PoolOf(e) \in SUBSET DOMAIN pool /\ DOMAIN pool \subseteq 1..MaxQuestions
  BY PapersAssumption DEF PoolOf, PapersTypeOK

\* An order of options has one place for each of them and names each by its index.
LEMMA OrdersName ==
  ASSUME NEW q \in Question, NEW shuffle \in BOOLEAN, NEW o \in OptionOrders(q, shuffle)
  PROVE  /\ o \in Seq(Nat)
         /\ q.type \in CHOICE_TYPES => Len(o) = q.options /\ o \in [1..q.options -> Option(q)]
<1>0. q.options \in Nat
  BY DEF Question
<1>1. CASE q.type \notin CHOICE_TYPES
  BY <1>1 DEF OptionOrders
<1>2. CASE q.type \in CHOICE_TYPES
  <2>1. o \in [1..q.options -> Option(q)]
    BY <1>0, <1>2 DEF OptionOrders, Option
  <2>2. o \in [1..q.options -> Nat]
    BY <2>1 DEF Option
  <2> QED
    BY <1>0, <2>1, <2>2
<1> QED
  BY <1>1, <1>2

LEMMA PapersBegin == PapersInit => PapersInv
<1> SUFFICES ASSUME PapersInit PROVE PapersInv
  OBVIOUS
<1>1. PapersTypeOK
  BY FormTyped, PapersAssumption DEF PapersInit, PapersTypeOK, DrawnInto, Attempts
<1>2. \A e \in Exams, st \in Sitters : Whole(e, st)
  BY DEF PapersInit, Whole, Attempts
<1>3. \A e \in Exams : BanksAreSetOnce(e) /\ Promised(e)
  BY DEF PapersInit, BanksAreSetOnce, Promised, NoExam
<1>4. \A t \in Attempts : AsTicked(t) /\ MarkedWhenSettled(t)
  BY DEF PapersInit, AsTicked, MarkedWhenSettled, NotGraded
<1> QED
  BY <1>1, <1>2, <1>3, <1>4 DEF PapersInv

(***************************************************************************)
(* What a step that leaves a paper alone keeps of it, though the banks may *)
(* have grown.                                                             *)
(***************************************************************************)
PoolGrows == DOMAIN pool \subseteq DOMAIN pool' /\ \A n \in DOMAIN pool : pool'[n] = pool[n]

LEMMA RowsTyped ==
  ASSUME PapersInv, NEW t \in Attempts, NEW k \in DOMAIN paper[t]
  PROVE  /\ paper[t][k].question \in DOMAIN pool
         /\ QuestionAt(t, k) \in Question
         /\ paper[t][k].option_order \in Seq(Nat)
         /\ QuestionAt(t, k).type \in CHOICE_TYPES =>
               /\ Len(paper[t][k].option_order) = QuestionAt(t, k).options
               /\ paper[t][k].option_order \in [1..QuestionAt(t, k).options -> Option(QuestionAt(t, k))]
<1> DEFINE order == paper[t][k].option_order
<1>1. PICK e \in Exams, st \in Sitters : t = <<e, st>>
  BY DEF Attempts
<1>2. paper[t] # <<>>
  OBVIOUS
<1>3. exam[e].form.shuffle_options \in BOOLEAN
  BY DEF PapersInv, PapersTypeOK, Exam, ExamForm
<1>4. /\ paper[t][k].question \in PoolOf(e)
      /\ order \in OptionOrders(QuestionAt(t, k), exam[e].form.shuffle_options)
  BY <1>1, <1>2 DEF PapersInv, Whole
<1>5. paper[t][k].question \in DOMAIN pool
  BY <1>4 DEF PoolOf
<1>6. pool[paper[t][k].question] \in BankQuestion
  BY <1>5 DEF PapersInv, PapersTypeOK
<1>7. QuestionAt(t, k) \in Question
  BY <1>6 DEF QuestionAt, BankQuestion
<1> QED
  BY <1>3, <1>4, <1>5, <1>7, OrdersName

LEMMA WholeStays ==
  ASSUME PapersInv, PoolGrows, NEW e \in Exams, NEW st \in Sitters,
         paper'[<<e, st>>] = paper[<<e, st>>],
         exam'[e].form = exam[e].form, exam'[e].banks = exam[e].banks
  PROVE  Whole(e, st)'
<1> DEFINE t == <<e, st>>
<1>1. t \in Attempts /\ Whole(e, st)
  BY DEF Attempts, PapersInv
<1>2. \A k \in DOMAIN paper[t] : QuestionAt(t, k)' = QuestionAt(t, k)
  BY <1>1, RowsTyped DEF QuestionAt, PoolGrows
<1>3. PoolOf(e) \subseteq PoolOf(e)'
  BY DEF PoolOf, PoolGrows
<1>4. \A k \in DOMAIN paper[t] :
         OptionOrders(QuestionAt(t, k), exam[e].form.shuffle_options)'
            = OptionOrders(QuestionAt(t, k), exam[e].form.shuffle_options)
  BY <1>2 DEF OptionOrders, Option
<1> QED
  BY <1>1, <1>3, <1>4 DEF Whole

LEMMA PromiseStays ==
  ASSUME PapersInv, PapersTypeOK', PoolGrows, NEW e \in Exams,
         exam'[e] = exam[e], <<"scheduled", e>> \in told' => <<"scheduled", e>> \in told
  PROVE  BanksAreSetOnce(e)' /\ Promised(e)'
<1>1. PoolOf(e) \subseteq PoolOf(e)'
  BY DEF PoolOf, PoolGrows
<1>2. IsFiniteSet(PoolOf(e)') /\ Cardinality(PoolOf(e)') \in Nat
  <2>1. pool' \in Seq(BankQuestion) /\ PoolOf(e)' \in SUBSET DOMAIN pool'
    BY DEF PapersTypeOK, PoolOf
  <2> QED
    BY <2>1, QuestionsAreFinite
<1>3. Cardinality(PoolOf(e)) <= Cardinality(PoolOf(e)') /\ Cardinality(PoolOf(e)) \in Nat
  BY <1>1, <1>2, FS_Subset, FS_CardinalityType
<1>4. exam[e].form.num_questions \in Nat
  BY DEF PapersInv, PapersTypeOK, Exam, ExamForm
<1>5. BanksAreSetOnce(e)'
  BY DEF BanksAreSetOnce, PapersInv
<1>6. Promised(e) => Promised(e)'
  BY <1>2, <1>3, <1>4 DEF Promised
<1> QED
  BY <1>5, <1>6 DEF PapersInv

LEMMA MarksStay ==
  ASSUME PapersInv, PoolGrows, NEW t \in Attempts,
         paper'[t] = paper[t] \/ paper[t] = <<>>,
         response'[t] = response[t], ticked'[t] = ticked[t], grading'[t] = grading[t]
  PROVE  AsTicked(t)' /\ MarkedWhenSettled(t)'
<1>1. AsTicked(t)'
  BY DEF AsTicked, PapersInv
<1>2. ASSUME grading[t].settled PROVE paper'[t] # <<>> /\ Graded(t)'
  <2>1. paper'[t] = paper[t] /\ paper[t] # <<>> /\ Graded(t)
    BY <1>2 DEF PapersInv, MarkedWhenSettled
  <2>2. \A k \in DOMAIN paper[t] : QuestionAt(t, k)' = QuestionAt(t, k)
    BY <2>1, RowsTyped DEF QuestionAt, PoolGrows
  <2>3. Answered(t)' = Answered(t) /\ Answered(t) \subseteq DOMAIN paper[t]
    BY <2>1 DEF Answered
  <2>4. \A k \in DOMAIN paper[t] : \A r : Correct(QuestionAt(t, k), r)' = Correct(QuestionAt(t, k), r)
    BY <2>2 DEF Correct
  <2> QED
    BY <2>1, <2>2, <2>3, <2>4 DEF Graded
<1> QED
  BY <1>1, <1>2 DEF MarkedWhenSettled

(***************************************************************************)
(* Authoring: the pool grows, and an exam moves on by itself.              *)
(***************************************************************************)
LEMMA PoolStays == pool' = pool => PoolGrows
  BY DEF PoolGrows

LEMMA CreateQuestionKeeps ==
  ASSUME PapersInv, NEW b \in Banks, NEW q \in Payloads, CreateQuestion(b, q)
  PROVE  PapersInv'
<1> DEFINE new == [bank |-> b, question |-> Stored(q)]
<1>1. new \in BankQuestion
  BY StoredTyped, PapersAssumption DEF BankQuestion
<1>2. pool \in Seq(BankQuestion) /\ pool' = Append(pool, new) /\ Len(pool) < MaxQuestions
  BY DEF PapersInv, PapersTypeOK, CreateQuestion
<1>3. pool' \in Seq(BankQuestion) /\ Len(pool') <= MaxQuestions /\ PoolGrows
  BY <1>1, <1>2, PapersAssumption DEF PoolGrows
<1>4. UNCHANGED <<exam, paper, response, ticked, grading, told, reply>>
  BY DEF CreateQuestion
<1>5. PapersTypeOK'
  BY <1>3, <1>4 DEF PapersInv, PapersTypeOK, DrawnInto
<1>6. \A e \in Exams, st \in Sitters : Whole(e, st)'
  BY <1>3, <1>4, WholeStays
<1>7. \A e \in Exams : BanksAreSetOnce(e)' /\ Promised(e)'
  BY <1>3, <1>4, <1>5, PromiseStays
<1>8. \A t \in Attempts : AsTicked(t)' /\ MarkedWhenSettled(t)'
  BY <1>3, <1>4, MarksStay
<1> QED
  BY <1>5, <1>6, <1>7, <1>8 DEF PapersInv

\* What exam e, the students told of it, and its papers need when no other changes.
LEMMA ExamStep ==
  ASSUME PapersInv, NEW e \in Exams, exam' \in [Exams -> Exam],
         \A f \in Exams \ {e} : exam'[f] = exam[f],
         \/ exam'[e].form = exam[e].form /\ exam'[e].banks = exam[e].banks
         \/ exam[e].stage \in {"none", "row"},
         told' \subseteq {"scheduled", "opened"} \X Exams,
         \A f \in Exams \ {e} : <<"scheduled", f>> \in told' => <<"scheduled", f>> \in told,
         UNCHANGED <<pool, paper, response, ticked, grading, reply>>,
         BanksAreSetOnce(e)', Promised(e)'
  PROVE  PapersInv'
<1>1. PoolGrows
  BY PoolStays
<1>2. PapersTypeOK'
  BY DEF PapersInv, PapersTypeOK, DrawnInto
<1>3. ASSUME NEW f \in Exams, NEW st \in Sitters PROVE Whole(f, st)'
  <2>1. CASE exam'[f].form = exam[f].form /\ exam'[f].banks = exam[f].banks
    BY <1>1, <2>1, WholeStays
  <2>2. CASE f = e /\ exam[e].stage \in {"none", "row"}
    <3>1. exam[e].banks = {} /\ Whole(e, st) /\ <<e, st>> \in Attempts
      BY <2>2 DEF PapersInv, BanksAreSetOnce, Attempts
    <3>2. PoolOf(e) = {} /\ paper[<<e, st>>] \in Seq(AttemptQuestion)
      BY <3>1 DEF PoolOf, PapersInv, PapersTypeOK
    <3>3. paper[<<e, st>>] = <<>>
      BY <3>1, <3>2 DEF Whole
    <3> QED
      BY <2>2, <3>3 DEF Whole
  <2> QED
    BY <2>1, <2>2
<1>4. \A f \in Exams \ {e} : BanksAreSetOnce(f)' /\ Promised(f)'
  BY <1>1, <1>2, PromiseStays
<1>5. \A t \in Attempts : AsTicked(t)' /\ MarkedWhenSettled(t)'
  BY <1>1, MarksStay
<1> QED
  BY <1>2, <1>3, <1>4, <1>5 DEF PapersInv

LEMMA CreateExamKeeps ==
  ASSUME PapersInv, NEW e \in Exams, NEW form \in Forms, CreateExam(e, form)
  PROVE  PapersInv'
<1>1. exam' = [exam EXCEPT ![e] = [stage |-> "row", form |-> form, banks |-> {}]]
  BY DEF CreateExam
<1>2. exam \in [Exams -> Exam] /\ form \in ExamForm /\ form.num_questions > 0 /\ exam[e].stage = "none"
  BY PapersAssumption DEF PapersInv, PapersTypeOK, CreateExam
<1>3. [stage |-> "row", form |-> form, banks |-> {}] \in Exam
  BY <1>2 DEF Exam
<1>4. exam' \in [Exams -> Exam]
  BY <1>1, <1>2, <1>3
<1>5. BanksAreSetOnce(e)' /\ Promised(e)'
  BY <1>1, <1>2 DEF BanksAreSetOnce, Promised, CreateExam, PapersInv
<1> QED
  BY <1>1, <1>2, <1>4, <1>5, ExamStep DEF CreateExam, PapersInv, PapersTypeOK

LEMMA SetBanksKeeps == ASSUME PapersInv, NEW e \in Exams, SetBanks(e) PROVE PapersInv'
<1>1. exam \in [Exams -> Exam] /\ exam[e].stage = "row"
  BY DEF PapersInv, PapersTypeOK, SetBanks
<1>2. exam' = [exam EXCEPT ![e] = [exam[e] EXCEPT !.stage = "banks", !.banks = exam[e].form.banks]]
  BY <1>1 DEF SetBanks
<1>3. exam' \in [Exams -> Exam] /\ exam'[e].form = exam[e].form /\ exam'[e].stage = "banks"
  BY <1>1, <1>2 DEF Exam, ExamForm
<1>4. BanksAreSetOnce(e)' /\ Promised(e)'
  BY <1>1, <1>3 DEF BanksAreSetOnce, Promised, SetBanks, PapersInv
<1> QED
  BY <1>1, <1>2, <1>3, <1>4, ExamStep DEF SetBanks, PapersInv, PapersTypeOK

LEMMA CheckPoolKeeps == ASSUME PapersInv, NEW e \in Exams, CheckPool(e) PROVE PapersInv'
<1>1. exam \in [Exams -> Exam] /\ exam[e].stage = "banks" /\ told \subseteq {"scheduled", "opened"} \X Exams
  BY DEF PapersInv, PapersTypeOK, CheckPool
<1>2. PICK stage \in {"accepted", "refused"} : exam' = [exam EXCEPT ![e] = [exam[e] EXCEPT !.stage = stage]]
  BY <1>1 DEF CheckPool
<1>3. /\ exam' \in [Exams -> Exam] /\ exam'[e].stage = stage
      /\ exam'[e].form = exam[e].form /\ exam'[e].banks = exam[e].banks
  BY <1>1, <1>2 DEF Exam
<1>4. PoolOf(e)' = PoolOf(e)
  BY <1>3 DEF CheckPool, PoolOf
<1>5. <<"scheduled", e>> \notin told
  BY <1>1 DEF PapersInv, Promised
<1>6. /\ told' \subseteq {"scheduled", "opened"} \X Exams
      /\ \A f \in Exams \ {e} : <<"scheduled", f>> \in told' => <<"scheduled", f>> \in told
  BY <1>1 DEF CheckPool
<1>7. <<"scheduled", e>> \in told' =>
         stage = "accepted" /\ Cardinality(PoolOf(e)) >= exam[e].form.num_questions
  BY <1>1, <1>3, <1>5 DEF CheckPool
<1>8. BanksAreSetOnce(e)' /\ Promised(e)'
  BY <1>1, <1>3, <1>4, <1>7 DEF BanksAreSetOnce, Promised, PapersInv
<1> QED
  BY <1>1, <1>2, <1>3, <1>6, <1>8, ExamStep DEF CheckPool

LEMMA CreateExamDiesKeeps == ASSUME PapersInv, NEW e \in Exams, CreateExamDies(e) PROVE PapersInv'
<1>1. exam \in [Exams -> Exam] /\ exam[e].stage \in {"row", "banks"}
  BY DEF PapersInv, PapersTypeOK, CreateExamDies
<1>2. exam' = [exam EXCEPT ![e] = [exam[e] EXCEPT !.stage = "abandoned"]]
  BY <1>1 DEF CreateExamDies
<1>3. /\ exam' \in [Exams -> Exam] /\ exam'[e].stage = "abandoned"
      /\ exam'[e].form = exam[e].form /\ exam'[e].banks = exam[e].banks
  BY <1>1, <1>2 DEF Exam
<1>4. BanksAreSetOnce(e)' /\ Promised(e)'
  BY <1>1, <1>3 DEF BanksAreSetOnce, Promised, CreateExamDies, PapersInv
<1> QED
  BY <1>1, <1>2, <1>3, <1>4, ExamStep DEF CreateExamDies, PapersInv, PapersTypeOK

LEMMA AnnounceKeeps == ASSUME PapersInv, NEW e \in Exams, AnnounceOpened(e) PROVE PapersInv'
<1>1. PapersTypeOK' /\ PoolGrows
  BY PoolStays DEF PapersInv, PapersTypeOK, AnnounceOpened, DrawnInto
<1>2. \A f \in Exams : <<"scheduled", f>> \in told' => <<"scheduled", f>> \in told
  BY DEF AnnounceOpened
<1>3. \A f \in Exams, st \in Sitters : Whole(f, st)'
  BY <1>1, WholeStays DEF AnnounceOpened
<1>4. \A f \in Exams : BanksAreSetOnce(f)' /\ Promised(f)'
  BY <1>1, <1>2, PromiseStays DEF AnnounceOpened
<1>5. \A t \in Attempts : AsTicked(t)' /\ MarkedWhenSettled(t)'
  BY <1>1, MarksStay DEF AnnounceOpened
<1> QED
  BY <1>1, <1>3, <1>4, <1>5 DEF PapersInv

(***************************************************************************)
(* The paper: a draw is of as many distinct questions as the exam asks     *)
(* for, and each gets an order of its own options.                         *)
(***************************************************************************)
LEMMA StartKeeps ==
  ASSUME PapersInv, NEW e \in Exams, NEW st \in Sitters, StartAttempt(e, st)
  PROVE  PapersInv'
<1> DEFINE t == <<e, st>>
           n == exam[e].form.num_questions
<1>1. t \in Attempts /\ paper[t] = <<>> /\ paper \in [Attempts -> Seq(AttemptQuestion)]
  BY DEF Attempts, StartAttempt, PapersInv, PapersTypeOK
<1>2. n \in Nat /\ exam[e].form.shuffle_options \in BOOLEAN /\ exam[e].form.shuffle_questions \in BOOLEAN
  BY DEF PapersInv, PapersTypeOK, Exam, ExamForm
<1>3. PICK d \in Draws(e) : \E orders \in OrdersOf(e, d) :
         paper' = [paper EXCEPT ![t] =
            [k \in DOMAIN d |-> [question |-> d[k], option_order |-> orders[k]]]]
  BY DEF StartAttempt
<1>4. PICK orders \in OrdersOf(e, d) :
         paper' = [paper EXCEPT ![t] =
            [k \in DOMAIN d |-> [question |-> d[k], option_order |-> orders[k]]]]
  BY <1>3
<1>5. /\ d \in [1..n -> PoolOf(e)]
      /\ \A j, k \in 1..n : j < k =>
            d[j] # d[k] /\ (exam[e].form.shuffle_questions \/ d[j] < d[k])
  BY DEF Draws
<1>6. \A k \in 1..n :
         orders[k] \in OptionOrders(pool[d[k]].question, exam[e].form.shuffle_options)
  BY <1>5 DEF OrdersOf
<1>7. \A k \in 1..n : d[k] \in DOMAIN pool /\ d[k] \in 1..MaxQuestions /\ d[k] \in PoolOf(e)
  BY <1>5, PoolTyped DEF PapersInv
<1>8. \A k \in 1..n : orders[k] \in Seq(Nat)
  <2> TAKE k \in 1..n
  <2>1. pool[d[k]] \in BankQuestion
    BY <1>7 DEF PapersInv, PapersTypeOK
  <2>2. pool[d[k]].question \in Question
    BY <2>1 DEF BankQuestion
  <2> QED
    BY <1>2, <1>6, <2>2, OrdersName
<1> DEFINE rows == [k \in 1..n |-> [question |-> d[k], option_order |-> orders[k]]]
<1>9. rows \in [1..n -> AttemptQuestion]
  BY <1>7, <1>8 DEF AttemptQuestion
<1>10. rows \in Seq(AttemptQuestion) /\ Len(rows) = n /\ DOMAIN rows = 1..n
  <2>1. ASSUME NEW f \in [1..n -> AttemptQuestion]
        PROVE  f \in Seq(AttemptQuestion) /\ Len(f) = n /\ DOMAIN f = 1..n
    BY <1>2
  <2> HIDE DEF rows
  <2> QED
    BY <1>9, <2>1
<1>11. paper' = [paper EXCEPT ![t] = rows]
  BY <1>4, <1>5
<1>12. /\ paper'[t] = rows /\ paper' \in [Attempts -> Seq(AttemptQuestion)]
       /\ \A u \in Attempts \ {t} : paper'[u] = paper[u]
  BY <1>1, <1>10, <1>11
<1>13. UNCHANGED <<pool, exam, response, ticked, grading, told, reply>> /\ PoolGrows
  BY PoolStays DEF StartAttempt
<1>14. DOMAIN response[t] = {}
  BY <1>1 DEF PapersInv, PapersTypeOK, DrawnInto
<1>15. PapersTypeOK'
  <2>1. \A u \in Attempts \ {t} : DrawnInto(u)' = DrawnInto(u)
    BY <1>12 DEF DrawnInto
  <2>2. ASSUME NEW u \in Attempts PROVE (DOMAIN response[u] \subseteq DrawnInto(u))'
    <3>1. CASE u = t
      BY <1>13, <1>14, <3>1
    <3>2. CASE u # t
      BY <1>13, <2>1, <3>2 DEF PapersInv, PapersTypeOK
    <3> QED
      BY <3>1, <3>2
  <2> QED
    BY <1>12, <1>13, <2>2 DEF PapersInv, PapersTypeOK
<1>16. Whole(e, st)'
  <2>1. \A k \in 1..n : rows[k].question = d[k] /\ rows[k].option_order = orders[k]
    OBVIOUS
  <2>2. \A k \in 1..n : QuestionAt(t, k)' = pool[d[k]].question
    BY <1>12, <1>13, <2>1 DEF QuestionAt
  <2>3. PoolOf(e)' = PoolOf(e)
    BY <1>13 DEF PoolOf
  <2>4. \A k \in 1..n : (OptionOrders(QuestionAt(t, k), exam[e].form.shuffle_options))'
                          = OptionOrders(pool[d[k]].question, exam[e].form.shuffle_options)
    BY <1>13, <2>2 DEF OptionOrders, Option
  <2> HIDE DEF rows
  <2> QED
    <3>1. paper'[t] = rows /\ exam'[e].form = exam[e].form
      BY <1>12, <1>13
    <3>2. \A j, k \in 1..n : j < k =>
             /\ rows[j].question # rows[k].question
             /\ exam[e].form.shuffle_questions \/ rows[j].question < rows[k].question
      BY <1>5, <2>1
    <3>3. \A k \in 1..n : rows[k].question \in PoolOf(e)'
      BY <1>7, <2>1, <2>3
    <3>4. \A k \in 1..n :
             rows[k].option_order \in OptionOrders(QuestionAt(t, k), exam[e].form.shuffle_options)'
      BY <1>6, <2>1, <2>4
    <3> QED
      BY <1>10, <3>1, <3>2, <3>3, <3>4 DEF Whole
<1>17. ASSUME NEW f \in Exams, NEW sf \in Sitters PROVE Whole(f, sf)'
  <2>1. CASE <<f, sf>> = t
    BY <1>16, <2>1
  <2>2. CASE <<f, sf>> # t
    <3>1. paper'[<<f, sf>>] = paper[<<f, sf>>]
      BY <1>12, <2>2 DEF Attempts
    <3>2. exam'[f].form = exam[f].form /\ exam'[f].banks = exam[f].banks
      BY <1>13
    <3> QED
      BY <1>13, <3>1, <3>2, WholeStays
  <2> QED
    BY <2>1, <2>2
<1>18. \A f \in Exams : BanksAreSetOnce(f)' /\ Promised(f)'
  BY <1>13, <1>15, PromiseStays
<1>19. \A u \in Attempts : AsTicked(u)' /\ MarkedWhenSettled(u)'
  BY <1>1, <1>12, <1>13, MarksStay
<1> QED
  BY <1>15, <1>17, <1>18, <1>19 DEF PapersInv

(***************************************************************************)
(* Answers.  The places a screen was ticked at, mapped by the order of the *)
(* row, are the options it showed there: this is where TickedIsGraded      *)
(* rests on papers being whole.                                            *)
(***************************************************************************)
LEMMA StoredAsShown ==
  ASSUME PapersInv, NEW t \in Attempts, NEW k \in DOMAIN paper[t], NEW raw \in Raw,
         Taken(QuestionAt(t, k), paper[t][k].option_order, raw)
  PROVE  LET q == QuestionAt(t, k)
             order == paper[t][k].option_order
         IN  ToStored(q, order, raw) = OnScreen(q, order, raw) /\ ToStored(q, order, raw) \in SUBSET Nat
<1> DEFINE q == QuestionAt(t, k)
           order == paper[t][k].option_order
<1>1. q \in Question /\ q.options \in Nat /\ order \in Seq(Nat) /\ raw \in SUBSET Nat
  BY RowsTyped, PapersAssumption DEF Question
<1>2. CASE q.type \notin CHOICE_TYPES
  BY <1>1, <1>2 DEF ToStored, OnScreen
<1>3. CASE q.type \in CHOICE_TYPES
  <2>1. Len(order) = q.options /\ order \in [1..q.options -> Option(q)]
    BY <1>3, RowsTyped
  <2>2. raw \subseteq 0..(Len(order) - 1)
    BY <1>3 DEF Taken, CHOICE_TYPES
  <2>3. \A p \in raw : order[p + 1] \in Option(q)
    <3>1. ASSUME NEW p \in raw PROVE p \in Nat /\ p + 1 \in 1..q.options
      <4>1. p \in 0..(q.options - 1)
        BY <2>1, <2>2
      <4> HIDE DEF q
      <4> QED
        BY <1>1, <4>1
    <3>2. ASSUME NEW o \in [1..q.options -> Option(q)], NEW i \in 1..q.options PROVE o[i] \in Option(q)
      OBVIOUS
    <3> QED
      BY <2>1, <3>1, <3>2
  <2>4. {x \in raw : order[x + 1] \in Option(q)} = raw
    BY <2>3
  <2>5. OnScreen(q, order, raw) = {order[p + 1] : p \in raw}
    BY <1>3, <2>4 DEF OnScreen
  <2>6. {order[p + 1] : p \in raw} \in SUBSET Nat
    BY <1>1, <2>3 DEF Option
  <2> QED
    BY <1>3, <2>5, <2>6 DEF ToStored
<1> QED
  BY <1>2, <1>3

LEMMA SaveAnswerKeeps ==
  ASSUME PapersInv, NEW t \in Attempts, NEW k \in DOMAIN paper[t], NEW raw \in Raw,
         SaveAnswer(t, k, raw)
  PROVE  PapersInv'
<1> DEFINE n == paper[t][k].question
           D == DOMAIN response[t]
<1>1. PICK r \in SUBSET Nat :
         /\ r = ToStored(QuestionAt(t, k), paper[t][k].option_order, raw)
         /\ r = OnScreen(QuestionAt(t, k), paper[t][k].option_order, raw)
  BY StoredAsShown DEF SaveAnswer
<1>2. response[t] \in [D -> SUBSET Nat] /\ ticked[t] \in [D -> SUBSET Nat]
  BY DEF PapersInv, PapersTypeOK
<1>3. /\ response' = [response EXCEPT ![t] = Upserted(response[t], n, r)]
      /\ ticked' = [ticked EXCEPT ![t] = Upserted(ticked[t], n, r)]
      /\ UNCHANGED <<pool, exam, paper, grading, told, reply>> /\ ~grading[t].settled
  BY <1>1 DEF SaveAnswer
<1>4. /\ \A u \in Attempts \ {t} : response'[u] = response[u] /\ ticked'[u] = ticked[u]
      /\ response'[t] = Upserted(response[t], n, r) /\ ticked'[t] = Upserted(ticked[t], n, r)
      /\ DOMAIN response' = Attempts /\ DOMAIN ticked' = Attempts
  BY <1>3 DEF PapersInv, PapersTypeOK
<1>5. /\ response'[t] \in [D \cup {n} -> SUBSET Nat] /\ ticked'[t] \in [D \cup {n} -> SUBSET Nat]
      /\ DOMAIN response'[t] = D \cup {n}
      /\ \A m \in D \cup {n} : response'[t][m] = ticked'[t][m]
  <2>1. /\ Upserted(response[t], n, r) \in [D \cup {n} -> SUBSET Nat]
        /\ DOMAIN Upserted(response[t], n, r) = D \cup {n}
        /\ Upserted(response[t], n, r)[n] = r
        /\ \A m \in D \ {n} : Upserted(response[t], n, r)[m] = response[t][m]
    BY <1>2 DEF Upserted
  <2>2. /\ Upserted(ticked[t], n, r) \in [D \cup {n} -> SUBSET Nat]
        /\ Upserted(ticked[t], n, r)[n] = r
        /\ \A m \in D \ {n} : Upserted(ticked[t], n, r)[m] = ticked[t][m]
    BY <1>2 DEF Upserted
  <2>3. \A m \in D : response[t][m] = ticked[t][m]
    BY DEF PapersInv, AsTicked
  <2>4. response'[t] = Upserted(response[t], n, r) /\ ticked'[t] = Upserted(ticked[t], n, r)
    BY <1>4
  <2>5. \A m \in D \cup {n} : Upserted(response[t], n, r)[m] = Upserted(ticked[t], n, r)[m]
    BY <2>1, <2>2, <2>3
  <2> QED
    BY <2>1, <2>2, <2>4, <2>5
<1>6. \A u \in Attempts : DrawnInto(u)' = DrawnInto(u)
  BY <1>3 DEF DrawnInto
<1>7. n \in DrawnInto(t)
  BY DEF DrawnInto
<1>8. PapersTypeOK'
  <2>1. ASSUME NEW u \in Attempts
        PROVE  /\ response'[u] \in [DOMAIN response'[u] -> SUBSET Nat]
               /\ ticked'[u] \in [DOMAIN response'[u] -> SUBSET Nat]
               /\ DOMAIN response'[u] \subseteq DrawnInto(u)'
    <3>1. CASE u = t
      BY <1>5, <1>6, <1>7, <3>1 DEF PapersInv, PapersTypeOK
    <3>2. CASE u # t
      BY <1>4, <1>6, <3>2 DEF PapersInv, PapersTypeOK
    <3> QED
      BY <3>1, <3>2
  <2> QED
    BY <1>3, <1>4, <2>1 DEF PapersInv, PapersTypeOK
<1>9. PoolGrows
  BY <1>3, PoolStays
<1>10. \A f \in Exams, sf \in Sitters : Whole(f, sf)'
  BY <1>3, <1>9, WholeStays
<1>11. \A f \in Exams : BanksAreSetOnce(f)' /\ Promised(f)'
  BY <1>3, <1>8, <1>9, PromiseStays
<1>12. ASSUME NEW u \in Attempts PROVE AsTicked(u)' /\ MarkedWhenSettled(u)'
  <2>1. CASE u = t
    BY <1>3, <1>5, <2>1 DEF PapersInv, AsTicked, MarkedWhenSettled
  <2>2. CASE u # t
    BY <1>3, <1>4, <1>9, <2>2, MarksStay
  <2> QED
    BY <2>1, <2>2
<1> QED
  BY <1>8, <1>10, <1>11, <1>12 DEF PapersInv

\* Grading reads the stored answers, which are the ones ticked.
LEMMA SettleKeeps == ASSUME PapersInv, NEW t \in Attempts, Settle(t) PROVE PapersInv'
<1> DEFINE given(k) == response[t][paper[t][k].question]
           chosen(k) == ticked[t][paper[t][k].question]
           short(k) == QuestionAt(t, k).type = "short_answer"
           right == {k \in Answered(t) : ~short(k) /\ Correct(QuestionAt(t, k), given(k))}
           graded == [settled |-> TRUE, awarded |-> {paper[t][k].question : k \in right},
                      manual |-> \E k \in Answered(t) : short(k) /\ given(k) # {}]
<1>1. /\ UNCHANGED <<pool, exam, paper, response, ticked, told, reply>> /\ paper[t] # <<>>
      /\ grading' = [grading EXCEPT ![t] = graded]
  BY DEF Settle
<1>2. right \subseteq DOMAIN paper[t] /\ Answered(t) \subseteq DOMAIN paper[t]
  BY DEF Answered
<1>3. \A k \in DOMAIN paper[t] : paper[t][k].question \in 1..MaxQuestions
  BY RowsTyped, PapersAssumption DEF PapersInv, PapersTypeOK
<1>4. graded \in Grading
  BY <1>2, <1>3 DEF Grading
<1>5. \A k \in Answered(t) : given(k) = chosen(k)
  BY DEF Answered, PapersInv, AsTicked
<1>6. /\ grading'[t] = graded /\ grading' \in [Attempts -> Grading]
      /\ \A u \in Attempts \ {t} : grading'[u] = grading[u]
  BY <1>1, <1>4 DEF PapersInv, PapersTypeOK
<1>7. PapersTypeOK' /\ PoolGrows
  <2>1. \A u \in Attempts : DrawnInto(u)' = DrawnInto(u)
    BY <1>1 DEF DrawnInto
  <2> HIDE DEF graded
  <2>2. PapersTypeOK'
    BY <1>1, <1>6, <2>1 DEF PapersInv, PapersTypeOK
  <2> QED
    BY <1>1, <2>2, PoolStays
<1>8. ASSUME NEW k \in DOMAIN paper[t]
      PROVE  paper[t][k].question \in graded.awarded <=>
                k \in Answered(t) /\ ~short(k) /\ Correct(QuestionAt(t, k), chosen(k))
  <2>1. \A j \in DOMAIN paper[t] : paper[t][j].question = paper[t][k].question =>
           /\ QuestionAt(t, j) = QuestionAt(t, k) /\ given(j) = given(k)
           /\ j \in Answered(t) <=> k \in Answered(t)
    BY DEF QuestionAt, Answered
  <2>2. paper[t][k].question \in graded.awarded <=> \E j \in right : paper[t][j].question = paper[t][k].question
    OBVIOUS
  <2>3. (\E j \in right : paper[t][j].question = paper[t][k].question) <=> k \in right
    BY <1>2, <2>1
  <2> QED
    BY <1>5, <2>2, <2>3
<1>9. graded.manual <=> \E k \in Answered(t) : short(k) /\ chosen(k) # {}
  BY <1>5
<1>10. /\ \A k \in DOMAIN paper[t] : QuestionAt(t, k)' = QuestionAt(t, k)
       /\ Answered(t)' = Answered(t)
       /\ \A q, r : Correct(q, r)' = Correct(q, r)
  BY <1>1 DEF QuestionAt, Answered, Correct
<1>11. Graded(t)'
  <2> HIDE DEF graded
  <2> QED
    BY <1>1, <1>2, <1>6, <1>8, <1>9, <1>10 DEF Graded
<1>12. \A u \in Attempts : AsTicked(u)' /\ MarkedWhenSettled(u)'
  <2> TAKE u \in Attempts
  <2>1. CASE u = t
    BY <1>1, <1>11, <2>1 DEF PapersInv, AsTicked, MarkedWhenSettled
  <2>2. CASE u # t
    BY <1>1, <1>6, <1>7, <2>2, MarksStay
  <2> QED
    BY <2>1, <2>2
<1>13. \A f \in Exams, sf \in Sitters : Whole(f, sf)'
  BY <1>1, <1>7, WholeStays
<1>14. \A f \in Exams : BanksAreSetOnce(f)' /\ Promised(f)'
  BY <1>1, <1>7, PromiseStays
<1> QED
  BY <1>7, <1>12, <1>13, <1>14 DEF PapersInv

LEMMA PapersStep == PapersInv /\ [PapersNext]_papersVars => PapersInv'
<1> SUFFICES ASSUME PapersInv, [PapersNext]_papersVars PROVE PapersInv'
  OBVIOUS
<1>1. CASE UNCHANGED papersVars
  <2>1. UNCHANGED <<pool, exam, paper, response, ticked, grading, told, reply>> /\ PoolGrows
    BY <1>1, PoolStays DEF papersVars
  <2>2. PapersTypeOK'
    BY <2>1 DEF PapersInv, PapersTypeOK, DrawnInto
  <2>3. \A e \in Exams, st \in Sitters : Whole(e, st)'
    BY <2>1, WholeStays
  <2>4. \A e \in Exams : BanksAreSetOnce(e)' /\ Promised(e)'
    BY <2>1, <2>2, PromiseStays
  <2>5. \A t \in Attempts : AsTicked(t)' /\ MarkedWhenSettled(t)'
    BY <2>1, MarksStay
  <2> QED
    BY <2>2, <2>3, <2>4, <2>5 DEF PapersInv
<1>2. CASE \E b \in Banks, q \in Payloads : CreateQuestion(b, q)
  BY <1>2, CreateQuestionKeeps
<1>3. ASSUME NEW e \in Exams,
             \/ \E form \in Forms : CreateExam(e, form)
             \/ SetBanks(e) \/ CheckPool(e) \/ CreateExamDies(e) \/ AnnounceOpened(e)
             \/ \E st \in Sitters : StartAttempt(e, st)
      PROVE  PapersInv'
  BY <1>3, CreateExamKeeps, SetBanksKeeps, CheckPoolKeeps, CreateExamDiesKeeps, AnnounceKeeps, StartKeeps
<1>4. ASSUME NEW t \in Attempts,
             (\E k \in DOMAIN paper[t], raw \in Raw : SaveAnswer(t, k, raw)) \/ Settle(t)
      PROVE  PapersInv'
  BY <1>4, SaveAnswerKeeps, SettleKeeps
<1> QED
  BY <1>1, <1>2, <1>3, <1>4 DEF PapersNext

LEMMA PapersInvariant == PapersSpec => []PapersInv
<1> QED
  BY PapersBegin, PapersStep, PTL DEF PapersSpec

\* Every record of the papers is of its columns' types.
THEOREM PapersTyped == PapersSpec => []PapersTypeOK
<1> QED
  BY PapersInvariant, PapersInvSuffices, PTL

\* For any banks, exams, settings and answers, a paper that was handed out is
\* whole: assembly.assemble_attempt_questions, however the pool has grown and
\* wherever the request that created the exam stopped.
THEOREM PapersWhole == PapersSpec => []PapersAreWhole
<1> QED
  BY PapersInvariant, PapersInvSuffices, PTL

\* An exam that services.create_exam announced as scheduled has the questions it
\* asks for, for good.
THEOREM ScheduledHolds == PapersSpec => []ScheduledExamsCanBeSat
<1> QED
  BY PapersInvariant, PapersInvSuffices, PTL

\* Whatever order a screen shows the options in, the marks of a settled attempt
\* are those of what was ticked on it (services._to_stored_response,
\* _grade_objective).
THEOREM MarksAreForTicks == PapersSpec => []TickedIsGraded
<1> QED
  BY PapersInvariant, PapersInvSuffices, PTL
=============================================================================
