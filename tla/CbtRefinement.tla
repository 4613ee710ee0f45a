--------------------------- MODULE CbtRefinement ----------------------------
(***************************************************************************)
(* CbtAttempt implements Sitting.                                          *)
(***************************************************************************)
EXTENDS CbtAttempt

\* The outcome of a paper with the given answers.
Outcome(paper, given) ==
    [awarded |-> Awarded(paper, given), manual |-> ManualPending(paper, given)]

\* The outcome recorded on a settled attempt.
ResultRecorded(st) ==
    IF Settled(st)
    THEN [awarded |-> attempt[st].score, manual |-> attempt[st].requires_manual_grading]
    ELSE None

PaperOf(st) == IF Started(st) THEN attempt[st].paper ELSE None

Exam == INSTANCE Sitting WITH
    Nothing <- None,
    ResultOf <- Outcome,
    paper <- [st \in Students |-> PaperOf(st)],
    given <- answers,
    result <- [st \in Students |-> ResultRecorded(st)]

\* An exam behaves like a sitting: one paper per student, resumed and never
\* redrawn, answers to it alone and until it is settled, and one result of the
\* answers given (the whole attempt life cycle of cbt/services.py).
ImplementsSitting == Exam!SittingSpec
=============================================================================
