------------------------------ MODULE Sitting -------------------------------
(***************************************************************************)
(* What an exam promises a student, without saying how: one paper, drawn   *)
(* once; answers to that paper until the sitting is closed; one result,    *)
(* which is the result of the answers given by then.  There are no clocks, *)
(* requests, locks or sweeps here.                                         *)
(***************************************************************************)
CONSTANTS Students, Questions, Responses, Papers, Nothing, ResultOf(_, _)

VARIABLES
    paper,   \* each student's questions, Nothing before the sitting
    given,   \* each student's answers
    result   \* each student's result, Nothing until the sitting is closed

sittingVars == <<paper, given, result>>

SittingInit ==
    /\ paper = [st \in Students |-> Nothing]
    /\ given = [st \in Students |-> [q \in Questions |-> Nothing]]
    /\ result = [st \in Students |-> Nothing]

Sit(st, p) ==
    /\ paper[st] = Nothing
    /\ paper' = [paper EXCEPT ![st] = p]
    /\ UNCHANGED <<given, result>>

\* Any number of answers at once; those not mentioned stay.
Answer(st, new) ==
    /\ paper[st] # Nothing
    /\ result[st] = Nothing
    /\ \A q \in Questions \ paper[st] : new[q] = given[st][q]
    /\ given' = [given EXCEPT ![st] = new]
    /\ UNCHANGED <<paper, result>>

Close(st) ==
    /\ paper[st] # Nothing
    /\ result[st] = Nothing
    /\ result' = [result EXCEPT ![st] = ResultOf(paper[st], given[st])]
    /\ UNCHANGED <<paper, given>>

SittingNext ==
    \/ \E st \in Students, p \in Papers : Sit(st, p)
    \/ \E st \in Students : \E new \in [Questions -> Responses \cup {Nothing}] : Answer(st, new)
    \/ \E st \in Students : Close(st)

SittingSpec == SittingInit /\ [][SittingNext]_sittingVars
=============================================================================
