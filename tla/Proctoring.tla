----------------------------- MODULE Proctoring -----------------------------
(***************************************************************************)
(* The integrity flag of one attempt (src/backend/cbt/proctoring.py): the  *)
(* signals a client reports, the automatic evaluation each of them starts, *)
(* and the reviewers who dismiss or escalate what it raised.               *)
(*                                                                         *)
(* Nothing here runs in a transaction or takes a lock: each statement of a *)
(* request commits by itself, and a request may die after any of them.     *)
(***************************************************************************)
EXTENDS Naturals

CONSTANTS
    EventKinds,     \* thresholds reached by reported events
    CaptureKinds,   \* thresholds reached by anomalous webcam captures
    Threshold,      \* CBT_PROCTOR_THRESHOLDS, by kind
    MaxSignals,     \* bound: signals of a kind
    Evaluations,    \* requests of the student at once
    Reviewers       \* users who pass _require_reviewer

SignalKind == EventKinds \cup CaptureKinds

ASSUME ProctoringAssumption ==
    /\ Threshold \in [SignalKind -> Nat \ {0}]
    /\ MaxSignals \in Nat
    /\ "nobody" \notin Reviewers

CheatingFlagStatus == {"raised", "dismissed", "escalated"}

Reviewed == CheatingFlagStatus \ {"raised"}

CheatingFlag ==
    [status : CheatingFlagStatus \cup {"absent"}, reasons : SUBSET SignalKind,
     reviewed_by : Reviewers \cup {"nobody"}]

Evaluation == [pc : {"idle", "events", "captures", "flag", "notify", "refresh"},
               reasons : SUBSET SignalKind]

VARIABLES
    signals,      \* how many of each kind are recorded
    flag,         \* the attempt's only flag
    evaluation,
    notices,      \* notify_cheating_flag tasks queued
    interrupted   \* an evaluation died, and none has begun to look since

proctoringVars == <<signals, flag, evaluation, notices, interrupted>>

ProctoringTypeOK ==
    /\ signals \in [SignalKind -> Nat]
    /\ flag \in CheatingFlag
    /\ evaluation \in [Evaluations -> Evaluation]
    /\ notices \in Nat
    /\ interrupted \in BOOLEAN

-----------------------------------------------------------------------------
Tripped(kinds) == {k \in kinds : signals[k] >= Threshold[k]}

IdleEvaluation == [pc |-> "idle", reasons |-> {}]

\* Mutant: the thresholds are compared before the signal is stored.
RecordSignalLate(e, k) ==
    /\ evaluation[e].pc = "idle"
    /\ signals[k] < MaxSignals
    /\ signals' = [signals EXCEPT ![k] = @ + 1]
    /\ evaluation' = [evaluation EXCEPT ![e] = [pc |-> "captures",
                                                reasons |-> Tripped(EventKinds)]]
    /\ UNCHANGED <<flag, notices, interrupted>>

\* record_event, create_webcam_capture: the insert.
RecordSignal(e, k) ==
    /\ evaluation[e].pc = "idle"
    /\ signals[k] < MaxSignals
    /\ signals' = [signals EXCEPT ![k] = @ + 1]
    /\ evaluation' = [evaluation EXCEPT ![e] = [pc |-> "events", reasons |-> {}]]
    /\ UNCHANGED <<flag, notices, interrupted>>

\* _tripped_reasons reads the events, then the captures.
CountEvents(e) ==
    /\ evaluation[e].pc = "events"
    /\ evaluation' = [evaluation EXCEPT ![e] = [pc |-> "captures",
                                                reasons |-> Tripped(EventKinds)]]
    /\ interrupted' = FALSE
    /\ UNCHANGED <<signals, flag, notices>>

CountCaptures(e) ==
    LET reasons == evaluation[e].reasons \cup Tripped(CaptureKinds)
    IN  /\ evaluation[e].pc = "captures"
        /\ evaluation' = [evaluation EXCEPT ![e] = IF reasons = {} THEN IdleEvaluation
                             ELSE [pc |-> "flag", reasons |-> reasons]]
        /\ UNCHANGED <<signals, flag, notices, interrupted>>

\* get_or_create: uniq_flag_per_attempt makes the loser of a race read the
\* winner's flag.  A flag that was reviewed is left alone.
RaiseFlag(e) ==
    /\ evaluation[e].pc = "flag"
    /\ \/ /\ flag.status = "absent"
          /\ flag' = [status |-> "raised", reasons |-> evaluation[e].reasons,
                      reviewed_by |-> "nobody"]
          /\ evaluation' = [evaluation EXCEPT ![e].pc = "notify"]
       \/ /\ flag.status = "raised"
          /\ evaluation' = [evaluation EXCEPT ![e].pc = "refresh"]
          /\ UNCHANGED flag
       \/ /\ flag.status \in Reviewed
          /\ evaluation' = [evaluation EXCEPT ![e] = IdleEvaluation]
          /\ UNCHANGED flag
    /\ UNCHANGED <<signals, notices, interrupted>>

\* The broker may refuse the task; the flag stays.
NotifyFlag(e) ==
    /\ evaluation[e].pc = "notify"
    /\ notices' \in {notices, notices + 1}
    /\ evaluation' = [evaluation EXCEPT ![e] = IdleEvaluation]
    /\ UNCHANGED <<signals, flag, interrupted>>

\* Mutant: the flag read as raised is saved whole.
RefreshWholeFlag(e) ==
    /\ evaluation[e].pc = "refresh"
    /\ flag' = [status |-> "raised", reasons |-> evaluation[e].reasons, reviewed_by |-> "nobody"]
    /\ evaluation' = [evaluation EXCEPT ![e] = IdleEvaluation]
    /\ UNCHANGED <<signals, notices, interrupted>>

\* save(update_fields=["reasons", ...]), whatever became of the flag since.
RefreshReasons(e) ==
    /\ evaluation[e].pc = "refresh"
    /\ flag' = [flag EXCEPT !.reasons = evaluation[e].reasons]
    /\ evaluation' = [evaluation EXCEPT ![e] = IdleEvaluation]
    /\ UNCHANGED <<signals, notices, interrupted>>

EvaluationDies(e) ==
    /\ evaluation[e].pc # "idle"
    /\ evaluation' = [evaluation EXCEPT ![e] = IdleEvaluation]
    /\ interrupted' = TRUE
    /\ UNCHANGED <<signals, flag, notices>>

\* dismiss_flag, escalate_flag: neither looks at the status it replaces.
Review(r, decision) ==
    /\ flag.status # "absent"
    /\ flag' = [flag EXCEPT !.status = decision, !.reviewed_by = r]
    /\ UNCHANGED <<signals, evaluation, notices, interrupted>>

-----------------------------------------------------------------------------
ProctoringInit ==
    /\ signals = [k \in SignalKind |-> 0]
    /\ flag = [status |-> "absent", reasons |-> {}, reviewed_by |-> "nobody"]
    /\ evaluation = [e \in Evaluations |-> IdleEvaluation]
    /\ notices = 0
    /\ interrupted = FALSE

ProctoringNext ==
    \/ \E e \in Evaluations :
          \/ \E k \in SignalKind : RecordSignal(e, k)
          \/ CountEvents(e)
          \/ CountCaptures(e)
          \/ RaiseFlag(e)
          \/ NotifyFlag(e)
          \/ RefreshReasons(e)
          \/ EvaluationDies(e)
    \/ \E r \in Reviewers, decision \in Reviewed : Review(r, decision)

ProctoringSpec == ProctoringInit /\ [][ProctoringNext]_proctoringVars

-----------------------------------------------------------------------------
(***************************************************************************)
(* What proctoring promises.                                               *)
(***************************************************************************)

\* Signals never slip through between two evaluations: once all of them are
\* done, signals that reach a threshold have raised the flag, with reasons that
\* the signals bear out, and its reviewers were told at most once
\* (proctoring.evaluate_attempt_for_cheating).
SignalsRaiseFlag ==
    /\ (Tripped(SignalKind) # {} /\ ~interrupted
           /\ \A e \in Evaluations : evaluation[e].pc = "idle") => flag.status # "absent"
    /\ flag.status # "absent" => flag.reasons # {}
    /\ flag.reasons \subseteq Tripped(SignalKind)
    /\ notices <= 1

\* "Respects a reviewer's decision": an evaluation that read the flag before it
\* was reviewed does not reopen it or strike the reviewer, however late it saves
\* (proctoring.evaluate_attempt_for_cheating).
ReviewStands ==
    [][flag.status \in Reviewed =>
          /\ flag'.status \in Reviewed
          /\ flag'.reviewed_by \in Reviewers
          /\ flag'.reasons # {}]_proctoringVars
=============================================================================
