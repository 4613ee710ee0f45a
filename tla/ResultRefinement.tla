-------------------------- MODULE ResultRefinement --------------------------
(***************************************************************************)
(* ResultPipeline implements ApprovalChain.                                *)
(***************************************************************************)
EXTENDS ResultPipeline

\* The desk a sheet lies on, read off CourseResult.status.
DeskOf(stat) ==
    CASE stat = None -> "nowhere"
      [] stat \in LECTURER_EDITABLE_STATUSES -> "lecturer"
      [] stat = "submitted_to_hod" -> "hod"
      [] stat = "approved_by_hod" -> "dean"
      [] stat = "approved_by_dean" -> "senate"
      [] stat = "ratified_by_senate" -> "public"

\* The desk a petition lies on, read off ResultAmendment.status.
PetitionDeskOf(stat) ==
    CASE stat = "pending_hod" -> "hod"
      [] stat = "approved_by_hod" -> "dean"
      [] stat = "approved_by_dean" -> "senate"
      [] stat = "applied" -> "granted"
      [] stat = "returned" -> "refused"

\* The mark official readers see: the score of the current row.
CurrentMark(s, st) ==
    IF CurrentRowsOf(s, st) = {} THEN None
    ELSE rows[s][CHOOSE i \in CurrentRowsOf(s, st) : TRUE].score

PetitionOf(am) == [student |-> am.student, mark |-> am.proposed,
                   desk |-> PetitionDeskOf(am.status)]

Chain == INSTANCE ApprovalChain WITH
    Marks <- ValidScores,
    NoMark <- None,
    desk <- [s \in Sheets |-> DeskOf(status[s])],
    marks <- [s \in Sheets |-> [st \in Students |-> CurrentMark(s, st)]],
    petitions <- [s \in Sheets |-> [m \in DOMAIN amendments[s] |->
                                       PetitionOf(amendments[s][m])]]

\* The pipeline behaves like the approval chain: what readers see of a sheet
\* changes only as the chain allows (the whole of results/services.py).
ImplementsChain == Chain!ChainSpec
=============================================================================
