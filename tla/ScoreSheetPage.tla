--------------------------- MODULE ScoreSheetPage ---------------------------
(***************************************************************************)
(* The lecturer's page on one result sheet                                 *)
(* (src/frontend/src/features/results/ScoreSheetPage.tsx) and the server   *)
(* it talks to, as the page sees it. Marks are typed into drafts; "save"   *)
(* creates the sheet if need be and sends the changed rows one by one;     *)
(* "submit" sends the sheet on. Meanwhile other people record marks on the *)
(* same sheet, submit it and return it, and any answer may be lost.        *)
(***************************************************************************)
EXTENDS FiniteSets

CONSTANTS
    Class,         \* the students on the roster
    Marks,         \* what can be typed
    Valid          \* the marks scoreError and the server accept

ASSUME ScoreSheetPageAssumption ==
    /\ Class # {}
    /\ Valid \subseteq Marks /\ "none" \notin Marks

VARIABLES
    sheet,       \* the server's sheet: "none" or its status
    marks,       \* the server's current marks
    result,      \* the page: what it knows of the sheet, "closed" when it is not open
    drafts, saved,
    saving,      \* the page's save in progress
    confirmSubmit, \* whether the dialog that submits is open
    submitting,  \* the page's submission in progress
    typed,       \* the last mark typed for each student since the page was opened
    recorded     \* students for whom the server is known to have had that mark

dialog == <<confirmSubmit, submitting>>

sheetPageVars == <<sheet, marks, result, drafts, saved, saving, dialog, typed, recorded>>

SheetStatus == {"none", "draft", "submitted", "returned"}

Mark == Marks \cup {"none"}

Saving == [pc : {"idle", "create", "row", "answer"}, todo : SUBSET Class, row : Class,
           answer : {"stored", "refused", "waiting"}]

SheetPageTypeOK ==
    /\ sheet \in SheetStatus /\ result \in SheetStatus \cup {"closed"}
    /\ marks \in [Class -> Mark] /\ saved \in [Class -> Mark] /\ typed \in [Class -> Mark]
    /\ recorded \subseteq Class
    /\ drafts \in [Class -> Mark]
    /\ saving \in Saving
    /\ confirmSubmit \in BOOLEAN
    /\ submitting \in {"idle", "sent", "done", "refused"}

IdleSave == [pc |-> "idle", todo |-> {}, row |-> CHOOSE s \in Class : TRUE, answer |-> "waiting"]

NoMarks == [s \in Class |-> "none"]

SheetEditable(status) == status \in {"none", "draft", "returned"}

\* isDirty: there is a draft, and it is not the saved mark.
Dirty(s) == drafts[s] # "none" /\ drafts[s] # saved[s]

SheetOpen == result # "closed"

-----------------------------------------------------------------------------
\* Opening the page loads the sheet; leaving it drops the drafts and the answers due.
OpenSheetPage ==
    /\ ~SheetOpen
    /\ result' = sheet
    /\ saved' = marks
    /\ UNCHANGED <<sheet, marks, drafts, saving, dialog, typed, recorded>>

LeaveSheetPage ==
    /\ SheetOpen
    /\ result' = "closed"
    /\ drafts' = NoMarks /\ saved' = NoMarks /\ typed' = NoMarks /\ recorded' = {}
    /\ saving' = IdleSave
    /\ confirmSubmit' = FALSE /\ submitting' = "idle"
    /\ UNCHANGED <<sheet, marks>>

\* setField, from an input that is enabled.
TypeMark(s, m) ==
    /\ SheetOpen /\ SheetEditable(result) /\ saving.pc = "idle"
    /\ drafts' = [drafts EXCEPT ![s] = m]
    /\ typed' = [typed EXCEPT ![s] = m]
    /\ recorded' = IF m = saved[s] THEN recorded \cup {s} ELSE recorded \ {s}
    /\ UNCHANGED <<sheet, marks, result, saved, saving, dialog>>

\* saveDraft: the changed rows without a scoreError.
SaveDraft ==
    LET toSave == {s \in Class : Dirty(s) /\ drafts[s] \in Valid}
    IN  /\ SheetOpen /\ SheetEditable(result) /\ saving.pc = "idle"
        /\ toSave # {}
        /\ saving' = [IdleSave EXCEPT !.pc = IF result = "none" THEN "create" ELSE "row",
                                      !.todo = toSave]
        /\ UNCHANGED <<sheet, marks, result, drafts, saved, dialog, typed, recorded>>

\* createResult: refused when the sheet exists already, for a lost answer too.
CreateSheet(lost) ==
    /\ saving.pc = "create"
    /\ sheet' = IF sheet = "none" THEN "draft" ELSE sheet
    /\ IF sheet # "none" \/ lost
       THEN saving' = IdleSave /\ UNCHANGED result
       ELSE saving' = [saving EXCEPT !.pc = "row"] /\ result' = "draft"
    /\ UNCHANGED <<marks, drafts, saved, dialog, typed, recorded>>

\* recordScore as the server handles it (results/services.py record_score).
SendRow(s) ==
    /\ saving.pc = "row"
    /\ s \in saving.todo
    /\ IF sheet \in {"draft", "returned"}
       THEN /\ marks' = [marks EXCEPT ![s] = drafts[s]]
            /\ recorded' = recorded \cup {s}
            /\ saving' = [saving EXCEPT !.pc = "answer", !.row = s, !.answer = "stored"]
       ELSE /\ saving' = [saving EXCEPT !.pc = "answer", !.row = s, !.answer = "refused"]
            /\ UNCHANGED <<marks, recorded>>
    /\ UNCHANGED <<sheet, result, drafts, saved, dialog, typed>>

AfterRow == LET rest == saving.todo \ {saving.row}
            IN  IF rest = {} THEN IdleSave ELSE [IdleSave EXCEPT !.pc = "row", !.todo = rest]

\* Mutant: the draft is dropped whatever became of the row.
RowAnsweredDropping(lost) ==
    /\ saving.pc = "answer"
    /\ saved' = [saved EXCEPT ![saving.row] =
          IF saving.answer = "stored" /\ ~lost THEN drafts[saving.row] ELSE @]
    /\ drafts' = [drafts EXCEPT ![saving.row] = "none"]
    /\ saving' = AfterRow
    /\ UNCHANGED <<sheet, marks, result, dialog, typed, recorded>>

\* Only an answer that says the row is stored moves the draft to the saved marks.
RowAnswered(lost) ==
    LET s == saving.row
    IN  /\ saving.pc = "answer"
        /\ IF saving.answer = "stored" /\ ~lost
           THEN /\ saved' = [saved EXCEPT ![s] = drafts[s]]
                /\ drafts' = [drafts EXCEPT ![s] = "none"]
           ELSE UNCHANGED <<saved, drafts>>
        /\ saving' = AfterRow
        /\ UNCHANGED <<sheet, marks, result, dialog, typed, recorded>>

\* The dialog opens on a sheet with a saved mark and no changed row.
AskSubmit ==
    /\ ~confirmSubmit
    /\ SheetOpen /\ SheetEditable(result) /\ result # "none"
    /\ saving.pc = "idle"
    /\ \E s \in Class : saved[s] # "none"
    /\ \A s \in Class : ~Dirty(s)
    /\ confirmSubmit' = TRUE
    /\ UNCHANGED <<sheet, marks, result, drafts, saved, saving, submitting, typed, recorded>>

\* onCancel: a submission under way goes on.
CancelSubmit ==
    /\ confirmSubmit
    /\ confirmSubmit' = FALSE
    /\ UNCHANGED <<sheet, marks, result, drafts, saved, saving, submitting, typed, recorded>>

\* doSubmit from the open dialog asks nothing again of the rows: the first time,
\* or once more after an answer that said no.
SubmitSheet ==
    /\ confirmSubmit
    /\ submitting = "idle"
    /\ submitting' = "sent"
    /\ UNCHANGED <<sheet, marks, result, drafts, saved, saving, confirmSubmit, typed, recorded>>

ServerSubmits ==
    /\ submitting = "sent"
    /\ IF sheet \in {"draft", "returned"}
       THEN sheet' = "submitted" /\ submitting' = "done"
       ELSE submitting' = "refused" /\ UNCHANGED sheet
    /\ UNCHANGED <<marks, result, drafts, saved, saving, confirmSubmit, typed, recorded>>

SubmitAnswered(lost) ==
    /\ submitting \in {"done", "refused"}
    /\ submitting' = "idle"
    /\ IF submitting = "done" /\ ~lost
       THEN result' = "submitted" /\ confirmSubmit' = FALSE
       ELSE UNCHANGED <<result, confirmSubmit>>
    /\ UNCHANGED <<sheet, marks, drafts, saved, saving, typed, recorded>>

-----------------------------------------------------------------------------
\* A co-lecturer on a page of their own, and the head of department.
OthersCreate ==
    /\ sheet = "none"
    /\ sheet' = "draft"
    /\ UNCHANGED <<marks, result, drafts, saved, saving, dialog, typed, recorded>>

OthersRecord(s, m) ==
    /\ sheet \in {"draft", "returned"}
    /\ m \in Valid
    /\ marks' = [marks EXCEPT ![s] = m]
    /\ UNCHANGED <<sheet, result, drafts, saved, saving, dialog, typed, recorded>>

OthersMove ==
    /\ \/ sheet \in {"draft", "returned"} /\ sheet' = "submitted"
       \/ sheet = "submitted" /\ sheet' = "returned"
    /\ UNCHANGED <<marks, result, drafts, saved, saving, dialog, typed, recorded>>

SheetPageInit ==
    /\ sheet = "none" /\ marks = NoMarks /\ recorded = {}
    /\ result = "closed" /\ drafts = NoMarks /\ saved = NoMarks
    /\ saving = IdleSave /\ confirmSubmit = FALSE /\ submitting = "idle" /\ typed = NoMarks

SheetPageNext ==
    \/ OpenSheetPage \/ LeaveSheetPage
    \/ \E s \in Class, m \in Marks : TypeMark(s, m) \/ OthersRecord(s, m)
    \/ SaveDraft
    \/ \E s \in Class : SendRow(s)
    \/ \E lost \in BOOLEAN : CreateSheet(lost) \/ RowAnswered(lost) \/ SubmitAnswered(lost)
    \/ AskSubmit \/ CancelSubmit \/ SubmitSheet \/ ServerSubmits
    \/ OthersCreate \/ OthersMove

SheetPageSpec == SheetPageInit /\ [][SheetPageNext]_sheetPageVars

-----------------------------------------------------------------------------
\* A mark typed into the page is not lost while the page is open, whatever
\* answers are lost, rows refused or people at work on the same sheet: either
\* the row is still marked as changed and shows it, or the server has recorded
\* it (ScoreSheetPage saveDraft: the draft goes only with the row's answer).
TypedIsKept ==
    \A s \in Class : typed[s] # "none" =>
       IF Dirty(s) THEN drafts[s] = typed[s] ELSE s \in recorded
=============================================================================
