----------------------------- MODULE SenateBoard -----------------------------
(***************************************************************************)
(* Senate's board (src/frontend/src/features/board/SenateBoardPage.tsx):   *)
(* one member drills to a scope, ticks sheets of the page that was loaded  *)
(* for it, and ratifies the ticked ones in one batch. What is on the       *)
(* screen is loaded by useAsyncData, which ignores every answer but that   *)
(* of its last request, and keeps the old rows until it has come. The      *)
(* search box acts after a delay. Other boards and members change which    *)
(* sheets await ratification.                                              *)
(*                                                                         *)
(* React runs the effects of a render together: a change of scope, the     *)
(* clearing of what was ticked and the new request are one step. The term  *)
(* is drilled to as the faculty and the department are, and is left out.   *)
(***************************************************************************)
EXTENDS Integers, FiniteSets

CONSTANTS
    SheetDepartment,     \* the department of each result sheet
    DepartmentFaculty,   \* the faculty of each department
    Searches,            \* search texts, "" among them
    MaxPage              \* bound: pages of the worklist

Sheets == DOMAIN SheetDepartment

ASSUME SenateBoardAssumption ==
    /\ IsFiniteSet(Sheets)
    /\ SheetDepartment \in [Sheets -> DOMAIN DepartmentFaculty]
    /\ "" \notin DOMAIN DepartmentFaculty
    /\ "" \in Searches /\ MaxPage \in Nat \ {0}

VARIABLES
    awaiting,    \* the server's sheets approved by a dean and not ratified
    ratified,    \* those this board's batches ratified
    view,        \* what the worklist is loaded for
    query,       \* the text in the search box
    worklist,    \* useAsyncData: the rows and its two flags
    selected,
    confirming,  \* the dialog is open
    batch        \* the ratification in progress

senateBoardVars == <<awaiting, ratified, view, query, worklist, selected, confirming, batch>>

FacultyIds == {DepartmentFaculty[d] : d \in DOMAIN DepartmentFaculty} \cup {""}

\* Scope, search and page; "" is "not chosen".
View == [faculty : FacultyIds, department : DOMAIN DepartmentFaculty \cup {""},
         search : Searches, page : 1..MaxPage]

\* current: the view has not changed since the rows were loaded.
Worklist == [rows : SUBSET Sheets, current : BOOLEAN, loading : BOOLEAN, error : BOOLEAN]

\* The ids sent, the rows the dialog named, and whether they were loaded for the
\* view on the screen.
Batch == [pc : {"idle", "sent", "ratified", "refused"}, ids : SUBSET Sheets,
          named : SUBSET Sheets, inView : BOOLEAN]

NoView == [faculty |-> "", department |-> "", search |-> "", page |-> 1]

NoBatch == [pc |-> "idle", ids |-> {}, named |-> {}, inView |-> TRUE]

SenateBoardTypeOK ==
    /\ awaiting \subseteq Sheets /\ ratified \subseteq Sheets
    /\ view \in View /\ query \in Searches
    /\ worklist \in Worklist
    /\ selected \subseteq Sheets
    /\ confirming \in BOOLEAN
    /\ batch \in Batch

Ready == view.faculty # ""

\* The rows listWorklist may find; the search and the page only narrow them.
Matching ==
    {s \in awaiting : /\ DepartmentFaculty[SheetDepartment[s]] = view.faculty
                      /\ view.department \in {"", SheetDepartment[s]}}

RowsShown == Ready /\ ~worklist.loading /\ ~worklist.error

SelectedRows == worklist.rows \cap selected

Reloading == [worklist EXCEPT !.loading = TRUE, !.error = FALSE]

-----------------------------------------------------------------------------
\* Mutant: what was ticked is kept while the board turns to other sheets.
TurnToKeeping(v) ==
    /\ v # view
    /\ view' = v
    /\ worklist' = [Reloading EXCEPT !.current = FALSE]
    /\ selected' = selected
    /\ UNCHANGED <<awaiting, ratified, query, confirming, batch>>

\* A new view: the effects clear what was ticked and load the rows again.
TurnTo(v) ==
    /\ v # view
    /\ view' = v
    /\ worklist' = [Reloading EXCEPT !.current = FALSE]
    /\ selected' = {}
    /\ UNCHANGED <<awaiting, ratified, query, confirming, batch>>

\* The dialog covers the page but does not hold the keyboard's focus: everything
\* below it stays in reach.

\* setFaculty: a department of another faculty does not survive.
SetFaculty(f) ==
    /\ TurnTo([view EXCEPT !.faculty = f, !.page = 1,
                  !.department = IF @ # "" /\ DepartmentFaculty[@] = f THEN @ ELSE ""])

\* setDepartment, from the list narrowed to the faculty.
SetDepartment(d) ==
    /\ Ready
    /\ d \in {""} \cup {x \in DOMAIN DepartmentFaculty : DepartmentFaculty[x] = view.faculty}
    /\ TurnTo([view EXCEPT !.department = d, !.page = 1])

SetPage(n) ==
    /\ RowsShown
    /\ TurnTo([view EXCEPT !.page = n])

TypeQuery(q) ==
    /\ query' = q
    /\ UNCHANGED <<awaiting, ratified, view, worklist, selected, confirming, batch>>

\* useDebounced: the delay ends, whatever the board shows by then.
Debounce == query # view.search /\ TurnTo([view EXCEPT !.search = query, !.page = 1])

\* The answer of the last request, with at most the rows the server has now.
RowsArrive(rows) ==
    /\ worklist.loading
    /\ rows \subseteq (IF Ready THEN Matching ELSE {})
    /\ worklist' = [rows |-> rows, current |-> TRUE, loading |-> FALSE, error |-> FALSE]
    /\ UNCHANGED <<awaiting, ratified, view, query, selected, confirming, batch>>

RowsFail ==
    /\ worklist.loading
    /\ worklist' = [worklist EXCEPT !.loading = FALSE, !.error = TRUE]
    /\ UNCHANGED <<awaiting, ratified, view, query, selected, confirming, batch>>

Retry ==
    /\ worklist.error
    /\ worklist' = Reloading
    /\ UNCHANGED <<awaiting, ratified, view, query, selected, confirming, batch>>

\* toggle and toggleAll, on the rows of the panel; "Clear selection".
Select(ids) ==
    /\ \/ RowsShown /\ \E s \in worklist.rows : ids = (selected \ {s}) \cup ({s} \ selected)
       \/ RowsShown /\ ids = IF worklist.rows \subseteq selected THEN {} ELSE worklist.rows
       \/ SelectedRows # {} /\ ids = {}
    /\ selected' = ids
    /\ UNCHANGED <<awaiting, ratified, view, query, worklist, confirming, batch>>

OpenConfirm ==
    /\ ~confirming /\ SelectedRows # {}
    /\ confirming' = TRUE
    /\ UNCHANGED <<awaiting, ratified, view, query, worklist, selected, batch>>

CancelConfirm ==
    /\ confirming
    /\ confirming' = FALSE
    /\ UNCHANGED <<awaiting, ratified, view, query, worklist, selected, batch>>

\* doRatify sends everything ticked; the dialog names the ticked rows.
DoRatify ==
    /\ confirming /\ batch.pc = "idle"
    /\ batch' = [pc |-> "sent", ids |-> selected, named |-> SelectedRows,
                 inView |-> worklist.current]
    /\ UNCHANGED <<awaiting, ratified, view, query, worklist, selected, confirming>>

\* batch_ratify: all of them, or none; never an empty list.
ServerRatifies ==
    /\ batch.pc = "sent"
    /\ IF batch.ids # {} /\ batch.ids \subseteq awaiting
       THEN /\ awaiting' = awaiting \ batch.ids
            /\ ratified' = ratified \cup batch.ids
            /\ batch' = [batch EXCEPT !.pc = "ratified"]
       ELSE /\ batch' = [batch EXCEPT !.pc = "refused"]
            /\ UNCHANGED <<awaiting, ratified>>
    /\ UNCHANGED <<view, query, worklist, selected, confirming>>

\* The answer closes the dialog and reloads; a refusal, or a lost answer, leaves all as it is.
RatifyAnswered(lost) ==
    /\ batch.pc \in {"ratified", "refused"}
    /\ batch' = NoBatch
    /\ IF batch.pc = "ratified" /\ ~lost
       THEN confirming' = FALSE /\ selected' = {} /\ worklist' = Reloading
       ELSE UNCHANGED <<confirming, selected, worklist>>
    /\ UNCHANGED <<awaiting, ratified, view, query>>

\* A dean approves a sheet; another member ratifies one.
OthersDecide(s) ==
    /\ s \notin ratified
    /\ awaiting' = IF s \in awaiting THEN awaiting \ {s} ELSE awaiting \cup {s}
    /\ UNCHANGED <<ratified, view, query, worklist, selected, confirming, batch>>

-----------------------------------------------------------------------------
SenateBoardInit ==
    /\ awaiting \in SUBSET Sheets /\ ratified = {}
    /\ view = NoView /\ query = ""
    /\ worklist = [rows |-> {}, current |-> TRUE, loading |-> TRUE, error |-> FALSE]
    /\ selected = {} /\ confirming = FALSE /\ batch = NoBatch

SenateBoardNext ==
    \/ \E f \in FacultyIds : SetFaculty(f)
    \/ \E d \in DOMAIN DepartmentFaculty \cup {""} : SetDepartment(d)
    \/ \E n \in 1..MaxPage : SetPage(n)
    \/ \E q \in Searches : TypeQuery(q)
    \/ Debounce
    \/ \E rows \in SUBSET Sheets : RowsArrive(rows)
    \/ RowsFail \/ Retry
    \/ \E ids \in SUBSET Sheets : Select(ids)
    \/ OpenConfirm \/ CancelConfirm \/ DoRatify \/ ServerRatifies
    \/ \E lost \in BOOLEAN : RatifyAnswered(lost)
    \/ \E s \in Sheets : OthersDecide(s)

SenateBoardSpec == SenateBoardInit /\ [][SenateBoardNext]_senateBoardVars

-----------------------------------------------------------------------------
\* A batch is exactly the sheets its dialog named, and, unless a new view emptied
\* it, they were loaded for the scope, search and page on the screen
\* (SenateBoardPage: "carrying ids across a scope change would ratify sheets the
\* board is no longer looking at").
BatchIsWhatWasShown ==
    batch.pc # "idle" =>
       /\ batch.ids = batch.named
       /\ batch.ids # {} => batch.inView
=============================================================================
