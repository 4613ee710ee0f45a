------------------------------ MODULE Receipts ------------------------------
(***************************************************************************)
(* Read receipts (src/backend/content): one row per student and item, with *)
(* a count of the times the student opened it. A tab is a request of the   *)
(* student; it reads and writes in separate statements, while lecturers    *)
(* publish, withdraw and delete what it is about. A release date that has  *)
(* passed is part of "published".                                          *)
(***************************************************************************)
EXTENDS Integers, FiniteSets

CONSTANTS
    Lessons,       \* items, all in one published module
    Readers,       \* students who take the course
    Tabs,
    MaxViews       \* bound: openings of one item

ASSUME ReceiptsAssumption ==
    Lessons # {} /\ Readers # {} /\ IsFiniteSet(Tabs) /\ MaxViews \in Nat

VARIABLES
    visible,     \* items students may open
    deleted,
    views,       \* view_count of each receipt, 0 without one
    tab,
    opened       \* openings that were recorded

receiptsVars == <<visible, deleted, views, tab, opened>>

Receipt == Readers \X Lessons

Tab == [pc : {"idle", "get", "count"}, receipt : Receipt, read : 0..MaxViews]

ReceiptsTypeOK ==
    /\ visible \subseteq Lessons /\ deleted \subseteq Lessons
    /\ views \in [Receipt -> 0..MaxViews] /\ opened \in [Receipt -> 0..MaxViews]
    /\ tab \in [Tabs -> Tab]

\* update_item and update_module, as far as they decide what students see.
ShowLesson(i) ==
    /\ i \notin deleted
    /\ visible' = IF i \in visible THEN visible \ {i} ELSE visible \cup {i}
    /\ UNCHANGED <<deleted, views, tab, opened>>

\* delete_item, delete_module: the receipts go with the item.
DeleteLesson(i) ==
    /\ i \notin deleted
    /\ deleted' = deleted \cup {i}
    /\ visible' = visible \ {i}
    /\ views' = [r \in Receipt |-> IF r[2] = i THEN 0 ELSE views[r]]
    /\ opened' = [r \in Receipt |-> IF r[2] = i THEN 0 ELSE opened[r]]
    /\ UNCHANGED tab

\* record_view up to item_is_visible_to.
OpenItem(t, r) ==
    /\ tab[t].pc = "idle"
    /\ r[2] \in visible
    /\ opened[r] + Cardinality({x \in Tabs : tab[x].pc # "idle" /\ tab[x].receipt = r}) < MaxViews
    /\ tab' = [tab EXCEPT ![t] = [pc |-> "get", receipt |-> r, read |-> 0]]
    /\ UNCHANGED <<visible, deleted, views, opened>>

\* get_or_create: the unique constraint leaves one receipt to whichever tab is
\* first; the foreign key refuses one for an item that is gone.
GetReceipt(t) ==
    LET r == tab[t].receipt
        creates == views[r] = 0 /\ r[2] \notin deleted
    IN  /\ tab[t].pc = "get"
        /\ tab' = [tab EXCEPT ![t] = IF views[r] = 0 THEN [@ EXCEPT !.pc = "idle"]
                                     ELSE [@ EXCEPT !.pc = "count", !.read = views[r]]]
        /\ views' = IF creates THEN [views EXCEPT ![r] = 1] ELSE views
        /\ opened' = IF creates THEN [opened EXCEPT ![r] = 1] ELSE opened
        /\ UNCHANGED <<visible, deleted>>

\* Mutant: the count is read with the receipt and written back one higher.
CountViewRead(t) ==
    LET r == tab[t].receipt
    IN  /\ tab[t].pc = "count"
        /\ tab' = [tab EXCEPT ![t].pc = "idle"]
        /\ views' = IF views[r] > 0 THEN [views EXCEPT ![r] = tab[t].read + 1] ELSE views
        /\ opened' = IF views[r] > 0 THEN [opened EXCEPT ![r] = @ + 1] ELSE opened
        /\ UNCHANGED <<visible, deleted>>

\* update(view_count=F("view_count") + 1): of nothing, when the receipt is gone.
CountView(t) ==
    LET r == tab[t].receipt
    IN  /\ tab[t].pc = "count"
        /\ tab' = [tab EXCEPT ![t].pc = "idle"]
        /\ views' = IF views[r] > 0 THEN [views EXCEPT ![r] = @ + 1] ELSE views
        /\ opened' = IF views[r] > 0 THEN [opened EXCEPT ![r] = @ + 1] ELSE opened
        /\ UNCHANGED <<visible, deleted>>

\* The process dies between two statements, or the student's session does.
TabDies(t) ==
    /\ tab[t].pc # "idle"
    /\ tab' = [tab EXCEPT ![t].pc = "idle"]
    /\ UNCHANGED <<visible, deleted, views, opened>>

-----------------------------------------------------------------------------
ReceiptsInit ==
    /\ visible = {} /\ deleted = {}
    /\ views = [r \in Receipt |-> 0]
    /\ opened = [r \in Receipt |-> 0]
    /\ tab = [t \in Tabs |-> [pc |-> "idle", receipt |-> CHOOSE r \in Receipt : TRUE, read |-> 0]]

ReceiptsNext ==
    \/ \E i \in Lessons : ShowLesson(i) \/ DeleteLesson(i)
    \/ \E t \in Tabs :
          \/ \E r \in Receipt : OpenItem(t, r)
          \/ GetReceipt(t)
          \/ CountView(t)
          \/ TabDies(t)

ReceiptsSpec == ReceiptsInit /\ [][ReceiptsNext]_receiptsVars

-----------------------------------------------------------------------------
\* A receipt counts every opening that was recorded, whichever tabs recorded
\* them together and whoever created it (services.record_view: "two tabs opening
\* the same page cannot lose a count to a read-modify-write race").
NoViewIsLost == views = opened
=============================================================================
