------------------------------ MODULE MCContent ------------------------------
(***************************************************************************)
(* An instance of Content for TLC: one item, and the PATCH of a lecturer   *)
(* who empties a text field.                                               *)
(***************************************************************************)
EXTENDS Content

CONSTANT c1

MCModuleOf == [i \in {"i1"} |-> "m1"]

MCChanges == {[NoChange EXCEPT !.blanks = {"body"}]}

MCUploads == {NoItem}
=============================================================================
