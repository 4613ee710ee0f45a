------------------------------ MODULE MCPapers ------------------------------
(***************************************************************************)
(* Instances of Papers for TLC: one bank, one exam, one student.           *)
(***************************************************************************)
EXTENDS Papers

\* A choice between two options, and one whose key is not an option.
MCPayloads == {[type |-> "mcq", options |-> 2, key |-> {0}],
               [type |-> "mcq", options |-> 2, key |-> {2}]}

\* No texts are posted or given.
MCNormal == [x \in {} |-> 0]

MCForms == {[banks |-> Banks, num_questions |-> 1, shuffle_questions |-> TRUE,
             shuffle_options |-> TRUE]}

MCRaw == {{0}, {1}}
=============================================================================
