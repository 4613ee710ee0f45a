-------------------------- MODULE MCPipelineScenes --------------------------
(***************************************************************************)
(* ResultPipeline for TLC, whose behaviours keep to the scene they begin   *)
(* with: one sheet in everybody's hands, or two sheets in the hands of the *)
(* four offices, who record one mark once and ratify both in a batch.      *)
(***************************************************************************)
EXTENDS MCResultPipeline, TLC

VARIABLE scene

sceneVars == <<vars, scene>>

InScene ==
    \/ /\ scene = "life"
       /\ status'[s2] = None
       /\ \A row \in enrolled' \cup assigned' : row[2] = s1
    \/ /\ scene = "batch"
       /\ \A s \in Sheets :
             /\ Len(rows'[s]) <= 1
             /\ Len(audit'[s]) <= 6
             /\ \A i \in DOMAIN audit'[s] : /\ audit'[s][i].actor \in MCOffices
                                            /\ audit'[s][i].action # "score_changed"
             /\ amendments'[s] = <<>>
       /\ Cardinality(UNION {{rows'[s][i].score : i \in DOMAIN rows'[s]} : s \in Sheets}) <= 1

ScenesInit ==
    /\ Init /\ scene \in {"life", "batch"}
    /\ scene = "life" => \A row \in enrolled \cup assigned : row[2] = s1

\* The marks within range are interchangeable; no property is a liveness property.
ScenesSymmetry == Permutations({low, high})

ScenesSpec ==
    /\ ScenesInit
    /\ [][Next /\ InScene /\ UNCHANGED scene]_sceneVars
=============================================================================
