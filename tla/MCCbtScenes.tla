---------------------------- MODULE MCCbtScenes -----------------------------
(***************************************************************************)
(* CbtAttempt for TLC, whose behaviours keep to the scene they begin with: *)
(* one student's attempt under two requests and two sweeps; two students   *)
(* whose attempts compete for one sweep; the linking of the exam while one *)
(* attempt is settled.                                                     *)
(***************************************************************************)
EXTENDS MCCbtAttempt

VARIABLE scene

sceneVars == <<vars, scene>>

\* The second request and the second worker are there in the first scene alone.
Awake(p) == p \in {r1, w1} \/ scene = "attempt"

InScene ==
    /\ scene = "sweep" \/ \A r \in Requests : request'[r].student # st2
    /\ scene = "link" \/ linker' = linker
    /\ Awake(r2) \/ request'[r2] = request[r2]
    /\ Awake(w2) \/ queue'[w2] = queue[w2]

ScenesInit == Init /\ scene \in {"attempt", "sweep", "link"}

ScenesSpec == ScenesInit /\ [][Next /\ InScene /\ UNCHANGED scene]_sceneVars
=============================================================================
