---------------------------- MODULE MCCbtAttempt ----------------------------
(***************************************************************************)
(* Instances of CbtAttempt for TLC.                                        *)
(***************************************************************************)
EXTENDS CbtRefinement

CONSTANTS st1, st2, choice, essay, r1, r2, w1, w2, l1, i1, i2
=============================================================================
