----------------------------- MODULE MCPipeline -----------------------------
(***************************************************************************)
(* Instances of Pipeline for TLC: two targets, where commit 1 introduces   *)
(* both and commit 2 touches only the first; and one target that every     *)
(* commit touches, where more can go wrong at once.                        *)
(***************************************************************************)
EXTENDS Pipeline
CONSTANTS t1, t2

MCTargets == {t1, t2}
MCTouches == [c \in 1..MaxCommit |-> IF c = 1 THEN {t1, t2} ELSE {t1}]

OneTarget == {t1}
AllTouch == [c \in 1..MaxCommit |-> {t1}]
=============================================================================
