-------------------------- MODULE MCChangeDispatch --------------------------
(* Model-checking instances of ChangeDispatch.                             *)
EXTENDS ChangeDispatch, TLC

CONSTANTS c1, c2, t1, t2, r1, r2, k1, k2

(* c1 works on both targets, c2 on one of them.                            *)
OverlappingTargets == [c \in Changes |-> IF c = c1 THEN Targets ELSE {t2}]

RunnerSymmetry == Permutations(Runners)
=============================================================================
