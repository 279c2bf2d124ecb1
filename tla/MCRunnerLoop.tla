---------------------------- MODULE MCRunnerLoop ----------------------------
(* Model-checking instances of RunnerLoop: one execution, a pool runner,
   and in some of them a legacy runner that can take over. *)
EXTENDS RunnerLoop

CONSTANTS e1, p1, l1
=============================================================================
