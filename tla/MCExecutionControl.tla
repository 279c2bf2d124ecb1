------------------------- MODULE MCExecutionControl -------------------------
(* Model-checking instance of ExecutionControl: unconstrained clients. *)
EXTENDS ExecutionControl

CONSTANTS e1, p1, l1
=============================================================================
