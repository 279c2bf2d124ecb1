------------------------- MODULE MCExecutionStream -------------------------
(* Model-checking instance of ExecutionStream. *)
EXTENDS ExecutionStream
=============================================================================
