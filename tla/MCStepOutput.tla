---------------------------- MODULE MCStepOutput ----------------------------
(* Model-checking instance of StepOutput: a required file, and a required  *)
(* log that is declared without a path.                                    *)
EXTENDS StepOutput

TwoKeys == <<"log", "report">>
=============================================================================
