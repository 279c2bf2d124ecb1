------------------------ MODULE MCChangeVerification ------------------------
(* A model-checking instance of ChangeVerification: one check of each type,
   the runner-step check reported by step 1 and the artifact check by step 2,
   and a runner-step check with a step but without a key (6). *)
EXTENDS ChangeVerification

CONSTANTS u1, u2

Types == <<"runner_step", "artifact_presence", "manual_attestation",
           "api_assertion", "external_reference", "runner_step">>
StepKeys == <<1, 2, 0, 0, 0, 2>>
KindKeys == [k \in Checks |-> IF k = 2 THEN "file" ELSE NoKind]
Roles == [k \in Checks |-> IF k = 5 THEN {u1} ELSE Users]

(* Mixed plans, one that nothing but operators can satisfy, one with a check
   that is never reported, and templates the service turns down. *)
TemplateSets == {{1, 2, 3}, {3, 4, 5}, {1, 5}, {3, 6}, {1, 2}, {4}, {}}

Nothing == [key |-> FALSE, text |-> FALSE, reference |-> "none",
            snapshot |-> "none", observed |-> FALSE, artifact |-> NoArtifact]

Handed == {
    [Nothing EXCEPT !.text = TRUE],
    [Nothing EXCEPT !.text = TRUE, !.key = TRUE],
    [Nothing EXCEPT !.reference = "good"],
    [Nothing EXCEPT !.reference = "bad", !.text = TRUE],
    [Nothing EXCEPT !.snapshot = "good"],
    [Nothing EXCEPT !.snapshot = "bad", !.observed = TRUE],
    [Nothing EXCEPT !.key = TRUE, !.artifact = <<1, "file">>],
    [Nothing EXCEPT !.key = TRUE, !.artifact = <<2, "file">>],
    [Nothing EXCEPT !.artifact = <<2, "file">>]}

(* Nothing but a dead end keeps a change of this instance waiting. *)
ASSUME InstanceAnswerable == Answerable
=============================================================================
