------------------------- MODULE MCEvidenceBundles -------------------------
EXTENDS EvidenceBundles, TLC

CONSTANTS w1, w2, x1, h1, h2, a1, owner, secret

Rule(action, path, covers) == [action |-> action, path |-> path, covers |-> covers]

(* The workers are interchangeable. *)
Symmetric == Permutations(Workers)

(* Rules on an entry that another one omits or replaces, two rules on one  *)
(* entry, a rule on an entry every export writes itself, and rules of      *)
(* which nothing comes: for an entry that does not decode, for the wrong   *)
(* format, with no pointer.                                                *)
RedactionPolicies ==
    {<<Rule("omit_path", "section", {}), Rule("replace_file_with_notice", "section", {}),
       Rule("artifact_metadata_only", "elsewhere", {})>>,
     <<Rule("replace_file_with_notice", "artifact", {}), Rule("redact_json_pointer", "section", {secret}),
       Rule("redact_json_pointer", "section", {owner, secret})>>,
     <<Rule("omit_path", "receipt", {}), Rule("redact_json_pointer", "artifact", {owner}),
       Rule("redact_ndjson_field", "section", {owner}), Rule("redact_ndjson_field", "trail", {secret})>>}
=============================================================================
