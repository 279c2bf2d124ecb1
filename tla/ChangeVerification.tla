------------------------- MODULE ChangeVerification -------------------------
(***************************************************************************)
(* The verification of one change: its plan, the results that runners and  *)
(* operators submit, what makes a result acceptable, how the plan and the  *)
(* change follow from the accepted ones, and the closure.                  *)
(* Sources: the verification and closure parts of                          *)
(* apps/api/apps/changes/services.py with their views and models, the      *)
(* verification keys of the claim's answer, and                            *)
(* Executor._emit_step_verification_facts of apps/runner.                  *)
(*                                                                         *)
(* ChangeDispatch has the way to the dispatch and the races around the     *)
(* binding, and there a result is just passed or failed.  Here the change  *)
(* starts out approved, one runner binds it, and the results are the       *)
(* subject.  Services lock the change row and are one action; the internal *)
(* endpoint checks the claim in one transaction and records the result in  *)
(* another, so those are two.  Emergency expiry, target locks and          *)
(* retrospective reviews are in ChangeEmergency and ChangeDispatch.        *)
(***************************************************************************)
EXTENDS Naturals, FiniteSets, FiniteSetsExt

CONSTANTS
    NumChecks,      \* the checks a template may list, by position
    TypeOf,         \* check_type
    StepOf,         \* source_step_key: a step, or 0 when blank
    KindOf,         \* artifact_kind: a kind, or NoKind when blank
    Keyed,          \* checks with a verification_key
    Optional,       \* checks with required = false
    Independent,    \* checks that want an independent reviewer
    OpenAssertions, \* API checks with allow_submitted_snapshot
    RoleAllowed,    \* the members whose role a check accepts
    Templates,      \* the sets of checks a profile's template may list
    ProfileMode,    \* OperationProfile.verification_mode
    NumSteps,       \* steps of the workflow
    StepMixes,      \* which of its steps may be typed actions
    Users,          \* operators of the organization
    Involved,       \* requester, submitter and approver of the change
    UserEvidence,   \* what operators hand in
    NoKind, NoUser,
    MaxFaults       \* requests and replies that go astray

Checks == 1..NumChecks
Steps == 1..NumSteps
CheckTypes == {"runner_step", "artifact_presence", "manual_attestation",
               "api_assertion", "external_reference"}
Kinds == {"stdout", "file"}
Artifact == Steps \X Kinds
NoArtifact == <<0, NoKind>>
Outcome == {"passed", "failed"}

(* What a submission carries: the verification_key, an attestation text,   *)
(* an external reference, an API snapshot, an observed value, an artifact. *)
(* "good" references and snapshots fit the check's configuration.          *)
Evidence == [key : BOOLEAN, text : BOOLEAN, reference : {"none", "good", "bad"},
             snapshot : {"none", "good", "bad"}, observed : BOOLEAN,
             artifact : Artifact \cup {NoArtifact}]

ASSUME VerificationConstants ==
    /\ NumChecks \in Nat \ {0} /\ NumSteps \in Nat \ {0} /\ MaxFaults \in Nat
    /\ TypeOf \in [Checks -> CheckTypes]
    /\ StepOf \in [Checks -> 0..NumSteps]
    /\ KindOf \in [Checks -> Kinds \cup {NoKind}]
    /\ Keyed \subseteq Checks /\ Optional \subseteq Checks
    /\ Independent \subseteq Checks /\ OpenAssertions \subseteq Checks
    /\ RoleAllowed \in [Checks -> SUBSET Users]
    /\ Templates \subseteq SUBSET Checks /\ StepMixes \subseteq SUBSET Steps
    /\ ProfileMode \in {"automated", "manual", "mixed"}
    /\ Involved \subseteq Users
    /\ UserEvidence \subseteq Evidence
    /\ NoUser \notin Users /\ "runner" \notin Users /\ NoKind \notin Kinds

ChangeStatus == {"approved", "dispatchable", "running", "verification_pending",
    "verification_failed", "verified", "closed", "expired"}
PlanStatus == {"none", "active", "satisfied", "failed"}
ClosureOutcome == {"success", "rolled_back", "partial_success", "failed", "canceled"}

(* A fact of the runner: a check, an outcome and the first artifact of the *)
(* step; "checked" once the endpoint has found the claim in order.         *)
Fact == [check : Checks, outcome : Outcome, artifact : Artifact \cup {NoArtifact},
         checked : BOOLEAN]

VARIABLES
    status,     \* ChangeRecord.status
    requires,   \* OperationProfile.verification_required
    template,   \* the checks of OperationProfile.verification_plan_template
    typed,      \* steps with an action_snapshot
    plan,       \* VerificationPlan.status
    planned,    \* the plan's VerificationCheck rows
    check,      \* VerificationCheck.status
    source,     \* who submitted VerificationCheck.last_result
    closure,    \* ChangeClosure.outcome
    exec,       \* Execution.status
    hook,       \* handle_bound_execution_completed is still to run
    step,       \* ExecutionStep.status
    artifacts,  \* available artifacts of the execution
    pc,         \* where the runner is
    at,         \* the step it is at
    failing,    \* it counts the step as failed
    todo,       \* checks it still has to report on
    waiting,    \* the check it waits for an answer about, or 0
    facts,      \* its facts on the way
    unreported, \* checks whose fact was lost or turned down (observed)
    faults      \* what has gone astray so far

planVars == <<plan, planned, check, source>>
execVars == <<exec, hook, step, artifacts>>
runnerVars == <<pc, at, failing, todo, waiting>>
profileVars == <<requires, template, typed>>
vars == <<status, profileVars, planVars, closure, execVars, runnerVars, facts,
          unreported, faults>>

TypeOK ==
    /\ status \in ChangeStatus
    /\ requires \in BOOLEAN /\ template \in Templates /\ typed \in StepMixes
    /\ plan \in PlanStatus /\ planned \subseteq Checks
    /\ check \in [Checks -> {"pending", "passed", "failed"}]
    /\ source \in [Checks -> Users \cup {NoUser, "runner"}]
    /\ closure \in ClosureOutcome \cup {"none"}
    /\ exec \in {"none", "queued", "running", "succeeded", "failed", "cancelled"}
    /\ hook \in BOOLEAN
    /\ step \in [Steps -> {"pending", "succeeded", "failed"}]
    /\ artifacts \subseteq Artifact
    /\ pc \in {"idle", "step", "reporting", "completing", "done"}
    /\ at \in Steps /\ failing \in BOOLEAN
    /\ todo \subseteq planned /\ waiting \in Checks \cup {0}
    /\ facts \subseteq Fact /\ unreported \subseteq planned
    /\ faults \in 0..MaxFaults

Init ==
    /\ status = "approved"
    /\ requires \in BOOLEAN /\ template \in Templates /\ typed \in StepMixes
    /\ plan = "none" /\ planned = {}
    /\ check = [k \in Checks |-> "pending"]
    /\ source = [k \in Checks |-> NoUser]
    /\ closure = "none"
    /\ exec = "none" /\ hook = FALSE
    /\ step = [s \in Steps |-> "pending"]
    /\ artifacts = {}
    /\ pc = "idle" /\ at = 1 /\ failing = FALSE /\ todo = {} /\ waiting = 0
    /\ facts = {} /\ unreported = {} /\ faults = 0

-----------------------------------------------------------------------------
(* The plan.                                                               *)

Required(ks) == ks \ Optional

Automated == {"runner_step", "artifact_presence", "api_assertion"}

PlanMode(ks) ==
    LET types == {TypeOf[k] : k \in Required(ks)}
    IN  CASE types # {} /\ types \subseteq Automated -> "automated"
          [] types # {} /\ types \cap Automated = {} -> "manual"
          [] OTHER -> "mixed"

CheckTemplateValid(k) ==
    /\ TypeOf[k] = "runner_step" => k \in Keyed \/ StepOf[k] # 0
    /\ TypeOf[k] = "artifact_presence" => k \in Keyed \/ KindOf[k] # NoKind

TemplateValid(ks) ==
    /\ \A k \in ks : CheckTemplateValid(k)
    /\ Required(ks) # {}
    /\ ProfileMode = "automated" => PlanMode(ks) = "automated"
    /\ ProfileMode = "manual" => PlanMode(ks) # "automated"

PlanDispatchable == plan \in {"active", "satisfied"} /\ Required(planned) # {}

(* Generation takes the template over, and the dispatch activates it: the  *)
(* plan keeps its checks whatever becomes of the profile.                  *)
GenerateVerificationPlan ==
    /\ TemplateValid(template)
    /\ planned' = template
    /\ plan' = "active"

(* Create or reuse: the dispatch generates the plan, the binding finds it  *)
(* there and looks at it again.                                            *)
EnsureVerificationPlan ==
    CASE requires /\ status = "approved" /\ plan = "none" -> GenerateVerificationPlan
      [] requires /\ plan # "none" -> PlanDispatchable /\ UNCHANGED <<plan, planned>>
      [] ~requires -> UNCHANGED <<plan, planned>>

MakeDispatchable ==
    /\ status = "approved"
    /\ EnsureVerificationPlan
    /\ status' = "dispatchable"
    /\ exec' = "queued"
    /\ UNCHANGED <<profileVars, check, source, closure, hook, step,
                   artifacts, runnerVars, facts, unreported, faults>>

DispatchExpires ==
    /\ status = "dispatchable"
    /\ status' = "expired"
    /\ UNCHANGED <<profileVars, planVars, closure, execVars, runnerVars, facts,
                   unreported, faults>>

BindExecution ==
    /\ status = "dispatchable" /\ exec = "queued"
    /\ EnsureVerificationPlan
    /\ status' = "running"
    /\ exec' = "running"
    /\ pc' = "step"
    /\ UNCHANGED <<profileVars, check, source, closure, hook, step, artifacts, at,
                   failing, todo, waiting, facts, unreported, faults>>

-----------------------------------------------------------------------------
(* What makes a result acceptable.                                         *)

(* A slip: only the operators' early results are refused.                  *)
VerifiableLate(who) == status = "running" => who = "runner"

(* A slip: results are refused once a check of the plan has one.           *)
VerifiableOnce(who) ==
    \/ status = "verification_pending" /\ \A k \in planned : check[k] = "pending"
    \/ status = "running" /\ who = "runner"

(* Operators' results wait for the execution to succeed, the runner's may  *)
(* come earlier.                                                           *)
Verifiable(who) ==
    \/ status = "verification_pending"
    \/ status = "running" /\ who = "runner"

(* The binding names the runner.                                           *)
Bound == pc # "idle"

FreeTextOnly(ev) ==
    /\ ev.text
    /\ ~ev.key /\ ~ev.observed /\ ev.artifact = NoArtifact
    /\ ev.reference = "none" /\ ev.snapshot = "none"

(* The step the check names has to have ended as the runner says; a runner *)
(* that observed a failure is believed.                                    *)
RunnerStepEvidence(k, who, outcome, ev) ==
    /\ who = "runner" /\ Bound
    /\ IF StepOf[k] # 0
       THEN /\ outcome = "passed" => step[StepOf[k]] = "succeeded"
            /\ outcome = "failed" => step[StepOf[k]] = "failed" \/ ev.observed
       ELSE ev.observed

ArtifactPresenceEvidence(k, ev) ==
    /\ Bound
    /\ ev.artifact \in artifacts
    /\ StepOf[k] # 0 => ev.artifact[1] = StepOf[k]
    /\ KindOf[k] # NoKind => ev.artifact[2] = KindOf[k]

(* A slip: the independence of the reviewer is not asked for.              *)
UserReviewerAnyMember(k, who) == who \in RoleAllowed[k]

UserReviewer(k, who) ==
    /\ who \in RoleAllowed[k]
    /\ k \in Independent => who \notin Involved

ManualAttestationEvidence(k, who, ev) ==
    who # "runner" /\ ev.text /\ UserReviewer(k, who)

ExternalReferenceEvidence(k, who, ev) ==
    who # "runner" /\ ev.reference = "good" /\ UserReviewer(k, who)

(* There is no adapter that would ask the API; an operator's snapshot,     *)
(* with the observed value under it, is taken where the check allows it.   *)
ApiAssertionEvidence(k, who, ev) ==
    k \in OpenAssertions /\ who # "runner" /\ ev.snapshot = "good"

Accepted(k, who, outcome, ev) ==
    /\ Verifiable(who)
    /\ k \in Keyed => ev.key
    /\ TypeOf[k] # "manual_attestation" => ~FreeTextOnly(ev)
    /\ CASE TypeOf[k] = "runner_step" -> RunnerStepEvidence(k, who, outcome, ev)
         [] TypeOf[k] = "artifact_presence" -> ArtifactPresenceEvidence(k, ev)
         [] TypeOf[k] = "manual_attestation" -> ManualAttestationEvidence(k, who, ev)
         [] TypeOf[k] = "api_assertion" -> ApiAssertionEvidence(k, who, ev)
         [] TypeOf[k] = "external_reference" -> ExternalReferenceEvidence(k, who, ev)

-----------------------------------------------------------------------------
(* What follows from the accepted results.                                 *)

(* The plan's status from the checks' statuses; a plan that is neither     *)
(* satisfied nor failed any more is active again.                          *)
PlanVerdict(ck, old) ==
    CASE \E k \in Required(planned) : ck[k] = "failed" -> "failed"
      [] Required(planned) # {} /\ \A k \in Required(planned) : ck[k] = "passed" -> "satisfied"
      [] OTHER -> IF old \in {"satisfied", "failed"} THEN "active" ELSE old

(* A slip: the plan's verdict is passed on while the execution runs.       *)
ChangeVerdictAtOnce(st, pl) ==
    CASE st \in {"running", "verification_pending"} /\ pl = "failed" -> "verification_failed"
      [] st \in {"running", "verification_pending"} /\ pl = "satisfied" -> "verified"
      [] OTHER -> st

ChangeVerdict(st, pl) ==
    CASE st = "verification_pending" /\ pl = "failed" -> "verification_failed"
      [] st = "verification_pending" /\ pl = "satisfied" -> "verified"
      [] OTHER -> st

(* recompute_verification_state: the plan from the checks as they now are, *)
(* and the change from the plan.                                           *)
RecomputeVerificationState(ck, st) ==
    /\ plan' = PlanVerdict(ck, plan)
    /\ status' = ChangeVerdict(st, plan')

ApplyAcceptedResult(k, who, outcome) ==
    /\ check' = [check EXCEPT ![k] = outcome]
    /\ source' = [source EXCEPT ![k] = who]

(* An accepted result becomes the check's last one.  A rejected one leaves *)
(* a row behind that no rule reads; the row is left out.                   *)
SubmitVerificationResult(k, who, outcome, ev) ==
    IF Accepted(k, who, outcome, ev)
    THEN /\ ApplyAcceptedResult(k, who, outcome)
         /\ RecomputeVerificationState(check', status)
    ELSE UNCHANGED <<status, plan, check, source>>

SubmitUserVerificationResult(k, u, outcome, ev) ==
    /\ k \in planned
    /\ SubmitVerificationResult(k, u, outcome, ev)
    /\ UNCHANGED <<profileVars, planned, closure, execVars, runnerVars, facts,
                   unreported, faults>>

-----------------------------------------------------------------------------
(* The runner and its facts.                                               *)

(* The claim's answer lists the checks with a key of the two types a       *)
(* runner can report on; the runner reports the ones that name the step.   *)
VerificationKeys ==
    {k \in planned \cap Keyed : TypeOf[k] \in {"runner_step", "artifact_presence"}}
MatchingKeys(s) == {k \in VerificationKeys : StepOf[k] = s}

FirstArtifact(s) ==
    CASE <<s, "stdout">> \in artifacts -> <<s, "stdout">>
      [] <<s, "stdout">> \notin artifacts /\ <<s, "file">> \in artifacts -> <<s, "file">>
      [] OTHER -> NoArtifact

(* Do facts follow the end of a step?  Never for a typed action, nor for a *)
(* command that could not be set up.                                       *)
FactsFollow(s, outcome) ==
    CASE s \in typed -> {FALSE}
      [] s \notin typed /\ outcome = "failed" -> BOOLEAN
      [] s \notin typed /\ outcome = "succeeded" -> {TRUE}

(* The outputs are uploaded, each of them or not, before the step's end is *)
(* reported.  A report that fails counts as a failed step, though the API  *)
(* may have taken it, and leaves the facts out.                            *)
StepEnds ==
    /\ pc = "step"
    /\ \E uploads \in SUBSET Kinds : artifacts' =
           IF exec = "running" THEN artifacts \cup {<<at, kind>> : kind \in uploads}
                               ELSE artifacts
    /\ \E outcome \in {"succeeded", "failed"} :
         \/ /\ exec = "running"
            /\ step' = [step EXCEPT ![at] = outcome]
            /\ pc' = "reporting"
            /\ failing' = (outcome = "failed")
            /\ \E follow \in FactsFollow(at, outcome) :
                 /\ todo' = IF follow THEN MatchingKeys(at) ELSE {}
                 /\ unreported' = IF follow THEN unreported
                                            ELSE unreported \cup MatchingKeys(at)
            /\ UNCHANGED faults
         \/ /\ exec # "running" \/ faults < MaxFaults
            /\ step' = IF exec = "running" THEN [step EXCEPT ![at] = outcome] ELSE step
            /\ pc' = "completing"
            /\ failing' = TRUE
            /\ faults' = IF exec = "running" THEN faults + 1 ELSE faults
            /\ unreported' = unreported \cup MatchingKeys(at)
            /\ UNCHANGED todo
         \/ /\ exec = "running" /\ faults < MaxFaults
            /\ pc' = "completing"
            /\ failing' = TRUE
            /\ faults' = faults + 1
            /\ unreported' = unreported \cup MatchingKeys(at)
            /\ UNCHANGED <<step, todo>>
    /\ UNCHANGED <<status, profileVars, planVars, closure, exec, hook, at,
                   waiting, facts>>

SubmitFact ==
    /\ pc = "reporting" /\ waiting = 0 /\ todo # {}
    /\ waiting' = Min(todo)
    /\ todo' = todo \ {waiting'}
    /\ facts' = facts \cup {[check |-> waiting',
                             outcome |-> IF failing THEN "failed" ELSE "passed",
                             artifact |-> FirstArtifact(at), checked |-> FALSE]}
    /\ UNCHANGED <<status, profileVars, planVars, closure, execVars, pc, at,
                   failing, unreported, faults>>

(* The endpoint finds binding and claim token in order and gives the       *)
(* change row up again.                                                    *)
CheckClaim(f) ==
    /\ ~f.checked /\ Bound
    /\ facts' = (facts \ {f}) \cup {[f EXCEPT !.checked = TRUE]}
    /\ UNCHANGED <<status, profileVars, planVars, closure, execVars, runnerVars,
                   unreported, faults>>

FactEvidence(f) ==
    [key |-> f.check \in Keyed, text |-> FALSE, reference |-> "none",
     snapshot |-> "none", observed |-> TRUE, artifact |-> f.artifact]

Answered(f) == waiting' = IF waiting = f.check THEN 0 ELSE waiting

(* The result is recorded and answered; or the answer is lost and the      *)
(* request sent again.                                                     *)
RecordFact(f) ==
    /\ f.checked
    /\ SubmitVerificationResult(f.check, "runner", f.outcome, FactEvidence(f))
    /\ \/ /\ facts' = facts \ {f}
          /\ Answered(f)
          /\ UNCHANGED faults
       \/ /\ waiting = f.check /\ faults < MaxFaults
          /\ facts' = (facts \ {f}) \cup {[f EXCEPT !.checked = FALSE]}
          /\ faults' = faults + 1
          /\ UNCHANGED waiting
    /\ unreported' = IF Accepted(f.check, "runner", f.outcome, FactEvidence(f))
                     THEN unreported ELSE unreported \cup {f.check}
    /\ UNCHANGED <<profileVars, planned, closure, execVars, pc, at, failing, todo>>

(* No attempt gets through and the runner logs a warning.                  *)
LoseFact(f) ==
    /\ ~f.checked /\ waiting = f.check /\ faults < MaxFaults
    /\ facts' = facts \ {f}
    /\ waiting' = 0
    /\ faults' = faults + 1
    /\ unreported' = unreported \cup {f.check}
    /\ UNCHANGED <<status, profileVars, planVars, closure, execVars, pc, at,
                   failing, todo>>

(* The runner gives a request up that the API still has in hand.           *)
GiveUpWaiting ==
    /\ waiting # 0 /\ faults < MaxFaults
    /\ waiting' = 0
    /\ faults' = faults + 1
    /\ UNCHANGED <<status, profileVars, planVars, closure, execVars, pc, at,
                   failing, todo, facts, unreported>>

ReportingEnds ==
    /\ pc = "reporting" /\ waiting = 0 /\ todo = {}
    /\ IF failing \/ at = NumSteps
       THEN pc' = "completing" /\ UNCHANGED at
       ELSE pc' = "step" /\ at' = at + 1
    /\ UNCHANGED <<status, profileVars, planVars, closure, execVars, failing,
                   todo, waiting, facts, unreported, faults>>

(* A cancellation the heartbeat has seen takes effect between two steps.   *)
CancelObserved ==
    /\ pc = "step"
    /\ pc' = "completing"
    /\ failing' = TRUE
    /\ UNCHANGED <<status, profileVars, planVars, closure, execVars, at, todo,
                   waiting, facts, unreported, faults>>

-----------------------------------------------------------------------------
(* The end of the execution, and of the change.                            *)

(* A failure after a cancellation was asked for is reported as cancelled.  *)
CompleteExecution ==
    /\ pc = "completing"
    /\ pc' = "done"
    /\ IF exec = "running"
       THEN /\ exec' \in IF failing THEN {"failed", "cancelled"} ELSE {"succeeded"}
            /\ hook' = TRUE
       ELSE UNCHANGED <<exec, hook>>
    /\ UNCHANGED <<status, profileVars, planVars, closure, step, artifacts, at,
                   failing, todo, waiting, facts, unreported, faults>>

(* The watchdog ends an execution whose runner has gone quiet; the runner  *)
(* may still be at work.                                                   *)
ExecutionEnded ==
    /\ exec = "running"
    /\ exec' = "failed"
    /\ hook' = TRUE
    /\ UNCHANGED <<status, profileVars, planVars, closure, step, artifacts,
                   runnerVars, facts, unreported, faults>>

CompletionHook ==
    /\ hook
    /\ hook' = FALSE
    /\ CASE status = "running" /\ exec = "succeeded" /\ requires ->
                RecomputeVerificationState(check, "verification_pending")
         [] status = "running" /\ ~(exec = "succeeded" /\ requires) ->
                status' = "closed" /\ UNCHANGED plan
         [] OTHER -> UNCHANGED <<status, plan>>
    /\ UNCHANGED <<profileVars, planned, check, source, closure, exec,
                   step, artifacts, runnerVars, facts, unreported, faults>>

ClosureAllowed(outcome) ==
    IF outcome = "success"
    THEN status = "verified" /\ \A k \in Required(planned) : check[k] = "passed"
    ELSE status \in {"verification_failed", "running"}

CloseChange(outcome) ==
    /\ closure = "none"
    /\ plan # "none"
    /\ ClosureAllowed(outcome)
    /\ closure' = outcome
    /\ status' = "closed"
    /\ UNCHANGED <<profileVars, planVars, execVars, runnerVars, facts, unreported,
                   faults>>

-----------------------------------------------------------------------------
Dispatching == MakeDispatchable \/ DispatchExpires \/ BindExecution

RunnerActs ==
    \/ StepEnds \/ CancelObserved \/ SubmitFact \/ GiveUpWaiting
    \/ ReportingEnds \/ CompleteExecution

Delivery == \E f \in facts : CheckClaim(f) \/ RecordFact(f) \/ LoseFact(f)

Operators ==
    \/ \E k \in Checks, u \in Users, outcome \in Outcome, ev \in UserEvidence :
           SubmitUserVerificationResult(k, u, outcome, ev)
    \/ \E outcome \in ClosureOutcome : CloseChange(outcome)

Next == Dispatching \/ RunnerActs \/ Delivery \/ ExecutionEnded \/ CompletionHook \/ Operators

Spec == Init /\ [][Next]_vars

-----------------------------------------------------------------------------
(* What verification is for.                                               *)

(* The evidence of a passed check, as it is to be found when the change    *)
(* has been verified: the step's own success reported by the runner, an    *)
(* artifact of the execution, or the word of someone entitled to give it.  *)
Evidenced(k) ==
    CASE TypeOf[k] = "runner_step" ->
             source[k] = "runner" /\ StepOf[k] # 0 /\ step[StepOf[k]] = "succeeded"
      [] TypeOf[k] = "artifact_presence" ->
             \E a \in artifacts : /\ StepOf[k] \in {0, a[1]}
                                  /\ KindOf[k] \in {NoKind, a[2]}
      [] TypeOf[k] = "api_assertion" -> k \in OpenAssertions /\ source[k] \in Users
      [] OTHER -> /\ source[k] \in RoleAllowed[k]
                  /\ k \in Independent => source[k] \notin Involved

(* A change is verified, or closed as a success, only when every required  *)
(* check of its plan has passed on evidence of its own type, whatever was  *)
(* submitted, refused, repeated or overtaken before.                       *)
VerifiedByEvidence ==
    status = "verified" \/ closure = "success" =>
        /\ Required(planned) # {}
        /\ \A k \in Required(planned) : check[k] = "passed" /\ Evidenced(k)

(* Facts that arrive while the execution runs decide nothing: a verdict,   *)
(* good or bad, exists only for an execution that succeeded in every step. *)
VerdictAfterExecution ==
    status \in {"verification_pending", "verification_failed", "verified"} =>
        exec = "succeeded" /\ \A s \in Steps : step[s] = "succeeded"

(* The checks nobody can decide any more: a runner step whose fact was     *)
(* lost, turned down, never sent or never asked for, an artifact check     *)
(* without its artifact (a failure too is accepted only with one), an API  *)
(* check without adapter.                                                  *)
DeadEnd(k) ==
    CASE TypeOf[k] = "runner_step" ->
             k \in unreported \/ k \notin Keyed \/ StepOf[k] = 0
      [] TypeOf[k] = "artifact_presence" -> ~\E a \in artifacts :
             StepOf[k] \in {0, a[1]} /\ KindOf[k] \in {NoKind, a[2]}
      [] TypeOf[k] = "api_assertion" -> k \notin OpenAssertions
      [] OTHER -> FALSE

(* Someone is entitled to each attestation and has the evidence at hand,   *)
(* and an artifact that fits a check can be pointed out to it.             *)
Answerable ==
    \A k \in Checks :
        LET HasKey(ev) == k \in Keyed => ev.key
        IN  CASE TypeOf[k] = "manual_attestation" ->
                    \E u \in Users, ev \in UserEvidence : UserReviewer(k, u) /\ ev.text /\ HasKey(ev)
              [] TypeOf[k] = "external_reference" ->
                    \E u \in Users, ev \in UserEvidence :
                        UserReviewer(k, u) /\ ev.reference = "good" /\ HasKey(ev)
              [] TypeOf[k] = "api_assertion" ->
                    \E u \in Users, ev \in UserEvidence : ev.snapshot = "good" /\ HasKey(ev)
              [] TypeOf[k] = "artifact_presence" ->
                    \A a \in Artifact : StepOf[k] \in {0, a[1]} /\ KindOf[k] \in {NoKind, a[2]} =>
                        \E u \in Users, ev \in UserEvidence : ev.artifact = a /\ HasKey(ev)
              [] OTHER -> TRUE

(* A change that waits for verification waits for something that can still *)
(* come: apart from the dead ends, each undecided check has a fact on its  *)
(* way or an operator whose evidence would be taken.                       *)
PendingCanBeDecided ==
    status = "verification_pending" =>
        \A k \in Required(planned) : check[k] = "pending" =>
            \/ DeadEnd(k)
            \/ \E f \in facts : f.check = k
            \/ \E u \in Users, ev \in UserEvidence : Accepted(k, u, "passed", ev)

(* A verdict stands: no late fact, repeated request or further attestation *)
(* changes a plan or a check once the change is verified, has failed       *)
(* verification or has ended, and from there it can only be closed.        *)
VerdictIsFinal ==
    [][(status \in {"verified", "verification_failed", "closed", "expired"}) =>
           (UNCHANGED <<plan, check, source>> /\ status' \in {status, "closed"})]_vars
=============================================================================
