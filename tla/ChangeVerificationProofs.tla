---------------------- MODULE ChangeVerificationProofs ----------------------
(***************************************************************************)
(* Machine-checked proofs about ChangeVerification, for any plan of checks *)
(* of any types, any number of steps, operators, pieces of evidence and    *)
(* requests that go astray.                                                *)
(***************************************************************************)
EXTENDS ChangeVerification, FiniteSetTheorems, TLAPS

-----------------------------------------------------------------------------
(* Which steps write which variables.                                      *)

Submits(k, who, outcome, ev) ==
    /\ k \in Checks /\ outcome \in Outcome
    /\ SubmitVerificationResult(k, who, outcome, ev)

UserResult ==
    \E k \in Checks, u \in Users, outcome \in Outcome, ev \in UserEvidence :
        SubmitUserVerificationResult(k, u, outcome, ev)

Closes == \E outcome \in ClosureOutcome : CloseChange(outcome)

LEMMA ColumnSteps ==
    ASSUME [Next]_vars
    PROVE  /\ UNCHANGED profileVars
           /\ UNCHANGED status \/ MakeDispatchable \/ DispatchExpires \/ BindExecution
                \/ UserResult \/ (\E f \in facts : RecordFact(f)) \/ CompletionHook \/ Closes
           /\ UNCHANGED <<plan, planned>> \/ MakeDispatchable \/ BindExecution
                \/ UserResult \/ (\E f \in facts : RecordFact(f)) \/ CompletionHook
           /\ UNCHANGED <<check, source>> \/ UserResult \/ (\E f \in facts : RecordFact(f))
           /\ UNCHANGED closure \/ Closes
           /\ UNCHANGED exec \/ MakeDispatchable \/ BindExecution \/ CompleteExecution
                \/ ExecutionEnded
           /\ UNCHANGED hook \/ CompleteExecution \/ ExecutionEnded \/ CompletionHook
           /\ UNCHANGED <<step, artifacts>> \/ StepEnds
           /\ UNCHANGED pc \/ BindExecution \/ StepEnds \/ CancelObserved \/ ReportingEnds
                \/ CompleteExecution
           /\ UNCHANGED at \/ ReportingEnds
           /\ UNCHANGED failing \/ StepEnds \/ CancelObserved
           /\ UNCHANGED todo \/ StepEnds \/ SubmitFact
           /\ UNCHANGED waiting \/ SubmitFact \/ GiveUpWaiting
                \/ \E f \in facts : RecordFact(f) \/ LoseFact(f)
           /\ UNCHANGED facts \/ SubmitFact \/ \E f \in facts : CheckClaim(f) \/ RecordFact(f) \/ LoseFact(f)
           /\ UNCHANGED unreported \/ StepEnds \/ \E f \in facts : RecordFact(f) \/ LoseFact(f)
           /\ UNCHANGED faults \/ StepEnds \/ GiveUpWaiting \/ \E f \in facts : RecordFact(f) \/ LoseFact(f)
<1> USE DEF profileVars, planVars, execVars, runnerVars
<1>1. CASE UNCHANGED vars
  BY <1>1 DEF vars
<1>2. CASE MakeDispatchable \/ DispatchExpires \/ BindExecution
  BY <1>2 DEF MakeDispatchable, DispatchExpires, BindExecution
<1>3. CASE StepEnds \/ CancelObserved \/ SubmitFact
  BY <1>3 DEF StepEnds, CancelObserved, SubmitFact
<1>4. CASE GiveUpWaiting \/ ReportingEnds \/ CompleteExecution \/ ExecutionEnded \/ CompletionHook
  BY <1>4 DEF GiveUpWaiting, ReportingEnds, CompleteExecution, ExecutionEnded, CompletionHook
<1>5. ASSUME NEW f \in facts, CheckClaim(f) \/ LoseFact(f)
      PROVE  /\ UNCHANGED <<status, profileVars, planVars, closure, execVars, pc, at, failing, todo>>
             /\ CheckClaim(f) => UNCHANGED <<waiting, unreported, faults>>
  BY <1>5 DEF CheckClaim, LoseFact
<1>6. ASSUME NEW f \in facts, RecordFact(f)
      PROVE  UNCHANGED <<profileVars, closure, execVars, pc, at, failing, todo>>
  BY <1>6 DEF RecordFact
<1>7. ASSUME UserResult
      PROVE  UNCHANGED <<profileVars, closure, execVars, runnerVars, facts, unreported, faults>>
  BY <1>7 DEF UserResult, SubmitUserVerificationResult
<1>8. ASSUME Closes
      PROVE  UNCHANGED <<profileVars, planVars, execVars, runnerVars, facts, unreported, faults>>
  BY <1>8 DEF Closes, CloseChange
<1>9. \/ UNCHANGED vars
      \/ MakeDispatchable \/ DispatchExpires \/ BindExecution
      \/ StepEnds \/ CancelObserved \/ SubmitFact
      \/ GiveUpWaiting \/ ReportingEnds \/ CompleteExecution \/ ExecutionEnded \/ CompletionHook
      \/ \E f \in facts : CheckClaim(f) \/ RecordFact(f) \/ LoseFact(f)
      \/ UserResult \/ Closes
  BY DEF Next, Dispatching, RunnerActs, Delivery, Operators, UserResult, Closes
<1> QED
  BY <1>1, <1>2, <1>3, <1>4, <1>5, <1>6, <1>7, <1>8, <1>9

-----------------------------------------------------------------------------
(* Types, and what has not happened before the binding.  The runner asks   *)
(* only about checks of the plan that name one of its steps.               *)

EarlyInv ==
    /\ status \in {"approved", "dispatchable", "expired"} => pc = "idle"
    /\ pc = "idle" => facts = {} /\ todo = {} /\ unreported = {}
    /\ \A f \in facts : f.check \in MatchingKeys(StepOf[f.check]) /\ StepOf[f.check] \in Steps
    /\ todo \subseteq MatchingKeys(at)
    /\ status # "approved" /\ requires => plan # "none"

LEMMA MinIn ==
    ASSUME NEW S, S \subseteq Nat, S # {}
    PROVE  Min(S) \in S
<1>1. \E x \in S : \A y \in S : ~(<<y, x>> \in OpToRel(<, Nat))
  BY NatLessThanWellFounded, WFMin
<1>2. PICK x \in S : \A y \in S : ~(<<y, x>> \in OpToRel(<, Nat))
  BY <1>1
<1>3. ASSUME NEW y \in S, ~(x <= y) PROVE FALSE
  <2>1. x \in Nat /\ y \in Nat /\ y < x
    BY <1>3
  <2>2. <<y, x>> \in {ss \in Nat \X Nat : ss[1] < ss[2]}
    BY <2>1
  <2>3. <<y, x>> \in OpToRel(<, Nat)
    BY <2>2 DEF OpToRel
  <2> QED
    BY <1>2, <2>3
<1> QED
  BY <1>3 DEF Min

LEMMA EnsuredPlan ==
    ASSUME EarlyInv, EnsureVerificationPlan
    PROVE  \/ UNCHANGED <<plan, planned>>
           \/ /\ status = "approved" /\ plan = "none" /\ requires
              /\ plan' = "active" /\ planned' = template /\ Required(template) # {}
<1>1. CASE ~requires
  BY <1>1 DEF EnsureVerificationPlan
<1>2. CASE requires /\ plan # "none"
  BY <1>2 DEF EnsureVerificationPlan
<1>3. CASE requires /\ plan = "none"
  <2>1. status = "approved"
    BY <1>3 DEF EarlyInv
  <2> QED
    BY <1>3, <2>1 DEF EnsureVerificationPlan, GenerateVerificationPlan, TemplateValid
<1> QED
  BY <1>1, <1>2, <1>3

(* Submitting a result changes the check, and what follows from it, or     *)
(* nothing.                                                                *)
LEMMA ResultSteps ==
    ASSUME NEW k, NEW who, NEW outcome, NEW ev, SubmitVerificationResult(k, who, outcome, ev)
    PROVE  \/ UNCHANGED <<status, plan, check, source>>
           \/ /\ Accepted(k, who, outcome, ev)
              /\ check' = [check EXCEPT ![k] = outcome]
              /\ source' = [source EXCEPT ![k] = who]
              /\ plan' = PlanVerdict(check', plan)
              /\ status' = ChangeVerdict(status, plan')
BY DEF SubmitVerificationResult, ApplyAcceptedResult, RecomputeVerificationState

LEMMA Verdicts ==
    /\ \A ck, old : old \in PlanStatus => PlanVerdict(ck, old) \in PlanStatus
    /\ \A ck, old : PlanVerdict(ck, old) = "none" => old = "none"
    /\ \A st, pl : ChangeVerdict(st, pl) \in {st, "verification_failed", "verified"}
    /\ \A st, pl : ChangeVerdict(st, pl) # st => st = "verification_pending"
BY DEF PlanVerdict, ChangeVerdict, PlanStatus

(* A result that was accepted, or the end of the execution, moves a change *)
(* that waits for its verdict.                                             *)
Decides(old) ==
    /\ planned' = planned /\ plan' = PlanVerdict(check', plan)
    /\ status' = ChangeVerdict(old, plan')

LEMMA StatusSteps ==
    ASSUME TypeOK, EarlyInv, [Next]_vars
    PROVE  \/ status' = status
           \/ MakeDispatchable /\ status = "approved" /\ status' = "dispatchable"
           \/ status = "dispatchable" /\ status' \in {"expired", "running"}
           \/ status = "verification_pending" /\ Decides(status)
           \/ /\ status = "running" /\ exec = "succeeded"
              /\ Decides("verification_pending") /\ UNCHANGED <<check, exec, closure>>
           \/ status = "running" /\ status' = "closed" /\ UNCHANGED closure
           \/ Closes /\ status \in {"verified", "verification_failed", "running"} /\ status' = "closed"
<1>1. CASE UserResult
  <2>1. PICK k \in Checks, u \in Users, outcome \in Outcome, ev \in UserEvidence :
           SubmitUserVerificationResult(k, u, outcome, ev)
    BY <1>1 DEF UserResult
  <2>2. SubmitVerificationResult(k, u, outcome, ev) /\ planned' = planned
    BY <2>1 DEF SubmitUserVerificationResult
  <2> QED
    BY <2>2, ResultSteps, Verdicts DEF Decides
<1>2. ASSUME NEW f \in facts, RecordFact(f)
      PROVE  status' = status \/ (status = "verification_pending" /\ Decides(status))
  <2>1. SubmitVerificationResult(f.check, "runner", f.outcome, FactEvidence(f)) /\ planned' = planned
    BY <1>2 DEF RecordFact
  <2> QED
    BY <2>1, ResultSteps, Verdicts DEF Decides
<1>3. CASE CompletionHook
  BY <1>3 DEF CompletionHook, RecomputeVerificationState, Decides
<1>4. CASE Closes
  BY <1>4 DEF Closes, CloseChange, ClosureAllowed
<1>5. CASE MakeDispatchable \/ DispatchExpires \/ BindExecution
  BY <1>5 DEF MakeDispatchable, DispatchExpires, BindExecution
<1> QED
  BY <1>1, <1>2, <1>3, <1>4, <1>5, ColumnSteps

LEMMA PlanSteps ==
    ASSUME TypeOK, EarlyInv, [Next]_vars
    PROVE  /\ \/ planned' = planned
              \/ status = "approved" /\ planned' = template /\ Required(template) # {}
           /\ plan' \in PlanStatus /\ (plan' = "none" => plan = "none")
<1>0. plan \in PlanStatus
  BY DEF TypeOK
<1>1. CASE UserResult
  <2>1. PICK k \in Checks, u \in Users, outcome \in Outcome, ev \in UserEvidence :
           SubmitUserVerificationResult(k, u, outcome, ev)
    BY <1>1 DEF UserResult
  <2>2. SubmitVerificationResult(k, u, outcome, ev) /\ planned' = planned
    BY <2>1 DEF SubmitUserVerificationResult
  <2> QED
    BY <1>0, <2>2, ResultSteps, Verdicts
<1>2. ASSUME NEW f \in facts, RecordFact(f)
      PROVE  /\ planned' = planned
             /\ plan' \in PlanStatus /\ (plan' = "none" => plan = "none")
  <2>1. SubmitVerificationResult(f.check, "runner", f.outcome, FactEvidence(f)) /\ planned' = planned
    BY <1>2 DEF RecordFact
  <2> QED
    BY <1>0, <2>1, ResultSteps, Verdicts
<1>3. CASE CompletionHook
  BY <1>0, <1>3, Verdicts DEF CompletionHook, RecomputeVerificationState
<1>4. CASE MakeDispatchable \/ BindExecution
  BY <1>0, <1>4, EnsuredPlan DEF MakeDispatchable, BindExecution, PlanStatus
<1> QED
  BY <1>0, <1>1, <1>2, <1>3, <1>4, ColumnSteps

LEMMA CheckSteps ==
    ASSUME TypeOK, EarlyInv, [Next]_vars
    PROVE  \/ UNCHANGED <<check, source>>
           \/ \E k \in Checks, who \in Users \cup {"runner"}, outcome \in Outcome, ev \in Evidence :
                 /\ Accepted(k, who, outcome, ev)
                 /\ check' = [check EXCEPT ![k] = outcome]
                 /\ source' = [source EXCEPT ![k] = who]
                 /\ who = "runner" => StepOf[k] \in Steps
<1>1. CASE UserResult
  <2>1. PICK k \in Checks, u \in Users, outcome \in Outcome, ev \in UserEvidence :
           SubmitUserVerificationResult(k, u, outcome, ev)
    BY <1>1 DEF UserResult
  <2>2. SubmitVerificationResult(k, u, outcome, ev) /\ ev \in Evidence /\ u # "runner"
    BY <2>1, VerificationConstants DEF SubmitUserVerificationResult
  <2> QED
    BY <2>2, ResultSteps
<1>2. ASSUME NEW f \in facts, RecordFact(f)
      PROVE  \/ UNCHANGED <<check, source>>
             \/ \E k \in Checks, outcome \in Outcome, ev \in Evidence :
                   /\ Accepted(k, "runner", outcome, ev)
                   /\ check' = [check EXCEPT ![k] = outcome]
                   /\ source' = [source EXCEPT ![k] = "runner"]
                   /\ StepOf[k] \in Steps
  <2>1. SubmitVerificationResult(f.check, "runner", f.outcome, FactEvidence(f))
    BY <1>2 DEF RecordFact
  <2>2. /\ f.check \in Checks /\ f.outcome \in Outcome /\ StepOf[f.check] \in Steps
        /\ f.artifact \in Artifact \cup {NoArtifact}
    BY DEF TypeOK, Fact, EarlyInv
  <2>3. FactEvidence(f) \in Evidence
    BY <2>2 DEF FactEvidence, Evidence
  <2> QED
    BY <2>1, <2>2, <2>3, ResultSteps
<1> QED
  BY <1>1, <1>2, ColumnSteps

LEMMA TypeInductive ==
    ASSUME TypeOK, EarlyInv, [Next]_vars
    PROVE  TypeOK' /\ EarlyInv'
<1>0. /\ NumChecks \in Nat \ {0} /\ NumSteps \in Nat \ {0} /\ MaxFaults \in Nat
      /\ Templates \subseteq SUBSET Checks /\ StepOf \in [Checks -> 0..NumSteps]
  BY VerificationConstants
<1>t. /\ status \in ChangeStatus
      /\ requires \in BOOLEAN /\ template \in Templates /\ typed \in StepMixes
      /\ plan \in PlanStatus /\ planned \subseteq Checks
      /\ check \in [Checks -> {"pending", "passed", "failed"}]
      /\ source \in [Checks -> Users \cup {NoUser, "runner"}]
      /\ closure \in ClosureOutcome \cup {"none"}
      /\ exec \in {"none", "queued", "running", "succeeded", "failed", "cancelled"}
      /\ hook \in BOOLEAN
      /\ step \in [Steps -> {"pending", "succeeded", "failed"}]
      /\ artifacts \subseteq Artifact
      /\ pc \in {"idle", "step", "reporting", "completing", "done"}
      /\ at \in Steps /\ failing \in BOOLEAN
      /\ todo \subseteq planned /\ waiting \in Checks \cup {0}
      /\ facts \subseteq Fact /\ unreported \subseteq planned
      /\ faults \in 0..MaxFaults
  BY DEF TypeOK
<1>e. /\ status \in {"approved", "dispatchable", "expired"} => pc = "idle"
      /\ pc = "idle" => facts = {} /\ todo = {} /\ unreported = {}
      /\ \A f \in facts : f.check \in MatchingKeys(StepOf[f.check]) /\ StepOf[f.check] \in Steps
      /\ todo \subseteq MatchingKeys(at)
      /\ status # "approved" /\ requires => plan # "none"
  BY DEF EarlyInv
<1>p. UNCHANGED <<requires, template, typed>>
  BY ColumnSteps DEF profileVars
<1>k. \A s : MatchingKeys(s) \subseteq planned
  BY DEF MatchingKeys, VerificationKeys
<1>f. ASSUME NEW f \in facts
      PROVE  /\ f \in Fact /\ f.check \in planned /\ f.check \in Checks
             /\ f.check \in MatchingKeys(StepOf[f.check]) /\ StepOf[f.check] \in Steps
  BY <1>t, <1>k, <1>e DEF Fact
<1>1. status' \in ChangeStatus
  BY <1>t, StatusSteps, Verdicts DEF ChangeStatus, Decides
<1>2. plan' \in PlanStatus /\ planned' \subseteq Checks
  BY <1>0, <1>t, PlanSteps
<1>3. /\ check' \in [Checks -> {"pending", "passed", "failed"}]
      /\ source' \in [Checks -> Users \cup {NoUser, "runner"}]
  BY <1>t, CheckSteps DEF Outcome
<1>4. closure' \in ClosureOutcome \cup {"none"}
  BY <1>t, ColumnSteps DEF Closes, CloseChange
<1>5. /\ exec' \in {"none", "queued", "running", "succeeded", "failed", "cancelled"}
      /\ hook' \in BOOLEAN
  <2>1. exec' \in {"none", "queued", "running", "succeeded", "failed", "cancelled"}
    BY <1>t, ColumnSteps DEF MakeDispatchable, BindExecution, CompleteExecution, ExecutionEnded
  <2>2. hook' \in BOOLEAN
    BY <1>t, ColumnSteps DEF CompleteExecution, ExecutionEnded, CompletionHook
  <2> QED
    BY <2>1, <2>2
<1>6. step' \in [Steps -> {"pending", "succeeded", "failed"}] /\ artifacts' \subseteq Artifact
  <2>1. CASE StepEnds
    <3>1. step' \in [Steps -> {"pending", "succeeded", "failed"}]
      BY <1>t, <2>1 DEF StepEnds
    <3>2. artifacts' \subseteq Artifact
      BY <1>t, <2>1 DEF StepEnds, Artifact
    <3> QED
      BY <3>1, <3>2
  <2> QED
    BY <1>t, <2>1, ColumnSteps
<1>7. pc' \in {"idle", "step", "reporting", "completing", "done"}
  BY <1>t, ColumnSteps DEF BindExecution, StepEnds, CancelObserved, ReportingEnds, CompleteExecution
<1>8. at' \in Steps /\ failing' \in BOOLEAN
  <2>1. at' \in Steps
    BY <1>0, <1>t, ColumnSteps DEF ReportingEnds, Steps
  <2>2. failing' \in BOOLEAN
    BY <1>t, ColumnSteps DEF StepEnds, CancelObserved
  <2> QED
    BY <2>1, <2>2
<1>9. faults' \in 0..MaxFaults
  <2>1. StepEnds => faults' \in 0..MaxFaults
    BY <1>0, <1>t DEF StepEnds
  <2>2. GiveUpWaiting => faults' \in 0..MaxFaults
    BY <1>0, <1>t DEF GiveUpWaiting
  <2>3. ASSUME NEW f \in facts, RecordFact(f) \/ LoseFact(f) PROVE faults' \in 0..MaxFaults
    BY <1>0, <1>t, <2>3 DEF RecordFact, LoseFact
  <2> QED
    BY <1>t, <2>1, <2>2, <2>3, ColumnSteps
<1>10. planned' # planned => pc = "idle" /\ UNCHANGED <<pc, todo, facts, unreported, waiting>>
  <2>1. CASE planned' # planned
    <3>1. status = "approved"
      BY <2>1, PlanSteps
    <3>2. pc = "idle" /\ facts = {} /\ todo = {}
      BY <1>e, <3>1
    <3>3. ~StepEnds /\ ~CancelObserved /\ ~ReportingEnds /\ ~CompleteExecution /\ ~SubmitFact
      BY <3>2 DEF StepEnds, CancelObserved, ReportingEnds, CompleteExecution, SubmitFact
    <3>4. ~BindExecution
      BY <3>1 DEF BindExecution
    <3>5. GiveUpWaiting => UNCHANGED planned
      BY DEF GiveUpWaiting, planVars
    <3> QED
      BY <2>1, <3>2, <3>3, <3>4, <3>5, ColumnSteps
  <2> QED
    BY <2>1
<1>11. todo' \subseteq MatchingKeys(at) /\ (todo' # {} => at' = at)
  <2>1. CASE StepEnds
    BY <1>e, <2>1 DEF StepEnds
  <2>2. CASE SubmitFact
    BY <1>e, <2>2 DEF SubmitFact
  <2>3. CASE ReportingEnds
    BY <1>e, <2>3 DEF ReportingEnds
  <2> QED
    BY <1>e, <2>1, <2>2, <2>3, ColumnSteps
<1>12. unreported' \subseteq planned
  <2>1. CASE StepEnds
    BY <1>t, <1>k, <2>1 DEF StepEnds
  <2>2. ASSUME NEW f \in facts, RecordFact(f) \/ LoseFact(f) PROVE unreported' \subseteq planned
    BY <1>t, <1>f, <2>2 DEF RecordFact, LoseFact
  <2> QED
    BY <1>t, <2>1, <2>2, ColumnSteps
<1>13. ASSUME SubmitFact
       PROVE  waiting' \in todo /\ waiting' \in MatchingKeys(at) /\ waiting' \in Checks
  <2>1. todo \subseteq Nat /\ todo # {}
    BY <1>0, <1>t, <1>13 DEF SubmitFact, Checks
  <2>2. waiting' \in todo
    BY <1>13, <2>1, MinIn DEF SubmitFact
  <2> QED
    BY <1>t, <1>e, <2>2
<1>14. waiting' \in Checks \cup {0}
  <2>1. ASSUME NEW f \in facts, RecordFact(f) \/ LoseFact(f) PROVE waiting' \in Checks \cup {0}
    BY <1>t, <2>1 DEF RecordFact, LoseFact, Answered
  <2> QED
    BY <1>t, <1>13, <2>1, ColumnSteps DEF GiveUpWaiting
<1>15. ASSUME NEW g \in facts'
       PROVE  /\ g \in Fact
              /\ g.check \in MatchingKeys(StepOf[g.check]) /\ StepOf[g.check] \in Steps
  <2>1. CASE g \in facts
    BY <1>f, <2>1
  <2>2. CASE SubmitFact /\ g \notin facts
    <3>1. /\ g = [check |-> waiting', outcome |-> IF failing THEN "failed" ELSE "passed",
                  artifact |-> FirstArtifact(at), checked |-> FALSE]
      BY <1>15, <2>2 DEF SubmitFact
    <3>2. FirstArtifact(at) \in Artifact \cup {NoArtifact}
      BY <1>t DEF FirstArtifact
    <3>3. g \in Fact
      BY <1>13, <2>2, <3>1, <3>2 DEF Fact, Outcome
    <3>4. g.check = waiting' /\ StepOf[waiting'] = at
      BY <1>13, <2>2, <3>1 DEF MatchingKeys
    <3> QED
      BY <1>t, <1>13, <2>2, <3>3, <3>4
  <2>3. ASSUME NEW f \in facts, CheckClaim(f) \/ RecordFact(f) \/ LoseFact(f), g \notin facts
        PROVE  g \in Fact /\ g.check = f.check
    <3>1. g = [f EXCEPT !.checked = TRUE] \/ g = [f EXCEPT !.checked = FALSE]
      BY <1>15, <2>3 DEF CheckClaim, RecordFact, LoseFact
    <3> QED
      BY <1>f, <3>1 DEF Fact
  <2> QED
    BY <1>15, <1>f, <2>1, <2>2, <2>3, ColumnSteps
<1>16. planned' = planned => \A s : MatchingKeys(s)' = MatchingKeys(s)
  BY DEF MatchingKeys, VerificationKeys
<1>17. pc' = "idle" => pc = "idle"
  BY ColumnSteps DEF BindExecution, StepEnds, CancelObserved, ReportingEnds, CompleteExecution
<1>18. pc = "idle" => facts' = {} /\ todo' = {} /\ unreported' = {}
  <2>1. pc = "idle" => ~StepEnds /\ ~SubmitFact
    BY DEF StepEnds, SubmitFact
  <2> QED
    BY <1>e, <2>1, ColumnSteps
<1>19. todo' \subseteq planned' /\ unreported' \subseteq planned'
  BY <1>t, <1>k, <1>10, <1>11, <1>12, <1>18
<1>20. TypeOK'
  <2>1. requires' \in BOOLEAN /\ template' \in Templates /\ typed' \in StepMixes
    BY <1>p, <1>t
  <2>2. facts' \subseteq Fact
    BY <1>15
  <2> QED
    BY <1>1, <1>2, <1>3, <1>4, <1>5, <1>6, <1>7, <1>8, <1>9, <1>14, <1>19, <2>1, <2>2 DEF TypeOK
<1>21. EarlyInv'
  <2>1. status' \in {"approved", "dispatchable", "expired"} => pc' = "idle"
    <3>1. ASSUME status' \in {"approved", "dispatchable", "expired"} PROVE pc' = "idle"
      <4>1. status \in {"approved", "dispatchable", "expired"}
        BY <1>t, <3>1, StatusSteps, Verdicts DEF Decides
      <4>2. pc = "idle" /\ ~BindExecution
        BY <1>e, <3>1, <4>1 DEF BindExecution
      <4> QED
        BY <4>2, ColumnSteps DEF StepEnds, CancelObserved, ReportingEnds, CompleteExecution
    <3> QED
      BY <3>1
  <2>2. pc' = "idle" => facts' = {} /\ todo' = {} /\ unreported' = {}
    BY <1>17, <1>18
  <2>3. ASSUME NEW g \in facts'
        PROVE  g.check \in MatchingKeys(StepOf[g.check])' /\ StepOf[g.check] \in Steps
    BY <1>10, <1>15, <1>16, <1>18, <2>3
  <2>4. todo' \subseteq MatchingKeys(at)'
    <3>1. CASE planned' = planned
      BY <1>11, <3>1 DEF MatchingKeys, VerificationKeys
    <3>2. CASE planned' # planned
      BY <1>10, <1>18, <3>2
    <3> QED
      BY <3>1, <3>2
  <2>5. status' # "approved" /\ requires' => plan' # "none"
    <3>1. CASE MakeDispatchable
      BY <1>e, <1>p, <1>t, <3>1, EnsuredPlan DEF MakeDispatchable, EnsureVerificationPlan,
                                                GenerateVerificationPlan
    <3>2. CASE ~MakeDispatchable
      <4>1. status' # "approved" => status # "approved"
        BY <3>2, StatusSteps
      <4> QED
        BY <1>e, <1>p, <4>1, PlanSteps
    <3> QED
      BY <3>1, <3>2
  <2> QED
    BY <2>1, <2>2, <2>3, <2>4, <2>5 DEF EarlyInv
<1> QED
  BY <1>20, <1>21

LEMMA TypeInvariant == Spec => [](TypeOK /\ EarlyInv)
<1>1. ASSUME Init PROVE TypeOK /\ EarlyInv
  <2>0. NumChecks \in Nat \ {0} /\ NumSteps \in Nat \ {0} /\ MaxFaults \in Nat
    BY VerificationConstants
  <2>1. /\ status = "approved" /\ requires \in BOOLEAN /\ template \in Templates /\ typed \in StepMixes
        /\ plan = "none" /\ planned = {}
        /\ check = [k \in Checks |-> "pending"] /\ source = [k \in Checks |-> NoUser]
        /\ closure = "none" /\ exec = "none" /\ hook = FALSE
        /\ step = [s \in Steps |-> "pending"] /\ artifacts = {}
        /\ pc = "idle" /\ at = 1 /\ failing = FALSE /\ todo = {} /\ waiting = 0
        /\ facts = {} /\ unreported = {} /\ faults = 0
    BY <1>1 DEF Init
  <2>2. at \in Steps /\ faults \in 0..MaxFaults
    BY <2>0, <2>1 DEF Steps
  <2>3. TypeOK
    BY <2>1, <2>2 DEF TypeOK, ChangeStatus, PlanStatus
  <2> QED
    BY <2>1, <2>3 DEF EarlyInv
<1>2. ASSUME TypeOK, EarlyInv, [Next]_vars PROVE TypeOK' /\ EarlyInv'
  BY <1>2, TypeInductive
<1> QED
  BY <1>1, <1>2, PTL DEF Spec

(* Every variable keeps its type; the runner's facts, the checks it still  *)
(* has to report on and the ones left unreported are checks of the plan,   *)
(* although the plan is generated after the profile's template was read.   *)
THEOREM TypeCorrect == Spec => []TypeOK
BY TypeInvariant, PTL

(* A verdict stands (services.submit_verification_result): no late fact,   *)
(* repeated request or further attestation changes the plan or a check of  *)
(* a change that is verified, has failed verification or has ended, and it *)
(* can only be closed from there.                                          *)
THEOREM VerdictIsFinalHolds == Spec => VerdictIsFinal
<1>1. ASSUME TypeOK, EarlyInv, [Next]_vars,
             status \in {"verified", "verification_failed", "closed", "expired"}
      PROVE  UNCHANGED <<plan, check, source>> /\ status' \in {status, "closed"}
  <2>1. \A who : ~Verifiable(who)
    BY <1>1 DEF Verifiable
  <2>2. \A k, who, outcome, ev : SubmitVerificationResult(k, who, outcome, ev)
            => UNCHANGED <<status, plan, check, source>>
    BY <2>1 DEF SubmitVerificationResult, Accepted
  <2>3. UserResult => UNCHANGED <<status, plan, check, source>>
    BY <2>2 DEF UserResult, SubmitUserVerificationResult
  <2>4. (\E f \in facts : RecordFact(f)) => UNCHANGED <<status, plan, check, source>>
    BY <2>2 DEF RecordFact
  <2>5. CompletionHook => UNCHANGED <<status, plan, check, source>>
    BY <1>1 DEF CompletionHook
  <2>6. ~MakeDispatchable /\ ~DispatchExpires /\ ~BindExecution
    BY <1>1 DEF MakeDispatchable, DispatchExpires, BindExecution
  <2>7. Closes => UNCHANGED <<plan, check, source>> /\ status' = "closed"
    BY DEF Closes, CloseChange, planVars
  <2> QED
    BY <1>1, <2>3, <2>4, <2>5, <2>6, <2>7, ColumnSteps
<1> QED
  BY <1>1, TypeInvariant, PTL DEF Spec, VerdictIsFinal

-----------------------------------------------------------------------------
(* The execution.                                                          *)

(* The runner goes through the steps in order; while it counts none as     *)
(* failed, all the steps it has left behind have succeeded.                *)
RunInv ==
    /\ pc = "idle" => at = 1 /\ \A s \in Steps : step[s] = "pending"
    /\ pc = "step" => \A s \in Steps : IF s < at THEN step[s] = "succeeded"
                                                 ELSE step[s] = "pending"
    /\ pc = "reporting" => \A s \in Steps : s < at => step[s] = "succeeded"
    /\ pc = "reporting" => \A s \in Steps : s > at => step[s] = "pending"
    /\ pc = "reporting" /\ ~failing => step[at] = "succeeded"
    /\ pc \in {"completing", "done"} /\ ~failing =>
          at = NumSteps /\ \A s \in Steps : step[s] = "succeeded"
    /\ exec = "succeeded" => pc = "done" /\ ~failing

LEMMA RunInductive ==
    ASSUME TypeOK, EarlyInv, RunInv, [Next]_vars
    PROVE  RunInv'
<1>0. /\ NumSteps \in Nat \ {0} /\ Steps = 1..NumSteps /\ Steps \subseteq Nat /\ at \in Steps
      /\ step \in [Steps -> {"pending", "succeeded", "failed"}]
      /\ pc \in {"idle", "step", "reporting", "completing", "done"} /\ failing \in BOOLEAN
  BY VerificationConstants DEF TypeOK, Steps
<1>1. CASE BindExecution
  <2>1. pc = "idle" /\ pc' = "step" /\ exec' = "running" /\ UNCHANGED <<step, at, failing>>
    BY <1>1 DEF BindExecution, EarlyInv
  <2> QED
    BY <1>0, <2>1 DEF RunInv
<1>2. CASE StepEnds
  <2>1. /\ pc = "step" /\ UNCHANGED <<exec, at>>
        /\ \/ pc' = "completing" /\ failing' = TRUE
           \/ \E outcome \in {"succeeded", "failed"} :
                 /\ pc' = "reporting" /\ step' = [step EXCEPT ![at] = outcome]
                 /\ failing' = (outcome = "failed")
    BY <1>2 DEF StepEnds
  <2>2. exec # "succeeded"
    BY <2>1 DEF RunInv
  <2>3. CASE pc' = "completing" /\ failing' = TRUE
    BY <2>1, <2>2, <2>3 DEF RunInv
  <2>4. ASSUME NEW outcome \in {"succeeded", "failed"}, pc' = "reporting",
               step' = [step EXCEPT ![at] = outcome], failing' = (outcome = "failed")
        PROVE  RunInv'
    <3>1. \A s \in Steps : s # at => step'[s] = step[s]
      BY <1>0, <2>4
    <3>2. step'[at] = outcome
      BY <1>0, <2>4
    <3>3. \A s \in Steps : IF s < at THEN step[s] = "succeeded" ELSE step[s] = "pending"
      BY <2>1 DEF RunInv
    <3>4. \A s \in Steps : s < at => step'[s] = "succeeded"
      BY <1>0, <3>1, <3>3
    <3>5. \A s \in Steps : s > at => step'[s] = "pending"
      BY <1>0, <3>1, <3>3
    <3>6. ~failing' => step'[at] = "succeeded"
      BY <2>4, <3>2
    <3> QED
      BY <2>1, <2>2, <2>4, <3>4, <3>5, <3>6 DEF RunInv
  <2> QED
    BY <2>1, <2>3, <2>4
<1>3. CASE CancelObserved
  <2>1. /\ pc = "step" /\ pc' = "completing" /\ failing' = TRUE /\ UNCHANGED <<exec, at, step>>
    BY <1>3 DEF CancelObserved, execVars
  <2> QED
    BY <2>1 DEF RunInv
<1>4. CASE ReportingEnds
  <2>1. /\ pc = "reporting" /\ UNCHANGED <<exec, step, failing>>
        /\ IF failing \/ at = NumSteps THEN pc' = "completing" /\ at' = at
                                       ELSE pc' = "step" /\ at' = at + 1
    BY <1>4 DEF ReportingEnds, execVars
  <2>2. exec # "succeeded"
    BY <2>1 DEF RunInv
  <2>3. CASE failing
    BY <2>1, <2>2, <2>3 DEF RunInv
  <2>4. CASE ~failing /\ at = NumSteps
    <3>1. \A s \in Steps : step[s] = "succeeded"
      BY <1>0, <2>1, <2>4 DEF RunInv
    <3> QED
      BY <2>1, <2>2, <2>4, <3>1 DEF RunInv
  <2>5. CASE ~failing /\ at # NumSteps
    <3>1. \A s \in Steps : IF s < at + 1 THEN step[s] = "succeeded" ELSE step[s] = "pending"
      BY <1>0, <2>1, <2>5 DEF RunInv
    <3> QED
      BY <2>1, <2>2, <2>5, <3>1 DEF RunInv
  <2> QED
    BY <2>3, <2>4, <2>5
<1>5. CASE CompleteExecution
  <2>1. /\ pc = "completing" /\ pc' = "done" /\ UNCHANGED <<at, step, failing>>
        /\ exec' = "succeeded" => exec = "succeeded" \/ ~failing
    BY <1>5 DEF CompleteExecution
  <2> QED
    BY <2>1 DEF RunInv
<1>6. CASE MakeDispatchable \/ ExecutionEnded
  <2>1. exec' # "succeeded" /\ UNCHANGED <<pc, at, step, failing>>
    BY <1>6 DEF MakeDispatchable, ExecutionEnded, runnerVars
  <2> QED
    BY <2>1 DEF RunInv
<1>7. CASE UNCHANGED <<exec, pc, at, step, failing>>
  BY <1>7 DEF RunInv
<1> QED
  BY <1>1, <1>2, <1>3, <1>4, <1>5, <1>6, <1>7, ColumnSteps

LEMMA RunInvariant == Spec => [](TypeOK /\ EarlyInv /\ RunInv)
<1>1. Init => RunInv
  BY DEF Init, RunInv
<1>2. ASSUME TypeOK, EarlyInv, RunInv, [Next]_vars PROVE RunInv'
  BY <1>2, RunInductive
<1> QED
  BY <1>1, <1>2, TypeInvariant, PTL DEF Spec

VerdictInv ==
    status \in {"verification_pending", "verification_failed", "verified"} => exec = "succeeded"

LEMMA VerdictInductive ==
    ASSUME TypeOK, EarlyInv, VerdictInv, [Next]_vars
    PROVE  VerdictInv'
<1>1. exec = "succeeded" /\ status \notin {"approved", "dispatchable"} => exec' = "succeeded"
  BY ColumnSteps DEF MakeDispatchable, BindExecution, CompleteExecution, ExecutionEnded
<1> QED
  BY <1>1, StatusSteps, Verdicts DEF VerdictInv, Decides

(* However facts, hooks, cancellations and operators interleave, a verdict *)
(* exists only for an execution that succeeded in every step.              *)
THEOREM VerdictAfterExecutionHolds == Spec => []VerdictAfterExecution
<1>1. Init => VerdictInv
  BY DEF Init, VerdictInv
<1>2. ASSUME TypeOK, EarlyInv, VerdictInv, [Next]_vars PROVE VerdictInv'
  BY <1>2, VerdictInductive
<1>3. RunInv /\ VerdictInv => VerdictAfterExecution
  BY DEF RunInv, VerdictInv, VerdictAfterExecution
<1> QED
  BY <1>1, <1>2, <1>3, RunInvariant, PTL DEF Spec

-----------------------------------------------------------------------------
(* Evidence.                                                               *)

(* A check that has passed has its evidence, at any time: steps and        *)
(* artifacts do not go back once they are there.                           *)
PassedInv == \A k \in Checks : check[k] = "passed" => Evidenced(k)

LEMMA EvidenceGrows ==
    ASSUME TypeOK, EarlyInv, RunInv, [Next]_vars
    PROVE  /\ artifacts \subseteq artifacts'
           /\ \A s \in Steps : step[s] = "succeeded" => step'[s] = "succeeded"
<1>1. CASE StepEnds
  <2>0. /\ NumSteps \in Nat /\ at \in Nat /\ at \in Steps
        /\ step \in [Steps -> {"pending", "succeeded", "failed"}]
    BY VerificationConstants DEF TypeOK, Steps
  <2>1. step[at] = "pending"
    BY <1>1, <2>0 DEF StepEnds, RunInv
  <2>2. step' = step \/ \E outcome \in {"succeeded", "failed"} : step' = [step EXCEPT ![at] = outcome]
    BY <1>1 DEF StepEnds
  <2>3. \A s \in Steps : step[s] = "succeeded" => step'[s] = "succeeded"
    BY <2>0, <2>1, <2>2
  <2>4. artifacts \subseteq artifacts'
    BY <1>1 DEF StepEnds
  <2> QED
    BY <2>3, <2>4
<1> QED
  BY <1>1, ColumnSteps

(* What an accepted passing result rests on.                               *)
LEMMA AcceptedIsEvidenced ==
    ASSUME TypeOK, NEW k \in Checks, NEW who \in Users \cup {"runner"}, NEW ev \in Evidence,
           Accepted(k, who, "passed", ev), who = "runner" => StepOf[k] \in Steps
    PROVE  CASE TypeOf[k] = "runner_step" ->
                    who = "runner" /\ StepOf[k] # 0 /\ step[StepOf[k]] = "succeeded"
             [] TypeOf[k] = "artifact_presence" ->
                    \E a \in artifacts : /\ StepOf[k] \in {0, a[1]}
                                         /\ KindOf[k] \in {NoKind, a[2]}
             [] TypeOf[k] = "api_assertion" -> k \in OpenAssertions /\ who \in Users
             [] OTHER -> who \in RoleAllowed[k] /\ (k \in Independent => who \notin Involved)
<1>0. TypeOf[k] \in CheckTypes
  BY VerificationConstants
<1>1. CASE TypeOf[k] = "runner_step"
  <2>1. RunnerStepEvidence(k, who, "passed", ev)
    BY <1>1 DEF Accepted
  <2>2. StepOf[k] # 0
    BY <2>1, VerificationConstants DEF RunnerStepEvidence, Steps
  <2> QED
    BY <1>1, <2>1, <2>2 DEF RunnerStepEvidence
<1>2. CASE TypeOf[k] = "artifact_presence"
  <2>1. ArtifactPresenceEvidence(k, ev)
    BY <1>2 DEF Accepted
  <2> QED
    BY <1>2, <2>1 DEF ArtifactPresenceEvidence
<1>3. CASE TypeOf[k] = "api_assertion"
  <2>1. ApiAssertionEvidence(k, who, ev)
    BY <1>3 DEF Accepted
  <2> QED
    BY <1>3, <2>1 DEF ApiAssertionEvidence
<1>4. CASE TypeOf[k] = "manual_attestation"
  <2>1. ManualAttestationEvidence(k, who, ev)
    BY <1>4 DEF Accepted
  <2> QED
    BY <1>4, <2>1 DEF ManualAttestationEvidence, UserReviewer
<1>5. CASE TypeOf[k] = "external_reference"
  <2>1. ExternalReferenceEvidence(k, who, ev)
    BY <1>5 DEF Accepted
  <2> QED
    BY <1>5, <2>1 DEF ExternalReferenceEvidence, UserReviewer
<1> QED
  BY <1>0, <1>1, <1>2, <1>3, <1>4, <1>5 DEF CheckTypes

LEMMA PassedInductive ==
    ASSUME TypeOK, EarlyInv, RunInv, PassedInv, [Next]_vars
    PROVE  PassedInv'
<1>0. /\ check \in [Checks -> {"pending", "passed", "failed"}]
      /\ source \in [Checks -> Users \cup {NoUser, "runner"}]
      /\ StepOf \in [Checks -> 0..NumSteps] /\ NumSteps \in Nat
      /\ Steps = 1..NumSteps
  BY VerificationConstants DEF TypeOK, Steps
<1>1. ASSUME NEW k \in Checks, check'[k] = "passed"
      PROVE  CASE TypeOf[k] = "runner_step" ->
                    source'[k] = "runner" /\ StepOf[k] # 0 /\ step'[StepOf[k]] = "succeeded"
               [] TypeOf[k] = "artifact_presence" ->
                    \E a \in artifacts' : /\ StepOf[k] \in {0, a[1]}
                                          /\ KindOf[k] \in {NoKind, a[2]}
               [] TypeOf[k] = "api_assertion" -> k \in OpenAssertions /\ source'[k] \in Users
               [] OTHER -> source'[k] \in RoleAllowed[k] /\ (k \in Independent => source'[k] \notin Involved)
  <2>1. CASE check'[k] = check[k] /\ source'[k] = source[k]
    <3>1. Evidenced(k)
      BY <1>1, <2>1 DEF PassedInv
    <3>2. StepOf[k] # 0 => StepOf[k] \in Steps
      BY <1>0
    <3> QED
      BY <2>1, <3>1, <3>2, EvidenceGrows DEF Evidenced
  <2>2. ASSUME NEW who \in Users \cup {"runner"}, NEW ev \in Evidence,
               Accepted(k, who, "passed", ev), source'[k] = who,
               who = "runner" => StepOf[k] \in Steps
        PROVE  CASE TypeOf[k] = "runner_step" ->
                      source'[k] = "runner" /\ StepOf[k] # 0 /\ step'[StepOf[k]] = "succeeded"
                 [] TypeOf[k] = "artifact_presence" ->
                      \E a \in artifacts' : /\ StepOf[k] \in {0, a[1]}
                                            /\ KindOf[k] \in {NoKind, a[2]}
                 [] TypeOf[k] = "api_assertion" -> k \in OpenAssertions /\ source'[k] \in Users
                 [] OTHER -> source'[k] \in RoleAllowed[k] /\ (k \in Independent => source'[k] \notin Involved)
    <3>2. StepOf[k] # 0 => StepOf[k] \in Steps
      BY <1>0
    <3> QED
      BY <2>2, <3>2, AcceptedIsEvidenced, EvidenceGrows
  <2>3. \/ check'[k] = check[k] /\ source'[k] = source[k]
        \/ \E who \in Users \cup {"runner"}, ev \in Evidence :
              /\ Accepted(k, who, "passed", ev) /\ source'[k] = who
              /\ who = "runner" => StepOf[k] \in Steps
    <3>1. ASSUME NEW j \in Checks, NEW who \in Users \cup {"runner"}, NEW outcome \in Outcome,
                 NEW ev \in Evidence, Accepted(j, who, outcome, ev),
                 check' = [check EXCEPT ![j] = outcome], source' = [source EXCEPT ![j] = who],
                 who = "runner" => StepOf[j] \in Steps
          PROVE  \/ check'[k] = check[k] /\ source'[k] = source[k]
                 \/ /\ Accepted(k, who, "passed", ev) /\ source'[k] = who
                    /\ who = "runner" => StepOf[k] \in Steps
      BY <1>0, <1>1, <3>1
    <3> QED
      BY <3>1, CheckSteps
  <2> QED
    BY <2>1, <2>2, <2>3
<1> QED
  BY <1>1 DEF PassedInv, Evidenced

(* A verified change, and one that was closed as a success, has all the    *)
(* required checks passed; nothing takes that back.                        *)
SuccessInv ==
    /\ status = "verified" \/ closure = "success" =>
          Required(planned) # {} /\ \A k \in Required(planned) : check[k] = "passed"
    /\ closure # "none" => status = "closed"

LEMMA SuccessInductive ==
    ASSUME TypeOK, EarlyInv, SuccessInv, [Next]_vars
    PROVE  SuccessInv'
<1>1. ASSUME NEW ck, NEW old, NEW st, ChangeVerdict(st, PlanVerdict(ck, old)) = "verified",
             st = "verification_pending", old \in PlanStatus
      PROVE  Required(planned) # {} /\ \A k \in Required(planned) : ck[k] = "passed"
  <2>1. PlanVerdict(ck, old) = "satisfied"
    BY <1>1 DEF ChangeVerdict
  <2> QED
    BY <1>1, <2>1 DEF PlanVerdict, PlanStatus
<1>2. ASSUME status' = "verified", status # "verified"
      PROVE  Required(planned') # {} /\ \A k \in Required(planned') : check'[k] = "passed"
  <2>0. plan \in PlanStatus
    BY DEF TypeOK
  <2>1. PICK st \in {"verification_pending"} : Decides(st)
    BY <1>2, StatusSteps
  <2> QED
    BY <1>1, <1>2, <2>0, <2>1 DEF Decides
<1>3. ASSUME status = "verified" \/ closure = "success"
      PROVE  Required(planned') # {} /\ \A k \in Required(planned') : check'[k] = "passed"
  <2>1. status \in {"verified", "closed"}
    BY <1>3 DEF SuccessInv
  <2>2. planned' = planned
    BY <2>1, PlanSteps
  <2>3. check' = check
    BY <2>1, CheckSteps DEF Accepted, Verifiable
  <2> QED
    BY <1>3, <2>2, <2>3 DEF SuccessInv
<1>4. ASSUME closure' = "success", closure # "success"
      PROVE  status = "verified"
    BY <1>4, ColumnSteps DEF Closes, CloseChange, ClosureAllowed
<1>5. closure' # "none" => status' = "closed"
  <2>1. CASE Closes
    BY <2>1 DEF Closes, CloseChange
  <2>2. CASE closure' = closure /\ closure # "none"
    <3>1. status = "closed"
      BY <2>2 DEF SuccessInv
    <3> QED
      BY <3>1, StatusSteps
  <2> QED
    BY <2>1, <2>2, ColumnSteps
<1> QED
  BY <1>2, <1>3, <1>4, <1>5 DEF SuccessInv

(* A change is verified, or closed as a success, only when every required  *)
(* check of its plan has passed on evidence of its own type: for every     *)
(* plan, and every order of facts, retries, refusals and attestations.     *)
THEOREM VerifiedByEvidenceHolds == Spec => []VerifiedByEvidence
<1>1. Init => PassedInv /\ SuccessInv
  BY DEF Init, PassedInv, SuccessInv
<1>2. ASSUME TypeOK, EarlyInv, RunInv, PassedInv, [Next]_vars PROVE PassedInv'
  BY <1>2, PassedInductive
<1>3. ASSUME TypeOK, EarlyInv, SuccessInv, [Next]_vars PROVE SuccessInv'
  BY <1>3, SuccessInductive
<1>4. TypeOK /\ PassedInv /\ SuccessInv => VerifiedByEvidence
  BY DEF TypeOK, PassedInv, SuccessInv, VerifiedByEvidence, Required
<1> QED
  BY <1>1, <1>2, <1>3, <1>4, RunInvariant, PTL DEF Spec

-----------------------------------------------------------------------------
(* Facts.                                                                  *)

(* The runner is through with the step of check k, and counts no failure   *)
(* that would keep the execution from succeeding.                          *)
Through(k) ==
    \/ StepOf[k] < at
    \/ StepOf[k] = at /\ pc = "reporting"
    \/ StepOf[k] = at /\ pc \in {"completing", "done"} /\ ~failing

Settled(k) ==
    \/ k \in todo \/ k \in unreported \/ check[k] # "pending"
    \/ \E f \in facts : f.check = k

(* No fact is forgotten: it is still to be sent, on its way, known to be   *)
(* lost, or the check has been decided.                                    *)
FactInv ==
    /\ \A s \in Steps : \A k \in MatchingKeys(s) : Through(k) => Settled(k)
    /\ pc # "reporting" => todo = {}

LEMMA FactInductive ==
    ASSUME TypeOK, EarlyInv, RunInv, FactInv, [Next]_vars
    PROVE  FactInv'
<1>0. /\ NumSteps \in Nat \ {0} /\ Steps = 1..NumSteps /\ at \in Steps /\ at \in Nat
      /\ check \in [Checks -> {"pending", "passed", "failed"}]
      /\ pc \in {"idle", "step", "reporting", "completing", "done"} /\ failing \in BOOLEAN
      /\ facts \subseteq Fact
      /\ NumChecks \in Nat /\ Checks = 1..NumChecks /\ planned \subseteq Checks /\ todo \subseteq planned
  BY VerificationConstants DEF TypeOK, Steps, Checks
<1>1. pc' # "reporting" => todo' = {}
  <2>1. CASE StepEnds
    BY <2>1 DEF FactInv, StepEnds
  <2>2. CASE SubmitFact
    BY <2>2 DEF SubmitFact
  <2>3. CASE ReportingEnds
    BY <2>3 DEF ReportingEnds
  <2>4. CASE UNCHANGED todo /\ (pc' # "reporting" => pc # "reporting")
    BY <2>4 DEF FactInv
  <2>5. CASE BindExecution \/ CancelObserved \/ CompleteExecution
    <3>1. pc # "reporting"
      BY <2>5 DEF BindExecution, CancelObserved, CompleteExecution, EarlyInv
    <3>2. UNCHANGED todo
      BY <2>5 DEF BindExecution, CancelObserved, CompleteExecution
    <3> QED
      BY <3>1, <3>2 DEF FactInv
  <2>6. UNCHANGED pc \/ BindExecution \/ StepEnds \/ CancelObserved \/ ReportingEnds \/ CompleteExecution
    BY ColumnSteps
  <2>7. UNCHANGED todo \/ StepEnds \/ SubmitFact
    BY ColumnSteps
  <2> QED
    BY <2>1, <2>2, <2>3, <2>4, <2>5, <2>6, <2>7
<1>2. ASSUME NEW k \in Checks, check'[k] = "pending" PROVE check[k] = "pending"
  BY <1>0, <1>2, CheckSteps DEF Outcome
<1>3. ASSUME NEW k \in Checks, NEW f \in facts, f.check = k, check'[k] = "pending"
      PROVE  k \in unreported' \/ \E g \in facts' : g.check = k
  <2>1. ASSUME NEW h \in facts, CheckClaim(h)
        PROVE  \E g \in facts' : g.check = k
    <3>1. CASE f = h
      <4>1. [h EXCEPT !.checked = TRUE] \in facts' /\ h \in Fact
        BY <1>0, <2>1 DEF CheckClaim
      <4> QED
        BY <1>3, <3>1, <4>1 DEF Fact
    <3>2. CASE f # h
      BY <1>3, <2>1, <3>2 DEF CheckClaim
    <3> QED
      BY <3>1, <3>2
  <2>2. ASSUME NEW h \in facts, LoseFact(h)
        PROVE  k \in unreported' \/ \E g \in facts' : g.check = k
    BY <1>3, <2>2 DEF LoseFact
  <2>3. ASSUME NEW h \in facts, RecordFact(h)
        PROVE  k \in unreported' \/ \E g \in facts' : g.check = k
    <3>1. CASE f # h
      BY <1>3, <2>3, <3>1 DEF RecordFact
    <3>2. CASE f = h
      <4>1. SubmitVerificationResult(k, "runner", h.outcome, FactEvidence(h)) /\ h.outcome \in Outcome
        BY <1>0, <1>3, <2>3, <3>2 DEF RecordFact, Fact
      <4>2. ~Accepted(k, "runner", h.outcome, FactEvidence(h))
        BY <1>0, <1>3, <4>1 DEF SubmitVerificationResult, ApplyAcceptedResult, Outcome
      <4> QED
        BY <1>3, <2>3, <3>2, <4>2 DEF RecordFact
    <3> QED
      BY <3>1, <3>2
  <2>4. CASE SubmitFact
    BY <1>3, <2>4 DEF SubmitFact
  <2> QED
    BY <1>3, <2>1, <2>2, <2>3, <2>4, ColumnSteps
<1>4. ASSUME NEW k \in Checks, k \in todo
      PROVE  k \in todo' \/ k \in unreported' \/ \E g \in facts' : g.check = k
  <2>1. CASE SubmitFact
    <3>1. todo' = todo \ {waiting'}
      BY <2>1 DEF SubmitFact
    <3>2. \E g \in facts' : g.check = waiting'
      <4> DEFINE g == [check |-> waiting', outcome |-> IF failing THEN "failed" ELSE "passed",
                       artifact |-> FirstArtifact(at), checked |-> FALSE]
      <4>1. g \in facts'
        BY <2>1 DEF SubmitFact
      <4>2. g.check = waiting'
        OBVIOUS
      <4> HIDE DEF g
      <4> QED
        BY <4>1, <4>2
    <3> QED
      BY <1>4, <3>1, <3>2
  <2>2. ~StepEnds
    BY <1>4 DEF StepEnds, FactInv
  <2> QED
    BY <1>4, <2>1, <2>2, ColumnSteps
<1>5. unreported \subseteq unreported'
  BY ColumnSteps DEF StepEnds, RecordFact, LoseFact
<1>6. ASSUME NEW k \in Checks, Settled(k)
      PROVE  \/ k \in todo' \/ k \in unreported' \/ check'[k] # "pending"
             \/ \E f \in facts' : f.check = k
  BY <1>2, <1>3, <1>4, <1>5, <1>6 DEF Settled
<1>7. ASSUME planned' # planned
      PROVE  at' = 1 /\ pc' \notin {"reporting", "completing", "done"}
  <2>1. status = "approved"
    BY <1>7, PlanSteps
  <2>2. pc = "idle" /\ at = 1
    BY <2>1 DEF EarlyInv, RunInv
  <2> QED
    BY <2>1, <2>2, ColumnSteps DEF BindExecution, StepEnds, CancelObserved, ReportingEnds,
                                   CompleteExecution
<1>8. ASSUME NEW s \in Steps, NEW k \in Checks, StepOf[k] = s,
             \/ s < at'
             \/ s = at' /\ pc' = "reporting"
             \/ s = at' /\ pc' \in {"completing", "done"} /\ ~failing'
      PROVE  Through(k) \/ (StepEnds /\ s = at /\ pc' = "reporting")
  <2>0. s \in Nat
    BY <1>0
  <2>1. CASE BindExecution
    BY <1>8, <2>1 DEF BindExecution, Through
  <2>2. CASE StepEnds
    BY <1>8, <2>2 DEF StepEnds, Through
  <2>3. CASE CancelObserved
    BY <1>8, <2>3 DEF CancelObserved, Through
  <2>4. CASE ReportingEnds
    BY <1>0, <1>8, <2>0, <2>4 DEF ReportingEnds, Through
  <2>5. CASE CompleteExecution
    BY <1>8, <2>5 DEF CompleteExecution, Through
  <2> QED
    BY <1>8, <2>1, <2>2, <2>3, <2>4, <2>5, ColumnSteps DEF Through
<1>9. ASSUME StepEnds, pc' = "reporting"
      PROVE  MatchingKeys(at) \subseteq todo' \cup unreported'
  BY <1>9 DEF StepEnds
<1>10. ASSUME NEW s \in Steps, NEW k \in MatchingKeys(s)', Through(k)'
       PROVE  Settled(k)'
  <2>1. k \in Checks /\ StepOf[k] = s /\ k \in planned'
    <3>1. planned' \subseteq Checks
      BY TypeInductive DEF TypeOK
    <3> QED
      BY <3>1 DEF MatchingKeys, VerificationKeys
  <2>2. planned' = planned
    BY <1>0, <1>7, <1>10, <2>1 DEF Through
  <2>3. k \in MatchingKeys(s)
    BY <2>2 DEF MatchingKeys, VerificationKeys
  <2>4. \/ k \in todo' \/ k \in unreported' \/ check'[k] # "pending"
        \/ \E f \in facts' : f.check = k
    BY <1>6, <1>8, <1>9, <1>10, <2>1, <2>3 DEF FactInv, Through
  <2> QED
    BY <2>4 DEF Settled
<1> QED
  BY <1>1, <1>10 DEF FactInv

(* A change that waits for verification waits for something that can still *)
(* come: if reviewers and their evidence are available (Answerable), each  *)
(* undecided required check is a dead end, has a fact on its way, or has   *)
(* an operator whose evidence would be accepted now.                       *)
THEOREM PendingCanBeDecidedHolds ==
    ASSUME Answerable
    PROVE  Spec => []PendingCanBeDecided
<1>1. Init => FactInv
  <2>1. ASSUME Init PROVE FactInv
    <3>1. planned = {} /\ todo = {}
      BY <2>1 DEF Init
    <3> QED
      BY <3>1 DEF FactInv, MatchingKeys, VerificationKeys
  <2> QED
    BY <2>1
<1>2. ASSUME TypeOK, EarlyInv, RunInv, FactInv, [Next]_vars PROVE FactInv'
  BY <1>2, FactInductive
<1>3. ASSUME TypeOK, RunInv, VerdictAfterExecution, FactInv
      PROVE  PendingCanBeDecided
  <2> SUFFICES ASSUME status = "verification_pending", NEW k \in Required(planned),
                      check[k] = "pending", ~DeadEnd(k), ~\E f \in facts : f.check = k
               PROVE  \E u \in Users, ev \in UserEvidence : Accepted(k, u, "passed", ev)
    BY DEF PendingCanBeDecided
  <2>0. /\ k \in Checks /\ k \in planned /\ TypeOf[k] \in CheckTypes /\ UserEvidence \subseteq Evidence
        /\ StepOf[k] \in 0..NumSteps /\ NumSteps \in Nat \ {0} /\ Steps = 1..NumSteps
        /\ artifacts \subseteq Artifact
    BY <1>3, VerificationConstants DEF TypeOK, Required, Steps
  <2>1. pc = "done" /\ ~failing /\ at = NumSteps
    BY <1>3 DEF VerdictAfterExecution, RunInv
  <2>2. Bound /\ \A u \in Users : Verifiable(u) /\ u # "runner"
    BY <2>1, VerificationConstants DEF Bound, Verifiable
  <2>3. TypeOf[k] # "runner_step"
    <3> SUFFICES ASSUME TypeOf[k] = "runner_step" PROVE FALSE
      OBVIOUS
    <3>1. k \notin unreported /\ k \in Keyed /\ StepOf[k] # 0
      BY DEF DeadEnd
    <3>2. StepOf[k] \in Steps /\ k \in MatchingKeys(StepOf[k])
      BY <2>0, <3>1 DEF MatchingKeys, VerificationKeys
    <3>3. Through(k) /\ todo = {}
      BY <1>3, <2>0, <2>1, <3>2 DEF Through, FactInv
    <3> QED
      BY <1>3, <3>1, <3>2, <3>3 DEF FactInv, Settled
  <2>4. CASE TypeOf[k] = "manual_attestation"
    <3>1. PICK u \in Users, ev \in UserEvidence :
             UserReviewer(k, u) /\ ev.text /\ (k \in Keyed => ev.key)
      BY <2>0, <2>4 DEF Answerable
    <3>2. Accepted(k, u, "passed", ev)
      BY <2>2, <2>4, <3>1 DEF Accepted, ManualAttestationEvidence
    <3> QED
      BY <3>2
  <2>5. CASE TypeOf[k] = "external_reference"
    <3>1. PICK u \in Users, ev \in UserEvidence :
             UserReviewer(k, u) /\ ev.reference = "good" /\ (k \in Keyed => ev.key)
      BY <2>0, <2>5 DEF Answerable
    <3>2. Accepted(k, u, "passed", ev)
      BY <2>2, <2>5, <3>1 DEF Accepted, ExternalReferenceEvidence, FreeTextOnly
    <3> QED
      BY <3>2
  <2>6. CASE TypeOf[k] = "api_assertion"
    <3>1. PICK u \in Users, ev \in UserEvidence : ev.snapshot = "good" /\ (k \in Keyed => ev.key)
      BY <2>0, <2>6 DEF Answerable
    <3>2. k \in OpenAssertions
      BY <2>6 DEF DeadEnd
    <3>3. Accepted(k, u, "passed", ev)
      BY <2>2, <2>6, <3>1, <3>2 DEF Accepted, ApiAssertionEvidence, FreeTextOnly
    <3> QED
      BY <3>3
  <2>7. CASE TypeOf[k] = "artifact_presence"
    <3>1. PICK a \in artifacts : StepOf[k] \in {0, a[1]} /\ KindOf[k] \in {NoKind, a[2]}
      BY <2>7 DEF DeadEnd
    <3>2. PICK u \in Users, ev \in UserEvidence : ev.artifact = a /\ (k \in Keyed => ev.key)
      BY <2>0, <2>7, <3>1 DEF Answerable
    <3>3. a # NoArtifact
      <4>1. a[1] \in Steps
        BY <2>0, <3>1 DEF Artifact
      <4> QED
        BY <2>0, <4>1 DEF NoArtifact
    <3>4. ArtifactPresenceEvidence(k, ev)
      BY <2>2, <3>1, <3>2 DEF ArtifactPresenceEvidence
    <3>5. Accepted(k, u, "passed", ev)
      BY <2>2, <2>7, <3>2, <3>3, <3>4 DEF Accepted, FreeTextOnly
    <3> QED
      BY <3>5
  <2> QED
    BY <2>0, <2>3, <2>4, <2>5, <2>6, <2>7 DEF CheckTypes
<1> QED
  BY <1>1, <1>2, <1>3, RunInvariant, VerdictAfterExecutionHolds, PTL DEF Spec
=============================================================================
