--------------------------- MODULE ChangeDispatch ---------------------------
(***************************************************************************)
(* A production change from its creation to its closure: approval,         *)
(* maintenance window, freezes, preflight, target locks, the dispatch      *)
(* token, the binding of its one execution to a runner, the hook that      *)
(* carries the execution's end over to the change, and verification.       *)
(* Sources: apps/api/apps/changes/services.py and transitions.py, the      *)
(* change-bound paths of apps/api/apps/executions, and Executor.run of     *)
(* apps/runner.                                                            *)
(*                                                                         *)
(* Handlers lock the ChangeRecord row first and are one action per         *)
(* transaction.  Where the code commits and then goes on (the claim and    *)
(* its answer, the binding check and the start of a step, the end of an    *)
(* execution and its hook), the parts are actions of their own.            *)
(*                                                                         *)
(* A change has one execution, claimed at most once (the reclaim of silent *)
(* executions leaves change-bound ones out), so the runner that holds the  *)
(* claim token is the one whose job it is.  The steps of the execution and *)
(* its lease are the subject of ExecutionControl; here a runner runs some  *)
(* number of steps.  Emergency access, exceptions and retrospective        *)
(* reviews are the subject of ChangeEmergency, the checks of a plan in     *)
(* detail that of ChangeVerification; drift of the submitted dossier       *)
(* behind the services' back is not modelled.                              *)
(***************************************************************************)
EXTENDS Naturals, FiniteSets

CONSTANTS
    Changes, Runners, Targets, None,
    TargetsOf,          \* ChangeRecord.targets
    NeedsApproval,      \* changes whose profile has requires_approval
    NeedsVerification,  \* changes whose profile has verification_required
    Checks,             \* the required checks of a verification plan
    ScheduledLater,     \* changes with scheduled_for in the future
    Windowed,           \* changes whose requester sets a ChangeWindow
    Freezable,          \* targets for which freeze rules come and go
    CancelRequests,     \* whether operators cancel executions
    HookFaults          \* whether the completion hook may fail

ASSUME ChangeConstants ==
    /\ TargetsOf \in [Changes -> SUBSET Targets]
    /\ NeedsApproval \subseteq Changes
    /\ NeedsVerification \subseteq Changes
    /\ ScheduledLater \subseteq Changes
    /\ Windowed \subseteq Changes
    /\ Freezable \subseteq Targets
    /\ CancelRequests \in BOOLEAN
    /\ HookFaults \in BOOLEAN
    /\ Checks # {}
    /\ None \notin Changes \cup Runners

ChangeStatus == {"none", "draft", "pending_approval", "scheduled", "dispatchable",
    "running", "verification_pending", "verification_failed", "verified",
    "closed", "rejected", "expired"}
ApprovalStatus == {"none", "pending", "approved", "rejected", "timed_out"}
WindowPhase == {"none", "scheduled", "open", "expired"}
RulePhase == {"none", "idle", "blocking"}
ExecutionStatus == {"none", "queued", "claimed", "running", "succeeded",
    "failed", "cancelled"}
RunnerState == {"idle", "claimed", "binding", "ready", "starting", "working",
    "completing", "finishing"}
Outcome == {"succeeded", "failed", "cancelled"}

VARIABLES
    change,    \* ChangeRecord.status; "none" before it is created
    approval,  \* the status of ChangeRecord.approval_request
    due,       \* scheduled_for has passed
    window,    \* the ChangeWindow's phase by the clock
    vouched,   \* the window is the one the approval was given for (observed)
    freeze,    \* a target's active FreezeRule: it applies now, or is idle
    passed,    \* a passed DispatchEligibilityCheck has not expired
    lock,      \* the change with the active TargetLock on a target
    exec,      \* Execution.status of the change's execution
    token,     \* the dispatch token: none, valid or expired
    bound,     \* ChangeExecutionBinding.bound_by_runner_id
    finished,  \* ChangeExecutionBinding.execution_finished_at is set
    hook,      \* handle_bound_execution_completed is still to run
    check,     \* VerificationCheck.status of the plan's required checks
    closure,   \* ChangeClosure.outcome
    job,       \* the change whose execution a runner works on
    pc,        \* where Executor.run is
    told,      \* the claim's answer named the change
    outcome    \* what the runner will report

changeVars == <<change, approval, due, window, vouched, freeze, passed, lock,
                exec, token, bound, finished, hook, check, closure, job, pc,
                told, outcome>>
planVars == <<approval, due, window, vouched, freeze, passed>>
bindingVars == <<token, bound, finished>>
closureVars == <<check, closure>>
runnerVars == <<job, pc, told, outcome>>

TypeOK ==
    /\ change \in [Changes -> ChangeStatus]
    /\ approval \in [Changes -> ApprovalStatus]
    /\ due \in [Changes -> BOOLEAN]
    /\ window \in [Changes -> WindowPhase]
    /\ vouched \in [Changes -> BOOLEAN]
    /\ freeze \in [Targets -> RulePhase]
    /\ passed \in [Changes -> BOOLEAN]
    /\ lock \in [Targets -> Changes \cup {None}]
    /\ exec \in [Changes -> ExecutionStatus]
    /\ token \in [Changes -> {"none", "valid", "expired"}]
    /\ bound \in [Changes -> Runners \cup {None}]
    /\ finished \in [Changes -> BOOLEAN]
    /\ hook \in [Changes -> BOOLEAN]
    /\ check \in [Changes -> [Checks -> {"pending", "passed", "failed"}]]
    /\ closure \in [Changes -> {"none", "success", "failure"}]
    /\ job \in [Runners -> Changes \cup {None}]
    /\ pc \in [Runners -> RunnerState]
    /\ told \in [Runners -> BOOLEAN]
    /\ outcome \in [Runners -> Outcome]

Init ==
    /\ change = [c \in Changes |-> "none"]
    /\ approval = [c \in Changes |-> "none"]
    /\ due = [c \in Changes |-> c \notin ScheduledLater]
    /\ window = [c \in Changes |-> "none"]
    /\ vouched = [c \in Changes |-> FALSE]
    /\ freeze = [t \in Targets |-> "none"]
    /\ passed = [c \in Changes |-> FALSE]
    /\ lock = [t \in Targets |-> None]
    /\ exec = [c \in Changes |-> "none"]
    /\ token = [c \in Changes |-> "none"]
    /\ bound = [c \in Changes |-> None]
    /\ finished = [c \in Changes |-> FALSE]
    /\ hook = [c \in Changes |-> FALSE]
    /\ check = [c \in Changes |-> [k \in Checks |-> "pending"]]
    /\ closure = [c \in Changes |-> "none"]
    /\ job = [r \in Runners |-> None]
    /\ pc = [r \in Runners |-> "idle"]
    /\ told = [r \in Runners |-> FALSE]
    /\ outcome = [r \in Runners |-> "succeeded"]

-----------------------------------------------------------------------------
(* Time and the people who plan.                                           *)

ScheduledTimePasses(c) ==
    /\ ~due[c]
    /\ due' = [due EXCEPT ![c] = TRUE]
    /\ UNCHANGED <<change, approval, window, vouched, freeze, passed, lock, exec, hook,
                   bindingVars, closureVars, runnerVars>>

WindowMoves(c) ==
    /\ \/ window[c] = "scheduled" /\ window' = [window EXCEPT ![c] = "open"]
       \/ window[c] = "open" /\ window' = [window EXCEPT ![c] = "expired"]
    /\ UNCHANGED <<change, approval, due, vouched, freeze, passed, lock, exec, hook,
                   bindingVars, closureVars, runnerVars>>

SetFreeze(t, phase) ==
    /\ t \in Freezable
    /\ freeze' = [freeze EXCEPT ![t] = phase]
    /\ UNCHANGED <<change, approval, due, window, vouched, passed, lock, exec, hook,
                   bindingVars, closureVars, runnerVars>>

(* At most one active rule concerns a target at a time.  It is idle before *)
(* starts_at, from ends_at on, or while its scope leaves the target out.   *)
CreateFreezeRule(t) ==
    /\ freeze[t] = "none"
    /\ \E phase \in {"idle", "blocking"} : SetFreeze(t, phase)

(* An inactive rule cannot be updated.  Scope and interval are replaced    *)
(* together: the rule may start or stop to block at once.                  *)
UpdateFreezeRule(t) ==
    /\ freeze[t] # "none"
    /\ \E phase \in {"idle", "blocking"} : SetFreeze(t, phase)

DeactivateFreezeRule(t) ==
    /\ freeze[t] # "none"
    /\ SetFreeze(t, "none")

(* The clock reaches a rule's starts_at or ends_at.                        *)
FreezeInterval(t) ==
    \/ freeze[t] = "idle" /\ SetFreeze(t, "blocking")
    \/ freeze[t] = "blocking" /\ SetFreeze(t, "idle")

(* A check that has expired; after dispatch nothing reads it any more.     *)
PreflightExpires(c) ==
    /\ passed[c]
    /\ change[c] = "scheduled"
    /\ passed' = [passed EXCEPT ![c] = FALSE]
    /\ UNCHANGED <<change, approval, due, window, vouched, freeze, lock, exec, hook,
                   bindingVars, closureVars, runnerVars>>

DispatchTokenExpires(c) ==
    /\ token[c] = "valid"
    /\ token' = [token EXCEPT ![c] = "expired"]
    /\ UNCHANGED <<planVars, change, lock, exec, bound, finished, hook,
                   closureVars, runnerVars>>

(* A draft of an active profile with a published workflow it allows; what  *)
(* the validation refuses leaves no record behind.                         *)
CreateChangeRecord(c) ==
    /\ change[c] = "none"
    /\ change' = [change EXCEPT ![c] = "draft"]
    /\ UNCHANGED <<planVars, lock, exec, hook, bindingVars, closureVars, runnerVars>>

(* Mutant: the approval survives a new window.                             *)
UpdateWindowKeepsApproval(c) ==
    /\ c \in Windowed
    /\ change[c] \in {"draft", "pending_approval", "scheduled"}
    /\ \E phase \in WindowPhase \ {"none"} :
           window' = [window EXCEPT ![c] = phase]
    /\ vouched' = [vouched EXCEPT ![c] = FALSE]
    /\ UNCHANGED <<change, approval, due, freeze, passed, lock, exec, hook,
                   bindingVars, closureVars, runnerVars>>

(* A window may be set, also one that is over, until the change is          *)
(* dispatched; behind an approval this takes the approval back, and the    *)
(* approval request keeps its status.                                      *)
UpdateWindow(c) ==
    /\ c \in Windowed
    /\ change[c] \in {"draft", "pending_approval", "scheduled"}
    /\ \E phase \in WindowPhase \ {"none"} :
           window' = [window EXCEPT ![c] = phase]
    /\ vouched' = [vouched EXCEPT ![c] = FALSE]
    /\ change' = IF change[c] = "scheduled" /\ c \in NeedsApproval
                 THEN [change EXCEPT ![c] = "pending_approval"]
                 ELSE change
    /\ UNCHANGED <<approval, due, freeze, passed, lock, exec, hook,
                   bindingVars, closureVars, runnerVars>>

-----------------------------------------------------------------------------
(* Dispatch.                                                               *)

HasPlan(c) == c \in NeedsVerification /\ exec[c] # "none"

LocksFreeOrOwn(c) == \A t \in TargetsOf[c] : lock[t] \in {None, c}

GatesOpen(c) ==
    /\ window[c] \in {"none", "open"}
    /\ \A t \in TargetsOf[c] : freeze[t] # "blocking"
    /\ LocksFreeOrOwn(c)

ApprovedStatus(c) ==
    /\ change[c] \in {"scheduled", "dispatchable"}
    /\ c \in NeedsApproval => approval[c] = "approved"

PlanReady(c) == c \in NeedsVerification => HasPlan(c)

(* An operator's preflight: a check that passes is stored for dispatch to  *)
(* use; one that fails is never read.  Only dispatch generates the plan.   *)
RunDispatchPreflight(c) ==
    /\ ApprovedStatus(c) /\ GatesOpen(c) /\ PlanReady(c)
    /\ passed' = [passed EXCEPT ![c] = TRUE]
    /\ UNCHANGED <<change, approval, due, window, vouched, freeze, lock, exec, hook,
                   bindingVars, closureVars, runnerVars>>

TargetsFree(c) == \A t \in TargetsOf[c] : lock[t] = None

AcquireTargetLocks(c) ==
    lock' = [t \in Targets |-> IF t \in TargetsOf[c] THEN c ELSE lock[t]]

(* make_dispatchable inside the caller's transaction: what fails here rolls *)
(* the caller back as well.                                                *)
Reserve(c) ==
    /\ passed[c] \/ GatesOpen(c)
    /\ TargetsFree(c)
    /\ passed' = [passed EXCEPT ![c] = TRUE]
    /\ AcquireTargetLocks(c)
    /\ exec' = [exec EXCEPT ![c] = "queued"]
    /\ token' = [token EXCEPT ![c] = "valid"]
    /\ change' = [change EXCEPT ![c] = "dispatchable"]

ScheduleOrMakeDispatchable(c) ==
    \/ /\ ~due[c]
       /\ change' = [change EXCEPT ![c] = "scheduled"]
       /\ UNCHANGED <<passed, lock, exec, token>>
    \/ due[c] /\ Reserve(c)

(* The operator's dispatch, and the promotion of due changes that every    *)
(* claim-next request begins with.                                         *)
MakeDispatchable(c) ==
    /\ change[c] = "scheduled"
    /\ due[c]
    /\ Reserve(c)
    /\ UNCHANGED <<approval, due, window, vouched, freeze, bound, finished, hook,
                   closureVars, runnerVars>>

CreateChangeApprovalRequest(c) ==
    approval' = [approval EXCEPT ![c] = "pending"]

SubmitChangeRecord(c) ==
    /\ change[c] = "draft"
    /\ IF c \in NeedsApproval
       THEN /\ change' = [change EXCEPT ![c] = "pending_approval"]
            /\ CreateChangeApprovalRequest(c)
            /\ UNCHANGED <<passed, lock, exec, token>>
       ELSE /\ ScheduleOrMakeDispatchable(c)
            /\ UNCHANGED approval
    /\ UNCHANGED <<due, window, vouched, freeze, bound, finished, hook, closureVars,
                   runnerVars>>

(* A decision and the timeout of a request; the change follows in the same *)
(* transaction.                                                            *)
DecideApproval(c) ==
    /\ approval[c] = "pending"
    /\ change[c] = "pending_approval"
    /\ \/ /\ approval' = [approval EXCEPT ![c] = "approved"]
          /\ ScheduleOrMakeDispatchable(c)
          /\ vouched' = [vouched EXCEPT ![c] = TRUE]
       \/ /\ approval' = [approval EXCEPT ![c] = "rejected"]
          /\ change' = [change EXCEPT ![c] = "rejected"]
          /\ UNCHANGED <<vouched, passed, lock, exec, token>>
       \/ /\ approval' = [approval EXCEPT ![c] = "timed_out"]
          /\ change' = [change EXCEPT ![c] = "expired"]
          /\ UNCHANGED <<vouched, passed, lock, exec, token>>
    /\ UNCHANGED <<due, window, freeze, bound, finished, hook, closureVars,
                   runnerVars>>

-----------------------------------------------------------------------------
(* Claim, binding and steps.                                               *)

Late(c) == exec[c] = "queued" /\ bound[c] = None /\ token[c] = "expired"

(* One claim-next transaction: queued executions whose dispatch has expired *)
(* are met in the order of their creation and cancelled with their change, *)
(* until one that has not is found; how many are met is left open.         *)
ClaimNextExecution(r) ==
    /\ pc[r] = "idle"
    /\ \E late \in SUBSET {c \in Changes : Late(c)},
          found \in {c \in Changes : exec[c] = "queued" /\ ~Late(c)} \cup {None} :
          /\ late # {} \/ found # None
          /\ exec' = [c \in Changes |->
                 IF c \in late THEN "cancelled"
                 ELSE IF c = found THEN "claimed" ELSE exec[c]]
          /\ change' = [c \in Changes |->
                 IF c \in late /\ change[c] = "dispatchable"
                 THEN "expired" ELSE change[c]]
          /\ job' = [job EXCEPT ![r] = found]
          /\ pc' = [pc EXCEPT ![r] = IF found = None THEN "idle" ELSE "claimed"]
    /\ UNCHANGED <<planVars, lock, bindingVars, hook, closureVars, told, outcome>>

(* The answer is serialised after the claim has been committed.  It names  *)
(* the change only while its dispatch is still good; otherwise the runner  *)
(* takes the execution for an ordinary one.                                *)
AnswerClaim(r) ==
    LET c == job[r]
        good == bound[c] = None /\ token[c] = "valid" /\ change[c] = "dispatchable"
    IN  /\ pc[r] = "claimed"
        /\ told' = [told EXCEPT ![r] = good]
        /\ pc' = [pc EXCEPT ![r] = IF good THEN "binding" ELSE "ready"]
        /\ change' = IF bound[c] = None /\ token[c] = "expired"
                         /\ change[c] = "dispatchable"
                     THEN [change EXCEPT ![c] = "expired"]
                     ELSE change
        /\ UNCHANGED <<planVars, lock, exec, bindingVars, hook, closureVars,
                       job, outcome>>

(* What bind-execution accepts: a first binding of a dispatchable change,  *)
(* or the repetition of one that succeeded, while the token lasts; a plan  *)
(* is looked up again, and not found usable once the change is closed.     *)
BindAccepted(r, c) ==
    /\ token[c] = "valid"
    /\ \/ bound[c] = None /\ change[c] = "dispatchable"
       \/ bound[c] = r /\ ~(c \in NeedsVerification /\ change[c] = "closed")

(* bind_execution and the runner's side of it.  The answer may be lost     *)
(* after the binding was committed: the runner asks again, or gives up and *)
(* reports a failure without ever announcing an end (told is dropped).     *)
BindExecution(r) ==
    LET c == job[r] IN
    /\ pc[r] = "binding"
    /\ IF BindAccepted(r, c)
       THEN /\ bound' = [bound EXCEPT ![c] = r]
            /\ change' = IF bound[c] = None
                         THEN [change EXCEPT ![c] = "running"] ELSE change
            /\ \/ pc' = [pc EXCEPT ![r] = "ready"]
               \/ UNCHANGED pc
            /\ UNCHANGED <<told, outcome>>
       ELSE /\ change' = IF bound[c] = None /\ change[c] = "dispatchable"
                         THEN [change EXCEPT ![c] = "expired"] ELSE change
            /\ pc' = [pc EXCEPT ![r] = "completing"]
            /\ told' = [told EXCEPT ![r] = FALSE]
            /\ outcome' = [outcome EXCEPT ![r] = "failed"]
            /\ UNCHANGED bound
    /\ UNCHANGED <<planVars, lock, exec, token, finished, hook, closureVars, job>>

BindGivenUp(r) ==
    /\ pc[r] = "binding"
    /\ pc' = [pc EXCEPT ![r] = "completing"]
    /\ told' = [told EXCEPT ![r] = FALSE]
    /\ outcome' = [outcome EXCEPT ![r] = "failed"]
    /\ UNCHANGED <<planVars, change, lock, exec, bindingVars, hook, closureVars,
                   job>>

(* Mutant: an execution that is not bound yet passes.                      *)
BindingReadyUnlessOther(r, c) == bound[c] # None => bound[c] = r /\ change[c] = "running"

(* assert_execution_change_binding_ready for the runner with job c.        *)
BindingReady(r, c) == bound[c] = r /\ change[c] = "running"

(* The binding is checked on rows read without a lock ...                  *)
StartChecked(r) ==
    /\ pc[r] = "ready"
    /\ IF BindingReady(r, job[r])
       THEN pc' = [pc EXCEPT ![r] = "starting"] /\ UNCHANGED outcome
       ELSE /\ pc' = [pc EXCEPT ![r] = "completing"]
            /\ outcome' = [outcome EXCEPT ![r] = "failed"]
    /\ UNCHANGED <<planVars, change, lock, exec, bindingVars, hook, closureVars,
                   job, told>>

(* ... and the step is started later, in a transaction that checks neither *)
(* the binding nor the execution's status; policy may still refuse it.     *)
StepStarts(r) ==
    LET c == job[r] IN
    /\ pc[r] = "starting"
    /\ \/ /\ pc' = [pc EXCEPT ![r] = "working"]
          /\ exec' = IF exec[c] = "claimed"
                     THEN [exec EXCEPT ![c] = "running"] ELSE exec
          /\ UNCHANGED outcome
       \/ /\ pc' = [pc EXCEPT ![r] = "completing"]
          /\ outcome' = [outcome EXCEPT ![r] = "failed"]
          /\ UNCHANGED exec
    /\ UNCHANGED <<planVars, change, lock, bindingVars, hook, closureVars, job,
                   told>>

(* A command ends: another step follows, or the outcome is known.          *)
CommandEnds(r) ==
    /\ pc[r] = "working"
    /\ \/ pc' = [pc EXCEPT ![r] = "ready"] /\ UNCHANGED outcome
       \/ /\ pc' = [pc EXCEPT ![r] = "completing"]
          /\ \E o \in Outcome : outcome' = [outcome EXCEPT ![r] = o]
    /\ UNCHANGED <<planVars, change, lock, exec, bindingVars, hook, closureVars,
                   job, told>>

-----------------------------------------------------------------------------
(* The end of the execution.                                               *)

Active(c) == exec[c] \in {"claimed", "running"}

(* What follows a complete request, answered or not.                       *)
AfterComplete(r) ==
    /\ pc' = [pc EXCEPT ![r] = IF told[r] THEN "finishing" ELSE "idle"]
    /\ job' = [job EXCEPT ![r] = IF told[r] THEN @ ELSE None]

(* complete_execution; a runner whose binding is not ready is refused.     *)
CompleteExecution(r) ==
    LET c == job[r] IN
    /\ pc[r] = "completing"
    /\ IF Active(c) /\ BindingReady(r, c)
       THEN /\ exec' = [exec EXCEPT ![c] = outcome[r]]
            /\ hook' = [hook EXCEPT ![c] = TRUE]
       ELSE UNCHANGED <<exec, hook>>
    /\ AfterComplete(r)
    /\ UNCHANGED <<planVars, change, lock, bindingVars, closureVars, told,
                   outcome>>

CompleteLost(r) ==
    /\ pc[r] = "completing"
    /\ AfterComplete(r)
    /\ UNCHANGED <<planVars, change, lock, exec, bindingVars, hook, closureVars,
                   told, outcome>>

(* Mutant: the watchdog looks for running executions only.                 *)
RunningTimesOut(c) ==
    /\ exec[c] = "running"
    /\ exec' = [exec EXCEPT ![c] = "failed"]
    /\ hook' = [hook EXCEPT ![c] = TRUE]
    /\ UNCHANGED <<planVars, change, lock, bindingVars, closureVars, runnerVars>>

(* The watchdog: a claimed or running execution whose heartbeats have not  *)
(* arrived, or whose step approval ran out, fails; the runner may live on. *)
ExecutionTimesOut(c) ==
    /\ Active(c)
    /\ exec' = [exec EXCEPT ![c] = "failed"]
    /\ hook' = [hook EXCEPT ![c] = TRUE]
    /\ UNCHANGED <<planVars, change, lock, bindingVars, closureVars, runnerVars>>

(* cancel_execution of a queued execution.  A later request only asks the  *)
(* runner to stop: an outcome CommandEnds may choose.                      *)
CancelExecution(c) ==
    /\ CancelRequests
    /\ exec[c] = "queued"
    /\ exec' = [exec EXCEPT ![c] = "cancelled"]
    /\ UNCHANGED <<planVars, change, lock, bindingVars, hook, closureVars,
                   runnerVars>>

(* recompute_verification_state on the checks ck.                          *)
Verdict(ck) ==
    IF \E k \in Checks : ck[k] = "failed" THEN "verification_failed"
    ELSE IF \A k \in Checks : ck[k] = "passed" THEN "verified"
    ELSE "verification_pending"

(* Mutant: the locks are released with the end of the execution.           *)
CompletionHookReleases(c) ==
    /\ hook[c]
    /\ hook' = [hook EXCEPT ![c] = FALSE]
    /\ change' =
         [change EXCEPT ![c] =
             IF @ = "dispatchable" THEN "expired"
             ELSE IF @ # "running" THEN @
             ELSE IF exec[c] = "succeeded" /\ c \in NeedsVerification
             THEN Verdict(check[c])
             ELSE "closed"]
    /\ lock' = [t \in Targets |-> IF lock[t] = c THEN None ELSE lock[t]]
    /\ UNCHANGED <<planVars, exec, bindingVars, closureVars, runnerVars>>

(* handle_bound_execution_completed, after the execution's own transaction.*)
CompletionHook(c) ==
    /\ hook[c]
    /\ hook' = [hook EXCEPT ![c] = FALSE]
    /\ change' =
         [change EXCEPT ![c] =
             IF @ = "dispatchable" THEN "expired"
             ELSE IF @ # "running" THEN @
             ELSE IF exec[c] = "succeeded" /\ c \in NeedsVerification
             THEN Verdict(check[c])
             ELSE "closed"]
    /\ UNCHANGED <<planVars, lock, exec, bindingVars, closureVars, runnerVars>>

CompletionHookFails(c) ==
    /\ HookFaults
    /\ hook[c]
    /\ hook' = [hook EXCEPT ![c] = FALSE]
    /\ UNCHANGED <<planVars, change, lock, exec, bindingVars, closureVars,
                   runnerVars>>

(* Mutant: the locks on the change's targets are released, whoever holds   *)
(* them.                                                                   *)
ReleasedTargets(c) == [t \in Targets |-> IF t \in TargetsOf[c] THEN None ELSE lock[t]]

Released(c) == [t \in Targets |-> IF lock[t] = c THEN None ELSE lock[t]]

(* A runner reports only on the change it bound: _resolve_bound_binding. *)
BoundBy(c, r) == bound[c] = r

(* record_execution_finished.  The status it gives the window is read by   *)
(* no gate.                                                                *)
ExecutionFinished(r) ==
    LET c == job[r] IN
    /\ pc[r] = "finishing"
    /\ IF BoundBy(c, r)
       THEN /\ finished' = [finished EXCEPT ![c] = TRUE]
            /\ lock' = Released(c)
       ELSE UNCHANGED <<finished, lock>>
    /\ pc' = [pc EXCEPT ![r] = "idle"]
    /\ job' = [job EXCEPT ![r] = None]
    /\ UNCHANGED <<planVars, change, exec, token, bound, hook, closureVars,
                   told, outcome>>

(* The process dies, or its last request never arrives: the job is gone.   *)
JobLost(r) ==
    /\ pc[r] # "idle"
    /\ pc' = [pc EXCEPT ![r] = "idle"]
    /\ job' = [job EXCEPT ![r] = None]
    /\ UNCHANGED <<planVars, change, lock, exec, bindingVars, hook, closureVars,
                   told, outcome>>

-----------------------------------------------------------------------------
(* Verification and closure.                                               *)

(* A result from the runner that is bound, while its execution runs, or    *)
(* from anyone entitled once the execution has succeeded.                  *)
SubmitVerificationResult(c, k) ==
    /\ HasPlan(c)
    /\ \/ change[c] = "verification_pending"
       \/ change[c] = "running" /\ \E r \in Runners : job[r] = c /\ bound[c] = r
    /\ \E result \in {"passed", "failed"} :
           check' = [check EXCEPT ![c][k] = result]
    /\ change' = IF change[c] = "verification_pending"
                 THEN [change EXCEPT ![c] = Verdict(check'[c])] ELSE change
    /\ UNCHANGED <<planVars, lock, exec, bindingVars, hook, closure, runnerVars>>

CloseChange(c) ==
    /\ HasPlan(c)
    /\ \/ /\ change[c] = "verified"
          /\ \A k \in Checks : check[c][k] = "passed"
          /\ closure' = [closure EXCEPT ![c] = "success"]
       \/ /\ change[c] \in {"verification_failed", "running"}
          /\ closure' = [closure EXCEPT ![c] = "failure"]
    /\ lock' = Released(c)
    /\ change' = [change EXCEPT ![c] = "closed"]
    /\ UNCHANGED <<planVars, exec, bindingVars, hook, check, runnerVars>>

-----------------------------------------------------------------------------
Planning(c) ==
    \/ ScheduledTimePasses(c) \/ WindowMoves(c) \/ PreflightExpires(c)
    \/ DispatchTokenExpires(c) \/ UpdateWindow(c) \/ RunDispatchPreflight(c)
    \/ CreateChangeRecord(c) \/ SubmitChangeRecord(c) \/ DecideApproval(c)
    \/ MakeDispatchable(c)

Freezing(t) ==
    \/ CreateFreezeRule(t) \/ UpdateFreezeRule(t) \/ DeactivateFreezeRule(t)
    \/ FreezeInterval(t)

Ending(c) ==
    \/ ExecutionTimesOut(c) \/ CancelExecution(c)
    \/ CompletionHook(c) \/ CompletionHookFails(c)
    \/ CloseChange(c) \/ \E k \in Checks : SubmitVerificationResult(c, k)

RunnerActs(r) ==
    \/ ClaimNextExecution(r) \/ AnswerClaim(r) \/ BindExecution(r)
    \/ StartChecked(r) \/ StepStarts(r) \/ CommandEnds(r)
    \/ CompleteExecution(r) \/ ExecutionFinished(r)

RunnerFails(r) == BindGivenUp(r) \/ CompleteLost(r) \/ JobLost(r)

Next ==
    \/ \E c \in Changes : Planning(c) \/ Ending(c)
    \/ \E r \in Runners : RunnerActs(r) \/ RunnerFails(r)
    \/ \E t \in Targets : Freezing(t)

Spec == Init /\ [][Next]_changeVars

(* A live runner goes on (its requests are retried a bounded number of     *)
(* times, a workflow has finitely many steps and commands have timeouts),  *)
(* runners poll, the watchdog is run again and again, and a hook is run by *)
(* the worker that committed the end.                                      *)
Fairness ==
    /\ \A r \in Runners :
          /\ WF_changeVars(ClaimNextExecution(r))
          /\ WF_changeVars(AnswerClaim(r))
          /\ SF_changeVars(BindExecution(r) /\ pc'[r] # "binding")
          /\ WF_changeVars(StartChecked(r))
          /\ WF_changeVars(StepStarts(r))
          /\ SF_changeVars(CommandEnds(r) /\ pc'[r] = "completing")
          /\ WF_changeVars(CompleteExecution(r))
          /\ WF_changeVars(ExecutionFinished(r))
    /\ \A c \in Changes :
          /\ WF_changeVars((\A r \in Runners : job[r] # c) /\ ExecutionTimesOut(c))
          /\ WF_changeVars(CompletionHook(c))

FairSpec == Spec /\ Fairness

-----------------------------------------------------------------------------
(* Properties.                                                             *)

(* From its dispatch to the runner's announcement of the end, a change     *)
(* holds the active lock on every one of its targets: no expiry, retry,    *)
(* closure or late announcement of another change frees them.              *)
(* (_acquire_target_locks_for_dispatch, _release_active_target_locks)      *)
LocksCoverDispatch ==
    \A c \in Changes :
        change[c] \in {"dispatchable", "running"} /\ ~finished[c] =>
            \A t \in TargetsOf[c] : lock[t] = c

Working(r) == pc[r] = "working"

(* Two runners never run commands against the same target at the same      *)
(* time, whatever the watchdog has decided about their executions, unless  *)
(* a person has closed one of the changes while it ran (close_change frees *)
(* the targets and does not stop the runner).                              *)
TargetExclusion ==
    \A r, s \in Runners :
        r # s /\ Working(r) /\ Working(s) =>
            \/ TargetsOf[job[r]] \cap TargetsOf[job[s]] = {}
            \/ \E c \in {job[r], job[s]} : closure[c] = "failure"

(* A command of a change runs only at the runner that proved the dispatch  *)
(* token, and an execution without a binding never runs or succeeds.       *)
(* (assert_execution_change_binding_ready)                                 *)
WorkIsBound ==
    /\ \A r \in Runners : Working(r) => bound[job[r]] = r
    /\ \A c \in Changes : exec[c] \in {"running", "succeeded"} => bound[c] # None

(* A change that needs approval is dispatched only in a window that was    *)
(* there when it was approved: setting a new one takes the approval back.  *)
(* (create_or_update_change_window, _invalidate_change_approval)           *)
DispatchedWindowApproved ==
    \A c \in NeedsApproval :
        exec[c] # "none" => approval[c] = "approved" /\ vouched[c]

(* A dispatched change does not stay dispatched or running for ever: it is *)
(* bound and ends, or expires.                                             *)
DispatchedChangeEnds ==
    \A c \in Changes :
        (change[c] \in {"dispatchable", "running"})
            ~> (change[c] \notin {"dispatchable", "running"})
=============================================================================
