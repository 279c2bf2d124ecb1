-------------------------- MODULE ExecutionControl --------------------------
(***************************************************************************)
(* The control plane's view of workflow executions: the rows of Execution, *)
(* ExecutionStep, ApprovalRequest and ExecutionLease, and the handlers of  *)
(* the API that change them.  Sources: apps/api/apps/executions/services.py*)
(* and internal_views.py, approvals/services.py, runners/scheduling.py.    *)
(*                                                                         *)
(* Runners are unconstrained clients here: whoever was ever given a claim  *)
(* token may send any request that carries it, at any time, any number of  *)
(* times.  A request sits in "requests" from the moment it is sent until   *)
(* its handler ends, however long ago the sender stopped waiting for it.   *)
(* A handler that commits under row locks is one action; a handler that    *)
(* reads rows before it locks them is two, with the request marked         *)
(* "checked" in between.  RunnerLoop composes this module with the runner. *)
(*                                                                         *)
(* The executions here are not change-bound: the change-control gates are  *)
(* the subject of ChangeDispatch.                                          *)
(***************************************************************************)
EXTENDS Naturals, FiniteSets

CONSTANTS
    Executions,        \* rows that may be created
    PoolRunners,       \* registered runners of one pool (per-runner token)
    LegacyRunners,     \* runners behind the shared legacy token
    NumSteps,          \* steps of the workflow
    RequiresApproval,  \* steps whose snapshot says requiresApproval
    TimedApproval,     \* steps whose snapshot has approvalTimeoutSeconds
    PoolLimit,         \* RunnerPool.max_concurrent_executions
    MaxClaims,         \* bound: claims of one execution
    MaxAttempts,       \* bound: attempts of one client call
    MaxRequests,       \* bound: requests in flight
    LeaseUpdateFaults, \* whether the lease update after a commit may fail
    NoRunner,
    NoExecution

Steps == 1..NumSteps
Runners == PoolRunners \cup LegacyRunners

ASSUME ConstantsAssumption ==
    /\ NumSteps \in Nat \ {0}
    /\ RequiresApproval \subseteq Steps
    /\ TimedApproval \subseteq Steps
    /\ PoolLimit \in Nat \ {0}
    /\ MaxClaims \in Nat
    /\ MaxAttempts \in Nat \ {0}
    /\ MaxRequests \in Nat
    /\ LeaseUpdateFaults \in BOOLEAN
    /\ IsFiniteSet(Executions)
    /\ PoolRunners \cap LegacyRunners = {}
    /\ NoRunner \notin Runners
    /\ NoExecution \notin Executions

Active   == {"claimed", "running"}
Terminal == {"succeeded", "failed", "cancelled"}
ExecutionStatus == {"absent", "queued"} \cup Active \cup Terminal
StepStatus == {"pending", "waiting_for_approval", "running", "succeeded", "failed"}
ApprovalStatus == {"none", "pending", "approved", "rejected", "timed_out"}
LeaseStatus == {"none", "active", "released", "expired"}

(* What a request carries: the step's requests name a step, the result of  *)
(* a step or of the execution is its argument, claim-next names nothing.   *)
Kinds == {"claim", "heartbeat", "start", "update", "poll", "complete"}
Carries(q) ==
    /\ q.kind = "claim" <=> q.exec = NoExecution
    /\ q.kind \in {"start", "poll", "update"} => q.step \in Steps
    /\ q.kind = "update" => q.arg \in {"succeeded", "failed"}
    /\ q.kind = "complete" => q.arg \in Terminal
Request ==
    {q \in [kind: Kinds, runner: Runners, exec: Executions \cup {NoExecution},
            tok: 0..MaxClaims, step: 0..NumSteps, arg: {""} \cup Terminal,
            attempt: 1..MaxAttempts, stage: {"sent", "checked"}] : Carries(q)}

(* Two requests differ in "attempt" when one is the client's retry of the  *)
(* other.                                                                  *)
NewRequest(kind, r, e, tok, s, arg, n) ==
    [kind |-> kind, runner |-> r, exec |-> e, tok |-> tok, step |-> s,
     arg |-> arg, attempt |-> n, stage |-> "sent"]

VARIABLES
    status,           \* Execution.status
    owner,            \* Execution.claimed_by_runner_id
    token,            \* Execution.claim_token: the number of claims so far
    issued,           \* the runners the claims' tokens were given to (history)
    heartbeat,        \* age of Execution.last_heartbeat_at
    cancelRequested,  \* Execution.cancel_requested_at is set
    step,             \* ExecutionStep.status
    approval,         \* ApprovalRequest.status of the step's request
    due,              \* ApprovalRequest.expires_at has passed
    lease,            \* ExecutionLease.status
    leaseHolder,      \* ExecutionLease.runner
    hook,             \* lease update still to run after the commit
    requests          \* requests sent and not yet handled to the end

claimVars == <<status, owner, token, issued, heartbeat, cancelRequested>>
stepVars == <<step, approval, due>>
leaseVars == <<lease, leaseHolder, hook>>
controlVars == <<status, owner, token, issued, heartbeat, cancelRequested,
                 step, approval, due, lease, leaseHolder, hook, requests>>

(* fresh: younger than RUNNER_STALE_HEARTBEAT_SECONDS; stale: older;       *)
(* stuck: older than the watchdog's threshold too.                         *)
HeartbeatAge == {"fresh", "stale", "stuck"}

TypeOK ==
    /\ status \in [Executions -> ExecutionStatus]
    /\ owner \in [Executions -> Runners \cup {NoRunner}]
    /\ token \in [Executions -> 0..MaxClaims]
    /\ issued \in [Executions -> [1..MaxClaims -> Runners \cup {NoRunner}]]
    /\ heartbeat \in [Executions -> HeartbeatAge]
    /\ cancelRequested \in [Executions -> BOOLEAN]
    /\ step \in [Executions -> [Steps -> StepStatus]]
    /\ approval \in [Executions -> [Steps -> ApprovalStatus]]
    /\ due \in [Executions -> [Steps -> BOOLEAN]]
    /\ lease \in [Executions -> LeaseStatus]
    /\ leaseHolder \in [Executions -> PoolRunners \cup {NoRunner}]
    /\ hook \in [Executions -> {"none", "released", "expired"}]
    /\ requests \subseteq Request

Init ==
    /\ status = [e \in Executions |-> "absent"]
    /\ owner = [e \in Executions |-> NoRunner]
    /\ token = [e \in Executions |-> 0]
    /\ issued = [e \in Executions |-> [t \in 1..MaxClaims |-> NoRunner]]
    /\ heartbeat = [e \in Executions |-> "fresh"]
    /\ cancelRequested = [e \in Executions |-> FALSE]
    /\ step = [e \in Executions |-> [s \in Steps |-> "pending"]]
    /\ approval = [e \in Executions |-> [s \in Steps |-> "none"]]
    /\ due = [e \in Executions |-> [s \in Steps |-> FALSE]]
    /\ lease = [e \in Executions |-> "none"]
    /\ leaseHolder = [e \in Executions |-> NoRunner]
    /\ hook = [e \in Executions |-> "none"]
    /\ requests = {}

-----------------------------------------------------------------------------
(* Operators' actions and the clock.                                       *)

(* create_execution: a queued execution with its steps pending.            *)
CreateExecution(e) ==
    /\ status[e] = "absent"
    /\ status' = [status EXCEPT ![e] = "queued"]
    /\ UNCHANGED <<owner, token, issued, heartbeat, cancelRequested, stepVars,
                   leaseVars, requests>>

(* cancel_execution: a queued execution ends at once; a claimed or running *)
(* one only records the intent, which the runner learns by heartbeat.      *)
CancelExecution(e) ==
    /\ \/ /\ status[e] = "queued"
          /\ status' = [status EXCEPT ![e] = "cancelled"]
          /\ UNCHANGED cancelRequested
       \/ /\ status[e] \in Active
          /\ cancelRequested' = [cancelRequested EXCEPT ![e] = TRUE]
          /\ UNCHANGED status
    /\ UNCHANGED <<owner, token, issued, heartbeat, stepVars, leaseVars, requests>>

HeartbeatAges(e) ==
    /\ status[e] \in Active
    /\ heartbeat[e] # "stuck"
    /\ heartbeat' = [heartbeat EXCEPT
                        ![e] = IF @ = "fresh" THEN "stale" ELSE "stuck"]
    /\ UNCHANGED <<status, owner, token, issued, cancelRequested, stepVars, leaseVars,
                   requests>>

ApprovalDeadline(e, s) ==
    /\ s \in TimedApproval
    /\ approval[e][s] = "pending"
    /\ ~due[e][s]
    /\ due' = [due EXCEPT ![e][s] = TRUE]
    /\ UNCHANGED <<claimVars, step, approval, leaseVars, requests>>

(* decide_approval: a human approves or rejects a pending request; past    *)
(* the deadline the same call resolves it to timed_out instead.  The       *)
(* execution is neither read nor locked.                                   *)
DecideApproval(e, s, decision) ==
    /\ approval[e][s] = "pending"
    /\ approval' = [approval EXCEPT
                       ![e][s] = IF due[e][s] THEN "timed_out" ELSE decision]
    /\ UNCHANGED <<claimVars, step, due, leaseVars, requests>>

-----------------------------------------------------------------------------
(* claim-next.                                                             *)

Answered(q) == requests' = requests \ {q}

(* The row's new owner, in both claim paths: a fresh token, a fresh        *)
(* heartbeat, and "claimed" unless the execution is already running.       *)
TakeClaim(r, e) ==
    /\ token[e] < MaxClaims
    /\ status' = [status EXCEPT ![e] = IF @ = "running" THEN @ ELSE "claimed"]
    /\ owner' = [owner EXCEPT ![e] = r]
    /\ token' = [token EXCEPT ![e] = @ + 1]
    /\ issued' = [issued EXCEPT ![e][token[e] + 1] = r]
    /\ heartbeat' = [heartbeat EXCEPT ![e] = "fresh"]

LeasesOf(r) == {e \in Executions : lease[e] = "active" /\ leaseHolder[e] = r}
ActiveLeases == {e \in Executions : lease[e] = "active"}

(* A fault of PoolClaim: no lease is created.                              *)
PoolClaimUnleased(q, e) ==
    /\ q.runner \in PoolRunners
    /\ LeasesOf(q.runner) = {}
    /\ Cardinality(ActiveLeases) < PoolLimit
    /\ status[e] = "queued"
    /\ TakeClaim(q.runner, e)
    /\ UNCHANGED leaseVars

(* schedule_execution_claim, serialised by the lock on the pool's row: one *)
(* active lease per runner, at most PoolLimit for the pool.  SKIP LOCKED   *)
(* passes over an older row that another transaction holds, so any queued  *)
(* row may be the one returned.                                            *)
PoolClaim(q, e) ==
    /\ q.runner \in PoolRunners
    /\ LeasesOf(q.runner) = {}
    /\ Cardinality(ActiveLeases) < PoolLimit
    /\ status[e] = "queued"
    /\ TakeClaim(q.runner, e)
    /\ lease' = [lease EXCEPT ![e] = "active"]
    /\ leaseHolder' = [leaseHolder EXCEPT ![e] = q.runner]
    /\ UNCHANGED hook

(* Faults of LegacyClaim: a lease for a runner without a row; a takeover   *)
(* that forgets to look at the execution's status.                         *)
LegacyClaimLeased(q, e) ==
    /\ q.runner \in LegacyRunners
    /\ status[e] = "queued"
    /\ TakeClaim(q.runner, e)
    /\ lease' = [lease EXCEPT ![e] = "active"]
    /\ leaseHolder' = [leaseHolder EXCEPT ![e] = q.runner]
    /\ UNCHANGED hook
LegacyClaimAnyStatus(q, e) ==
    /\ q.runner \in LegacyRunners
    /\ \/ status[e] = "queued"
       \/ /\ heartbeat[e] # "fresh"
          /\ \E s \in Steps : step[e][s] = "waiting_for_approval"
          /\ \A s \in Steps : step[e][s] # "running"
    /\ TakeClaim(q.runner, e)
    /\ UNCHANGED leaseVars

(* claim_next_execution without a runner row: a queued execution, or else  *)
(* an execution that waits for an approval and whose owner fell silent.    *)
(* The lease of a pool claim taken over this way stays as it is.           *)
LegacyClaim(q, e) ==
    /\ q.runner \in LegacyRunners
    /\ \/ status[e] = "queued"
       \/ /\ status[e] \in Active
          /\ heartbeat[e] # "fresh"
          /\ \E s \in Steps : step[e][s] = "waiting_for_approval"
          /\ \A s \in Steps : step[e][s] # "running"
    /\ TakeClaim(q.runner, e)
    /\ UNCHANGED leaseVars

ServeClaim(q, e) ==
    /\ q \in requests /\ q.kind = "claim"
    /\ PoolClaim(q, e) \/ LegacyClaim(q, e)
    /\ Answered(q)
    /\ UNCHANGED <<cancelRequested, stepVars>>

(* No row is visible to the query, or a limit is reached.                  *)
ServeNoWork(q) ==
    /\ q \in requests /\ q.kind = "claim"
    /\ Answered(q)
    /\ UNCHANGED <<claimVars, stepVars, leaseVars>>

-----------------------------------------------------------------------------
(* Requests of the owner.                                                  *)

(* _validate_runner_ownership: runner id and claim token.                  *)
Owns(q) == owner[q.exec] = q.runner /\ token[q.exec] = q.tok

Checked(q) == requests' = (requests \ {q}) \cup {[q EXCEPT !.stage = "checked"]}

(* heartbeat_execution reads status and owner without a lock ...           *)
HeartbeatRead(q) ==
    /\ q \in requests /\ q.kind = "heartbeat" /\ q.stage = "sent"
    /\ status[q.exec] \in Active
    /\ Owns(q)
    /\ Checked(q)
    /\ UNCHANGED <<claimVars, stepVars, leaseVars>>

(* ... and later saves last_heartbeat_at, whatever the row has become; the *)
(* answer carries the cancellation intent of that later moment.            *)
HeartbeatWrite(q, reply) ==
    /\ q \in requests /\ q.kind = "heartbeat" /\ q.stage = "checked"
    /\ heartbeat' = [heartbeat EXCEPT ![q.exec] = "fresh"]
    /\ reply = IF cancelRequested[q.exec] THEN "cancel" ELSE "ok"
    /\ Answered(q)
    /\ UNCHANGED <<status, owner, token, issued, cancelRequested, stepVars, leaseVars>>

(* _VALID_STEP_TRANSITIONS and _VALID_STEP_START_TRANSITIONS.              *)
StepTransitions(from) ==
    CASE from \in {"pending", "waiting_for_approval"} -> {"failed"}
      [] from = "running" -> {"succeeded", "failed"}
      [] OTHER -> {}
StepStartTransitions(from) ==
    IF from \in {"pending", "waiting_for_approval"} THEN {"running", "failed"}
                                                    ELSE {}

(* A fault of UpdateExecutionStep: the owner was checked when the handler  *)
(* began.                                                                  *)
UpdateExecutionStepUnchecked(q, allowed, new) ==
    /\ new \in allowed
    /\ step' = [step EXCEPT ![q.exec][q.step] = new]
    /\ status' = IF new = "running" /\ status[q.exec] = "claimed"
                 THEN [status EXCEPT ![q.exec] = "running"] ELSE status

(* update_execution_step under the locks of execution and step: the owner  *)
(* and the transition are checked, the execution's status is not.  The     *)
(* first step to run takes a claimed execution to running.                 *)
UpdateExecutionStep(q, allowed, new) ==
    /\ Owns(q)
    /\ new \in allowed
    /\ step' = [step EXCEPT ![q.exec][q.step] = new]
    /\ status' = IF new = "running" /\ status[q.exec] = "claimed"
                 THEN [status EXCEPT ![q.exec] = "running"] ELSE status

StepOf(q) == step[q.exec][q.step]
ApprovalOf(q) == approval[q.exec][q.step]

(* get_approval_status: a pending request past its deadline times out.     *)
Expires(q) == ApprovalOf(q) = "pending" /\ due[q.exec][q.step]
ResolvedApproval(q) == IF Expires(q) THEN "timed_out" ELSE ApprovalOf(q)
ResolveApproval(q) ==
    approval' = [approval EXCEPT ![q.exec][q.step] = ResolvedApproval(q)]

(* ExecutionStepStartView reads the step without a lock.  A step already   *)
(* waiting is answered from its request, with no ownership check.          *)
StartRead(q) ==
    /\ q \in requests /\ q.kind = "start" /\ q.stage = "sent"
    /\ StepOf(q) # "waiting_for_approval"
    /\ Checked(q)
    /\ UNCHANGED <<claimVars, stepVars, leaseVars>>

StartWaiting(q) ==
    /\ q \in requests /\ q.kind = "start" /\ q.stage = "sent"
    /\ StepOf(q) = "waiting_for_approval"
    /\ ResolveApproval(q)
    /\ Answered(q)
    /\ UNCHANGED <<claimVars, step, due, leaseVars>>

(* A fault of PolicyOutcomes: no requiresApproval floor.                   *)
PolicyOutcomesUnfloored(s) == {"approval_required", "block", "error", "auto_approve"}

(* evaluate_step_policy is run anew for each request: rules can be edited  *)
(* and time windows pass, but auto_approve is raised to approval_required  *)
(* for a step that requires approval (_apply_requires_approval_floor).     *)
PolicyOutcomes(s) ==
    {"approval_required", "block", "error"}
        \cup (IF s \in RequiresApproval THEN {} ELSE {"auto_approve"})

(* request_step_approval, under the locks of execution and step.           *)
RequestStepApproval(q) ==
    /\ Owns(q)
    /\ \/ /\ StepOf(q) = "waiting_for_approval"
          /\ UNCHANGED <<step, approval>>
       \/ /\ StepOf(q) = "pending"
          /\ step' = [step EXCEPT ![q.exec][q.step] = "waiting_for_approval"]
          /\ approval' = [approval EXCEPT ![q.exec][q.step] = "pending"]
    /\ UNCHANGED status

StartOutcome(q, outcome, reply) ==
    \/ /\ outcome = "auto_approve"
       /\ UpdateExecutionStep(q, StepStartTransitions(StepOf(q)), "running")
       /\ UNCHANGED approval
       /\ reply = "run"
    \/ /\ outcome = "approval_required"
       /\ RequestStepApproval(q)
       /\ reply = "wait"
    \/ /\ outcome \in {"block", "error"}
       /\ UpdateExecutionStep(q, StepTransitions(StepOf(q)), "failed")
       /\ UNCHANGED approval
       /\ reply = "blocked"

StartEvaluate(q, reply) ==
    /\ q \in requests /\ q.kind = "start" /\ q.stage = "checked"
    /\ \E outcome \in PolicyOutcomes(q.step) : StartOutcome(q, outcome, reply)
    /\ Answered(q)
    /\ UNCHANGED <<owner, token, issued, heartbeat, cancelRequested, due, leaseVars>>

(* ExecutionStepUpdateView.                                                *)
ServeUpdate(q) ==
    /\ q \in requests /\ q.kind = "update"
    /\ UpdateExecutionStep(q, StepTransitions(StepOf(q)), q.arg)
    /\ Answered(q)
    /\ UNCHANGED <<owner, token, issued, heartbeat, cancelRequested, approval, due,
                   leaseVars>>

(* ApprovalStatusView validates the owner on an unlocked read ...          *)
PollRead(q) ==
    /\ q \in requests /\ q.kind = "poll" /\ q.stage = "sent"
    /\ Owns(q)
    /\ Checked(q)
    /\ UNCHANGED <<claimVars, stepVars, leaseVars>>

(* ... and then answers from the step it reads next.  Only the two         *)
(* transitions re-check the owner; a failed one rolls the timeout back.    *)
PollOutcome(q, reply) ==
    \/ /\ StepOf(q) = "running" /\ reply = "run"
       /\ UNCHANGED <<status, step, approval>>
    \/ /\ StepOf(q) = "failed" /\ reply = "fail"
       /\ UNCHANGED <<status, step, approval>>
    \/ /\ StepOf(q) = "waiting_for_approval"
       /\ \/ /\ ResolvedApproval(q) = "pending" /\ reply = "wait"
             /\ UNCHANGED <<status, step, approval>>
          \/ /\ ResolvedApproval(q) = "approved" /\ reply = "run"
             /\ UpdateExecutionStep(q, StepStartTransitions(StepOf(q)), "running")
             /\ UNCHANGED approval
          \/ /\ ResolvedApproval(q) \in {"rejected", "timed_out"} /\ reply = "fail"
             /\ UpdateExecutionStep(q, StepTransitions(StepOf(q)), "failed")
             /\ ResolveApproval(q)

PollAnswer(q, reply) ==
    /\ q \in requests /\ q.kind = "poll" /\ q.stage = "checked"
    /\ PollOutcome(q, reply)
    /\ Answered(q)
    /\ UNCHANGED <<owner, token, issued, heartbeat, cancelRequested, due, leaseVars>>

(* A fault of ServeComplete: a late result overwrites the verdict.         *)
ServeCompleteLate(q) ==
    /\ q \in requests /\ q.kind = "complete"
    /\ Owns(q)
    /\ status' = [status EXCEPT ![q.exec] = q.arg]
    /\ hook' = [hook EXCEPT ![q.exec] = "released"]
    /\ Answered(q)
    /\ UNCHANGED <<owner, token, issued, heartbeat, cancelRequested, stepVars, lease,
                   leaseHolder>>

(* complete_execution: the outcome is the runner's word.  The lease is     *)
(* released after the commit.                                              *)
ServeComplete(q) ==
    /\ q \in requests /\ q.kind = "complete"
    /\ Owns(q)
    /\ status[q.exec] \in Active
    /\ status' = [status EXCEPT ![q.exec] = q.arg]
    /\ hook' = [hook EXCEPT ![q.exec] = "released"]
    /\ Answered(q)
    /\ UNCHANGED <<owner, token, issued, heartbeat, cancelRequested, stepVars, lease,
                   leaseHolder>>

(* The 4xx answers of the handlers above: nothing is written.              *)
Refused(q) ==
    \/ q.kind = "heartbeat" /\ q.stage = "sent"
       /\ (status[q.exec] \notin Active \/ ~Owns(q))
    \/ q.kind = "start" /\ q.stage = "checked"
       /\ \/ ~Owns(q)
          \/ StepOf(q) = "running"
          \/ StepOf(q) \in {"succeeded", "failed"}
    \/ q.kind = "update"
       /\ (~Owns(q) \/ q.arg \notin StepTransitions(StepOf(q)))
    \/ q.kind = "poll" /\ q.stage = "sent" /\ ~Owns(q)
    \/ q.kind = "poll" /\ q.stage = "checked"
       /\ \/ StepOf(q) \in {"pending", "succeeded"}
          \/ /\ StepOf(q) = "waiting_for_approval"
             /\ ResolvedApproval(q) # "pending"
             /\ ~Owns(q)
    \/ q.kind = "complete" /\ (~Owns(q) \/ status[q.exec] \notin Active)

ServeRefusal(q) ==
    /\ q \in requests
    /\ Refused(q)
    /\ Answered(q)
    /\ UNCHANGED <<claimVars, stepVars, leaseVars>>

-----------------------------------------------------------------------------
(* The watchdog (check_stuck_executions) and the work after a commit.      *)

(* Faults of RecoverStuck: executions claimed but not yet running are not  *)
(* looked at; the lease update is left to complete_execution.              *)
RecoverStuckRunning(e) ==
    /\ status[e] = "running"
    /\ heartbeat[e] = "stuck"
    /\ status' = [status EXCEPT ![e] = "failed"]
    /\ step' = [step EXCEPT ![e] =
                   [s \in Steps |-> IF @[s] = "running" THEN "failed" ELSE @[s]]]
    /\ hook' = [hook EXCEPT ![e] = "expired"]
    /\ UNCHANGED <<owner, token, issued, heartbeat, cancelRequested, approval, due,
                   lease, leaseHolder, requests>>

RecoverStuckKeepsLease(e) ==
    /\ status[e] \in Active
    /\ heartbeat[e] = "stuck"
    /\ status' = [status EXCEPT ![e] = "failed"]
    /\ step' = [step EXCEPT ![e] =
                   [s \in Steps |-> IF @[s] = "running" THEN "failed" ELSE @[s]]]
    /\ UNCHANGED <<owner, token, issued, heartbeat, cancelRequested, approval, due,
                   leaseVars, requests>>

(* recover_stuck_executions fails an execution whose heartbeat is older    *)
(* than the threshold, with its running steps; a step that waits for an    *)
(* approval, and that approval, stay as they are.                          *)
RecoverStuck(e) ==
    /\ status[e] \in Active
    /\ heartbeat[e] = "stuck"
    /\ status' = [status EXCEPT ![e] = "failed"]
    /\ step' = [step EXCEPT ![e] =
                   [s \in Steps |-> IF @[s] = "running" THEN "failed" ELSE @[s]]]
    /\ hook' = [hook EXCEPT ![e] = "expired"]
    /\ UNCHANGED <<owner, token, issued, heartbeat, cancelRequested, approval, due,
                   lease, leaseHolder, requests>>

(* _recover_expired_approval with fail_execution_for_approval_timeout, in  *)
(* one transaction.  No lease update follows.                              *)
RecoverExpiredApproval(e, s) ==
    /\ approval[e][s] = "pending" /\ due[e][s]
    /\ approval' = [approval EXCEPT ![e][s] = "timed_out"]
    /\ IF status[e] \in Active /\ step[e][s] = "waiting_for_approval"
       THEN /\ step' = [step EXCEPT ![e][s] = "failed"]
            /\ status' = [status EXCEPT ![e] = "failed"]
       ELSE UNCHANGED <<step, status>>
    /\ UNCHANGED <<owner, token, issued, heartbeat, cancelRequested, due, leaseVars,
                   requests>>

(* The lease update after complete_execution or recover_stuck_executions   *)
(* has committed ...                                                       *)
SettleLease(e) ==
    /\ hook[e] # "none"
    /\ lease' = [lease EXCEPT ![e] = IF @ = "active" THEN hook[e] ELSE @]
    /\ hook' = [hook EXCEPT ![e] = "none"]
    /\ UNCHANGED <<claimVars, stepVars, leaseHolder, requests>>

(* ... which can fail on its own: the exception is logged and swallowed.   *)
LoseLeaseUpdate(e) ==
    /\ LeaseUpdateFaults
    /\ hook[e] # "none"
    /\ hook' = [hook EXCEPT ![e] = "none"]
    /\ UNCHANGED <<claimVars, stepVars, lease, leaseHolder, requests>>

-----------------------------------------------------------------------------
(* A client sends a request, with a token that was given to it.            *)
SendRequest(q) ==
    /\ Cardinality(requests) < MaxRequests
    /\ {q, [q EXCEPT !.stage = "checked"]} \cap requests = {}
    /\ requests' = requests \cup {q}
    /\ UNCHANGED <<claimVars, stepVars, leaseVars>>

TokensOf(r, e) == {t \in 1..token[e] : issued[e][t] = r}

ClientSends(r, n) ==
    \/ SendRequest(NewRequest("claim", r, NoExecution, 0, 0, "", n))
    \/ \E e \in Executions : \E tok \in TokensOf(r, e) :
          \/ SendRequest(NewRequest("heartbeat", r, e, tok, 0, "", n))
          \/ \E outcome \in Terminal :
                SendRequest(NewRequest("complete", r, e, tok, 0, outcome, n))
          \/ \E s \in Steps :
                \/ SendRequest(NewRequest("start", r, e, tok, s, "", n))
                \/ SendRequest(NewRequest("poll", r, e, tok, s, "", n))
                \/ \E result \in {"succeeded", "failed"} :
                      SendRequest(NewRequest("update", r, e, tok, s, result, n))

Serve(q) ==
    \/ \E e \in Executions : ServeClaim(q, e)
    \/ ServeNoWork(q)
    \/ HeartbeatRead(q)
    \/ \E reply \in {"ok", "cancel"} : HeartbeatWrite(q, reply)
    \/ StartRead(q) \/ StartWaiting(q)
    \/ \E reply \in {"run", "wait", "blocked"} : StartEvaluate(q, reply)
    \/ ServeUpdate(q)
    \/ PollRead(q)
    \/ \E reply \in {"run", "wait", "fail"} : PollAnswer(q, reply)
    \/ ServeComplete(q)
    \/ ServeRefusal(q)

(* Everything that happens without a runner's request.                     *)
ControlStep(e) ==
    \/ CreateExecution(e) \/ CancelExecution(e) \/ HeartbeatAges(e)
    \/ RecoverStuck(e) \/ SettleLease(e) \/ LoseLeaseUpdate(e)
    \/ \E s \in Steps :
          \/ ApprovalDeadline(e, s)
          \/ \E decision \in {"approved", "rejected"} : DecideApproval(e, s, decision)
          \/ RecoverExpiredApproval(e, s)

Next ==
    \/ \E r \in Runners : \E n \in 1..MaxAttempts : ClientSends(r, n)
    \/ \E q \in requests : Serve(q)
    \/ \E e \in Executions : ControlStep(e)

Spec == Init /\ [][Next]_controlVars

-----------------------------------------------------------------------------
(* What the control plane promises of an execution.                        *)
Lifecycle == INSTANCE ExecutionLifecycle WITH
    Executions <- Executions, Runners <- Runners, NoRunner <- NoRunner,
    status <- status, owner <- owner

(* Every behaviour of the handlers above is a behaviour of the lifecycle:  *)
(* one owner at a time, takeover only of what is claimed or running, one   *)
(* end, and neither status nor owner changed after it.                     *)
ImplementsLifecycle == Lifecycle!Spec

-----------------------------------------------------------------------------
(* Properties.                                                             *)

(* A pool runner never owns two executions that are claimed or running:    *)
(* schedule_execution_claim counts leases, not executions, so this rests   *)
(* on a lease outliving the execution it was created for.                  *)
OneExecutionPerRunner ==
    \A r \in PoolRunners : \A e, f \in Executions :
        /\ owner[e] = r /\ status[e] \in Active
        /\ owner[f] = r /\ status[f] \in Active
        => e = f

(* The lease created by schedule_execution_claim is active and names the   *)
(* owner for as long as a pool runner's execution is claimed or running;   *)
(* complete_execution and the watchdog settle it only once it is terminal. *)
LeaseMatchesClaim ==
    \A e \in Executions :
        /\ status[e] \in Active /\ owner[e] \in PoolRunners
              => lease[e] = "active" /\ leaseHolder[e] = owner[e]
        /\ hook[e] # "none" \/ lease[e] \in {"released", "expired"}
              => status[e] \in Terminal

(* max_concurrent_executions bounds the pool's active leases.              *)
PoolLimitRespected == Cardinality(ActiveLeases) <= PoolLimit

(* A step that requires approval is running or has succeeded only if its   *)
(* request was approved, whichever of the start and approval-status        *)
(* handlers moved it, however requests were retried or reordered.          *)
ApprovalGate ==
    \A e \in Executions : \A s \in RequiresApproval :
        step[e][s] \in {"running", "succeeded"} => approval[e][s] = "approved"

(* What is final stays: a terminal execution, a finished step, a decided   *)
(* approval and a settled lease are never changed again by a late request, *)
(* the watchdog or an approver.                                            *)
FinalStaysFinal ==
    \A e \in Executions :
        /\ status[e] \in Terminal => status'[e] = status[e]
        /\ lease[e] \in {"released", "expired"} => lease'[e] = lease[e]
        /\ \A s \in Steps :
              /\ step[e][s] \in {"succeeded", "failed"} => step'[e][s] = step[e][s]
              /\ approval[e][s] \in {"approved", "rejected", "timed_out"}
                    => approval'[e][s] = approval[e][s]

FinalStatesStay == [][FinalStaysFinal]_controlVars

(* A claim that was taken over has no power left: a request that carries   *)
(* its token, also one whose handler had checked the owner before the      *)
(* takeover, starts and ends no step, ends no execution and settles no     *)
(* lease.  At most it records that an approval's deadline has passed       *)
(* (StartWaiting asks nobody for the owner), or refreshes the heartbeat of *)
(* the new owner (HeartbeatWrite).                                         *)
OldTokenDecidesNothing ==
    /\ UNCHANGED <<status, owner, token, step, leaseVars>>
    /\ \A e \in Executions : \A s \in Steps :
          approval'[e][s] # approval[e][s]
              => due[e][s] /\ approval[e][s] = "pending" /\ approval'[e][s] = "timed_out"

OldTokensDecideNothing ==
    [][\A q \in requests \ requests' :
          q.kind # "claim" /\ ~Owns(q) => OldTokenDecidesNothing]_controlVars

=============================================================================
