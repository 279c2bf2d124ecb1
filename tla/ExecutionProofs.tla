---------------------------- MODULE ExecutionProofs ---------------------------
(***************************************************************************)
(* Machine-checked proofs about ExecutionControl and about RunnerLoop,     *)
(* which composes it with its runners, for any number of executions,       *)
(* runners, steps, claims, attempts and requests in flight.                *)
(*                                                                         *)
(* The control plane comes first, for any client.  The argument about the  *)
(* runner is what it may rely on (Sound): the token it holds was issued to *)
(* it, every step before its position has succeeded in the database, a     *)
(* command it runs was cleared.  All three are facts that no other actor   *)
(* can undo, which is why neither lost replies nor late requests nor a     *)
(* second runner break them.  From Sound it follows that the composition   *)
(* is a client behaviour of ExecutionControl, so that what was proved of   *)
(* the control plane holds of it.                                          *)
(***************************************************************************)
EXTENDS RunnerLoop, FiniteSetTheorems, TLAPS

-----------------------------------------------------------------------------
(* Requests.                                                               *)

(* What a handler may rely on about the request it serves.                 *)
LEMMA RequestFields ==
    ASSUME NEW q \in Request
    PROVE  /\ q.runner \in Runners
           /\ q.kind # "claim" => q.exec \in Executions
           /\ q.kind \in {"start", "poll", "update"} => q.step \in Steps
           /\ q.kind = "update" => q.arg \in {"succeeded", "failed"}
           /\ q.kind = "complete" => q.arg \in Terminal
BY ConstantsAssumption DEF Request, Carries, Kinds

(* A handler that stops between its read and its locks keeps its request.  *)
LEMMA CheckedRequest ==
    ASSUME NEW q \in Request
    PROVE  [q EXCEPT !.stage = "checked"] \in Request
<1> DEFINE c == [q EXCEPT !.stage = "checked"]
<1>1. /\ c.kind = q.kind /\ c.exec = q.exec /\ c.arg = q.arg /\ c.step = q.step
      /\ c \in [kind: Kinds, runner: Runners, exec: Executions \cup {NoExecution},
            tok: 0..MaxClaims, step: 0..NumSteps, arg: {""} \cup Terminal,
            attempt: 1..MaxAttempts, stage: {"sent", "checked"}]
  BY DEF Request
<1>2. Carries(c)
  BY <1>1 DEF Request, Carries
<1> QED
  BY <1>1, <1>2 DEF Request

(* A request with the fields its kind asks for is well-formed.             *)
LEMMA NewRequestTyped ==
    ASSUME NEW k \in Kinds, NEW r \in Runners, NEW e \in Executions \cup {NoExecution},
           NEW tok \in 0..MaxClaims, NEW s \in 0..NumSteps,
           NEW arg \in {""} \cup Terminal, NEW n \in 1..MaxAttempts,
           k = "claim" <=> e = NoExecution,
           k \in {"start", "poll", "update"} => s \in Steps,
           k = "update" => arg \in {"succeeded", "failed"},
           k = "complete" => arg \in Terminal
    PROVE  NewRequest(k, r, e, tok, s, arg, n) \in Request
<1> DEFINE c == NewRequest(k, r, e, tok, s, arg, n)
<1>1. c \in [kind: Kinds, runner: Runners, exec: Executions \cup {NoExecution},
            tok: 0..MaxClaims, step: 0..NumSteps, arg: {""} \cup Terminal,
            attempt: 1..MaxAttempts, stage: {"sent", "checked"}]
  BY DEF NewRequest
<1>2. Carries(c)
  BY DEF Carries, NewRequest
<1> QED
  BY <1>1, <1>2 DEF Request

(* Clients send well-formed requests.                                      *)
LEMMA ClientSendsTyped ==
    ASSUME TypeOK, NEW r \in Runners, NEW n \in 1..MaxAttempts, ClientSends(r, n)
    PROVE  requests' \subseteq Request /\ UNCHANGED <<claimVars, stepVars, leaseVars>>
<1>0. /\ 0 \in 0..MaxClaims /\ 0 \in 0..NumSteps
      /\ Steps \subseteq 0..NumSteps
      /\ \A e \in Executions : TokensOf(r, e) \subseteq 0..MaxClaims
      /\ NoExecution \notin Executions
      /\ {"succeeded", "failed"} \subseteq Terminal
      /\ Kinds = {"claim", "heartbeat", "start", "update", "poll", "complete"}
  BY ConstantsAssumption DEF TypeOK, Steps, Terminal, Kinds, TokensOf
<1>1. requests \subseteq Request
  BY DEF TypeOK
<1>2. CASE SendRequest(NewRequest("claim", r, NoExecution, 0, 0, "", n))
  <2>1. NewRequest("claim", r, NoExecution, 0, 0, "", n) \in Request
    BY <1>0, NewRequestTyped
  <2>2. /\ requests' = requests \cup {NewRequest("claim", r, NoExecution, 0, 0, "", n)}
        /\ UNCHANGED <<claimVars, stepVars, leaseVars>>
    BY <1>2 DEF SendRequest
  <2> QED  BY <1>1, <2>1, <2>2
<1>3. ASSUME NEW e \in Executions, NEW tok \in TokensOf(r, e),
             SendRequest(NewRequest("heartbeat", r, e, tok, 0, "", n))
      PROVE  requests' \subseteq Request /\ UNCHANGED <<claimVars, stepVars, leaseVars>>
  <2>1. NewRequest("heartbeat", r, e, tok, 0, "", n) \in Request
    BY <1>0, NewRequestTyped
  <2>2. /\ requests' = requests \cup {NewRequest("heartbeat", r, e, tok, 0, "", n)}
        /\ UNCHANGED <<claimVars, stepVars, leaseVars>>
    BY <1>3 DEF SendRequest
  <2> QED  BY <1>1, <2>1, <2>2
<1>4. ASSUME NEW e \in Executions, NEW tok \in TokensOf(r, e), NEW outcome \in Terminal,
             SendRequest(NewRequest("complete", r, e, tok, 0, outcome, n))
      PROVE  requests' \subseteq Request /\ UNCHANGED <<claimVars, stepVars, leaseVars>>
  <2>1. NewRequest("complete", r, e, tok, 0, outcome, n) \in Request
    BY <1>0, NewRequestTyped
  <2>2. /\ requests' = requests \cup {NewRequest("complete", r, e, tok, 0, outcome, n)}
        /\ UNCHANGED <<claimVars, stepVars, leaseVars>>
    BY <1>4 DEF SendRequest
  <2> QED  BY <1>1, <2>1, <2>2
<1>5. ASSUME NEW e \in Executions, NEW tok \in TokensOf(r, e), NEW s \in Steps,
             NEW k \in {"start", "poll"},
             SendRequest(NewRequest(k, r, e, tok, s, "", n))
      PROVE  requests' \subseteq Request /\ UNCHANGED <<claimVars, stepVars, leaseVars>>
  <2>1. NewRequest(k, r, e, tok, s, "", n) \in Request
    BY <1>0, NewRequestTyped
  <2>2. /\ requests' = requests \cup {NewRequest(k, r, e, tok, s, "", n)}
        /\ UNCHANGED <<claimVars, stepVars, leaseVars>>
    BY <1>5 DEF SendRequest
  <2> QED  BY <1>1, <2>1, <2>2
<1>6. ASSUME NEW e \in Executions, NEW tok \in TokensOf(r, e), NEW s \in Steps,
             NEW result \in {"succeeded", "failed"},
             SendRequest(NewRequest("update", r, e, tok, s, result, n))
      PROVE  requests' \subseteq Request /\ UNCHANGED <<claimVars, stepVars, leaseVars>>
  <2>1. NewRequest("update", r, e, tok, s, result, n) \in Request
    BY <1>0, NewRequestTyped
  <2>2. /\ requests' = requests \cup {NewRequest("update", r, e, tok, s, result, n)}
        /\ UNCHANGED <<claimVars, stepVars, leaseVars>>
    BY <1>6 DEF SendRequest
  <2> QED  BY <1>1, <2>1, <2>2
<1> QED
  BY <1>2, <1>3, <1>4, <1>5, <1>6 DEF ClientSends

-----------------------------------------------------------------------------
(* Type correctness.                                                       *)

(* No handler, watchdog pass or client leaves the types of the rows.       *)
LEMMA TypeInductive ==
    ASSUME TypeOK, [Next]_controlVars
    PROVE  TypeOK'
<1> USE DEF TypeOK, claimVars, stepVars, leaseVars, ExecutionStatus, Active,
            Terminal, StepStatus, ApprovalStatus, LeaseStatus, HeartbeatAge
<1>1. CASE UNCHANGED controlVars
  BY <1>1 DEF controlVars
<1>2. ASSUME NEW r \in Runners, NEW n \in 1..MaxAttempts, ClientSends(r, n)
      PROVE  TypeOK'
  <2>1. requests' \subseteq Request /\ UNCHANGED <<claimVars, stepVars, leaseVars>>
    BY <1>2, ClientSendsTyped
  <2> QED
    BY <2>1
<1>3. ASSUME NEW q \in requests, Serve(q)
      PROVE  TypeOK'
  <2>0. /\ q \in Request
        /\ q.runner \in Runners
        /\ q.kind # "claim" => q.exec \in Executions
        /\ q.kind \in {"start", "poll", "update"} => q.step \in Steps
        /\ q.kind = "update" => q.arg \in {"succeeded", "failed"}
        /\ q.kind = "complete" => q.arg \in Terminal
    BY RequestFields
  <2>1. Answered(q) => requests' \subseteq Request
    BY DEF Answered
  <2>2. Checked(q) => requests' \subseteq Request
    BY <2>0, CheckedRequest DEF Checked
  <2>3. ASSUME NEW e \in Executions, ServeClaim(q, e)
        PROVE  TypeOK'
    <3>1. /\ requests' \subseteq Request
          /\ UNCHANGED <<cancelRequested, stepVars>>
          /\ TakeClaim(q.runner, e)
      BY <2>3, <2>1 DEF ServeClaim, PoolClaim, LegacyClaim
    <3>2. /\ status' \in [Executions -> ExecutionStatus]
          /\ owner' \in [Executions -> Runners \cup {NoRunner}]
          /\ heartbeat' \in [Executions -> HeartbeatAge]
      BY <3>1, <2>0 DEF TakeClaim
    <3>3. /\ token' \in [Executions -> 0..MaxClaims]
          /\ issued' \in [Executions -> [1..MaxClaims -> Runners \cup {NoRunner}]]
      <4>1. token[e] + 1 \in 1..MaxClaims
        BY <3>1, ConstantsAssumption DEF TakeClaim
      <4> QED
        BY <3>1, <2>0, <4>1, ConstantsAssumption DEF TakeClaim
    <3>4. /\ lease' \in [Executions -> LeaseStatus]
          /\ leaseHolder' \in [Executions -> PoolRunners \cup {NoRunner}]
          /\ UNCHANGED hook
      BY <2>3 DEF ServeClaim, PoolClaim, LegacyClaim
    <3> QED
      BY <3>1, <3>2, <3>3, <3>4
  <2>4. CASE ServeNoWork(q)
    BY <2>4, <2>1 DEF ServeNoWork
  <2>5. CASE HeartbeatRead(q)
    BY <2>5, <2>2 DEF HeartbeatRead
  <2>6. ASSUME NEW reply, HeartbeatWrite(q, reply)
        PROVE  TypeOK'
    BY <2>6, <2>0, <2>1 DEF HeartbeatWrite
  <2>7. CASE StartRead(q)
    BY <2>7, <2>2 DEF StartRead
  <2>8. CASE StartWaiting(q)
    BY <2>8, <2>0, <2>1 DEF StartWaiting, ResolveApproval, ResolvedApproval, ApprovalOf
  <2>9. ASSUME NEW reply, StartEvaluate(q, reply)
        PROVE  TypeOK'
    <3>1. PICK outcome : StartOutcome(q, outcome, reply)
      BY <2>9 DEF StartEvaluate
    <3>2. /\ requests' \subseteq Request
          /\ q.exec \in Executions /\ q.step \in Steps
          /\ UNCHANGED <<owner, token, issued, heartbeat, cancelRequested, due, leaseVars>>
      BY <2>9, <2>0, <2>1 DEF StartEvaluate
    <3>3. CASE RequestStepApproval(q)
      <4>1. CASE UNCHANGED <<step, approval>>
        BY <4>1, <3>3, <3>2 DEF RequestStepApproval
      <4>2. CASE /\ step' = [step EXCEPT ![q.exec][q.step] = "waiting_for_approval"]
                 /\ approval' = [approval EXCEPT ![q.exec][q.step] = "pending"]
        BY <4>2, <3>3, <3>2 DEF RequestStepApproval
      <4> QED
        BY <3>3, <4>1, <4>2 DEF RequestStepApproval
    <3>4. ASSUME NEW allowed, NEW new \in {"running", "failed"},
                 UpdateExecutionStep(q, allowed, new), UNCHANGED approval
          PROVE  TypeOK'
      BY <3>4, <3>2 DEF UpdateExecutionStep
    <3> QED
      BY <3>1, <3>3, <3>4 DEF StartOutcome
  <2>10. CASE ServeUpdate(q)
    BY <2>10, <2>0, <2>1 DEF ServeUpdate, UpdateExecutionStep
  <2>11. CASE PollRead(q)
    BY <2>11, <2>2 DEF PollRead
  <2>12. ASSUME NEW reply, PollAnswer(q, reply)
         PROVE  TypeOK'
    <3>2. /\ requests' \subseteq Request
          /\ q.exec \in Executions /\ q.step \in Steps
          /\ UNCHANGED <<owner, token, issued, heartbeat, cancelRequested, due, leaseVars>>
      BY <2>12, <2>0, <2>1 DEF PollAnswer
    <3>3. CASE UNCHANGED <<status, step, approval>>
      BY <3>3, <3>2
    <3>4. ASSUME NEW allowed, NEW new \in {"running", "failed"},
                 UpdateExecutionStep(q, allowed, new),
                 UNCHANGED approval \/ ResolveApproval(q)
          PROVE  TypeOK'
      <4>1. /\ step' \in [Executions -> [Steps -> StepStatus]]
            /\ status' \in [Executions -> ExecutionStatus]
        BY <3>4, <3>2 DEF UpdateExecutionStep
      <4>2. approval' \in [Executions -> [Steps -> ApprovalStatus]]
        <5>1. ResolvedApproval(q) \in ApprovalStatus
          BY <3>2 DEF ResolvedApproval, ApprovalOf
        <5> QED
          <6>1. CASE UNCHANGED approval
            BY <6>1
          <6>2. CASE ResolveApproval(q)
            BY <6>2, <3>2, <5>1 DEF ResolveApproval
          <6> QED
            BY <3>4, <6>1, <6>2
      <4> QED
        BY <4>1, <4>2, <3>2
    <3> QED
      BY <2>12, <3>3, <3>4 DEF PollAnswer, PollOutcome
  <2>13. CASE ServeComplete(q)
    BY <2>13, <2>0, <2>1 DEF ServeComplete
  <2>14. CASE ServeRefusal(q)
    BY <2>14, <2>1 DEF ServeRefusal
  <2> QED
    BY <1>3, <2>3, <2>4, <2>5, <2>6, <2>7, <2>8, <2>9, <2>10, <2>11, <2>12,
       <2>13, <2>14 DEF Serve
<1>4. ASSUME NEW e \in Executions, ControlStep(e)
      PROVE  TypeOK'
  <2>1. CASE CreateExecution(e)
    BY <2>1 DEF CreateExecution
  <2>2. CASE CancelExecution(e)
    BY <2>2 DEF CancelExecution
  <2>3. CASE HeartbeatAges(e)
    BY <2>3 DEF HeartbeatAges
  <2>4. CASE RecoverStuck(e)
    BY <2>4 DEF RecoverStuck
  <2>5. CASE SettleLease(e)
    BY <2>5 DEF SettleLease
  <2>6. CASE LoseLeaseUpdate(e)
    BY <2>6 DEF LoseLeaseUpdate
  <2>7. ASSUME NEW s \in Steps, ApprovalDeadline(e, s)
        PROVE  TypeOK'
    BY <2>7 DEF ApprovalDeadline
  <2>8. ASSUME NEW s \in Steps, NEW decision \in {"approved", "rejected"},
               DecideApproval(e, s, decision)
        PROVE  TypeOK'
    BY <2>8 DEF DecideApproval
  <2>9. ASSUME NEW s \in Steps, RecoverExpiredApproval(e, s)
        PROVE  TypeOK'
    <3>1. CASE UNCHANGED <<step, status>>
      BY <2>9, <3>1 DEF RecoverExpiredApproval
    <3>2. CASE /\ step' = [step EXCEPT ![e][s] = "failed"]
               /\ status' = [status EXCEPT ![e] = "failed"]
      BY <2>9, <3>2 DEF RecoverExpiredApproval
    <3> QED
      BY <2>9, <3>1, <3>2 DEF RecoverExpiredApproval
  <2> QED
    BY <1>4, <2>1, <2>2, <2>3, <2>4, <2>5, <2>6, <2>7, <2>8, <2>9 DEF ControlStep
<1> QED
  BY <1>1, <1>2, <1>3, <1>4 DEF Next

(* The types of the rows hold in every reachable state.                    *)
THEOREM TypeCorrect == Spec => []TypeOK
<1>1. Init => TypeOK
  BY ConstantsAssumption
     DEF Init, TypeOK, ExecutionStatus, StepStatus, ApprovalStatus, LeaseStatus,
         HeartbeatAge
<1>2. TypeOK /\ [Next]_controlVars => TypeOK'
  BY TypeInductive
<1> QED
  BY <1>1, <1>2, PTL DEF Spec

-----------------------------------------------------------------------------
(* What a step can do to an execution's status, its owner and its lease.   *)

Created(e) ==
    /\ status[e] = "absent" /\ status' = [status EXCEPT ![e] = "queued"]
    /\ UNCHANGED <<owner, lease, leaseHolder, hook>>
Withdrawn(e) ==
    /\ status[e] = "queued" /\ status' = [status EXCEPT ![e] = "cancelled"]
    /\ UNCHANGED <<owner, lease, leaseHolder, hook>>
Begun(e) ==
    /\ status[e] = "claimed" /\ status' = [status EXCEPT ![e] = "running"]
    /\ UNCHANGED <<owner, lease, leaseHolder, hook>>
Ended(e) ==
    /\ status[e] \in Active
    /\ \E st \in Terminal : status' = [status EXCEPT ![e] = st]
    /\ hook' = hook \/ \E h \in {"released", "expired"} : hook' = [hook EXCEPT ![e] = h]
    /\ UNCHANGED <<owner, lease, leaseHolder>>
Claimed(e, r) ==
    /\ status' = [status EXCEPT ![e] = IF @ = "running" THEN @ ELSE "claimed"]
    /\ owner' = [owner EXCEPT ![e] = r]
    /\ UNCHANGED hook
PoolClaimed(e, r) ==
    /\ r \in PoolRunners /\ status[e] = "queued"
    /\ LeasesOf(r) = {} /\ Cardinality(ActiveLeases) < PoolLimit
    /\ Claimed(e, r)
    /\ lease' = [lease EXCEPT ![e] = "active"]
    /\ leaseHolder' = [leaseHolder EXCEPT ![e] = r]
LegacyClaimed(e, r) ==
    /\ r \in LegacyRunners /\ status[e] \in {"queued"} \cup Active
    /\ Claimed(e, r)
    /\ UNCHANGED <<lease, leaseHolder>>
Settled(e) ==
    /\ hook[e] # "none" /\ hook' = [hook EXCEPT ![e] = "none"]
    /\ \/ lease' = [lease EXCEPT ![e] = IF @ = "active" THEN hook[e] ELSE @]
       \/ UNCHANGED lease
    /\ UNCHANGED <<status, owner, leaseHolder>>

RowEffect(e) ==
    \/ Created(e) \/ Withdrawn(e) \/ Begun(e) \/ Ended(e) \/ Settled(e)
    \/ \E r \in Runners : PoolClaimed(e, r) \/ LegacyClaimed(e, r)

(* Every step of the specification has one of these effects or none.       *)
LEMMA RowEffects ==
    ASSUME TypeOK, [Next]_controlVars
    PROVE  \/ UNCHANGED <<status, owner, lease, leaseHolder, hook>>
           \/ \E e \in Executions : RowEffect(e)
<1> USE DEF claimVars, stepVars, leaseVars
<1> DEFINE Quiet == UNCHANGED <<status, owner, lease, leaseHolder, hook>>
           Goal == Quiet \/ \E e \in Executions : RowEffect(e)
<1>1. CASE UNCHANGED controlVars
  BY <1>1 DEF controlVars
<1>2. ASSUME NEW r \in Runners, NEW n \in 1..MaxAttempts, ClientSends(r, n)
      PROVE  Goal
  BY <1>2, ClientSendsTyped
<1>3. ASSUME NEW q \in requests, Serve(q)
      PROVE  Goal
  <2>0. /\ q.runner \in Runners
        /\ q.kind # "claim" => q.exec \in Executions
        /\ q.kind = "complete" => q.arg \in Terminal
    BY RequestFields DEF TypeOK
  <2>1. ASSUME NEW allowed, NEW new, UpdateExecutionStep(q, allowed, new),
               q.exec \in Executions, UNCHANGED <<owner, lease, leaseHolder, hook>>
        PROVE  Goal
    BY <2>1 DEF UpdateExecutionStep, RowEffect, Begun
  <2>2. ASSUME NEW e \in Executions, ServeClaim(q, e)
        PROVE  Goal
    <3>1. CASE PoolClaim(q, e)
      BY <3>1, <2>0 DEF PoolClaim, TakeClaim, RowEffect, PoolClaimed, Claimed
    <3>2. CASE LegacyClaim(q, e)
      BY <3>2, <2>0 DEF LegacyClaim, TakeClaim, RowEffect, LegacyClaimed, Claimed
    <3> QED
      BY <2>2, <3>1, <3>2 DEF ServeClaim
  <2>3. ASSUME NEW reply, StartEvaluate(q, reply)
        PROVE  Goal
    BY <2>0, <2>1, <2>3 DEF StartEvaluate, StartOutcome, RequestStepApproval
  <2>4. CASE ServeUpdate(q)
    BY <2>0, <2>1, <2>4 DEF ServeUpdate
  <2>5. ASSUME NEW reply, PollAnswer(q, reply)
        PROVE  Goal
    BY <2>0, <2>1, <2>5 DEF PollAnswer, PollOutcome
  <2>6. CASE ServeComplete(q)
    BY <2>0, <2>6 DEF ServeComplete, RowEffect, Ended
  <2>7. CASE \/ ServeNoWork(q) \/ HeartbeatRead(q) \/ StartRead(q) \/ StartWaiting(q)
             \/ PollRead(q) \/ ServeRefusal(q)
    BY <2>7 DEF ServeNoWork, HeartbeatRead, StartRead, StartWaiting, PollRead,
                ServeRefusal
  <2>8. ASSUME NEW reply, HeartbeatWrite(q, reply)
        PROVE  Goal
    BY <2>8 DEF HeartbeatWrite
  <2> QED
    BY <1>3, <2>2, <2>3, <2>4, <2>5, <2>6, <2>7, <2>8 DEF Serve
<1>4. ASSUME NEW e \in Executions, ControlStep(e)
      PROVE  Goal
  <2>1. CASE CreateExecution(e)
    BY <2>1 DEF CreateExecution, RowEffect, Created
  <2>2. CASE CancelExecution(e)
    BY <2>2 DEF CancelExecution, RowEffect, Withdrawn
  <2>3. CASE RecoverStuck(e)
    BY <2>3 DEF RecoverStuck, RowEffect, Ended, Terminal
  <2>4. CASE SettleLease(e) \/ LoseLeaseUpdate(e)
    BY <2>4 DEF SettleLease, LoseLeaseUpdate, RowEffect, Settled
  <2>5. ASSUME NEW s \in Steps, RecoverExpiredApproval(e, s)
        PROVE  Goal
    BY <2>5 DEF RecoverExpiredApproval, RowEffect, Ended, Terminal
  <2>6. CASE HeartbeatAges(e) \/ \E s \in Steps : ApprovalDeadline(e, s)
    BY <2>6 DEF HeartbeatAges, ApprovalDeadline
  <2>7. ASSUME NEW s \in Steps, NEW decision, DecideApproval(e, s, decision)
        PROVE  Goal
    BY <2>7 DEF DecideApproval
  <2> QED
    BY <1>4, <2>1, <2>2, <2>3, <2>4, <2>5, <2>6, <2>7 DEF ControlStep
<1> QED
  BY <1>1, <1>2, <1>3, <1>4 DEF Next

-----------------------------------------------------------------------------
(* Leases.                                                                 *)

(* A runner has at most one active lease, also when the lease update after *)
(* a commit was lost and the lease outlives its execution.                 *)
OneLeasePerRunner ==
    \A e, f \in ActiveLeases : leaseHolder[e] = leaseHolder[f] => e = f

(* The lease invariants are preserved together: that a lease is settled    *)
(* only after its execution ended is what keeps a live claim leased, and   *)
(* what lets schedule_execution_claim count leases instead of executions.  *)
LeaseInv == LeaseMatchesClaim /\ OneLeasePerRunner

LEMMA LeaseInductive ==
    ASSUME TypeOK, TypeOK', LeaseInv, [Next]_controlVars
    PROVE  LeaseInv'
<1> USE DEF LeaseInv
<1>1. CASE UNCHANGED <<status, owner, lease, leaseHolder, hook>>
  BY <1>1 DEF LeaseMatchesClaim, OneLeasePerRunner, ActiveLeases
<1>2. ASSUME NEW e \in Executions, RowEffect(e)
      PROVE  LeaseInv'
  <2>1. CASE Created(e) \/ Withdrawn(e) \/ Begun(e)
    <3>1. LeaseMatchesClaim'
      BY <2>1 DEF Created, Withdrawn, Begun, TypeOK, LeaseMatchesClaim, Active, Terminal
    <3>2. OneLeasePerRunner'
      BY <2>1 DEF Created, Withdrawn, Begun, OneLeasePerRunner, ActiveLeases
    <3> QED
      BY <3>1, <3>2
  <2>2. CASE Ended(e)
    BY <2>2 DEF Ended, TypeOK, LeaseMatchesClaim, OneLeasePerRunner, ActiveLeases,
                Active, Terminal
  <2>3. CASE Settled(e)
    <3>1. LeaseMatchesClaim'
      BY <2>3 DEF Settled, TypeOK, LeaseMatchesClaim, Active, Terminal
    <3>2. OneLeasePerRunner'
      BY <2>3 DEF Settled, TypeOK, OneLeasePerRunner, ActiveLeases
    <3> QED
      BY <3>1, <3>2
  <2>4. ASSUME NEW r \in Runners, PoolClaimed(e, r)
        PROVE  LeaseInv'
    <3>1. LeaseMatchesClaim'
      BY <2>4 DEF PoolClaimed, Claimed, TypeOK, LeaseMatchesClaim, Active, Terminal
    <3>2. OneLeasePerRunner'
      BY <2>4 DEF PoolClaimed, TypeOK, OneLeasePerRunner, ActiveLeases, LeasesOf
    <3> QED
      BY <3>1, <3>2
  <2>5. ASSUME NEW r \in Runners, LegacyClaimed(e, r)
        PROVE  LeaseInv'
    BY <2>5, ConstantsAssumption
       DEF LegacyClaimed, Claimed, TypeOK, LeaseMatchesClaim, OneLeasePerRunner,
           ActiveLeases, Active, Terminal
  <2> QED
    BY <1>2, <2>1, <2>2, <2>3, <2>4, <2>5 DEF RowEffect
<1> QED
  BY <1>1, <1>2, RowEffects

LEMMA LeaseInitial == Init => LeaseInv
BY DEF Init, LeaseInv, LeaseMatchesClaim, OneLeasePerRunner, ActiveLeases, Active

LEMMA LeaseInvariant == Spec => [](TypeOK /\ LeaseInv)
<1>1. Init => LeaseInv
  BY LeaseInitial
<1>2. TypeOK /\ TypeOK' /\ LeaseInv /\ [Next]_controlVars => LeaseInv'
  BY LeaseInductive
<1> QED
  BY <1>1, <1>2, TypeCorrect, PTL DEF Spec

(* While a pool runner's execution is claimed or running its lease is      *)
(* active and names that runner, for any number of runners and executions. *)
THEOREM LeaseMatchesClaimHolds == Spec => []LeaseMatchesClaim
<1>1. TypeOK /\ LeaseInv => LeaseMatchesClaim
  BY DEF LeaseInv
<1> QED
  BY <1>1, LeaseInvariant, PTL

(* Counting active leases under the pool's lock is enough: no pool runner  *)
(* ever owns two executions that are claimed or running.                   *)
THEOREM OneExecutionPerRunnerHolds == Spec => []OneExecutionPerRunner
<1>1. TypeOK /\ LeaseInv => OneExecutionPerRunner
  BY DEF LeaseInv, LeaseMatchesClaim, OneLeasePerRunner, OneExecutionPerRunner,
         ActiveLeases
<1> QED
  BY <1>1, LeaseInvariant, PTL

(* The pool's active leases never exceed max_concurrent_executions.        *)
THEOREM PoolLimitHolds == Spec => []PoolLimitRespected
<1> USE DEF PoolLimitRespected
<1>1. Init => PoolLimitRespected
  <2>1. Init => ActiveLeases = {}
    BY DEF Init, ActiveLeases
  <2> QED
    BY <2>1, FS_EmptySet, ConstantsAssumption
<1>2. ASSUME TypeOK, PoolLimitRespected, [Next]_controlVars
      PROVE  PoolLimitRespected'
  <2>1. IsFiniteSet(ActiveLeases) /\ Cardinality(ActiveLeases) \in Nat
    BY FS_Subset, FS_CardinalityType, ConstantsAssumption DEF ActiveLeases
  <2>2. ASSUME ActiveLeases' \subseteq ActiveLeases
        PROVE  PoolLimitRespected'
    BY <1>2, <2>1, <2>2, FS_Subset, FS_CardinalityType, ConstantsAssumption
  <2>3. ASSUME NEW e \in Executions, RowEffect(e)
        PROVE  PoolLimitRespected'
    <3>1. ASSUME NEW r \in Runners, PoolClaimed(e, r)
          PROVE  PoolLimitRespected'
      <4>1. ActiveLeases' = ActiveLeases \cup {e}
        BY <1>2, <3>1 DEF ActiveLeases, PoolClaimed, TypeOK
      <4>2. /\ Cardinality(ActiveLeases \cup {e}) <= Cardinality(ActiveLeases) + 1
            /\ Cardinality(ActiveLeases \cup {e}) \in Nat
        <5>1. CASE e \in ActiveLeases
          <6>1. Cardinality(ActiveLeases \cup {e}) = Cardinality(ActiveLeases)
            BY <2>1, <5>1, FS_AddElement
          <6> QED
            BY <2>1, <6>1
        <5>2. CASE e \notin ActiveLeases
          <6>1. Cardinality(ActiveLeases \cup {e}) = Cardinality(ActiveLeases) + 1
            BY <2>1, <5>2, FS_AddElement
          <6> QED
            BY <2>1, <6>1
        <5> QED
          BY <5>1, <5>2
      <4>3. Cardinality(ActiveLeases) < PoolLimit
        BY <3>1 DEF PoolClaimed
      <4> QED
        BY <2>1, <4>1, <4>2, <4>3, ConstantsAssumption
    <3>2. CASE Settled(e)
      BY <1>2, <2>2, <3>2 DEF ActiveLeases, Settled, TypeOK
    <3>3. CASE UNCHANGED lease
      BY <2>2, <3>3 DEF ActiveLeases
    <3> QED
      BY <2>3, <3>1, <3>2, <3>3
         DEF RowEffect, Created, Withdrawn, Begun, Ended, LegacyClaimed
  <2>4. CASE UNCHANGED <<status, owner, lease, leaseHolder, hook>>
    BY <2>2, <2>4 DEF ActiveLeases
  <2> QED
    BY <1>2, <2>3, <2>4, RowEffects
<1> QED
  BY <1>1, <1>2, TypeCorrect, PTL DEF Spec

-----------------------------------------------------------------------------
(* Refinement.                                                             *)

(* The handlers implement the lifecycle: an execution is handed to one     *)
(* runner at a time, only while it has not ended, and ends once.           *)
THEOREM LifecycleRefinement == Spec => ImplementsLifecycle
<1>1. Init => Lifecycle!Init
  BY DEF Init, Lifecycle!Init
<1>2. ASSUME TypeOK, [Next]_controlVars
      PROVE  [Lifecycle!Next]_(Lifecycle!lifeVars)
  <2>1. ASSUME NEW e \in Executions, RowEffect(e)
        PROVE  [Lifecycle!Next]_(Lifecycle!lifeVars)
    <3> USE DEF Lifecycle!Next, Lifecycle!Move, Lifecycle!Open, Lifecycle!Ended
    <3>1. CASE Created(e)
      BY <3>1 DEF Created, Lifecycle!Create
    <3>2. CASE Withdrawn(e)
      BY <3>2 DEF Withdrawn, Lifecycle!Withdraw
    <3>3. CASE Begun(e)
      BY <3>3 DEF Begun, Lifecycle!Begin
    <3>4. CASE Ended(e)
      BY <3>4 DEF Ended, Lifecycle!End, Active, Terminal
    <3>5. CASE Settled(e)
      BY <3>5 DEF Settled, Lifecycle!lifeVars
    <3>6. ASSUME NEW r \in Runners, PoolClaimed(e, r) \/ LegacyClaimed(e, r)
          PROVE  Lifecycle!Hand(e, r)
      BY <1>2, <3>6
         DEF PoolClaimed, LegacyClaimed, Claimed, Lifecycle!Hand, TypeOK, Active
    <3> QED
      BY <2>1, <3>1, <3>2, <3>3, <3>4, <3>5, <3>6 DEF RowEffect
  <2>2. CASE UNCHANGED <<status, owner, lease, leaseHolder, hook>>
    BY <2>2 DEF Lifecycle!lifeVars
  <2> QED
    BY <1>2, <2>1, <2>2, RowEffects
<1> QED
  BY <1>1, <1>2, TypeCorrect, PTL DEF Spec, ImplementsLifecycle, Lifecycle!Spec

-----------------------------------------------------------------------------
(* What a step of the specification can do to a workflow step and to its   *)
(* approval request.                                                       *)

StepStarted(e, s) ==
    /\ step[e][s] \in {"pending", "waiting_for_approval"}
    /\ step' = [step EXCEPT ![e][s] = "running"]
    /\ s \in RequiresApproval => approval[e][s] = "approved"
    /\ UNCHANGED approval
StepEnded(e, s) ==
    /\ step[e][s] \in {"pending", "waiting_for_approval", "running"}
    /\ \/ step' = [step EXCEPT ![e][s] = "failed"]
       \/ step[e][s] = "running" /\ step' = [step EXCEPT ![e][s] = "succeeded"]
    /\ UNCHANGED approval
ApprovalRequested(e, s) ==
    /\ step[e][s] = "pending"
    /\ step' = [step EXCEPT ![e][s] = "waiting_for_approval"]
    /\ approval' = [approval EXCEPT ![e][s] = "pending"]
ApprovalResolved(e, s) ==
    /\ approval[e][s] = "pending"
    /\ \E a \in {"approved", "rejected", "timed_out"} :
          approval' = [approval EXCEPT ![e][s] = a]
    /\ \/ UNCHANGED step
       \/ /\ step[e][s] = "waiting_for_approval"
          /\ step' = [step EXCEPT ![e][s] = "failed"]
StepsGivenUp(e) ==
    /\ step' = [step EXCEPT ![e] =
                   [s \in Steps |-> IF @[s] = "running" THEN "failed" ELSE @[s]]]
    /\ UNCHANGED approval

StepEffect(e) ==
    \/ StepsGivenUp(e)
    \/ \E s \in Steps : \/ StepStarted(e, s) \/ StepEnded(e, s)
                       \/ ApprovalRequested(e, s) \/ ApprovalResolved(e, s)

(* Every step of the specification has one of these effects or none.       *)
LEMMA StepEffects ==
    ASSUME TypeOK, [Next]_controlVars
    PROVE  \/ UNCHANGED <<step, approval>>
           \/ \E e \in Executions : StepEffect(e)
<1> USE DEF claimVars, stepVars, leaseVars
<1> DEFINE Quiet == UNCHANGED <<step, approval>>
           Goal == Quiet \/ \E e \in Executions : StepEffect(e)
<1>1. CASE UNCHANGED controlVars
  BY <1>1 DEF controlVars
<1>2. ASSUME NEW r \in Runners, NEW n \in 1..MaxAttempts, ClientSends(r, n)
      PROVE  Goal
  BY <1>2, ClientSendsTyped
<1>3. ASSUME NEW q \in requests, Serve(q)
      PROVE  Goal
  <2>0. /\ q.kind # "claim" => q.exec \in Executions
        /\ q.kind \in {"start", "poll", "update"} => q.step \in Steps
        /\ q.kind = "update" => q.arg \in {"succeeded", "failed"}
    BY RequestFields DEF TypeOK
  <2>1. ASSUME NEW from, NEW new,
               q.exec \in Executions, q.step \in Steps, from = StepOf(q),
               UpdateExecutionStep(q, StepTransitions(from), new), UNCHANGED approval,
               new \in {"succeeded", "failed"}
        PROVE  StepEnded(q.exec, q.step)
    BY <2>1 DEF UpdateExecutionStep, StepTransitions, StepOf, StepEnded
  <2>2. ASSUME NEW from,
               q.exec \in Executions, q.step \in Steps, from = StepOf(q),
               UpdateExecutionStep(q, StepStartTransitions(from), "running"),
               UNCHANGED approval,
               q.step \in RequiresApproval => ApprovalOf(q) = "approved"
        PROVE  StepStarted(q.exec, q.step)
    BY <2>2 DEF UpdateExecutionStep, StepStartTransitions, StepOf, ApprovalOf, StepStarted
  <2>3. ASSUME q.exec \in Executions, q.step \in Steps,
               ResolveApproval(q), UNCHANGED step
        PROVE  Goal
    <3>1. CASE Expires(q)
      BY <2>3, <3>1
         DEF ResolveApproval, ResolvedApproval, Expires, ApprovalOf, StepEffect,
             ApprovalResolved
    <3>2. CASE ~Expires(q)
      <4>1. UNCHANGED approval
        BY <2>3, <3>2 DEF ResolveApproval, ResolvedApproval, ApprovalOf, TypeOK
      <4> QED
        BY <2>3, <4>1
    <3> QED
      BY <3>1, <3>2
  <2>4. CASE StartWaiting(q)
    BY <2>0, <2>3, <2>4 DEF StartWaiting
  <2>5. ASSUME NEW reply, StartEvaluate(q, reply)
        PROVE  Goal
    <3>0. q.exec \in Executions /\ q.step \in Steps
      BY <2>0, <2>5 DEF StartEvaluate
    <3>1. PICK outcome \in PolicyOutcomes(q.step) : StartOutcome(q, outcome, reply)
      BY <2>5 DEF StartEvaluate
    <3>2. CASE outcome = "auto_approve"
      <4>1. q.step \notin RequiresApproval
        BY <3>1, <3>2 DEF PolicyOutcomes
      <4> QED
        BY <2>2, <3>0, <3>1, <3>2, <4>1 DEF StartOutcome, StepEffect
    <3>3. CASE RequestStepApproval(q)
      BY <3>0, <3>3 DEF RequestStepApproval, StepOf, StepEffect, ApprovalRequested
    <3>4. CASE outcome \in {"block", "error"}
      BY <2>1, <3>0, <3>1, <3>4 DEF StartOutcome, StepEffect
    <3> QED
      BY <3>1, <3>2, <3>3, <3>4 DEF StartOutcome
  <2>6. CASE ServeUpdate(q)
    BY <2>0, <2>1, <2>6 DEF ServeUpdate, StepEffect
  <2>7. ASSUME NEW reply, PollAnswer(q, reply)
        PROVE  Goal
    <3>0. q.exec \in Executions /\ q.step \in Steps
      BY <2>0, <2>7 DEF PollAnswer
    <3>1. CASE /\ ResolvedApproval(q) = "approved" /\ UNCHANGED approval
               /\ UpdateExecutionStep(q, StepStartTransitions(StepOf(q)), "running")
      <4>1. ApprovalOf(q) = "approved"
        BY <3>1 DEF ResolvedApproval
      <4> QED
        BY <2>2, <3>0, <3>1, <4>1 DEF StepEffect
    <3>2. CASE /\ StepOf(q) = "waiting_for_approval"
               /\ UpdateExecutionStep(q, StepTransitions(StepOf(q)), "failed")
               /\ ResolveApproval(q)
      <4>1. CASE Expires(q)
        BY <3>0, <3>2, <4>1
           DEF UpdateExecutionStep, ResolveApproval, ResolvedApproval, Expires,
               ApprovalOf, StepOf, StepEffect, ApprovalResolved
      <4>2. CASE ~Expires(q)
        <5>1. UNCHANGED approval
          BY <3>0, <3>2, <4>2 DEF ResolveApproval, ResolvedApproval, ApprovalOf, TypeOK
        <5> QED
          BY <2>1, <3>0, <3>2, <5>1 DEF StepEffect
      <4> QED
        BY <4>1, <4>2
    <3> QED
      BY <2>7, <3>1, <3>2 DEF PollAnswer, PollOutcome
  <2>8. CASE \/ ServeNoWork(q) \/ HeartbeatRead(q) \/ StartRead(q)
             \/ PollRead(q) \/ ServeRefusal(q) \/ ServeComplete(q)
    BY <2>8 DEF ServeNoWork, HeartbeatRead, StartRead, PollRead, ServeRefusal,
                ServeComplete
  <2>9. ASSUME NEW reply, HeartbeatWrite(q, reply)
        PROVE  Goal
    BY <2>9 DEF HeartbeatWrite
  <2>10. ASSUME NEW e \in Executions, ServeClaim(q, e)
         PROVE  Goal
    BY <2>10 DEF ServeClaim
  <2> QED
    BY <1>3, <2>4, <2>5, <2>6, <2>7, <2>8, <2>9, <2>10 DEF Serve
<1>4. ASSUME NEW e \in Executions, ControlStep(e)
      PROVE  Goal
  <2>1. CASE RecoverStuck(e)
    BY <2>1 DEF RecoverStuck, StepEffect, StepsGivenUp
  <2>2. ASSUME NEW s \in Steps, RecoverExpiredApproval(e, s)
        PROVE  Goal
    BY <2>2 DEF RecoverExpiredApproval, StepEffect, ApprovalResolved
  <2>3. ASSUME NEW s \in Steps, NEW decision \in {"approved", "rejected"},
               DecideApproval(e, s, decision)
        PROVE  Goal
    BY <2>3 DEF DecideApproval, StepEffect, ApprovalResolved
  <2>4. CASE \/ CreateExecution(e) \/ CancelExecution(e) \/ HeartbeatAges(e)
             \/ SettleLease(e) \/ LoseLeaseUpdate(e)
             \/ \E s \in Steps : ApprovalDeadline(e, s)
    BY <2>4 DEF CreateExecution, CancelExecution, HeartbeatAges, SettleLease,
                LoseLeaseUpdate, ApprovalDeadline
  <2> QED
    BY <1>4, <2>1, <2>2, <2>3, <2>4 DEF ControlStep
<1> QED
  BY <1>1, <1>2, <1>3, <1>4 DEF Next

-----------------------------------------------------------------------------
(* Approvals.                                                              *)

(* A step that was never started has no approval request: request_step_    *)
(* approval creates one only with the step's move to waiting.              *)
RequestsFollowSteps ==
    \A e \in Executions : \A s \in Steps :
        step[e][s] = "pending" => approval[e][s] = "none"

LEMMA ApprovalInductive ==
    ASSUME TypeOK, ApprovalGate, RequestsFollowSteps, [Next]_controlVars
    PROVE  ApprovalGate' /\ RequestsFollowSteps'
<1> USE ConstantsAssumption DEF TypeOK, ApprovalGate, RequestsFollowSteps
<1>1. CASE UNCHANGED <<step, approval>>
  BY <1>1
<1>2. ASSUME NEW e \in Executions, StepEffect(e)
      PROVE  ApprovalGate' /\ RequestsFollowSteps'
  <2>1. CASE StepsGivenUp(e)
    BY <2>1 DEF StepsGivenUp
  <2>2. ASSUME NEW s \in Steps, StepStarted(e, s)
        PROVE  ApprovalGate' /\ RequestsFollowSteps'
    BY <2>2 DEF StepStarted
  <2>3. ASSUME NEW s \in Steps, StepEnded(e, s)
        PROVE  ApprovalGate' /\ RequestsFollowSteps'
    <3>1. CASE step' = [step EXCEPT ![e][s] = "failed"]
      BY <2>3, <3>1 DEF StepEnded
    <3>2. CASE step[e][s] = "running" /\ step' = [step EXCEPT ![e][s] = "succeeded"]
      BY <2>3, <3>2 DEF StepEnded
    <3> QED
      BY <2>3, <3>1, <3>2 DEF StepEnded
  <2>4. ASSUME NEW s \in Steps, ApprovalRequested(e, s)
        PROVE  ApprovalGate' /\ RequestsFollowSteps'
    BY <2>4 DEF ApprovalRequested
  <2>5. ASSUME NEW s \in Steps, ApprovalResolved(e, s)
        PROVE  ApprovalGate' /\ RequestsFollowSteps'
    BY <2>5 DEF ApprovalResolved
  <2> QED
    BY <1>2, <2>1, <2>2, <2>3, <2>4, <2>5 DEF StepEffect
<1> QED
  BY <1>1, <1>2, StepEffects

LEMMA ApprovalInvariant == Spec => [](ApprovalGate /\ RequestsFollowSteps)
<1>1. Init => ApprovalGate /\ RequestsFollowSteps
  BY ConstantsAssumption DEF Init, ApprovalGate, RequestsFollowSteps
<1>2. TypeOK /\ ApprovalGate /\ RequestsFollowSteps /\ [Next]_controlVars
          => ApprovalGate' /\ RequestsFollowSteps'
  BY ApprovalInductive
<1> QED
  BY <1>1, <1>2, TypeCorrect, PTL DEF Spec

(* No order of requests, retries and decisions lets a step that requires   *)
(* approval run or succeed without an approved request.                    *)
THEOREM ApprovalGateHolds == Spec => []ApprovalGate
BY ApprovalInvariant, PTL

-----------------------------------------------------------------------------
(* Final states.                                                           *)

(* A late request, the watchdog or an approver never changes a terminal    *)
(* execution, a finished step, a decided approval or a settled lease.      *)
THEOREM FinalStatesStayHolds == Spec => FinalStatesStay
<1>1. ASSUME TypeOK, LeaseInv, RequestsFollowSteps, [Next]_controlVars
      PROVE  FinalStaysFinal
  <2>1. ASSUME NEW e \in Executions
        PROVE  /\ status[e] \in Terminal => status'[e] = status[e]
               /\ lease[e] \in {"released", "expired"} => lease'[e] = lease[e]
    <3>1. ASSUME NEW f \in Executions, RowEffect(f)
          PROVE  /\ status[e] \in Terminal => status'[e] = status[e]
                 /\ lease[e] \in {"released", "expired"} => lease'[e] = lease[e]
      <4> USE <1>1 DEF TypeOK, LeaseInv, LeaseMatchesClaim, Active, Terminal
      <4>1. CASE Created(f) \/ Withdrawn(f) \/ Begun(f)
        BY <4>1 DEF Created, Withdrawn, Begun
      <4>2. CASE Ended(f)
        BY <4>2 DEF Ended
      <4>3. CASE Settled(f)
        BY <4>3 DEF Settled
      <4>4. ASSUME NEW r \in Runners, PoolClaimed(f, r)
            PROVE  /\ status[e] \in Terminal => status'[e] = status[e]
                   /\ lease[e] \in {"released", "expired"} => lease'[e] = lease[e]
        BY <4>4 DEF PoolClaimed, Claimed
      <4>5. ASSUME NEW r \in Runners, LegacyClaimed(f, r)
            PROVE  /\ status[e] \in Terminal => status'[e] = status[e]
                   /\ lease[e] \in {"released", "expired"} => lease'[e] = lease[e]
        BY <4>5 DEF LegacyClaimed, Claimed
      <4> QED
        BY <3>1, <4>1, <4>2, <4>3, <4>4, <4>5 DEF RowEffect
    <3> QED
      BY <1>1, <3>1, RowEffects
  <2>2. ASSUME NEW e \in Executions, NEW s \in Steps
        PROVE  /\ step[e][s] \in {"succeeded", "failed"} => step'[e][s] = step[e][s]
               /\ approval[e][s] \in {"approved", "rejected", "timed_out"}
                    => approval'[e][s] = approval[e][s]
    <3>1. ASSUME NEW f \in Executions, StepEffect(f)
          PROVE  /\ step[e][s] \in {"succeeded", "failed"} => step'[e][s] = step[e][s]
                 /\ approval[e][s] \in {"approved", "rejected", "timed_out"}
                      => approval'[e][s] = approval[e][s]
      <4> USE <1>1 DEF TypeOK, RequestsFollowSteps
      <4>1. CASE StepsGivenUp(f)
        BY <4>1 DEF StepsGivenUp
      <4>2. ASSUME NEW t \in Steps,
                   \/ StepStarted(f, t) \/ StepEnded(f, t)
                   \/ ApprovalRequested(f, t) \/ ApprovalResolved(f, t)
            PROVE  /\ step[e][s] \in {"succeeded", "failed"} => step'[e][s] = step[e][s]
                   /\ approval[e][s] \in {"approved", "rejected", "timed_out"}
                        => approval'[e][s] = approval[e][s]
        BY <4>2 DEF StepStarted, StepEnded, ApprovalRequested, ApprovalResolved
      <4> QED
        BY <3>1, <4>1, <4>2 DEF StepEffect
    <3> QED
      BY <1>1, <3>1, StepEffects
  <2> QED
    BY <2>1, <2>2 DEF FinalStaysFinal
<1>2. TypeOK /\ LeaseInv /\ RequestsFollowSteps /\ [Next]_controlVars
          => [FinalStaysFinal]_controlVars
  BY <1>1
<1> QED
  BY <1>2, LeaseInvariant, ApprovalInvariant, PTL DEF Spec, FinalStatesStay

(* Only its own handler takes a request out.                               *)
LEMMA HandledBy ==
    ASSUME TypeOK, [Next]_controlVars, NEW q \in requests, q \notin requests'
    PROVE  Serve(q)
<1> USE DEF claimVars, stepVars, leaseVars
<1>1. CASE UNCHANGED controlVars
  BY <1>1 DEF controlVars
<1>2. ASSUME NEW r \in Runners, NEW n \in 1..MaxAttempts, ClientSends(r, n) PROVE FALSE
  <2>1. ASSUME NEW p, SendRequest(p) PROVE FALSE
    BY <2>1 DEF SendRequest
  <2> QED
    BY <1>2, <2>1 DEF ClientSends
<1>3. ASSUME NEW e \in Executions, ControlStep(e) PROVE FALSE
  BY <1>3 DEF ControlStep, CreateExecution, CancelExecution, HeartbeatAges, RecoverStuck, SettleLease,
     LoseLeaseUpdate, ApprovalDeadline, DecideApproval, RecoverExpiredApproval
<1>4. ASSUME NEW p \in requests, Serve(p) PROVE p = q
  <2>1. Answered(p) \/ Checked(p)
    BY <1>4 DEF Serve, ServeClaim, ServeNoWork, HeartbeatRead, HeartbeatWrite, StartRead, StartWaiting,
       StartEvaluate, ServeUpdate, PollRead, PollAnswer, ServeComplete, ServeRefusal
  <2> QED
    BY <2>1 DEF Answered, Checked
<1> QED
  BY <1>1, <1>2, <1>3, <1>4 DEF Next

(* A request with the token of a claim that is no longer the current one   *)
(* moves no status, no owner, no step and no lease, and an approval only   *)
(* from pending to timed out when its deadline has passed: the ownership   *)
(* check under the row locks decides, not the one on the unlocked read.    *)
THEOREM OldTokensDecideNothingHolds == Spec => OldTokensDecideNothing
<1>1. ASSUME TypeOK, [Next]_controlVars, NEW q \in requests, q \notin requests', q.kind # "claim", ~Owns(q)
      PROVE  OldTokenDecidesNothing
  <2> USE DEF claimVars, stepVars, leaseVars
  <2>0. Serve(q)
    BY <1>1, HandledBy
  <2>1. ASSUME NEW allowed, NEW new PROVE ~UpdateExecutionStep(q, allowed, new)
    BY <1>1 DEF UpdateExecutionStep
  <2>2. ~RequestStepApproval(q) /\ ~ServeUpdate(q) /\ ~ServeComplete(q)
    BY <1>1, <2>1 DEF RequestStepApproval, ServeUpdate, ServeComplete
  <2>3. ASSUME NEW reply PROVE ~StartEvaluate(q, reply)
    BY <2>1, <2>2 DEF StartEvaluate, StartOutcome
  <2>4. ASSUME NEW reply, PollAnswer(q, reply) PROVE OldTokenDecidesNothing
    BY <2>1, <2>4 DEF PollAnswer, PollOutcome, OldTokenDecidesNothing
  <2>5. CASE StartWaiting(q)
    <3>1. q.exec \in Executions /\ q.step \in Steps
      BY <2>5, RequestFields, <1>1 DEF StartWaiting, TypeOK
    <3>2. approval' = [approval EXCEPT ![q.exec][q.step] = ResolvedApproval(q)]
      BY <2>5 DEF StartWaiting, ResolveApproval
    <3>3. ResolvedApproval(q) # approval[q.exec][q.step] =>
              /\ ResolvedApproval(q) = "timed_out"
              /\ due[q.exec][q.step] /\ approval[q.exec][q.step] = "pending"
      BY DEF ResolvedApproval, Expires, ApprovalOf
    <3>4. \A e \in Executions : \A s \in Steps :
              approval'[e][s] # approval[e][s] =>
                  e = q.exec /\ s = q.step /\ approval'[e][s] = ResolvedApproval(q)
      BY <1>1, <3>1, <3>2 DEF TypeOK
    <3> QED
      BY <2>5, <3>3, <3>4 DEF StartWaiting, OldTokenDecidesNothing
  <2>6. CASE \/ ServeNoWork(q) \/ HeartbeatRead(q) \/ StartRead(q) \/ PollRead(q) \/ ServeRefusal(q)
             \/ \E reply \in {"ok", "cancel"} : HeartbeatWrite(q, reply)
    BY <2>6 DEF ServeNoWork, HeartbeatRead, StartRead, PollRead, ServeRefusal, HeartbeatWrite,
       OldTokenDecidesNothing
  <2> QED
    BY <1>1, <2>0, <2>2, <2>3, <2>4, <2>5, <2>6 DEF Serve, ServeClaim
<1>2. TypeOK /\ [Next]_controlVars =>
          [\A q \in requests \ requests' :
              q.kind # "claim" /\ ~Owns(q) => OldTokenDecidesNothing]_controlVars
  BY <1>1
<1> QED
  BY <1>2, TypeCorrect, PTL DEF Spec, OldTokensDecideNothing

-----------------------------------------------------------------------------
(* What never comes undone in the control plane.                           *)

Cleared(e, s) ==
    /\ step[e][s] \in {"running", "succeeded", "failed"}
    /\ s \in RequiresApproval => approval[e][s] = "approved"

(* Claims are only added: the tokens issued so far keep their runners.     *)
LEMMA TokenGrows ==
    ASSUME TypeOK, [Next]_controlVars, NEW e \in Executions
    PROVE  /\ token'[e] \in Nat /\ token[e] \in Nat /\ token'[e] >= token[e]
           /\ \A t \in 1..token[e] : issued'[e][t] = issued[e][t]
<1> DEFINE Goal == /\ token'[e] \in Nat /\ token[e] \in Nat /\ token'[e] >= token[e]
                   /\ \A t \in 1..token[e] : issued'[e][t] = issued[e][t]
<1>0. /\ token \in [Executions -> 0..MaxClaims] /\ MaxClaims \in Nat
      /\ issued \in [Executions -> [1..MaxClaims -> Runners \cup {NoRunner}]]
  BY ConstantsAssumption DEF TypeOK
<1> USE DEF claimVars, stepVars, leaseVars
<1>1. CASE UNCHANGED <<token, issued>>
  BY <1>0, <1>1
<1>2. ASSUME NEW q \in requests, NEW d \in Executions, ServeClaim(q, d)
      PROVE  Goal
  <2>1. /\ token' = [token EXCEPT ![d] = @ + 1]
        /\ issued' = [issued EXCEPT ![d][token[d] + 1] = q.runner]
    BY <1>2 DEF ServeClaim, PoolClaim, LegacyClaim, TakeClaim
  <2>2. \A t \in 1..token[e] : t # token[e] + 1
    BY <1>0
  <2>3. \A t \in 1..token[e] : issued'[e][t] = issued[e][t]
    BY <1>0, <2>1, <2>2
  <2> QED
    BY <1>0, <2>1, <2>3
<1>3. CASE UNCHANGED controlVars
  BY <1>1, <1>3 DEF controlVars
<1>4. ASSUME NEW r \in Runners, NEW n \in 1..MaxAttempts, ClientSends(r, n)
      PROVE  UNCHANGED <<token, issued>>
  BY <1>4, ClientSendsTyped
<1>5. ASSUME NEW q \in requests, Serve(q), ~\E d \in Executions : ServeClaim(q, d)
      PROVE  UNCHANGED <<token, issued>>
  BY <1>5 DEF Serve, ServeNoWork, HeartbeatRead, HeartbeatWrite, StartRead, StartWaiting, StartEvaluate,
     ServeUpdate, PollRead, PollAnswer, ServeComplete, ServeRefusal
<1>6. ASSUME NEW d \in Executions, ControlStep(d) PROVE UNCHANGED <<token, issued>>
  BY <1>6 DEF ControlStep, CreateExecution, CancelExecution, HeartbeatAges, RecoverStuck, SettleLease,
     LoseLeaseUpdate, ApprovalDeadline, DecideApproval, RecoverExpiredApproval
<1> QED
  BY <1>1, <1>2, <1>3, <1>4, <1>5, <1>6 DEF Next

(* A step that succeeded stays succeeded, one that was cleared stays so.   *)
LEMMA StepsStay ==
    ASSUME TypeOK, RequestsFollowSteps, [Next]_controlVars, NEW e \in Executions, NEW s \in Steps
    PROVE  /\ step[e][s] = "succeeded" => step'[e][s] = "succeeded"
           /\ Cleared(e, s) => Cleared(e, s)'
<1>0. /\ step \in [Executions -> [Steps -> StepStatus]]
      /\ approval \in [Executions -> [Steps -> ApprovalStatus]]
  BY DEF TypeOK
<1>1. CASE UNCHANGED <<step, approval>>
  BY <1>1 DEF Cleared
<1>2. ASSUME NEW d \in Executions, StepEffect(d)
      PROVE  /\ step[e][s] = "succeeded" => step'[e][s] = "succeeded"
             /\ Cleared(e, s) => Cleared(e, s)'
  <2>1. CASE StepsGivenUp(d)
    BY <1>0, <2>1 DEF StepsGivenUp, Cleared
  <2>2. ASSUME NEW t \in Steps, StepStarted(d, t)
        PROVE  /\ step[e][s] = "succeeded" => step'[e][s] = "succeeded"
               /\ Cleared(e, s) => Cleared(e, s)'
    BY <1>0, <2>2 DEF StepStarted, Cleared
  <2>3. ASSUME NEW t \in Steps, StepEnded(d, t)
        PROVE  /\ step[e][s] = "succeeded" => step'[e][s] = "succeeded"
               /\ Cleared(e, s) => Cleared(e, s)'
    BY <1>0, <2>3 DEF StepEnded, Cleared
  <2>4. ASSUME NEW t \in Steps, ApprovalRequested(d, t)
        PROVE  /\ step[e][s] = "succeeded" => step'[e][s] = "succeeded"
               /\ Cleared(e, s) => Cleared(e, s)'
    BY <1>0, <2>4 DEF ApprovalRequested, Cleared
  <2>5. ASSUME NEW t \in Steps, ApprovalResolved(d, t)
        PROVE  /\ step[e][s] = "succeeded" => step'[e][s] = "succeeded"
               /\ Cleared(e, s) => Cleared(e, s)'
    BY <1>0, <2>5 DEF ApprovalResolved, Cleared
  <2> QED
    BY <1>2, <2>1, <2>2, <2>3, <2>4, <2>5 DEF StepEffect
<1> QED
  BY <1>1, <1>2, StepEffects

-----------------------------------------------------------------------------
(* What a runner may rely on.                                              *)

Engaged(m) == m.pc \notin {"idle", "claim"}

AtStep == {"start", "poll", "update", "wait", "execute"}

Knows(r, m) ==
    /\ ~Engaged(m) => m.exec = NoExecution /\ m.tok = 0
    /\ Engaged(m) => /\ m.exec \in Executions /\ m.tok \in TokensOf(r, m.exec)
                     /\ m.pos \in 1..(NumSteps + 1)
    /\ m.pc \in AtStep => m.pos \in Steps
    /\ m.pc = "update" => m.outcome \in {"succeeded", "failed"}
    /\ m.pc = "complete" => m.outcome \in Terminal
    /\ m.pc = "finish" => m.outcome # ""
    /\ m.pc \in Calls => m.attempt \in 1..MaxAttempts

(* Every step before its position, and every step its plan gives as        *)
(* succeeded, has succeeded; a loop that ended well is past the last step. *)
Ordered(m) ==
    /\ Engaged(m) => \A s \in Steps : s < m.pos \/ m.plan[s] = "succeeded" => step[m.exec][s] = "succeeded"
    /\ m.pc \in {"finish", "complete"} /\ m.outcome = "succeeded" => m.pos = NumSteps + 1

Sound(r, m) ==
    /\ m \in Process /\ Knows(r, m) /\ Ordered(m)
    /\ m.pc = "execute" => Cleared(m.exec, m.pos)

AllSound == \A r \in Runners : Sound(r, run[r])

LEMMA SoundStays ==
    ASSUME TypeOK, RequestsFollowSteps, [Next]_controlVars, NEW r, NEW m, Sound(r, m)
    PROVE  Sound(r, m)'
<1>0. NumSteps \in Nat \ {0} /\ Steps = 1..NumSteps
  BY ConstantsAssumption DEF Steps
<1>1. Knows(r, m)'
  <2>1. Engaged(m) => m.exec \in Executions /\ m.tok \in TokensOf(r, m.exec)
    BY DEF Sound, Knows
  <2>2. Engaged(m) => m.tok \in TokensOf(r, m.exec)'
    BY <2>1, TokenGrows DEF TokensOf
  <2> QED
    BY <2>2 DEF Sound, Knows, Engaged
<1>2. Ordered(m)'
  BY StepsStay DEF Sound, Knows, Ordered, Engaged
<1>3. m.pc = "execute" => Cleared(m.exec, m.pos)'
  <2>1. m.pc = "execute" => m.exec \in Executions /\ m.pos \in Steps
    BY DEF Sound, Knows, Engaged, AtStep
  <2> QED
    BY <2>1, StepsStay DEF Sound
<1> QED
  BY <1>1, <1>2, <1>3 DEF Sound

LEMMA IdleSound == ASSUME NEW r PROVE Sound(r, Idle)
<1>1. Idle \in Process
  BY ConstantsAssumption DEF Idle, Process, PCs, StepStatus
<1>2. Idle.pc = "idle" /\ Idle.exec = NoExecution /\ Idle.tok = 0
  BY DEF Idle
<1> QED
  BY <1>1, <1>2 DEF Sound, Knows, Ordered, Engaged, AtStep, Calls

LEMMA OneAttempt == 1 \in 1..MaxAttempts /\ 1 \in 0..MaxAttempts
<1>1. MaxAttempts \in Nat /\ MaxAttempts # 0
  BY ConstantsAssumption
<1> QED
  BY <1>1

LEMMA NextPosition ==
    \A p \in Steps : /\ p + 1 \in 1..(NumSteps + 1) /\ p + 1 \in 0..(NumSteps + 1)
                     /\ \A s \in Steps : s < p + 1 => s < p \/ s = p
<1>1. NumSteps \in Nat /\ Steps = 1..NumSteps
  BY ConstantsAssumption DEF Steps
<1> QED
  BY <1>1

(* A call: the runner waits for the answer to its first attempt.           *)
LEMMA CallSound ==
    ASSUME NEW r, NEW m, Sound(r, m), NEW k \in Calls, NEW o \in {"", "succeeded", "failed", "cancelled", "error"},
           k = "claim" <=> ~Engaged(m),
           k \in AtStep => m.pos \in Steps,
           k = "update" => o \in {"succeeded", "failed"},
           k = "complete" => o \in Terminal /\ (o = "succeeded" => m.pos = NumSteps + 1)
    PROVE  Sound(r, [m EXCEPT !.outcome = o, !.pc = k, !.attempt = 1])
<1> DEFINE n == [m EXCEPT !.outcome = o, !.pc = k, !.attempt = 1]
<1>0. 1 \in 1..MaxAttempts /\ 1 \in 0..MaxAttempts
  BY OneAttempt
<1>1. m \in Process
  BY DEF Sound
<1>2. n \in Process
  BY <1>0, <1>1 DEF Process, PCs
<1>3. /\ n.pc = k /\ n.outcome = o /\ n.attempt = 1 /\ n.exec = m.exec /\ n.tok = m.tok
      /\ n.pos = m.pos /\ n.plan = m.plan
  BY <1>1 DEF Process
<1> HIDE DEF n
<1>4. Engaged(n) <=> Engaged(m)
  BY <1>3 DEF Engaged, Calls
<1>5. Knows(r, n)
  BY <1>0, <1>3, <1>4 DEF Sound, Knows, Engaged, Calls
<1>6. Ordered(n)
  BY <1>3, <1>4 DEF Sound, Ordered, Calls
<1>7. Sound(r, n)
  BY <1>2, <1>3, <1>5, <1>6 DEF Sound, Calls
<1> QED
  BY <1>7 DEF n

(* The loop ends with an outcome, or goes on after an error.               *)
LEMMA FinishSound ==
    ASSUME NEW r, NEW m, Sound(r, m), Engaged(m), NEW o \in {"succeeded", "failed", "cancelled", "error"},
           o = "succeeded" => m.pos = NumSteps + 1
    PROVE  Sound(r, [m EXCEPT !.pc = "finish", !.outcome = o])
<1> DEFINE n == [m EXCEPT !.pc = "finish", !.outcome = o]
<1>1. m \in Process
  BY DEF Sound
<1>2. n \in Process
  BY <1>1 DEF Process, PCs
<1>3. /\ n.pc = "finish" /\ n.outcome = o /\ n.exec = m.exec /\ n.tok = m.tok
      /\ n.pos = m.pos /\ n.plan = m.plan
  BY <1>1 DEF Process
<1> HIDE DEF n
<1>4. Knows(r, n) /\ Ordered(n)
  BY <1>3 DEF Sound, Knows, Ordered, Engaged, AtStep, Calls
<1>5. Sound(r, n)
  BY <1>2, <1>3, <1>4 DEF Sound
<1> QED
  BY <1>5 DEF n

(* A move to a place where nothing is outstanding.                         *)
LEMMA PlaceSound ==
    ASSUME NEW r, NEW m, Sound(r, m), Engaged(m), NEW p \in {"wait", "execute"}, m.pos \in Steps,
           p = "execute" => Cleared(m.exec, m.pos)
    PROVE  Sound(r, [m EXCEPT !.pc = p])
<1> DEFINE n == [m EXCEPT !.pc = p]
<1>1. m \in Process
  BY DEF Sound
<1>2. n \in Process
  BY <1>1 DEF Process, PCs
<1>3. /\ n.pc = p /\ n.outcome = m.outcome /\ n.exec = m.exec /\ n.tok = m.tok
      /\ n.pos = m.pos /\ n.plan = m.plan
  BY <1>1 DEF Process
<1> HIDE DEF n
<1>4. Knows(r, n) /\ Ordered(n)
  BY <1>3 DEF Sound, Knows, Ordered, Engaged, Calls
<1>5. Sound(r, n)
  BY <1>2, <1>3, <1>4 DEF Sound
<1> QED
  BY <1>5 DEF n

(* The next step, once the one at hand has succeeded.                      *)
LEMMA AdvanceSound ==
    ASSUME NEW r, NEW m, Sound(r, m), Engaged(m), m.pos \in Steps, step[m.exec][m.pos] = "succeeded", NEW o \in {"", m.outcome}
    PROVE  Sound(r, [m EXCEPT !.pc = "loop", !.pos = @ + 1, !.outcome = o])
<1> DEFINE n == [m EXCEPT !.pc = "loop", !.pos = @ + 1, !.outcome = o]
<1>1. m \in Process
  BY DEF Sound
<1>2. m.pos + 1 \in 1..(NumSteps + 1) /\ m.pos + 1 \in 0..(NumSteps + 1)
  BY NextPosition
<1>3. n \in Process
  BY <1>1, <1>2 DEF Process, PCs
<1>4. /\ n.pc = "loop" /\ n.exec = m.exec /\ n.tok = m.tok
      /\ n.pos = m.pos + 1 /\ n.plan = m.plan
  BY <1>1 DEF Process
<1> HIDE DEF n
<1>5. Knows(r, n)
  BY <1>2, <1>4 DEF Sound, Knows, Engaged, AtStep, Calls
<1>6. ASSUME NEW s \in Steps, s < n.pos \/ n.plan[s] = "succeeded" PROVE step[n.exec][s] = "succeeded"
  <2>1. s < m.pos \/ s = m.pos \/ m.plan[s] = "succeeded"
    BY <1>4, <1>6, NextPosition
  <2> QED
    BY <1>4, <2>1 DEF Sound, Ordered
<1>7. Ordered(n)
  BY <1>4, <1>6 DEF Ordered
<1>8. Sound(r, n)
  BY <1>3, <1>4, <1>5, <1>7 DEF Sound
<1> QED
  BY <1>8 DEF n

(* What a runner does of its own: it moves to a sound place, and if that   *)
(* place is a call, its request is sent.                                   *)
Acts(r, m) ==
    /\ run' = [run EXCEPT ![r] = m] /\ Sound(r, m)
    /\ UNCHANGED controlVars \/ (m.pc \in Calls /\ SendRequest(RequestOf(r, m.pc, m)))

LEMMA CallActs ==
    ASSUME NEW r \in Runners, NEW m, Sound(r, m), NEW k \in Calls,
           NEW o \in {"", "succeeded", "failed", "cancelled", "error"},
           Call(r, k, [m EXCEPT !.outcome = o]),
           k = "claim" <=> ~Engaged(m),
           k \in AtStep => m.pos \in Steps,
           k = "update" => o \in {"succeeded", "failed"},
           k = "complete" => o \in Terminal /\ (o = "succeeded" => m.pos = NumSteps + 1)
    PROVE  \E n : Acts(r, n)
<1> DEFINE n == [m EXCEPT !.outcome = o, !.pc = k, !.attempt = 1]
<1>1. n = [[m EXCEPT !.outcome = o] EXCEPT !.pc = k, !.attempt = 1]
  BY DEF Sound, Process
<1>2. n.pc = k
  BY DEF Sound, Process
<1>3. SendRequest(RequestOf(r, k, n)) /\ Become(r, n)
  BY <1>1 DEF Call
<1>4. Sound(r, n)
  BY CallSound
<1> HIDE DEF n
<1>5. Acts(r, n)
  BY <1>2, <1>3, <1>4 DEF Acts, Become
<1> QED
  BY <1>5

LEMMA MoveActs ==
    ASSUME NEW r \in Runners, NEW n, Become(r, n), Sound(r, n), UNCHANGED controlVars
    PROVE  \E m : Acts(r, m)
BY DEF Acts, Become

LEMMA RunnerActs ==
    ASSUME run \in [Runners -> Process], AllSound, NEW r \in Runners,
           SendClaim(r) \/ RunnerStep(r) \/ Crash(r)
    PROVE  \E n : Acts(r, n)
<1>0. NumSteps \in Nat /\ Steps = 1..NumSteps
  BY ConstantsAssumption DEF Steps
<1>1. PICK m : m = run[r]
  OBVIOUS
<1>2. m \in Process /\ Sound(r, m)
  BY <1>1 DEF AllSound
<1>3. m.outcome \in {"", "succeeded", "failed", "cancelled", "error"} /\ m = [m EXCEPT !.outcome = m.outcome]
  BY <1>2 DEF Process
<1>4. CASE Crash(r)
  BY <1>4, IdleSound, MoveActs DEF Crash
<1>5. CASE SendClaim(r)
  <2>0. Idle \in Process /\ Idle.outcome = "" /\ Idle.pc = "idle"
    BY IdleSound DEF Sound, Idle
  <2>1. Idle = [Idle EXCEPT !.outcome = ""] /\ ~Engaged(Idle)
    BY <2>0 DEF Process, Engaged
  <2>2. Call(r, "claim", [Idle EXCEPT !.outcome = ""])
    BY <1>5, <2>1 DEF SendClaim
  <2> QED
    BY <2>1, <2>2, IdleSound, CallActs DEF Calls, AtStep
<1>6. CASE NextStep(r)
  <2>0. m.pc = "loop" /\ Engaged(m) /\ m.pos \in 1..(NumSteps + 1) /\ m.plan \in [Steps -> StepStatus]
    BY <1>1, <1>2, <1>6 DEF NextStep, Engaged, Sound, Knows, Process
  <2>1. CASE LoopOutcome(m) # "" /\ Become(r, [m EXCEPT !.pc = "finish", !.outcome = LoopOutcome(m)])
             /\ UNCHANGED controlVars
    <3>1. /\ LoopOutcome(m) \in {"succeeded", "failed", "cancelled", "error"}
          /\ LoopOutcome(m) = "succeeded" => m.pos = NumSteps + 1
      BY <1>0, <2>0, <2>1 DEF LoopOutcome
    <3>2. Sound(r, [m EXCEPT !.pc = "finish", !.outcome = LoopOutcome(m)])
      BY <1>2, <2>0, <3>1, FinishSound
    <3> QED
      BY <2>1, <3>2, MoveActs
  <2>2. CASE LoopOutcome(m) = "" /\ m.plan[m.pos] = "succeeded" /\ Become(r, [m EXCEPT !.pos = @ + 1])
             /\ UNCHANGED controlVars
    <3>1. m.pos \in Steps
      BY <1>0, <2>0, <2>2 DEF LoopOutcome
    <3>2. step[m.exec][m.pos] = "succeeded"
      BY <1>2, <2>0, <2>2, <3>1 DEF Sound, Ordered
    <3>3. Sound(r, [m EXCEPT !.pc = "loop", !.pos = @ + 1, !.outcome = m.outcome])
      BY <1>2, <2>0, <3>1, <3>2, AdvanceSound
    <3>4. [m EXCEPT !.pc = "loop", !.pos = @ + 1, !.outcome = m.outcome] = [m EXCEPT !.pos = @ + 1]
      BY <1>2, <2>0 DEF Process
    <3> QED
      BY <2>2, <3>3, <3>4, MoveActs
  <2>3. CASE LoopOutcome(m) = "" /\ m.plan[m.pos] # "succeeded" /\ Call(r, "start", m)
    <3>1. m.pos \in Steps
      BY <1>0, <2>0, <2>3 DEF LoopOutcome
    <3>2. Call(r, "start", [m EXCEPT !.outcome = m.outcome])
      BY <1>3, <2>3
    <3> QED
      BY <1>2, <1>3, <2>0, <3>1, <3>2, CallActs DEF Calls
  <2> QED
    BY <1>1, <1>6, <2>1, <2>2, <2>3 DEF NextStep
<1>7. CASE WaitForApproval(r)
  <2>0. m.pc = "wait" /\ Engaged(m) /\ m.pos \in Steps
    BY <1>1, <1>2, <1>7 DEF WaitForApproval, Engaged, Sound, Knows, AtStep
  <2>1. CASE Become(r, Failed(m)) /\ UNCHANGED controlVars
    <3>1. Sound(r, Failed(m))
      BY <1>2, <2>0, FinishSound DEF Failed
    <3> QED
      BY <2>1, <3>1, MoveActs
  <2>2. CASE Call(r, "poll", m)
    <3>1. Call(r, "poll", [m EXCEPT !.outcome = m.outcome])
      BY <1>3, <2>2
    <3> QED
      BY <1>2, <1>3, <2>0, <3>1, CallActs DEF Calls
  <2> QED
    BY <1>1, <1>7, <2>1, <2>2 DEF WaitForApproval
<1>8. CASE CommandEnds(r)
  <2>0. m.pc = "execute" /\ Engaged(m) /\ m.pos \in Steps
    BY <1>1, <1>2, <1>8 DEF CommandEnds, Engaged, Sound, Knows, AtStep
  <2>1. ASSUME NEW o \in {"succeeded", "failed"}, Call(r, "update", [m EXCEPT !.outcome = o])
        PROVE  \E n : Acts(r, n)
    BY <1>2, <2>0, <2>1, CallActs DEF Calls
  <2>2. CASE Become(r, [m EXCEPT !.pc = "finish", !.outcome = "error"]) /\ UNCHANGED controlVars
    <3>1. Sound(r, [m EXCEPT !.pc = "finish", !.outcome = "error"])
      BY <1>2, <2>0, FinishSound
    <3> QED
      BY <2>2, <3>1, MoveActs
  <2> QED
    BY <1>1, <1>8, <2>1, <2>2 DEF CommandEnds
<1>9. CASE SendComplete(r)
  <2>0. m.pc = "finish" /\ Engaged(m) /\ m.outcome # ""
    BY <1>1, <1>2, <1>9 DEF SendComplete, Engaged, Sound, Knows
  <2>1. /\ FinalOutcome(m) \in Terminal
        /\ FinalOutcome(m) = "succeeded" => m.pos = NumSteps + 1
    BY <1>2, <1>3, <2>0 DEF FinalOutcome, Terminal, Sound, Ordered
  <2>2. Call(r, "complete", [m EXCEPT !.outcome = FinalOutcome(m)])
    BY <1>1, <1>9 DEF SendComplete
  <2>3. FinalOutcome(m) \in {"", "succeeded", "failed", "cancelled", "error"}
    BY <2>1 DEF Terminal
  <2> QED
    BY <1>2, <2>0, <2>1, <2>2, <2>3, CallActs DEF Calls, AtStep
<1>10. CASE Timeout(r)
  <2>0. m.pc \in Calls
    BY <1>1, <1>10 DEF Timeout
  <2>1. CASE /\ m.attempt < MaxAttempts
             /\ SendRequest(RequestOf(r, m.pc, [m EXCEPT !.attempt = @ + 1]))
             /\ Become(r, [m EXCEPT !.attempt = @ + 1])
    <3> DEFINE n == [m EXCEPT !.attempt = @ + 1]
    <3>1. m.attempt + 1 \in 1..MaxAttempts /\ m.attempt + 1 \in 0..MaxAttempts
      <4>1. MaxAttempts \in Nat /\ m.attempt \in 0..MaxAttempts
        BY <1>2, ConstantsAssumption DEF Process
      <4> QED
        BY <2>1, <4>1
    <3>2. n \in Process
      BY <1>2, <3>1 DEF Process
    <3>3. /\ n.pc = m.pc /\ n.outcome = m.outcome /\ n.attempt = m.attempt + 1 /\ n.exec = m.exec
          /\ n.tok = m.tok /\ n.pos = m.pos /\ n.plan = m.plan
      BY <1>2 DEF Process
    <3>4. SendRequest(RequestOf(r, m.pc, n)) /\ Become(r, n)
      BY <2>1
    <3> HIDE DEF n
    <3>5. Sound(r, n)
      BY <1>2, <3>1, <3>2, <3>3 DEF Sound, Knows, Ordered, Engaged
    <3>6. Acts(r, n)
      BY <2>0, <3>3, <3>4, <3>5 DEF Acts, Become
    <3> QED
      BY <3>6
  <2>2. CASE Become(r, After(m, "error")) /\ UNCHANGED controlVars
    <3>1. Sound(r, After(m, "error"))
      <4>1. CASE m.pc \in {"claim", "complete"}
        BY <4>1, IdleSound DEF After
      <4>2. CASE m.pc = "poll"
        <5>1. After(m, "error") = [m EXCEPT !.pc = "wait"]
          BY <4>2 DEF After
        <5> QED
          BY <1>2, <4>2, <5>1, PlaceSound DEF Sound, Knows, Engaged, AtStep
      <4>3. CASE m.pc \in {"start", "update"}
        <5>1. After(m, "error") = Failed(m)
          BY <4>3 DEF After
        <5>2. Engaged(m)
          BY <4>3 DEF Engaged
        <5> QED
          <6>1. Sound(r, Failed(m))
            BY <1>2, <5>2, FinishSound DEF Failed
          <6> QED
            BY <5>1, <6>1
      <4> QED
        BY <2>0, <4>1, <4>2, <4>3 DEF Calls
    <3> QED
      BY <2>2, <3>1, MoveActs
  <2> QED
    BY <1>1, <1>10, <2>1, <2>2 DEF Timeout
<1> QED
  BY <1>4, <1>5, <1>6, <1>7, <1>8, <1>9, <1>10 DEF RunnerStep

-----------------------------------------------------------------------------
(* A runner's requests are requests of a client.                           *)

LEMMA ActsAsClient ==
    ASSUME TypeOK, NEW r \in Runners, NEW m, Sound(r, m), m.pc \in Calls,
           SendRequest(RequestOf(r, m.pc, m))
    PROVE  \E n \in 1..MaxAttempts : ClientSends(r, n)
<1>1. m.attempt \in 1..MaxAttempts
  BY DEF Sound, Knows
<1>2. CASE m.pc = "claim"
  <2>1. m.exec = NoExecution /\ m.tok = 0
    BY <1>2 DEF Sound, Knows, Engaged
  <2>2. SendRequest(NewRequest("claim", r, NoExecution, 0, 0, "", m.attempt))
    BY <1>2, <2>1 DEF RequestOf
  <2> QED
    BY <1>1, <2>2 DEF ClientSends
<1>3. CASE m.pc # "claim"
  <2>1. m.exec \in Executions /\ m.tok \in TokensOf(r, m.exec)
    BY <1>3 DEF Sound, Knows, Engaged, Calls
  <2>2. CASE m.pc = "complete"
    <3>1. SendRequest(NewRequest("complete", r, m.exec, m.tok, 0, m.outcome, m.attempt)) /\ m.outcome \in Terminal
      BY <2>2 DEF RequestOf, Sound, Knows
    <3> QED
      BY <1>1, <2>1, <3>1 DEF ClientSends
  <2>3. CASE m.pc = "start"
    <3>1. SendRequest(NewRequest("start", r, m.exec, m.tok, m.pos, "", m.attempt)) /\ m.pos \in Steps
      BY <2>3 DEF RequestOf, Sound, Knows, AtStep
    <3> QED
      BY <1>1, <2>1, <3>1 DEF ClientSends
  <2>4. CASE m.pc = "poll"
    <3>1. SendRequest(NewRequest("poll", r, m.exec, m.tok, m.pos, "", m.attempt)) /\ m.pos \in Steps
      BY <2>4 DEF RequestOf, Sound, Knows, AtStep
    <3> QED
      BY <1>1, <2>1, <3>1 DEF ClientSends
  <2>5. CASE m.pc = "update"
    <3>1. /\ SendRequest(NewRequest("update", r, m.exec, m.tok, m.pos, m.outcome, m.attempt))
          /\ m.pos \in Steps /\ m.outcome \in {"succeeded", "failed"}
      BY <2>5 DEF RequestOf, Sound, Knows, AtStep
    <3> QED
      BY <1>1, <2>1, <3>1 DEF ClientSends
  <2> QED
    BY <1>3, <2>2, <2>3, <2>4, <2>5 DEF Calls
<1> QED
  BY <1>2, <1>3

LEMMA BeatsAsClient ==
    ASSUME AllSound, NEW r \in Runners, SendHeartbeat(r)
    PROVE  ClientSends(r, 1)
<1>1. Sound(r, run[r]) /\ run[r].pc \in Beating
  BY DEF AllSound, SendHeartbeat
<1>2. run[r].exec \in Executions /\ run[r].tok \in TokensOf(r, run[r].exec)
  BY <1>1 DEF Sound, Knows, Engaged, Beating
<1>3. SendRequest(NewRequest("heartbeat", r, run[r].exec, run[r].tok, 0, "", 1))
  BY DEF SendHeartbeat
<1> QED
  BY <1>2, <1>3 DEF ClientSends

(* Every step of the composition is a step of ExecutionControl or leaves   *)
(* the control plane alone.                                                *)
LEMMA StepIsControl ==
    ASSUME TypeOK, run \in [Runners -> Process], AllSound, [LoopNext]_vars
    PROVE  [Next]_controlVars
<1>1. CASE UNCHANGED vars
  BY <1>1 DEF vars
<1>2. ASSUME NEW r \in Runners, SendClaim(r) \/ RunnerStep(r) \/ Crash(r)
      PROVE  [Next]_controlVars
  <2>1. PICK n : Acts(r, n)
    BY <1>2, RunnerActs
  <2> QED
    BY <2>1, ActsAsClient DEF Acts, Next
<1>3. ASSUME NEW r \in Runners, SendHeartbeat(r)
      PROVE  [Next]_controlVars
  BY <1>3, BeatsAsClient, OneAttempt DEF Next
<1>4. ASSUME NEW q \in requests, ServeCall(q) PROVE Serve(q)
  BY <1>4 DEF ServeCall, Serve
<1> QED
  BY <1>1, <1>2, <1>3, <1>4 DEF LoopNext, Next

-----------------------------------------------------------------------------
(* What the answers leave a runner with.                                   *)

(* PlaceSound and AdvanceSound, as formulas that hold in every state and   *)
(* so in the state after a step.                                           *)
SoundMoves ==
    /\ \A r, m : \A p \in {"wait", "execute"} :
           /\ Sound(r, m) /\ Engaged(m) /\ m.pos \in Steps
           /\ p = "execute" => Cleared(m.exec, m.pos)
           => Sound(r, [m EXCEPT !.pc = p])
    /\ \A r, m : Sound(r, m) /\ Engaged(m) /\ m.pos \in Steps /\ step[m.exec][m.pos] = "succeeded"
                => Sound(r, [m EXCEPT !.pc = "loop", !.pos = @ + 1, !.outcome = ""])

LEMMA SoundMovesAlways == SoundMoves
BY PlaceSound, AdvanceSound DEF SoundMoves

LEMMA SoundMovesNext ==
    /\ \A r, m : \A p \in {"wait", "execute"} :
           /\ Sound(r, m)' /\ Engaged(m) /\ m.pos \in Steps
           /\ p = "execute" => Cleared(m.exec, m.pos)'
           => Sound(r, [m EXCEPT !.pc = p])'
    /\ \A r, m : Sound(r, m)' /\ Engaged(m) /\ m.pos \in Steps /\ step'[m.exec][m.pos] = "succeeded"
                => Sound(r, [m EXCEPT !.pc = "loop", !.pos = @ + 1, !.outcome = ""])'
<1>1. SoundMoves'
  BY SoundMovesAlways, PTL
<1> QED
  BY <1>1 DEF SoundMoves, Engaged

(* The answer to a claim: a position before the first step, and a plan     *)
(* read in the claim's own transaction.                                    *)
LEMMA ClaimSound ==
    ASSUME TypeOK, TypeOK', NEW q \in requests, NEW e \in Executions, ServeClaim(q, e)
    PROVE  \E m : /\ m = [Idle EXCEPT !.pc = "loop", !.exec = e, !.tok = token'[e], !.plan = step[e], !.pos = 1]
                  /\ Sound(q.runner, m)'
<1> DEFINE n == [Idle EXCEPT !.pc = "loop", !.exec = e, !.tok = token'[e], !.plan = step[e], !.pos = 1]
<1>0. NumSteps \in Nat /\ Steps = 1..NumSteps /\ MaxClaims \in Nat
  BY ConstantsAssumption DEF Steps
<1>1. step[e] \in [Steps -> StepStatus] /\ token'[e] \in 0..MaxClaims /\ token[e] \in 0..MaxClaims
  BY DEF TypeOK
<1>2. step' = step /\ token'[e] = token[e] + 1
  <2>1. token' = [token EXCEPT ![e] = @ + 1] /\ step' = step
    BY DEF ServeClaim, PoolClaim, LegacyClaim, TakeClaim, stepVars
  <2> QED
    BY <2>1 DEF TypeOK
<1>3. Idle \in Process
  BY IdleSound DEF Sound
<1>4. 1 \in 0..(NumSteps + 1) /\ 1 \in 1..(NumSteps + 1)
  BY <1>0
<1>5. n \in Process
  BY <1>1, <1>3, <1>4 DEF Process, PCs
<1>6. n.pc = "loop" /\ n.exec = e /\ n.tok = token'[e] /\ n.plan = step[e] /\ n.pos = 1
  BY <1>3 DEF Process
<1>7. PICK m : m = n
  OBVIOUS
<1>8. m.tok \in TokensOf(q.runner, e)'
  <2>1. issued' = [issued EXCEPT ![e][token[e] + 1] = q.runner] /\ token[e] < MaxClaims
    BY DEF ServeClaim, PoolClaim, LegacyClaim, TakeClaim
  <2>2. token[e] + 1 \in 1..MaxClaims /\ token'[e] \in 1..token'[e]
    BY <1>0, <1>1, <1>2, <2>1
  <2>3. issued'[e][token[e] + 1] = q.runner
    BY <2>1, <2>2 DEF TypeOK
  <2> QED
    BY <1>2, <1>6, <1>7, <2>2, <2>3 DEF TokensOf
<1>9. Knows(q.runner, m)'
  BY <1>4, <1>6, <1>7, <1>8 DEF Knows, Engaged, AtStep, Calls
<1>10. Ordered(m)'
  <2>1. \A s \in Steps : ~(s < 1)
    BY <1>0
  <2> QED
    BY <1>2, <1>6, <1>7, <2>1 DEF Ordered
<1>11. Sound(q.runner, m)'
  BY <1>5, <1>6, <1>7, <1>9, <1>10 DEF Sound
<1> QED
  BY <1>7, <1>11


(* The runner waits for the answer to its outstanding call.                *)
LEMMA AwaitedFields ==
    ASSUME NEW q \in requests, NEW m \in Process, m = run[q.runner], Awaits(q.runner, q)
    PROVE  /\ q.kind = m.pc /\ q.exec = m.exec /\ m.pc \in Calls
           /\ q.kind \in {"start", "poll", "update"} => q.step = m.pos
           /\ q.kind = "update" => q.arg = m.outcome
<1> DEFINE p == RequestOf(q.runner, m.pc, m)
<1>1. q = [p EXCEPT !.stage = q.stage] /\ m.pc \in Calls
  BY DEF Awaits
<1>2. /\ p.kind = m.pc /\ p.exec = m.exec
      /\ m.pc \in {"start", "poll", "update"} => p.step = m.pos
      /\ m.pc = "update" => p.arg = m.outcome
  BY DEF RequestOf, NewRequest
<1>3. p = [kind |-> p.kind, runner |-> p.runner, exec |-> p.exec, tok |-> p.tok, step |-> p.step,
           arg |-> p.arg, attempt |-> p.attempt, stage |-> p.stage]
  BY DEF RequestOf, NewRequest
<1> HIDE DEF p
<1>4. q.kind = p.kind /\ q.exec = p.exec /\ q.step = p.step /\ q.arg = p.arg
  BY <1>1, <1>3
<1> QED
  BY <1>1, <1>2, <1>4

LEMMA ServedSound ==
    ASSUME TypeOK, TypeOK', ApprovalGate, RequestsFollowSteps, run \in [Runners -> Process], AllSound,
           NEW q \in requests, ServeCall(q)
    PROVE  UNCHANGED run \/ \E n : run' = [run EXCEPT ![q.runner] = n] /\ Sound(q.runner, n)'
<1>1. [Next]_controlVars
  BY DEF ServeCall, Serve, Next
<1>2. q \in Request /\ q.runner \in Runners
  BY RequestFields DEF TypeOK
<1>3. PICK m : m = run[q.runner]
  OBVIOUS
<1>4. m \in Process /\ Sound(q.runner, m)
  BY <1>2, <1>3 DEF AllSound
<1>5. \A n : Sound(q.runner, n) => Sound(q.runner, n)'
  BY <1>1, SoundStays
<1> DEFINE Goal == UNCHANGED run \/ \E n : run' = [run EXCEPT ![q.runner] = n] /\ Sound(q.runner, n)'
<1>6. ASSUME NEW n, Become(q.runner, n), Sound(q.runner, n)' PROVE Goal
  BY <1>6 DEF Become
<1>7. ASSUME NEW n, Become(q.runner, n), Sound(q.runner, n) PROVE Goal
  BY <1>5, <1>6, <1>7
(* The answer reached the runner.                                          *)
<1>8. ASSUME Awaits(q.runner, q)
      PROVE  /\ q.kind = m.pc /\ q.exec = m.exec /\ m.pc \in Calls
             /\ q.kind \in {"start", "poll", "update"} => q.step = m.pos /\ m.pos \in Steps
             /\ q.kind = "update" => q.arg = m.outcome
             /\ q.kind # "claim" => Engaged(m) /\ m.exec \in Executions
  <2>1. /\ q.kind = m.pc /\ q.exec = m.exec /\ m.pc \in Calls
        /\ q.kind \in {"start", "poll", "update"} => q.step = m.pos
        /\ q.kind = "update" => q.arg = m.outcome
    BY <1>3, <1>4, <1>8, AwaitedFields
  <2> QED
    BY <1>4, <2>1 DEF Sound, Knows, Engaged, AtStep, Calls
<1>9. ASSUME NEW reply, Reply(q, reply)
      PROVE  UNCHANGED run \/ (Awaits(q.runner, q) /\ Become(q.runner, After(m, reply)))
  BY <1>3, <1>9 DEF Reply
<1>10. ASSUME Engaged(m) PROVE Sound(q.runner, Failed(m))
  BY <1>4, <1>10, FinishSound DEF Failed
<1>11. ASSUME Engaged(m), m.pos \in Steps PROVE Sound(q.runner, [m EXCEPT !.pc = "wait"])
  BY <1>4, <1>11, PlaceSound
<1>12. ASSUME Engaged(m), m.pos \in Steps, Cleared(m.exec, m.pos)' PROVE Sound(q.runner, [m EXCEPT !.pc = "execute"])'
  BY <1>4, <1>5, <1>12, SoundMovesNext
<1>13. ASSUME NEW e \in Executions, ServeClaim(q, e), ClaimReply(q, e) PROVE Goal
  <2>1. PICK n : /\ n = [Idle EXCEPT !.pc = "loop", !.exec = e, !.tok = token'[e], !.plan = step[e], !.pos = 1]
                 /\ Sound(q.runner, n)'
    BY <1>13, ClaimSound
  <2>2. UNCHANGED run \/ Become(q.runner, n)
    BY <1>13, <2>1 DEF ClaimReply
  <2> QED
    BY <1>6, <2>1, <2>2
<1>14. ASSUME NEW reply \in {"none", "ok", "error"}, q.kind \in {"claim", "complete"}, Reply(q, reply) PROVE Goal
  <2>1. UNCHANGED run \/ (m.pc \in {"claim", "complete"} /\ Become(q.runner, After(m, reply)))
    BY <1>8, <1>9, <1>14
  <2>2. m.pc \in {"claim", "complete"} => After(m, reply) = Idle
    BY <1>14 DEF After
  <2> QED
    BY <1>7, <2>1, <2>2, IdleSound
<1>15. ASSUME NEW reply, HeartbeatReply(q, reply) PROVE Goal
  <2> DEFINE n == [m EXCEPT !.cancel = TRUE]
  <2>1. UNCHANGED run \/ Become(q.runner, n)
    BY <1>3, <1>15 DEF HeartbeatReply
  <2>2. n \in Process
    BY <1>4 DEF Process
  <2>3. /\ n.pc = m.pc /\ n.outcome = m.outcome /\ n.attempt = m.attempt /\ n.exec = m.exec
        /\ n.tok = m.tok /\ n.pos = m.pos /\ n.plan = m.plan
    BY <1>4 DEF Process
  <2> HIDE DEF n
  <2>4. Sound(q.runner, n)
    BY <1>4, <2>2, <2>3 DEF Sound, Knows, Ordered, Engaged
  <2> QED
    BY <1>7, <2>1, <2>4
<1>16. ASSUME NEW reply \in {"wait", "blocked", "error", "fail"}, q.kind \in {"start", "poll"}, Reply(q, reply)
       PROVE  Goal
  <2>1. CASE UNCHANGED run
    BY <2>1
  <2>2. CASE Awaits(q.runner, q) /\ Become(q.runner, After(m, reply))
    <3>1. m.pc \in {"start", "poll"} /\ Engaged(m) /\ m.pos \in Steps
      BY <1>8, <1>16, <2>2
    <3>2. After(m, reply) = [m EXCEPT !.pc = "wait"] \/ After(m, reply) = Failed(m)
      BY <1>16, <3>1 DEF After
    <3> QED
      BY <1>7, <1>10, <1>11, <2>2, <3>1, <3>2
  <2> QED
    BY <1>9, <1>16, <2>1, <2>2
<1>17. ASSUME q.kind \in {"start", "poll"}, Reply(q, "run"),
              q.exec \in Executions /\ q.step \in Steps => Cleared(q.exec, q.step)'
       PROVE  Goal
  <2>1. CASE UNCHANGED run
    BY <2>1
  <2>2. CASE Awaits(q.runner, q) /\ Become(q.runner, After(m, "run"))
    <3>1. m.pc \in {"start", "poll"} /\ Engaged(m) /\ m.pos \in Steps /\ Cleared(m.exec, m.pos)'
      BY <1>8, <1>17, <2>2
    <3>2. After(m, "run") = [m EXCEPT !.pc = "execute"]
      BY <3>1 DEF After
    <3> QED
      BY <1>6, <1>12, <2>2, <3>1, <3>2
  <2> QED
    BY <1>9, <1>17, <2>1, <2>2
<1>18. ASSUME NEW reply \in {"run", "wait", "blocked"}, StartEvaluate(q, reply), Reply(q, reply) PROVE Goal
  <2>1. q.kind = "start" /\ q.exec \in Executions /\ q.step \in Steps
    BY <1>2, <1>18, RequestFields DEF StartEvaluate
  <2>2. CASE reply = "run"
    <3>1. /\ q.step \notin RequiresApproval
          /\ step' = [step EXCEPT ![q.exec][q.step] = "running"]
      BY <1>18, <2>2 DEF StartEvaluate, StartOutcome, PolicyOutcomes, UpdateExecutionStep
    <3>2. step'[q.exec][q.step] = "running"
      BY <2>1, <3>1 DEF TypeOK
    <3>3. Cleared(q.exec, q.step)'
      BY <3>1, <3>2 DEF Cleared
    <3> QED
      BY <1>17, <1>18, <2>1, <2>2, <3>3
  <2> QED
    BY <1>16, <1>18, <2>1, <2>2
<1>19. ASSUME NEW reply \in {"run", "wait", "fail"}, PollAnswer(q, reply), Reply(q, reply) PROVE Goal
  <2>1. q.kind = "poll" /\ q.exec \in Executions /\ q.step \in Steps
    BY <1>2, <1>19, RequestFields DEF PollAnswer
  <2>2. CASE reply = "run"
    <3>1. \/ StepOf(q) = "running" /\ UNCHANGED <<step, approval>>
          \/ /\ ResolvedApproval(q) = "approved" /\ UNCHANGED approval
             /\ step' = [step EXCEPT ![q.exec][q.step] = "running"]
      BY <1>19, <2>2 DEF PollAnswer, PollOutcome, UpdateExecutionStep
    <3>2. step'[q.exec][q.step] = "running"
      BY <2>1, <3>1 DEF StepOf, TypeOK
    <3>3. Cleared(q.exec, q.step)'
      BY <2>1, <3>1, <3>2 DEF StepOf, ApprovalOf, ResolvedApproval, ApprovalGate, Cleared
    <3> QED
      BY <1>17, <1>19, <2>1, <2>2, <3>3
  <2> QED
    BY <1>16, <1>19, <2>1, <2>2
<1>20. ASSUME ServeUpdate(q), Reply(q, "ok") PROVE Goal
  <2>1. q.kind = "update" /\ q.exec \in Executions /\ q.step \in Steps
    BY <1>2, <1>20, RequestFields DEF ServeUpdate
  <2>2. step'[q.exec][q.step] = q.arg
    <3>1. step' = [step EXCEPT ![q.exec][q.step] = q.arg]
      BY <1>20 DEF ServeUpdate, UpdateExecutionStep
    <3> QED
      BY <2>1, <3>1 DEF TypeOK
  <2>3. CASE UNCHANGED run
    BY <2>3
  <2>4. CASE Awaits(q.runner, q) /\ Become(q.runner, After(m, "ok"))
    <3>1. /\ m.pc = "update" /\ Engaged(m) /\ m.pos \in Steps
          /\ step'[m.exec][m.pos] = m.outcome
      BY <1>8, <2>1, <2>2, <2>4
    <3>2. CASE m.outcome = "succeeded"
      <4>1. After(m, "ok") = [m EXCEPT !.pc = "loop", !.pos = @ + 1, !.outcome = ""]
        BY <3>1, <3>2 DEF After
      <4>2. Sound(q.runner, [m EXCEPT !.pc = "loop", !.pos = @ + 1, !.outcome = ""])'
        BY <1>4, <1>5, <3>1, <3>2, SoundMovesNext
      <4> QED
        BY <1>6, <2>4, <4>1, <4>2
    <3>3. CASE m.outcome # "succeeded"
      <4>1. After(m, "ok") = Failed(m)
        BY <3>1, <3>3 DEF After
      <4> QED
        BY <1>7, <1>10, <2>4, <3>1, <4>1
    <3> QED
      BY <3>2, <3>3
  <2> QED
    BY <1>9, <1>20, <2>3, <2>4
<1>21. ASSUME ServeRefusal(q), Reply(q, "error") PROVE Goal
  <2>1. CASE q.kind \in {"claim", "complete"}
    BY <1>14, <1>21, <2>1
  <2>2. CASE q.kind \in {"start", "poll"}
    BY <1>16, <1>21, <2>2
  <2>3. CASE q.kind = "heartbeat"
    BY <1>8, <1>9, <1>21, <2>3 DEF Calls
  <2>4. CASE q.kind = "update"
    <3>1. CASE Awaits(q.runner, q) /\ Become(q.runner, After(m, "error"))
      <4>1. m.pc = "update" /\ Engaged(m)
        BY <1>8, <2>4, <3>1
      <4>2. After(m, "error") = Failed(m)
        BY <4>1 DEF After
      <4> QED
        BY <1>7, <1>10, <3>1, <4>1, <4>2
    <3> QED
      BY <1>9, <1>21, <3>1
  <2> QED
    BY <1>2, <2>1, <2>2, <2>3, <2>4 DEF Request, Kinds
<1>22. CASE ServeNoWork(q) /\ Reply(q, "none")
  BY <1>14, <1>22 DEF ServeNoWork
<1>23. CASE ServeComplete(q) /\ Reply(q, "ok")
  BY <1>14, <1>23 DEF ServeComplete
<1>24. CASE StartWaiting(q) /\ Reply(q, "wait")
  BY <1>16, <1>24 DEF StartWaiting
<1>25. CASE UNCHANGED run
  BY <1>25
<1>26. CASE \E e \in Executions : ServeClaim(q, e) /\ ClaimReply(q, e)
  BY <1>13, <1>26
<1>27. CASE \E reply \in {"ok", "cancel"} : HeartbeatWrite(q, reply) /\ HeartbeatReply(q, reply)
  BY <1>15, <1>27
<1>28. CASE \E reply \in {"run", "wait", "blocked"} : StartEvaluate(q, reply) /\ Reply(q, reply)
  BY <1>18, <1>28
<1>29. CASE \E reply \in {"run", "wait", "fail"} : PollAnswer(q, reply) /\ Reply(q, reply)
  BY <1>19, <1>29
<1>30. Goal
  BY <1>20, <1>21, <1>22, <1>23, <1>24, <1>25, <1>26, <1>27, <1>28, <1>29 DEF ServeCall
<1> QED
  BY <1>30

-----------------------------------------------------------------------------
(* The composition.                                                        *)

LoopInv ==
    /\ TypeOK /\ ApprovalGate /\ RequestsFollowSteps
    /\ run \in [Runners -> Process] /\ AllSound

LEMMA LoopInitial == ASSUME LoopInit PROVE LoopInv
<1>1. TypeOK
  BY ConstantsAssumption
     DEF LoopInit, Init, TypeOK, ExecutionStatus, StepStatus, ApprovalStatus, LeaseStatus, HeartbeatAge
<1>2. ApprovalGate /\ RequestsFollowSteps
  BY ConstantsAssumption DEF LoopInit, Init, ApprovalGate, RequestsFollowSteps
<1>3. run = [r \in Runners |-> Idle]
  BY DEF LoopInit
<1>4. Idle \in Process
  BY IdleSound DEF Sound
<1> QED
  BY <1>1, <1>2, <1>3, <1>4, IdleSound DEF LoopInv, AllSound

LEMMA LoopInductive ==
    ASSUME LoopInv, [LoopNext]_vars
    PROVE  LoopInv' /\ [Next]_controlVars
<1>0. /\ TypeOK /\ ApprovalGate /\ RequestsFollowSteps
      /\ run \in [Runners -> Process] /\ AllSound
  BY DEF LoopInv
<1>1. [Next]_controlVars
  BY <1>0, StepIsControl
<1>2. TypeOK' /\ ApprovalGate' /\ RequestsFollowSteps'
  BY <1>0, <1>1, TypeInductive, ApprovalInductive
<1>3. ASSUME NEW r, NEW m, Sound(r, m) PROVE Sound(r, m)'
  BY <1>0, <1>1, <1>3, SoundStays
<1>4. ASSUME NEW p \in Runners, NEW n, run' = [run EXCEPT ![p] = n], Sound(p, n)'
      PROVE  run' \in [Runners -> Process] /\ AllSound'
  <2>1. n \in Process
    BY <1>4 DEF Sound
  <2>2. run' \in [Runners -> Process]
    BY <1>0, <1>4, <2>1
  <2>3. ASSUME NEW r \in Runners PROVE Sound(r, run[r])'
    <3>1. PICK m : m = run'[r]
      OBVIOUS
    <3>2. CASE r = p
      <4>1. m = n
        BY <1>0, <1>4, <3>1, <3>2
      <4>2. Sound(r, m)'
        BY <1>4, <3>2, <4>1
      <4> QED
        BY <3>1, <4>2
    <3>3. CASE r # p
      <4>1. m = run[r]
        BY <1>0, <1>4, <3>1, <3>3
      <4>2. Sound(r, m)
        BY <1>0, <4>1 DEF AllSound
      <4>3. Sound(r, m)'
        BY <1>3, <4>2
      <4> QED
        BY <3>1, <4>3
    <3> QED
      BY <3>2, <3>3
  <2> QED
    BY <2>2, <2>3 DEF AllSound
<1>5. CASE UNCHANGED run
  <2>1. ASSUME NEW r \in Runners PROVE Sound(r, run[r])'
    <3>1. PICK m : m = run[r] /\ m = run'[r]
      BY <1>5
    <3>2. Sound(r, m)'
      BY <1>0, <1>3, <3>1 DEF AllSound
    <3> QED
      BY <3>1, <3>2
  <2> QED
    BY <1>0, <1>2, <1>1, <1>5, <2>1 DEF LoopInv, AllSound
<1>6. ASSUME NEW r \in Runners, SendClaim(r) \/ RunnerStep(r) \/ Crash(r)
      PROVE  run' \in [Runners -> Process] /\ AllSound'
  <2>1. PICK n : Acts(r, n)
    BY <1>0, <1>6, RunnerActs
  <2> QED
    BY <1>3, <1>4, <2>1 DEF Acts
<1>7. ASSUME NEW q \in requests, ServeCall(q), ~UNCHANGED run
      PROVE  run' \in [Runners -> Process] /\ AllSound'
  <2>1. q.runner \in Runners
    BY <1>0, RequestFields DEF TypeOK
  <2>2. PICK n : run' = [run EXCEPT ![q.runner] = n] /\ Sound(q.runner, n)'
    BY <1>0, <1>2, <1>7, ServedSound
  <2> QED
    BY <1>4, <2>1, <2>2
<1>8. ASSUME NEW r \in Runners, SendHeartbeat(r) PROVE UNCHANGED run
  BY <1>8 DEF SendHeartbeat
<1>9. UNCHANGED run \/ (run' \in [Runners -> Process] /\ AllSound')
  BY <1>6, <1>7, <1>8 DEF LoopNext, vars
<1> QED
  BY <1>1, <1>2, <1>5, <1>9 DEF LoopInv

LEMMA LoopInvariant == LoopSpec => []LoopInv
BY LoopInitial, LoopInductive, PTL DEF LoopSpec

(* Runners that follow executor.py are clients of the control plane: every *)
(* step of the composition is a step of ExecutionControl or leaves its     *)
(* rows alone.  ClientSends asks for a token that was issued to the sender,*)
(* so no runner sends one that another runner was given, not even when the *)
(* execution was taken over and answers of either claim arrive late.       *)
THEOREM RunnersAreClientsHolds == LoopSpec => RunnersAreClients
<1>1. LoopInit => Init
  BY DEF LoopInit
<1>2. LoopInv /\ [LoopNext]_vars => [Next]_controlVars
  BY LoopInductive
<1> QED
  BY <1>1, <1>2, LoopInvariant, PTL DEF LoopSpec, RunnersAreClients, Spec

(* Every runner is at a place of Executor.run, with the fields that belong *)
(* there, and every row and request has its type.                          *)
THEOREM RunnerTypeCorrect == LoopSpec => []RunnerTypeOK
<1>1. LoopInv => RunnerTypeOK
  BY DEF LoopInv, RunnerTypeOK
<1> QED
  BY <1>1, LoopInvariant, PTL

(* A command runs only for a step the control plane has started, and with  *)
(* its approval granted if it requires one: for any number of runners,     *)
(* takeovers, retries and lost answers.                                    *)
THEOREM CommandsWereClearedHolds == LoopSpec => []CommandsWereCleared
<1>1. LoopInv => CommandsWereCleared
  BY DEF LoopInv, AllSound, Sound, Cleared, CommandsWereCleared
<1> QED
  BY <1>1, LoopInvariant, PTL

-----------------------------------------------------------------------------
(* The order of the steps.  Requests carry the runner's knowledge on: what *)
(* was true when one was sent is true whenever it arrives.                 *)

RequestsInOrder ==
    \A q \in requests :
        /\ q.kind \in {"start", "poll", "update"} =>
               \A s \in Steps : s < q.step => step[q.exec][s] = "succeeded"
        /\ q.kind = "complete" /\ q.arg = "succeeded" => \A s \in Steps : step[q.exec][s] = "succeeded"

(* A pending step leaves that state by a request for it.                   *)
LEMMA TouchedBy ==
    ASSUME TypeOK, [Next]_controlVars, NEW e \in Executions, NEW t \in Steps,
           step[e][t] = "pending", step'[e][t] # "pending"
    PROVE  \E q \in requests : q.kind \in {"start", "poll", "update"} /\ q.exec = e /\ q.step = t
<1> USE DEF claimVars, stepVars, leaseVars
<1>0. step \in [Executions -> [Steps -> StepStatus]]
  BY DEF TypeOK
<1>1. ~UNCHANGED step
  OBVIOUS
<1>2. ASSUME NEW d \in Executions, ControlStep(d) PROVE FALSE
  <2>1. RecoverStuck(d) \/ \E s \in Steps : RecoverExpiredApproval(d, s)
    BY <1>1, <1>2 DEF ControlStep, CreateExecution, CancelExecution, HeartbeatAges, SettleLease,
       LoseLeaseUpdate, ApprovalDeadline, DecideApproval
  <2>2. CASE RecoverStuck(d)
    BY <1>0, <2>2 DEF RecoverStuck
  <2>3. ASSUME NEW s \in Steps, RecoverExpiredApproval(d, s) PROVE FALSE
    <3>1. step[d][s] = "waiting_for_approval" /\ step' = [step EXCEPT ![d][s] = "failed"]
      BY <1>1, <2>3 DEF RecoverExpiredApproval
    <3> QED
      BY <1>0, <3>1
  <2> QED
    BY <2>1, <2>2, <2>3
<1>3. ASSUME NEW r \in Runners, NEW n \in 1..MaxAttempts, ClientSends(r, n) PROVE FALSE
  BY <1>1, <1>3, ClientSendsTyped
<1>4. ASSUME NEW q \in requests, Serve(q)
      PROVE  q.kind \in {"start", "poll", "update"} /\ q.exec = e /\ q.step = t
  <2>1. \/ \E reply \in {"run", "wait", "blocked"} : StartEvaluate(q, reply)
        \/ \E reply \in {"run", "wait", "fail"} : PollAnswer(q, reply)
        \/ ServeUpdate(q)
    BY <1>1, <1>4 DEF Serve, ServeClaim, ServeNoWork, HeartbeatRead, HeartbeatWrite, StartRead, StartWaiting,
       PollRead, ServeComplete, ServeRefusal
  <2>2. q.kind \in {"start", "poll", "update"}
    BY <2>1 DEF StartEvaluate, PollAnswer, ServeUpdate
  <2>3. \E new : step' = [step EXCEPT ![q.exec][q.step] = new]
    <3>1. CASE \E reply \in {"run", "wait", "blocked"} : StartEvaluate(q, reply)
      BY <1>1, <3>1 DEF StartEvaluate, StartOutcome, UpdateExecutionStep, RequestStepApproval
    <3>2. CASE \E reply \in {"run", "wait", "fail"} : PollAnswer(q, reply)
      BY <1>1, <3>2 DEF PollAnswer, PollOutcome, UpdateExecutionStep
    <3>3. CASE ServeUpdate(q)
      BY <3>3 DEF ServeUpdate, UpdateExecutionStep
    <3> QED
      BY <2>1, <3>1, <3>2, <3>3
  <2>4. q.exec \in Executions /\ q.step \in Steps
    BY <2>2, RequestFields DEF TypeOK
  <2> QED
    BY <1>0, <2>2, <2>3, <2>4
<1> QED
  BY <1>1, <1>2, <1>3, <1>4 DEF Next, controlVars

(* An execution ends well by the runner's word only.                       *)
LEMMA SucceededBy ==
    ASSUME TypeOK, [Next]_controlVars, NEW e \in Executions,
           status[e] # "succeeded", status'[e] = "succeeded"
    PROVE  \E q \in requests : q.kind = "complete" /\ q.exec = e /\ q.arg = "succeeded"
<1> USE DEF claimVars, stepVars, leaseVars
<1>0. status \in [Executions -> ExecutionStatus]
  BY DEF TypeOK
<1>1. ~UNCHANGED status
  OBVIOUS
<1>2. ASSUME NEW d \in Executions, NEW new \in ExecutionStatus \ {"succeeded"}, status' = [status EXCEPT ![d] = new]
      PROVE  FALSE
  BY <1>0, <1>2
<1>3. ASSUME NEW d \in Executions, ControlStep(d) PROVE FALSE
  <2>1. \E new \in ExecutionStatus \ {"succeeded"} : status' = [status EXCEPT ![d] = new]
    BY <1>1, <1>3 DEF ControlStep, CreateExecution, CancelExecution, HeartbeatAges, RecoverStuck, SettleLease,
       LoseLeaseUpdate, ApprovalDeadline, DecideApproval, RecoverExpiredApproval, ExecutionStatus, Active, Terminal
  <2> QED
    BY <1>2, <2>1
<1>4. ASSUME NEW r \in Runners, NEW n \in 1..MaxAttempts, ClientSends(r, n) PROVE FALSE
  BY <1>1, <1>4, ClientSendsTyped
<1>5. ASSUME NEW q \in requests, Serve(q), ~ServeComplete(q) PROVE FALSE
  <2>1. CASE \E d \in Executions : ServeClaim(q, d)
    <3>1. PICK d \in Executions : ServeClaim(q, d)
      BY <2>1
    <3>2. status' = [status EXCEPT ![d] = IF @ = "running" THEN @ ELSE "claimed"]
      BY <3>1 DEF ServeClaim, PoolClaim, LegacyClaim, TakeClaim
    <3> QED
      BY <1>0, <3>2
  <2>2. CASE ~\E d \in Executions : ServeClaim(q, d)
    <3>1. \/ \E reply \in {"run", "wait", "blocked"} : StartEvaluate(q, reply)
          \/ \E reply \in {"run", "wait", "fail"} : PollAnswer(q, reply)
          \/ ServeUpdate(q)
      BY <1>1, <1>5, <2>2 DEF Serve, ServeNoWork, HeartbeatRead, HeartbeatWrite, StartRead, StartWaiting,
         PollRead, ServeRefusal
    <3>2. status' = [status EXCEPT ![q.exec] = "running"]
      <4>1. CASE \E reply \in {"run", "wait", "blocked"} : StartEvaluate(q, reply)
        BY <1>1, <4>1 DEF StartEvaluate, StartOutcome, UpdateExecutionStep, RequestStepApproval
      <4>2. CASE \E reply \in {"run", "wait", "fail"} : PollAnswer(q, reply)
        BY <1>1, <4>2 DEF PollAnswer, PollOutcome, UpdateExecutionStep
      <4>3. CASE ServeUpdate(q)
        BY <1>1, <4>3 DEF ServeUpdate, UpdateExecutionStep
      <4> QED
        BY <3>1, <4>1, <4>2, <4>3
    <3> QED
      BY <1>0, <3>2
  <2> QED
    BY <2>1, <2>2
<1>6. ASSUME NEW q \in requests, ServeComplete(q)
      PROVE  q.kind = "complete" /\ q.exec = e /\ q.arg = "succeeded"
  <2>1. q.kind = "complete" /\ status' = [status EXCEPT ![q.exec] = q.arg]
    BY <1>6 DEF ServeComplete
  <2> QED
    BY <1>0, <2>1
<1> QED
  BY <1>1, <1>3, <1>4, <1>5, <1>6 DEF Next, controlVars

(* Where a request comes from: it was there, has been read, or a runner    *)
(* that is sound has just sent it.                                         *)
LEMMA RequestSources ==
    ASSUME LoopInv, [LoopNext]_vars, NEW q \in requests'
    PROVE  \/ q \in requests
           \/ \E p \in requests : q = [p EXCEPT !.stage = "checked"]
           \/ q.kind = "heartbeat"
           \/ UNCHANGED step /\ \E r \in Runners : \E m : Sound(r, m) /\ m.pc \in Calls /\ q = RequestOf(r, m.pc, m)
<1> USE DEF claimVars, stepVars, leaseVars
<1>0. TypeOK /\ run \in [Runners -> Process] /\ AllSound
  BY DEF LoopInv
<1>1. CASE UNCHANGED requests
  BY <1>1
<1>2. ASSUME NEW r \in Runners, SendClaim(r) \/ RunnerStep(r) \/ Crash(r), ~UNCHANGED requests, q \notin requests
      PROVE  UNCHANGED step /\ \E m : Sound(r, m) /\ m.pc \in Calls /\ q = RequestOf(r, m.pc, m)
  <2>1. PICK m : Acts(r, m)
    BY <1>0, <1>2, RunnerActs
  <2>2. m.pc \in Calls /\ SendRequest(RequestOf(r, m.pc, m)) /\ Sound(r, m)
    BY <1>2, <2>1 DEF Acts, controlVars
  <2>3. requests' = requests \cup {RequestOf(r, m.pc, m)} /\ UNCHANGED step
    BY <2>2 DEF SendRequest
  <2> QED
    BY <1>2, <2>2, <2>3
<1>3. ASSUME NEW r \in Runners, SendHeartbeat(r), q \notin requests PROVE q.kind = "heartbeat"
  <2>1. q = NewRequest("heartbeat", r, run[r].exec, run[r].tok, 0, "", 1)
    BY <1>3 DEF SendHeartbeat, SendRequest
  <2> QED
    BY <2>1 DEF NewRequest
<1>4. ASSUME NEW p \in requests, ServeCall(p) PROVE q \in requests \/ q = [p EXCEPT !.stage = "checked"]
  <2>1. Answered(p) \/ Checked(p)
    BY <1>4 DEF ServeCall, ServeClaim, ServeNoWork, HeartbeatRead, HeartbeatWrite, StartRead, StartWaiting,
       StartEvaluate, ServeUpdate, PollRead, PollAnswer, ServeComplete, ServeRefusal
  <2> QED
    BY <2>1 DEF Answered, Checked
<1>5. ASSUME NEW d \in Executions, ControlStep(d) PROVE UNCHANGED requests
  BY <1>5 DEF ControlStep, CreateExecution, CancelExecution, HeartbeatAges, RecoverStuck, SettleLease,
     LoseLeaseUpdate, ApprovalDeadline, DecideApproval, RecoverExpiredApproval
<1>6. UNCHANGED vars => UNCHANGED requests
  BY DEF vars, controlVars
<1> QED
  BY <1>1, <1>2, <1>3, <1>4, <1>5, <1>6 DEF LoopNext

LEMMA OrderInductive ==
    ASSUME LoopInv, RequestsInOrder, StepsInOrder, [LoopNext]_vars
    PROVE  RequestsInOrder' /\ StepsInOrder'
<1>0. /\ TypeOK /\ RequestsFollowSteps /\ [Next]_controlVars
      /\ step \in [Executions -> [Steps -> StepStatus]]
  BY LoopInductive DEF LoopInv, TypeOK
<1>1. ASSUME NEW e \in Executions, NEW s \in Steps, step[e][s] = "succeeded"
      PROVE  step'[e][s] = "succeeded"
  BY <1>0, <1>1, StepsStay
<1>2. ASSUME NEW q \in requests'
      PROVE  /\ q.kind \in {"start", "poll", "update"} =>
                    \A s \in Steps : s < q.step => step'[q.exec][s] = "succeeded"
             /\ q.kind = "complete" /\ q.arg = "succeeded" =>
                    \A s \in Steps : step'[q.exec][s] = "succeeded"
  <2>1. CASE q \in requests
    <3>1. q.kind # "claim" => q.exec \in Executions
      BY <1>0, <2>1, RequestFields DEF TypeOK
    <3> QED
      BY <1>1, <2>1, <3>1 DEF RequestsInOrder
  <2>2. ASSUME NEW p \in requests, q = [p EXCEPT !.stage = "checked"]
        PROVE  /\ q.kind \in {"start", "poll", "update"} =>
                      \A s \in Steps : s < q.step => step'[q.exec][s] = "succeeded"
               /\ q.kind = "complete" /\ q.arg = "succeeded" =>
                      \A s \in Steps : step'[q.exec][s] = "succeeded"
    <3>1. p \in Request /\ (p.kind # "claim" => p.exec \in Executions)
      BY <1>0, RequestFields DEF TypeOK
    <3>2. q.kind = p.kind /\ q.exec = p.exec /\ q.step = p.step /\ q.arg = p.arg
      BY <2>2, <3>1 DEF Request
    <3> QED
      BY <1>1, <3>1, <3>2 DEF RequestsInOrder
  <2>3. ASSUME NEW r \in Runners, NEW m, UNCHANGED step, Sound(r, m), m.pc \in Calls, q = RequestOf(r, m.pc, m)
        PROVE  /\ q.kind \in {"start", "poll", "update"} =>
                      \A s \in Steps : s < q.step => step'[q.exec][s] = "succeeded"
               /\ q.kind = "complete" /\ q.arg = "succeeded" =>
                      \A s \in Steps : step'[q.exec][s] = "succeeded"
    <3>1. /\ q.kind = m.pc /\ q.exec = m.exec
          /\ m.pc \in {"start", "poll", "update"} => q.step = m.pos
          /\ m.pc = "complete" => q.arg = m.outcome
      BY <2>3 DEF RequestOf, NewRequest
    <3>2. m.pc # "claim" => Engaged(m)
      BY <2>3 DEF Engaged, Calls
    <3>3. \A s \in Steps : s < NumSteps + 1
      BY ConstantsAssumption DEF Steps
    <3> QED
      BY <2>3, <3>1, <3>2, <3>3 DEF Sound, Ordered
  <2> QED
    BY <2>1, <2>2, <2>3, RequestSources
<1>3. ASSUME NEW e \in Executions, NEW s \in Steps,
             status'[e] = "succeeded" \/ \E t \in Steps : s < t /\ step'[e][t] # "pending"
      PROVE  step'[e][s] = "succeeded"
  <2>1. CASE status'[e] = "succeeded"
    BY <1>0, <1>1, <2>1, SucceededBy DEF StepsInOrder, RequestsInOrder
  <2>2. ASSUME NEW t \in Steps, s < t, step'[e][t] # "pending" PROVE step'[e][s] = "succeeded"
    BY <1>0, <1>1, <2>2, TouchedBy DEF StepsInOrder, RequestsInOrder
  <2> QED
    BY <1>3, <2>1, <2>2
<1> QED
  BY <1>2, <1>3 DEF RequestsInOrder, StepsInOrder

(* A step is touched only once every earlier one has succeeded, and an     *)
(* execution succeeds only if all steps have, although the control plane   *)
(* checks neither: late and repeated requests carry facts that stay true,  *)
(* and so does the plan of a runner that takes over.                       *)
THEOREM StepsInOrderHolds == LoopSpec => []StepsInOrder
<1>1. LoopInit => RequestsInOrder /\ StepsInOrder
  BY DEF LoopInit, Init, RequestsInOrder, StepsInOrder
<1>2. LoopInv /\ RequestsInOrder /\ StepsInOrder /\ [LoopNext]_vars => RequestsInOrder' /\ StepsInOrder'
  BY OrderInductive
<1> QED
  BY <1>1, <1>2, LoopInvariant, PTL DEF LoopSpec

-----------------------------------------------------------------------------
(* Leases after the end.  Ended and Settled (see above) do                 *)
(* not say who ended an execution; here that matters.                      *)

TimedOut(e) == \E s \in Steps : approval[e][s] = "timed_out"

(* An execution that was claimed ends with a lease update due after the    *)
(* commit, or by the timeout of an approval.                               *)
LEMMA EndsBy ==
    ASSUME TypeOK, [Next]_controlVars, NEW e \in Executions,
           status[e] \in Active, status'[e] \in Terminal
    PROVE  hook'[e] # "none" \/ TimedOut(e)'
<1> USE DEF claimVars, stepVars, leaseVars
<1>0. /\ status \in [Executions -> ExecutionStatus] /\ hook \in [Executions -> {"none", "released", "expired"}]
      /\ approval \in [Executions -> [Steps -> ApprovalStatus]]
      /\ Active \cap Terminal = {}
  BY DEF TypeOK, Active, Terminal
<1>1. ~UNCHANGED status
  BY <1>0
<1>2. ASSUME NEW d \in Executions, ControlStep(d) PROVE hook'[e] # "none" \/ TimedOut(e)'
  <2>1. CASE RecoverStuck(d)
    BY <1>0, <2>1 DEF RecoverStuck
  <2>2. ASSUME NEW s \in Steps, RecoverExpiredApproval(d, s) PROVE TimedOut(e)'
    <3>1. status' = [status EXCEPT ![d] = "failed"] /\ approval' = [approval EXCEPT ![d][s] = "timed_out"]
      BY <1>1, <2>2 DEF RecoverExpiredApproval
    <3> QED
      BY <1>0, <3>1 DEF TimedOut
  <2>3. CASE CreateExecution(d) \/ CancelExecution(d)
    BY <1>0, <2>3 DEF CreateExecution, CancelExecution, Active
  <2> QED
    BY <1>1, <1>2, <2>1, <2>2, <2>3 DEF ControlStep, HeartbeatAges, SettleLease, LoseLeaseUpdate,
       ApprovalDeadline, DecideApproval
<1>3. ASSUME NEW r \in Runners, NEW n \in 1..MaxAttempts, ClientSends(r, n) PROVE FALSE
  BY <1>1, <1>3, ClientSendsTyped
<1>4. ASSUME NEW q \in requests, Serve(q) PROVE hook'[e] # "none"
  <2>1. CASE ServeComplete(q)
    BY <1>0, <2>1 DEF ServeComplete
  <2>2. ASSUME NEW d \in Executions, ServeClaim(q, d) PROVE FALSE
    <3>1. status' = [status EXCEPT ![d] = IF @ = "running" THEN @ ELSE "claimed"]
      BY <2>2 DEF ServeClaim, PoolClaim, LegacyClaim, TakeClaim
    <3> QED
      BY <1>0, <3>1 DEF Active
  <2>3. ASSUME NEW allowed, NEW new, UpdateExecutionStep(q, allowed, new) PROVE FALSE
    <3>1. status' = [status EXCEPT ![q.exec] = "running"]
      BY <1>1, <2>3 DEF UpdateExecutionStep
    <3> QED
      BY <1>0, <3>1 DEF Active
  <2> QED
    BY <1>1, <1>4, <2>1, <2>2, <2>3 DEF Serve, ServeNoWork, HeartbeatRead, HeartbeatWrite, StartRead, StartWaiting,
       StartEvaluate, StartOutcome, RequestStepApproval, ServeUpdate, PollRead, PollAnswer, PollOutcome, ServeRefusal
<1> QED
  BY <1>1, <1>2, <1>3, <1>4 DEF Next, controlVars

(* The update after the commit leaves no active lease, unless it can fail. *)
LEMMA SettledBy ==
    ASSUME TypeOK, [Next]_controlVars, ~LeaseUpdateFaults, NEW e \in Executions,
           hook[e] # "none", hook'[e] = "none"
    PROVE  lease'[e] # "active"
<1> USE DEF claimVars, stepVars, leaseVars
<1>0. /\ hook \in [Executions -> {"none", "released", "expired"}] /\ lease \in [Executions -> LeaseStatus]
  BY DEF TypeOK
<1>1. ~UNCHANGED hook
  OBVIOUS
<1>2. ASSUME NEW d \in Executions, ControlStep(d) PROVE lease'[e] # "active"
  <2>1. CASE RecoverStuck(d)
    BY <1>0, <2>1 DEF RecoverStuck
  <2>2. CASE SettleLease(d)
    BY <1>0, <2>2 DEF SettleLease
  <2> QED
    BY <1>1, <1>2, <2>1, <2>2 DEF ControlStep, CreateExecution, CancelExecution, HeartbeatAges, LoseLeaseUpdate,
       ApprovalDeadline, DecideApproval, RecoverExpiredApproval
<1>3. ASSUME NEW r \in Runners, NEW n \in 1..MaxAttempts, ClientSends(r, n) PROVE FALSE
  BY <1>1, <1>3, ClientSendsTyped
<1>4. ASSUME NEW q \in requests, Serve(q) PROVE FALSE
  <2>1. CASE ServeComplete(q)
    BY <1>0, <2>1 DEF ServeComplete
  <2> QED
    BY <1>1, <1>4, <2>1 DEF Serve, ServeClaim, PoolClaim, LegacyClaim, ServeNoWork, HeartbeatRead, HeartbeatWrite,
       StartRead, StartWaiting, StartEvaluate, ServeUpdate, PollRead, PollAnswer, ServeRefusal
<1> QED
  BY <1>1, <1>2, <1>3, <1>4 DEF Next, controlVars

LEMMA TimedOutStays ==
    ASSUME TypeOK, RequestsFollowSteps, [Next]_controlVars, NEW e \in Executions, TimedOut(e)
    PROVE  TimedOut(e)'
<1>0. approval \in [Executions -> [Steps -> ApprovalStatus]]
  BY DEF TypeOK
<1>1. PICK s \in Steps : approval[e][s] = "timed_out"
  BY DEF TimedOut
<1>2. ASSUME NEW f \in Executions, StepEffect(f) PROVE approval'[e][s] = "timed_out"
  BY <1>0, <1>1, <1>2 DEF StepEffect, StepsGivenUp, StepStarted, StepEnded, ApprovalRequested, ApprovalResolved,
     RequestsFollowSteps
<1>3. approval'[e][s] = "timed_out"
  BY <1>1, <1>2, StepEffects
<1> QED
  BY <1>3 DEF TimedOut

(* Before the first claim there is no active lease; after the end there is *)
(* one only while its update is due, or if an approval timed out.          *)
LeaseEnds ==
    \A e \in Executions :
        /\ status[e] \in {"absent", "queued"} => lease[e] # "active"
        /\ status[e] \in Terminal /\ lease[e] = "active" => hook[e] # "none" \/ TimedOut(e)

LEMMA LeaseEndsInductive ==
    ASSUME TypeOK, RequestsFollowSteps, LeaseEnds, [Next]_controlVars, ~LeaseUpdateFaults
    PROVE  LeaseEnds'
<1>0. /\ status \in [Executions -> ExecutionStatus] /\ hook \in [Executions -> {"none", "released", "expired"}]
      /\ lease \in [Executions -> LeaseStatus]
  BY DEF TypeOK
<1> SUFFICES ASSUME NEW e \in Executions
             PROVE  /\ status'[e] \in {"absent", "queued"} => lease'[e] # "active"
                    /\ status'[e] \in Terminal /\ lease'[e] = "active" => hook'[e] # "none" \/ TimedOut(e)'
  BY DEF LeaseEnds
<1> DEFINE Goal == /\ status'[e] \in {"absent", "queued"} => lease'[e] # "active"
                   /\ status'[e] \in Terminal /\ lease'[e] = "active" => hook'[e] # "none" \/ TimedOut(e)'
<1>1. TimedOut(e) => TimedOut(e)'
  BY TimedOutStays
<1>2. status[e] \in Active /\ status'[e] \in Terminal => hook'[e] # "none" \/ TimedOut(e)'
  BY EndsBy
<1>3. hook[e] # "none" /\ hook'[e] = "none" => lease'[e] # "active"
  BY SettledBy
<1>4. CASE UNCHANGED <<status, owner, lease, leaseHolder, hook>>
  BY <1>1, <1>4 DEF LeaseEnds
<1>5. ASSUME NEW d \in Executions, RowEffect(d) PROVE Goal
  <2>1. CASE Created(d) \/ Withdrawn(d) \/ Begun(d)
    BY <1>0, <1>1, <2>1 DEF Created, Withdrawn, Begun, LeaseEnds, Terminal
  <2>2. CASE Ended(d)
    BY <1>0, <1>1, <1>2, <2>2 DEF Ended, LeaseEnds, Active, Terminal
  <2>3. CASE Settled(d)
    BY <1>0, <1>1, <1>3, <2>3 DEF Settled, LeaseEnds
  <2>4. ASSUME NEW r \in Runners, PoolClaimed(d, r) \/ LegacyClaimed(d, r) PROVE Goal
    BY <1>0, <1>1, <2>4 DEF PoolClaimed, LegacyClaimed, Claimed, LeaseEnds, Active, Terminal
  <2> QED
    BY <1>5, <2>1, <2>2, <2>3, <2>4 DEF RowEffect
<1> QED
  BY <1>4, <1>5, RowEffects

(* As long as the lease update after a commit does not fail, an execution  *)
(* that ended holds no lease once that update is done, whoever ended it;   *)
(* only fail_execution_for_approval_timeout leaves one behind.             *)
THEOREM LeaseSettledHolds ==
    ASSUME ~LeaseUpdateFaults
    PROVE  LoopSpec => []LeaseSettled
<1>1. LoopInit => LeaseEnds
  BY DEF LoopInit, Init, LeaseEnds, Terminal
<1>2. LoopInv /\ LeaseEnds /\ [LoopNext]_vars => LeaseEnds'
  <2> SUFFICES ASSUME LoopInv, LeaseEnds, [LoopNext]_vars PROVE LeaseEnds'
    OBVIOUS
  <2>1. TypeOK /\ RequestsFollowSteps /\ [Next]_controlVars
    BY LoopInductive DEF LoopInv
  <2> QED
    BY <2>1, LeaseEndsInductive
<1>3. LeaseEnds => LeaseSettled
  BY DEF LeaseEnds, LeaseSettled, TimedOut
<1> QED
  BY <1>1, <1>2, <1>3, LoopInvariant, PTL DEF LoopSpec
===============================================================================
