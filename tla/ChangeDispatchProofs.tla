------------------------ MODULE ChangeDispatchProofs ------------------------
(***************************************************************************)
(* Machine-checked proofs about ChangeDispatch, for any numbers of         *)
(* changes, targets, runners and checks.                                   *)
(***************************************************************************)
EXTENDS ChangeDispatch, TLAPS

-----------------------------------------------------------------------------
(* Type correctness.                                                       *)

(* No operator, clock, runner or hook leaves the types of the rows.        *)
LEMMA TypeInductive ==
    ASSUME TypeOK, [Next]_changeVars
    PROVE  TypeOK'
<1>0. /\ "draft" \in ChangeStatus /\ "pending_approval" \in ChangeStatus
      /\ "scheduled" \in ChangeStatus /\ "dispatchable" \in ChangeStatus
      /\ "running" \in ChangeStatus /\ "rejected" \in ChangeStatus
      /\ "expired" \in ChangeStatus /\ "closed" \in ChangeStatus
      /\ "verification_pending" \in ChangeStatus
      /\ "verification_failed" \in ChangeStatus /\ "verified" \in ChangeStatus
      /\ "pending" \in ApprovalStatus /\ "approved" \in ApprovalStatus
      /\ "rejected" \in ApprovalStatus /\ "timed_out" \in ApprovalStatus
      /\ "open" \in WindowPhase /\ "expired" \in WindowPhase
      /\ "none" \in RulePhase /\ "idle" \in RulePhase /\ "blocking" \in RulePhase
      /\ "queued" \in ExecutionStatus /\ "claimed" \in ExecutionStatus
      /\ "running" \in ExecutionStatus /\ "failed" \in ExecutionStatus
      /\ "cancelled" \in ExecutionStatus /\ Outcome \subseteq ExecutionStatus
      /\ "idle" \in RunnerState /\ "claimed" \in RunnerState
      /\ "binding" \in RunnerState /\ "ready" \in RunnerState
      /\ "starting" \in RunnerState /\ "working" \in RunnerState
      /\ "completing" \in RunnerState /\ "finishing" \in RunnerState
      /\ "failed" \in Outcome
  BY DEF ChangeStatus, ApprovalStatus, WindowPhase, RulePhase, ExecutionStatus,
         RunnerState, Outcome
<1> USE <1>0 DEF TypeOK, planVars, bindingVars, closureVars, runnerVars
<1>1. CASE UNCHANGED changeVars
  BY <1>1 DEF changeVars
<1>2. ASSUME NEW c \in Changes, Planning(c)
      PROVE  TypeOK'
  <2>1. CASE ScheduledTimePasses(c)
    BY <2>1 DEF ScheduledTimePasses
  <2>2. CASE WindowMoves(c)
    <3>1. /\ window' \in [Changes -> WindowPhase]
      BY <2>2 DEF WindowMoves
    <3>2. UNCHANGED <<change, approval, due, vouched, freeze, passed, lock, exec, hook, bindingVars, closureVars, runnerVars>>
      BY <2>2 DEF WindowMoves
    <3> QED
      BY <3>1, <3>2
  <2>3. CASE PreflightExpires(c) \/ RunDispatchPreflight(c)
    BY <2>3 DEF PreflightExpires, RunDispatchPreflight
  <2>4. CASE DispatchTokenExpires(c)
    BY <2>4 DEF DispatchTokenExpires
  <2>5. CASE CreateChangeRecord(c)
    BY <2>5 DEF CreateChangeRecord
  <2>6. CASE UpdateWindow(c)
    BY <2>6 DEF UpdateWindow
  <2>7. ASSUME Reserve(c)
        PROVE  /\ passed' \in [Changes -> BOOLEAN]
               /\ lock' \in [Targets -> Changes \cup {None}]
               /\ exec' \in [Changes -> ExecutionStatus]
               /\ token' \in [Changes -> {"none", "valid", "expired"}]
               /\ change' \in [Changes -> ChangeStatus]
    BY <2>7 DEF Reserve, AcquireTargetLocks
  <2>8. ASSUME ScheduleOrMakeDispatchable(c)
        PROVE  /\ passed' \in [Changes -> BOOLEAN]
               /\ lock' \in [Targets -> Changes \cup {None}]
               /\ exec' \in [Changes -> ExecutionStatus]
               /\ token' \in [Changes -> {"none", "valid", "expired"}]
               /\ change' \in [Changes -> ChangeStatus]
    <3>1. CASE Reserve(c)
      BY <2>7, <3>1
    <3>2. CASE change' = [change EXCEPT ![c] = "scheduled"]
               /\ UNCHANGED <<passed, lock, exec, token>>
      BY <3>2
    <3> QED
      BY <2>8, <3>1, <3>2 DEF ScheduleOrMakeDispatchable
  <2>9. CASE MakeDispatchable(c)
    BY <2>7, <2>9 DEF MakeDispatchable
  <2>10. CASE SubmitChangeRecord(c)
    <3>1. passed' \in [Changes -> BOOLEAN]
      BY <2>8, <2>10 DEF SubmitChangeRecord, CreateChangeApprovalRequest
    <3>2. lock' \in [Targets -> Changes \cup {None}]
      BY <2>8, <2>10 DEF SubmitChangeRecord, CreateChangeApprovalRequest
    <3>3. exec' \in [Changes -> ExecutionStatus]
      BY <2>8, <2>10 DEF SubmitChangeRecord, CreateChangeApprovalRequest
    <3>4. token' \in [Changes -> {"none", "valid", "expired"}]
      BY <2>8, <2>10 DEF SubmitChangeRecord, CreateChangeApprovalRequest
    <3>5. change' \in [Changes -> ChangeStatus]
      BY <2>8, <2>10 DEF SubmitChangeRecord, CreateChangeApprovalRequest
    <3>6. approval' \in [Changes -> ApprovalStatus]
      BY <2>8, <2>10 DEF SubmitChangeRecord, CreateChangeApprovalRequest
    <3>7. UNCHANGED <<due, window, vouched, freeze, bound, finished, hook, closureVars, runnerVars>>
      BY <2>10 DEF SubmitChangeRecord
    <3> QED
      BY <3>1, <3>2, <3>3, <3>4, <3>5, <3>6, <3>7
  <2>11. CASE DecideApproval(c)
    <3>1. passed' \in [Changes -> BOOLEAN]
      BY <2>8, <2>11 DEF DecideApproval
    <3>2. lock' \in [Targets -> Changes \cup {None}]
      BY <2>8, <2>11 DEF DecideApproval
    <3>3. exec' \in [Changes -> ExecutionStatus]
      BY <2>8, <2>11 DEF DecideApproval
    <3>4. token' \in [Changes -> {"none", "valid", "expired"}]
      BY <2>8, <2>11 DEF DecideApproval
    <3>5. change' \in [Changes -> ChangeStatus]
      BY <2>8, <2>11 DEF DecideApproval
    <3>6. approval' \in [Changes -> ApprovalStatus]
      BY <2>11 DEF DecideApproval
    <3>7. vouched' \in [Changes -> BOOLEAN]
      BY <2>11 DEF DecideApproval
    <3>8. UNCHANGED <<due, window, freeze, bound, finished, hook, closureVars, runnerVars>>
      BY <2>11 DEF DecideApproval
    <3> QED
      BY <3>1, <3>2, <3>3, <3>4, <3>5, <3>6, <3>7, <3>8
  <2> QED
    BY <1>2, <2>1, <2>2, <2>3, <2>4, <2>5, <2>6, <2>9, <2>10, <2>11 DEF Planning
<1>3. ASSUME NEW c \in Changes, Ending(c)
      PROVE  TypeOK'
  <2>1. CASE ExecutionTimesOut(c)
    BY <2>1 DEF ExecutionTimesOut
  <2>2. CASE CancelExecution(c)
    BY <2>2 DEF CancelExecution
  <2>3. CASE CompletionHookFails(c)
    BY <2>3 DEF CompletionHookFails
  <2>4. CASE CompletionHook(c)
    BY <2>4 DEF CompletionHook, Verdict
  <2>5. CASE CloseChange(c)
    BY <2>5 DEF CloseChange, Released
  <2>6. ASSUME NEW k \in Checks, SubmitVerificationResult(c, k)
        PROVE  TypeOK'
    BY <2>6 DEF SubmitVerificationResult, Verdict
  <2> QED
    BY <1>3, <2>1, <2>2, <2>3, <2>4, <2>5, <2>6 DEF Ending
<1>4. ASSUME NEW r \in Runners, RunnerActs(r) \/ RunnerFails(r)
      PROVE  TypeOK'
  <2>1. CASE ClaimNextExecution(r)
    BY <2>1 DEF ClaimNextExecution
  <2>2. CASE AnswerClaim(r)
    BY <2>2 DEF AnswerClaim
  <2>3. CASE BindExecution(r)
    <3>1. bound' \in [Changes -> Runners \cup {None}]
      BY <2>3 DEF BindExecution
    <3>2. change' \in [Changes -> ChangeStatus]
      BY <2>3 DEF BindExecution
    <3>3. pc' \in [Runners -> RunnerState]
      BY <2>3 DEF BindExecution
    <3>4. told' \in [Runners -> BOOLEAN]
      BY <2>3 DEF BindExecution
    <3>5. outcome' \in [Runners -> Outcome]
      BY <2>3 DEF BindExecution
    <3>6. UNCHANGED <<planVars, lock, exec, token, finished, hook, closureVars, job>>
      BY <2>3 DEF BindExecution
    <3> QED
      BY <3>1, <3>2, <3>3, <3>4, <3>5, <3>6
  <2>4. CASE StartChecked(r)
    <3>1. /\ pc' \in [Runners -> RunnerState]
          /\ outcome' \in [Runners -> Outcome]
      BY <2>4 DEF StartChecked
    <3>2. UNCHANGED <<planVars, change, lock, exec, bindingVars, hook, closureVars, job, told>>
      BY <2>4 DEF StartChecked
    <3> QED
      BY <3>1, <3>2
  <2>5. CASE StepStarts(r)
    <3>1. pc' \in [Runners -> RunnerState]
      BY <2>5 DEF StepStarts
    <3>2. exec' \in [Changes -> ExecutionStatus]
      BY <2>5 DEF StepStarts
    <3>3. outcome' \in [Runners -> Outcome]
      BY <2>5 DEF StepStarts
    <3>4. UNCHANGED <<planVars, change, lock, bindingVars, hook, closureVars, job, told>>
      BY <2>5 DEF StepStarts
    <3> QED
      BY <3>1, <3>2, <3>3, <3>4
  <2>6. CASE CommandEnds(r)
    <3>1. pc' \in [Runners -> RunnerState]
      BY <2>6 DEF CommandEnds
    <3>2. outcome' \in [Runners -> Outcome]
      BY <2>6 DEF CommandEnds
    <3>3. UNCHANGED <<planVars, change, lock, exec, bindingVars, hook, closureVars, job, told>>
      BY <2>6 DEF CommandEnds
    <3> QED
      BY <3>1, <3>2, <3>3
  <2>7. CASE CompleteExecution(r)
    <3>1. exec' \in [Changes -> ExecutionStatus]
      BY <2>7 DEF CompleteExecution, AfterComplete
    <3>2. hook' \in [Changes -> BOOLEAN]
      BY <2>7 DEF CompleteExecution, AfterComplete
    <3>3. pc' \in [Runners -> RunnerState]
      BY <2>7 DEF CompleteExecution, AfterComplete
    <3>4. job' \in [Runners -> Changes \cup {None}]
      BY <2>7 DEF CompleteExecution, AfterComplete
    <3>5. UNCHANGED <<planVars, change, lock, bindingVars, closureVars, told, outcome>>
      BY <2>7 DEF CompleteExecution
    <3> QED
      BY <3>1, <3>2, <3>3, <3>4, <3>5
  <2>8. CASE CompleteLost(r)
    <3>1. /\ pc' \in [Runners -> RunnerState]
          /\ job' \in [Runners -> Changes \cup {None}]
      BY <2>8 DEF CompleteLost, AfterComplete
    <3>2. UNCHANGED <<planVars, change, lock, exec, bindingVars, hook, closureVars, told, outcome>>
      BY <2>8 DEF CompleteLost
    <3> QED
      BY <3>1, <3>2
  <2>9. CASE ExecutionFinished(r)
    <3>1. finished' \in [Changes -> BOOLEAN]
      BY <2>9 DEF ExecutionFinished, Released
    <3>2. lock' \in [Targets -> Changes \cup {None}]
      BY <2>9 DEF ExecutionFinished, Released
    <3>3. pc' \in [Runners -> RunnerState]
      BY <2>9 DEF ExecutionFinished, Released
    <3>4. job' \in [Runners -> Changes \cup {None}]
      BY <2>9 DEF ExecutionFinished, Released
    <3>5. UNCHANGED <<planVars, change, exec, token, bound, hook, closureVars, told, outcome>>
      BY <2>9 DEF ExecutionFinished
    <3> QED
      BY <3>1, <3>2, <3>3, <3>4, <3>5
  <2>10. CASE BindGivenUp(r)
    <3>1. /\ pc' \in [Runners -> RunnerState]
          /\ told' \in [Runners -> BOOLEAN]
          /\ outcome' \in [Runners -> Outcome]
      BY <2>10 DEF BindGivenUp
    <3>2. UNCHANGED <<planVars, change, lock, exec, bindingVars, hook, closureVars, job>>
      BY <2>10 DEF BindGivenUp
    <3> QED
      BY <3>1, <3>2
  <2>11. CASE JobLost(r)
    <3>1. /\ pc' \in [Runners -> RunnerState]
          /\ job' \in [Runners -> Changes \cup {None}]
      BY <2>11 DEF JobLost
    <3>2. UNCHANGED <<planVars, change, lock, exec, bindingVars, hook, closureVars, told, outcome>>
      BY <2>11 DEF JobLost
    <3> QED
      BY <3>1, <3>2
  <2> QED
    BY <1>4, <2>1, <2>2, <2>3, <2>4, <2>5, <2>6, <2>7, <2>8, <2>9, <2>10, <2>11 DEF RunnerActs, RunnerFails
<1>5. ASSUME NEW t \in Targets, Freezing(t)
      PROVE  TypeOK'
  <2>1. ASSUME NEW phase \in RulePhase, SetFreeze(t, phase)
        PROVE  TypeOK'
    BY <2>1 DEF SetFreeze
  <2> QED
    BY <1>5, <2>1 DEF Freezing, CreateFreezeRule, UpdateFreezeRule,
                      DeactivateFreezeRule, FreezeInterval
<1> QED
  BY <1>1, <1>2, <1>3, <1>4, <1>5 DEF Next

(* Every row and every runner keeps its type.                              *)
THEOREM TypeCorrect == Spec => []TypeOK
<1>1. Init => TypeOK
  BY ChangeConstants
     DEF Init, TypeOK, ChangeStatus, ApprovalStatus, WindowPhase, RulePhase,
         ExecutionStatus, RunnerState, Outcome
<1> QED
  BY <1>1, TypeInductive, PTL DEF Spec

-----------------------------------------------------------------------------
(* What a step does to the rows that dispatch is about.                    *)

coreVars == <<change, lock, exec, bound, finished, closure, job, pc>>

Early == {"none", "draft", "pending_approval", "scheduled"}

(* A change that has not been dispatched moves and stays undispatched.     *)
Planned(c) ==
    /\ change[c] \in Early
    /\ \E s \in Early \cup {"rejected", "expired"} :
           change' = [change EXCEPT ![c] = s]
    /\ UNCHANGED <<lock, exec, bound, finished, closure, job, pc>>

(* A change is dispatched.                                                 *)
Reserved(c) ==
    /\ change[c] \in Early
    /\ change' = [change EXCEPT ![c] = "dispatchable"]
    /\ TargetsFree(c)
    /\ AcquireTargetLocks(c)
    /\ exec' = [exec EXCEPT ![c] = "queued"]
    /\ UNCHANGED <<bound, finished, closure, job, pc>>

(* A step that concerns the change c before its execution is claimed, or   *)
(* after it has ended.                                                     *)
ChangeMoves(c) ==
    \/ Planned(c) \/ Reserved(c)
    \/ ExecutionTimesOut(c) \/ CancelExecution(c) \/ CompletionHook(c)
    \/ CloseChange(c) \/ \E k \in Checks : SubmitVerificationResult(c, k)

(* Planning and freezing are steps on changes that are not dispatched yet, *)
(* reservations, or of no concern here.                                    *)
LEMMA CoreSteps ==
    ASSUME TypeOK, [Next]_changeVars
    PROVE  \/ UNCHANGED coreVars
           \/ \E c \in Changes : ChangeMoves(c)
           \/ \E r \in Runners : RunnerActs(r) \/ RunnerFails(r)
<1> USE DEF coreVars, planVars, bindingVars, closureVars, runnerVars
<1>1. CASE UNCHANGED changeVars
  BY <1>1 DEF changeVars
<1>2. ASSUME NEW c \in Changes, Planning(c)
      PROVE  UNCHANGED coreVars \/ Planned(c) \/ Reserved(c)
  <2>1. CASE \/ ScheduledTimePasses(c) \/ WindowMoves(c) \/ PreflightExpires(c)
             \/ DispatchTokenExpires(c) \/ RunDispatchPreflight(c)
    BY <2>1 DEF ScheduledTimePasses, WindowMoves, PreflightExpires,
                DispatchTokenExpires, RunDispatchPreflight
  <2>2. CASE CreateChangeRecord(c)
    BY <2>2 DEF CreateChangeRecord, Planned, Early
  <2>3. CASE UpdateWindow(c)
    BY <2>3 DEF UpdateWindow, Planned, Early, TypeOK
  <2>4. ASSUME change[c] \in Early, ScheduleOrMakeDispatchable(c),
               UNCHANGED <<bound, finished, closure, job, pc>>
        PROVE  Planned(c) \/ Reserved(c)
    BY <2>4 DEF ScheduleOrMakeDispatchable, Reserve, Planned, Reserved, Early
  <2>5. CASE SubmitChangeRecord(c)
    <3>1. CASE c \in NeedsApproval
      BY <2>5, <3>1 DEF SubmitChangeRecord, Planned, Early
    <3>2. CASE c \notin NeedsApproval
      BY <2>4, <2>5, <3>2 DEF SubmitChangeRecord, Early
    <3> QED
      BY <3>1, <3>2
  <2>6. CASE DecideApproval(c)
    <3>0. change[c] = "pending_approval" /\ UNCHANGED <<bound, finished, closure, job, pc>>
      BY <2>6 DEF DecideApproval
    <3>1. CASE ScheduleOrMakeDispatchable(c)
      BY <2>4, <3>0, <3>1 DEF Early
    <3>2. CASE /\ \/ change' = [change EXCEPT ![c] = "rejected"]
                  \/ change' = [change EXCEPT ![c] = "expired"]
               /\ UNCHANGED <<lock, exec>>
      BY <3>0, <3>2 DEF Planned, Early
    <3> QED
      BY <2>6, <3>1, <3>2 DEF DecideApproval
  <2>7. CASE MakeDispatchable(c)
    BY <2>7 DEF MakeDispatchable, Reserve, Reserved, Early
  <2> QED
    BY <1>2, <2>1, <2>2, <2>3, <2>5, <2>6, <2>7 DEF Planning
<1>3. ASSUME NEW c \in Changes, Ending(c)
      PROVE  UNCHANGED coreVars \/ ChangeMoves(c)
  BY <1>3 DEF Ending, CompletionHookFails, ChangeMoves
<1>4. ASSUME NEW t \in Targets, Freezing(t)
      PROVE  UNCHANGED coreVars
  BY <1>4 DEF Freezing, CreateFreezeRule, UpdateFreezeRule, DeactivateFreezeRule,
              FreezeInterval, SetFreeze
<1> QED
  BY <1>1, <1>2, <1>3, <1>4 DEF Next, ChangeMoves

-----------------------------------------------------------------------------
(* Who works on what.                                                      *)

Unclaimed == {"none", "queued"}

(* A change that has not been dispatched has no execution.  A runner that  *)
(* is not idle has a job, no other runner has the same one, and the job's  *)
(* execution was claimed.  What is bound was claimed, and the runner whose *)
(* announcement of the end was recorded no longer has the job.             *)
JobInv ==
    /\ \A c \in Changes : change[c] \in Early => exec[c] = "none"
    /\ \A r \in Runners : pc[r] = "idle" <=> job[r] = None
    /\ \A r, s \in Runners : job[r] = job[s] /\ job[r] # None => r = s
    /\ \A r \in Runners : job[r] # None => exec[job[r]] \notin Unclaimed
    /\ \A c \in Changes : bound[c] # None => exec[c] \notin Unclaimed
    /\ \A c \in Changes :
          finished[c] => exec[c] \notin Unclaimed /\ \A r \in Runners : job[r] # c

(* A claim meets the expired dispatches of "late", and the execution of    *)
(* "found" if that is not None.  All of them are queued.                   *)
Claims(r, late, found) ==
    /\ pc[r] = "idle"
    /\ \A c \in late : exec[c] = "queued"
    /\ found # None => exec[found] = "queued" /\ found \notin late
    /\ exec' = [c \in Changes |->
           IF c \in late THEN "cancelled"
           ELSE IF c = found THEN "claimed" ELSE exec[c]]
    /\ change' = [c \in Changes |->
           IF c \in late /\ change[c] = "dispatchable" THEN "expired" ELSE change[c]]
    /\ job' = [job EXCEPT ![r] = found]
    /\ pc' = [pc EXCEPT ![r] = IF found = None THEN "idle" ELSE "claimed"]
    /\ UNCHANGED <<approval, vouched, lock, bound, finished, hook, check, closure>>

LEMMA ClaimEffect ==
    ASSUME NEW r \in Runners, ClaimNextExecution(r), None \notin Changes
    PROVE  \E late \in SUBSET Changes, found \in Changes \cup {None} :
               Claims(r, late, found)
<1>1. PICK late \in SUBSET {c \in Changes : Late(c)},
           found \in {c \in Changes : exec[c] = "queued" /\ ~Late(c)} \cup {None} :
         /\ exec' = [c \in Changes |->
                IF c \in late THEN "cancelled"
                ELSE IF c = found THEN "claimed" ELSE exec[c]]
         /\ change' = [c \in Changes |->
                IF c \in late /\ change[c] = "dispatchable"
                THEN "expired" ELSE change[c]]
         /\ job' = [job EXCEPT ![r] = found]
         /\ pc' = [pc EXCEPT ![r] = IF found = None THEN "idle" ELSE "claimed"]
  BY Zenon DEF ClaimNextExecution
<1>2. pc[r] = "idle" /\ UNCHANGED <<approval, vouched, lock, bound, finished, hook, check, closure>>
  BY DEF ClaimNextExecution, planVars, bindingVars, closureVars
<1>3. /\ \A c \in late : exec[c] = "queued"
      /\ found # None => exec[found] = "queued" /\ found \notin late
      /\ late \in SUBSET Changes
      /\ found \in Changes \cup {None}
  BY DEF Late
<1> QED
  BY <1>1, <1>2, <1>3 DEF Claims

LEMMA JobInductive ==
    ASSUME TypeOK, JobInv, [Next]_changeVars
    PROVE  JobInv'
<1>0. /\ change \in [Changes -> ChangeStatus] /\ exec \in [Changes -> ExecutionStatus]
      /\ bound \in [Changes -> Runners \cup {None}] /\ finished \in [Changes -> BOOLEAN]
      /\ job \in [Runners -> Changes \cup {None}] /\ pc \in [Runners -> RunnerState]
      /\ None \notin Changes
  BY ChangeConstants DEF TypeOK
<1> USE <1>0 DEF JobInv, Early, Unclaimed, bindingVars, closureVars, runnerVars
<1>1. CASE UNCHANGED coreVars
  BY <1>1 DEF coreVars
<1>2. ASSUME NEW c \in Changes, ChangeMoves(c)
      PROVE  JobInv'
  <2>1. CASE Planned(c)
    BY <2>1 DEF Planned
  <2>2. CASE Reserved(c)
    BY <2>2 DEF Reserved
  <2>3. CASE ExecutionTimesOut(c)
    BY <2>3 DEF ExecutionTimesOut, Active
  <2>4. CASE CancelExecution(c)
    BY <2>4 DEF CancelExecution
  <2>5. CASE CompletionHook(c)
    BY <2>5 DEF CompletionHook, Verdict
  <2>6. CASE CloseChange(c)
    BY <2>6 DEF CloseChange
  <2>7. ASSUME NEW k \in Checks, SubmitVerificationResult(c, k)
        PROVE  JobInv'
    BY <2>7 DEF SubmitVerificationResult, Verdict
  <2> QED
    BY <1>2, <2>1, <2>2, <2>3, <2>4, <2>5, <2>6, <2>7 DEF ChangeMoves
<1>3. ASSUME NEW r \in Runners, RunnerActs(r) \/ RunnerFails(r)
      PROVE  JobInv'
  <2>1. CASE ClaimNextExecution(r)
    <3>1. PICK late \in SUBSET Changes, found \in Changes \cup {None} :
             Claims(r, late, found)
      BY <2>1, ClaimEffect
    <3> QED
      BY <3>1 DEF Claims
  <2>2. job[r] \in Changes \/ ClaimNextExecution(r)
    BY <1>3 DEF RunnerActs, RunnerFails, AnswerClaim, BindExecution, StartChecked,
                StepStarts, CommandEnds, CompleteExecution, ExecutionFinished,
                BindGivenUp, CompleteLost, JobLost
  <2>3. CASE AnswerClaim(r)
    BY <2>2, <2>3 DEF AnswerClaim
  <2>4. CASE BindExecution(r)
    BY <2>2, <2>4 DEF BindExecution, BindAccepted
  <2>5. CASE BindGivenUp(r) \/ StartChecked(r) \/ CommandEnds(r)
    BY <2>5 DEF BindGivenUp, StartChecked, CommandEnds
  <2>6. CASE StepStarts(r)
    BY <2>2, <2>6 DEF StepStarts
  <2>7. CASE CompleteExecution(r)
    <3>0. job[r] \in Changes /\ exec[job[r]] \notin Unclaimed
      BY <2>7 DEF CompleteExecution
    <3>1. UNCHANGED <<change, bound, finished>>
      BY <2>7 DEF CompleteExecution
    <3>2. \A d \in Changes : exec[d] \notin Unclaimed <=> exec'[d] \notin Unclaimed
      <4>1. outcome[r] \in {"succeeded", "failed", "cancelled"}
        BY DEF TypeOK, Outcome
      <4> QED
        BY <3>0, <2>7, <4>1 DEF CompleteExecution
    <3>3. \A d \in Changes : exec[d] = "none" => exec'[d] = "none"
      BY <3>0, <2>7 DEF CompleteExecution, Active
    <3>4. pc' = [pc EXCEPT ![r] = IF told[r] THEN "finishing" ELSE "idle"]
          /\ job' = [job EXCEPT ![r] = IF told[r] THEN @ ELSE None]
      BY <2>7 DEF CompleteExecution, AfterComplete
    <3> QED
      BY <3>0, <3>1, <3>2, <3>3, <3>4
  <2>8. CASE CompleteLost(r)
    BY <2>8 DEF CompleteLost, AfterComplete
  <2>9. CASE ExecutionFinished(r)
    BY <2>2, <2>9 DEF ExecutionFinished
  <2>10. CASE JobLost(r)
    BY <2>10 DEF JobLost
  <2> QED
    BY <1>3, <2>1, <2>3, <2>4, <2>5, <2>6, <2>7, <2>8, <2>9, <2>10
       DEF RunnerActs, RunnerFails
<1> QED
  BY <1>1, <1>2, <1>3, CoreSteps

LEMMA JobInvariant == Spec => []JobInv
<1>1. Init => JobInv
  BY ChangeConstants DEF Init, JobInv, Early, Unclaimed
<1>2. TypeOK /\ JobInv /\ [Next]_changeVars => JobInv'
  BY JobInductive
<1> QED
  BY <1>1, <1>2, TypeCorrect, PTL DEF Spec

-----------------------------------------------------------------------------
(* Target locks.                                                           *)

LEMMA LocksInductive ==
    ASSUME TypeOK, JobInv, LocksCoverDispatch, [Next]_changeVars
    PROVE  LocksCoverDispatch'
<1>0. /\ change \in [Changes -> ChangeStatus] /\ lock \in [Targets -> Changes \cup {None}]
      /\ finished \in [Changes -> BOOLEAN] /\ job \in [Runners -> Changes \cup {None}]
      /\ TargetsOf \in [Changes -> SUBSET Targets]
      /\ None \notin Changes
      /\ \A r \in Runners : pc[r] # "idle" => job[r] \in Changes
  BY ChangeConstants DEF TypeOK, JobInv
<1> USE <1>0 DEF LocksCoverDispatch, bindingVars, closureVars, runnerVars
<1>1. CASE UNCHANGED coreVars
  BY <1>1 DEF coreVars
<1>2. ASSUME NEW c \in Changes, ChangeMoves(c)
      PROVE  LocksCoverDispatch'
  <2>1. CASE Planned(c)
    BY <2>1 DEF Planned, Early
  <2>2. CASE Reserved(c)
    BY <2>2 DEF Reserved, TargetsFree, AcquireTargetLocks
  <2>3. CASE ExecutionTimesOut(c) \/ CancelExecution(c)
    BY <2>3 DEF ExecutionTimesOut, CancelExecution
  <2>4. CASE CompletionHook(c)
    BY <2>4 DEF CompletionHook, Verdict
  <2>5. CASE CloseChange(c)
    BY <2>5 DEF CloseChange, Released
  <2>6. ASSUME NEW k \in Checks, SubmitVerificationResult(c, k)
        PROVE  LocksCoverDispatch'
    BY <2>6 DEF SubmitVerificationResult, Verdict
  <2> QED
    BY <1>2, <2>1, <2>2, <2>3, <2>4, <2>5, <2>6 DEF ChangeMoves
<1>3. ASSUME NEW r \in Runners, RunnerActs(r) \/ RunnerFails(r)
      PROVE  LocksCoverDispatch'
  <2>1. CASE ClaimNextExecution(r)
    <3>1. PICK late \in SUBSET Changes, found \in Changes \cup {None} :
             Claims(r, late, found)
      BY <2>1, ClaimEffect
    <3> QED
      BY <3>1 DEF Claims
  <2>2. CASE AnswerClaim(r)
    BY <2>2 DEF AnswerClaim
  <2>3. CASE BindExecution(r)
    <3>1. \A c \in Changes : change'[c] \in {"dispatchable", "running"}
                                => change[c] \in {"dispatchable", "running"}
      BY <2>3, ChangeConstants DEF BindExecution, BindAccepted
    <3>2. UNCHANGED <<lock, finished>>
      BY <2>3 DEF BindExecution
    <3> QED
      BY <3>1, <3>2
  <2>4. CASE ExecutionFinished(r)
    BY <2>4 DEF ExecutionFinished, Released
  <2>5. CASE \/ BindGivenUp(r) \/ StartChecked(r) \/ StepStarts(r) \/ CommandEnds(r)
             \/ CompleteExecution(r) \/ CompleteLost(r) \/ JobLost(r)
    BY <2>5 DEF BindGivenUp, StartChecked, StepStarts, CommandEnds,
                CompleteExecution, CompleteLost, JobLost
  <2> QED
    BY <1>3, <2>1, <2>2, <2>3, <2>4, <2>5 DEF RunnerActs, RunnerFails
<1> QED
  BY <1>1, <1>2, <1>3, CoreSteps

(* A dispatched change holds the lock on every one of its targets until    *)
(* its runner's announcement of the end is recorded or the change ends.    *)
THEOREM LocksCoverDispatchHolds == Spec => []LocksCoverDispatch
<1>1. Init => LocksCoverDispatch
  BY DEF Init, LocksCoverDispatch
<1>2. TypeOK /\ JobInv /\ LocksCoverDispatch /\ [Next]_changeVars => LocksCoverDispatch'
  BY LocksInductive
<1> QED
  BY <1>1, <1>2, TypeCorrect, JobInvariant, PTL DEF Spec

-----------------------------------------------------------------------------
(* Commands.                                                               *)

(* A runner between its binding check and the end of its command is the    *)
(* one that bound the change, and the change's targets are locked for it   *)
(* unless a person has closed the change meanwhile.  An execution that     *)
(* succeeded has no runner left at work, and no change is verified, or     *)
(* closed as a success, before.                                            *)
AtWork(r) == pc[r] \in {"starting", "working"}

WorkInv ==
    /\ \A r \in Runners : AtWork(r) => bound[job[r]] = r
    /\ \A c \in Changes : exec[c] \in {"running", "succeeded"} => bound[c] # None
    /\ \A c \in Changes : exec[c] = "succeeded" =>
          \A r \in Runners : job[r] = c => pc[r] = "finishing"
    /\ \A c \in Changes :
          \/ change[c] \in {"verification_pending", "verification_failed", "verified"}
          \/ closure[c] = "success"
          => exec[c] = "succeeded"
    /\ \A r \in Runners : AtWork(r) /\ closure[job[r]] = "none" =>
          \A t \in TargetsOf[job[r]] : lock[t] = job[r]

LEMMA WorkInductive ==
    ASSUME TypeOK, JobInv, LocksCoverDispatch, WorkInv, [Next]_changeVars
    PROVE  WorkInv'
<1>0. /\ change \in [Changes -> ChangeStatus] /\ exec \in [Changes -> ExecutionStatus]
      /\ lock \in [Targets -> Changes \cup {None}]
      /\ bound \in [Changes -> Runners \cup {None}] /\ finished \in [Changes -> BOOLEAN]
      /\ closure \in [Changes -> {"none", "success", "failure"}]
      /\ job \in [Runners -> Changes \cup {None}] /\ pc \in [Runners -> RunnerState]
      /\ outcome \in [Runners -> Outcome]
      /\ TargetsOf \in [Changes -> SUBSET Targets]
      /\ None \notin Changes /\ None \notin Runners
      /\ \A r \in Runners : pc[r] # "idle" => job[r] \in Changes
      /\ \A r \in Runners : pc[r] = "idle" => job[r] = None
      /\ \A r, s \in Runners : job[r] = job[s] /\ job[r] # None => r = s
  BY ChangeConstants DEF TypeOK, JobInv
<1>00. /\ \A c \in Changes : change[c] \in Early => exec[c] = "none"
       /\ \A r \in Runners : job[r] # None => exec[job[r]] \notin {"none", "queued"}
       /\ \A c \in Changes : bound[c] # None => exec[c] \notin {"none", "queued"}
       /\ \A c \in Changes : finished[c] => \A r \in Runners : job[r] # c
  BY DEF JobInv, Unclaimed
<1> USE <1>0 DEF WorkInv, AtWork, bindingVars, closureVars, runnerVars
<1>1. CASE UNCHANGED coreVars
  BY <1>1 DEF coreVars
<1>2. ASSUME NEW c \in Changes, ChangeMoves(c)
      PROVE  WorkInv'
  <2>1. CASE Planned(c)
    BY <2>1 DEF Planned, Early
  <2>2. CASE Reserved(c)
    BY <1>00, <2>2 DEF Reserved, TargetsFree, AcquireTargetLocks
  <2>3. CASE ExecutionTimesOut(c)
    BY <2>3 DEF ExecutionTimesOut, Active
  <2>4. CASE CancelExecution(c)
    BY <2>4 DEF CancelExecution
  <2>5. CASE CompletionHook(c)
    BY <2>5 DEF CompletionHook, Verdict
  <2>6. CASE CloseChange(c)
    BY <2>6 DEF CloseChange, Released
  <2>7. ASSUME NEW k \in Checks, SubmitVerificationResult(c, k)
        PROVE  WorkInv'
    BY <2>7 DEF SubmitVerificationResult, Verdict
  <2> QED
    BY <1>2, <2>1, <2>2, <2>3, <2>4, <2>5, <2>6, <2>7 DEF ChangeMoves
<1>3. ASSUME NEW r \in Runners, RunnerActs(r) \/ RunnerFails(r)
      PROVE  WorkInv'
  <2>1. CASE ClaimNextExecution(r)
    <3>1. PICK late \in SUBSET Changes, found \in Changes \cup {None} :
             Claims(r, late, found)
      BY <2>1, ClaimEffect
    <3> QED
      BY <1>00, <3>1 DEF Claims
  <2>2. CASE AnswerClaim(r)
    BY <2>2 DEF AnswerClaim
  <2>3. CASE BindExecution(r)
    BY <1>00, <2>3 DEF BindExecution, BindAccepted
  <2>4. CASE BindGivenUp(r)
    BY <2>4 DEF BindGivenUp
  <2>5. CASE StartChecked(r)
    BY <1>00, <2>5 DEF StartChecked, BindingReady, LocksCoverDispatch
  <2>6. CASE StepStarts(r)
    BY <2>6 DEF StepStarts
  <2>7. CASE CommandEnds(r)
    BY <2>7 DEF CommandEnds
  <2>8. CASE CompleteExecution(r)
    BY <2>8 DEF CompleteExecution, AfterComplete, Active, BindingReady, Outcome
  <2>9. CASE CompleteLost(r)
    BY <2>9 DEF CompleteLost, AfterComplete
  <2>10. CASE ExecutionFinished(r)
    BY <2>10 DEF ExecutionFinished, Released
  <2>11. CASE JobLost(r)
    BY <2>11 DEF JobLost
  <2> QED
    BY <1>3, <2>1, <2>2, <2>3, <2>4, <2>5, <2>6, <2>7, <2>8, <2>9, <2>10, <2>11
       DEF RunnerActs, RunnerFails
<1> QED
  BY <1>1, <1>2, <1>3, CoreSteps

LEMMA WorkInvariant == Spec => []WorkInv
<1>1. Init => WorkInv
  BY DEF Init, WorkInv, AtWork
<1>2. TypeOK /\ JobInv /\ LocksCoverDispatch /\ WorkInv /\ [Next]_changeVars => WorkInv'
  BY WorkInductive
<1> QED
  BY <1>1, <1>2, TypeCorrect, JobInvariant, LocksCoverDispatchHolds, PTL DEF Spec

(* Commands of a change run only at the runner that bound it, and an       *)
(* execution without a binding neither runs nor succeeds.                  *)
THEOREM WorkIsBoundHolds == Spec => []WorkIsBound
<1>1. WorkInv => WorkIsBound
  BY DEF WorkInv, WorkIsBound, Working, AtWork
<1> QED
  BY <1>1, WorkInvariant, PTL

(* Two runners at work never share a target, whatever expired, timed out   *)
(* or was reported late, unless a person closed one of the changes.        *)
THEOREM TargetExclusionHolds == Spec => []TargetExclusion
<1>1. ASSUME TypeOK, JobInv, WorkInv
      PROVE  TargetExclusion
  <2> SUFFICES ASSUME NEW r \in Runners, NEW s \in Runners, r # s,
                      Working(r), Working(s),
                      closure[job[r]] # "failure", closure[job[s]] # "failure",
                      NEW t \in TargetsOf[job[r]], t \in TargetsOf[job[s]]
               PROVE  FALSE
    BY DEF TargetExclusion
  <2>1. job[r] \in Changes /\ job[s] \in Changes /\ job[r] # job[s]
    BY <1>1, ChangeConstants DEF JobInv, TypeOK, Working
  <2>2. closure[job[r]] = "none" /\ closure[job[s]] = "none"
    BY <1>1, <2>1 DEF WorkInv, TypeOK, Working
  <2>3. lock[t] = job[r] /\ lock[t] = job[s]
    BY <1>1, <2>1, <2>2 DEF WorkInv, Working, AtWork
  <2> QED
    BY <2>1, <2>3
<1> QED
  BY <1>1, TypeCorrect, JobInvariant, WorkInvariant, PTL

-----------------------------------------------------------------------------
(* Approval.                                                               *)

(* A scheduled change that needs approval is approved, in its window.      *)
ApprovalInv ==
    /\ DispatchedWindowApproved
    /\ \A c \in NeedsApproval : change[c] = "scheduled" => approval[c] = "approved" /\ vouched[c]

LEMMA ApprovalInductive ==
    ASSUME TypeOK, JobInv, ApprovalInv, [Next]_changeVars
    PROVE  ApprovalInv'
<1>0. /\ change \in [Changes -> ChangeStatus] /\ exec \in [Changes -> ExecutionStatus]
      /\ approval \in [Changes -> ApprovalStatus] /\ vouched \in [Changes -> BOOLEAN]
      /\ NeedsApproval \subseteq Changes
      /\ None \notin Changes
      /\ job \in [Runners -> Changes \cup {None}]
      /\ \A r \in Runners : pc[r] # "idle" => job[r] \in Changes
      /\ \A c \in Changes : change[c] \in Early => exec[c] = "none"
      /\ \A r \in Runners : job[r] # None => exec[job[r]] # "none"
  BY ChangeConstants DEF TypeOK, JobInv, Unclaimed
<1> USE <1>0 DEF ApprovalInv, DispatchedWindowApproved, planVars, bindingVars,
                 closureVars, runnerVars
<1>1. CASE UNCHANGED changeVars
  BY <1>1 DEF changeVars
<1>2. ASSUME NEW c \in Changes, Planning(c)
      PROVE  ApprovalInv'
  <2>1. CASE \/ ScheduledTimePasses(c) \/ WindowMoves(c) \/ PreflightExpires(c)
             \/ DispatchTokenExpires(c) \/ RunDispatchPreflight(c)
    BY <2>1 DEF ScheduledTimePasses, WindowMoves, PreflightExpires,
                DispatchTokenExpires, RunDispatchPreflight
  <2>2. CASE CreateChangeRecord(c)
    BY <2>2 DEF CreateChangeRecord
  <2>3. CASE UpdateWindow(c)
    BY <2>3 DEF UpdateWindow, Early
  <2>4. CASE SubmitChangeRecord(c)
    <3>1. CASE c \in NeedsApproval
      BY <2>4, <3>1 DEF SubmitChangeRecord, CreateChangeApprovalRequest, Early
    <3>2. CASE c \notin NeedsApproval
      <4>1. \A d \in NeedsApproval : change'[d] = change[d] /\ exec'[d] = exec[d]
        BY <2>4, <3>2 DEF SubmitChangeRecord, ScheduleOrMakeDispatchable, Reserve
      <4>2. UNCHANGED <<approval, vouched>>
        BY <2>4, <3>2 DEF SubmitChangeRecord
      <4> QED
        BY <4>1, <4>2
    <3> QED
      BY <3>1, <3>2
  <2>5. CASE DecideApproval(c)
    <3>1. CASE /\ approval' = [approval EXCEPT ![c] = "approved"]
               /\ ScheduleOrMakeDispatchable(c)
               /\ vouched' = [vouched EXCEPT ![c] = TRUE]
      BY <3>1 DEF ScheduleOrMakeDispatchable, Reserve
    <3>2. CASE /\ approval' = [approval EXCEPT ![c] = "rejected"]
               /\ change' = [change EXCEPT ![c] = "rejected"]
               /\ UNCHANGED <<vouched, exec>>
      BY <2>5, <3>2 DEF DecideApproval, Early
    <3>3. CASE /\ approval' = [approval EXCEPT ![c] = "timed_out"]
               /\ change' = [change EXCEPT ![c] = "expired"]
               /\ UNCHANGED <<vouched, exec>>
      BY <2>5, <3>3 DEF DecideApproval, Early
    <3> QED
      BY <2>5, <3>1, <3>2, <3>3 DEF DecideApproval
  <2>6. CASE MakeDispatchable(c)
    BY <2>6 DEF MakeDispatchable, Reserve
  <2> QED
    BY <1>2, <2>1, <2>2, <2>3, <2>4, <2>5, <2>6 DEF Planning
<1>3. ASSUME NEW c \in Changes, Ending(c)
      PROVE  ApprovalInv'
  <2>1. CASE ExecutionTimesOut(c) \/ CancelExecution(c)
    BY <2>1 DEF ExecutionTimesOut, CancelExecution, Active
  <2>2. CASE CompletionHook(c) \/ CompletionHookFails(c)
    BY <2>2 DEF CompletionHook, CompletionHookFails, Verdict
  <2>3. CASE CloseChange(c)
    BY <2>3 DEF CloseChange
  <2>4. ASSUME NEW k \in Checks, SubmitVerificationResult(c, k)
        PROVE  ApprovalInv'
    BY <2>4 DEF SubmitVerificationResult, Verdict
  <2> QED
    BY <1>3, <2>1, <2>2, <2>3, <2>4 DEF Ending
<1>4. ASSUME NEW r \in Runners, RunnerActs(r) \/ RunnerFails(r)
      PROVE  ApprovalInv'
  <2>1. CASE ClaimNextExecution(r)
    <3>1. PICK late \in SUBSET Changes, found \in Changes \cup {None} :
             Claims(r, late, found)
      BY <2>1, ClaimEffect
    <3> QED
      BY <3>1 DEF Claims
  <2>2. CASE AnswerClaim(r)
    BY <2>2 DEF AnswerClaim
  <2>3. CASE BindExecution(r)
    BY <2>3 DEF BindExecution
  <2>4. CASE StepStarts(r)
    BY <2>4 DEF StepStarts
  <2>5. CASE CompleteExecution(r)
    BY <2>5 DEF CompleteExecution, Active
  <2>6. CASE \/ BindGivenUp(r) \/ StartChecked(r) \/ CommandEnds(r)
             \/ CompleteLost(r) \/ ExecutionFinished(r) \/ JobLost(r)
    BY <2>6 DEF BindGivenUp, StartChecked, CommandEnds, CompleteLost,
                ExecutionFinished, JobLost
  <2> QED
    BY <1>4, <2>1, <2>2, <2>3, <2>4, <2>5, <2>6 DEF RunnerActs, RunnerFails
<1>5. ASSUME NEW t \in Targets, Freezing(t)
      PROVE  ApprovalInv'
  BY <1>5 DEF Freezing, CreateFreezeRule, UpdateFreezeRule, DeactivateFreezeRule,
              FreezeInterval, SetFreeze
<1> QED
  BY <1>1, <1>2, <1>3, <1>4, <1>5 DEF Next

(* A change that needs approval is dispatched only while an approval given *)
(* for its window stands.                                                  *)
THEOREM DispatchedWindowApprovedHolds == Spec => []DispatchedWindowApproved
<1>1. Init => ApprovalInv
  BY ChangeConstants DEF Init, ApprovalInv, DispatchedWindowApproved
<1>2. TypeOK /\ JobInv /\ ApprovalInv /\ [Next]_changeVars => ApprovalInv'
  BY ApprovalInductive
<1>3. ApprovalInv => DispatchedWindowApproved
  BY DEF ApprovalInv
<1> QED
  BY <1>1, <1>2, <1>3, TypeCorrect, JobInvariant, PTL DEF Spec

=============================================================================
