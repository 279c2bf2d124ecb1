----------------------------- MODULE RunnerLoop -----------------------------
(***************************************************************************)
(* The runner process (apps/runner/runner: poller.py, executor.py,         *)
(* client.py) composed with the control plane of ExecutionControl.  Each   *)
(* runner is the poller's thread, one call at a time, and the heartbeat    *)
(* thread beside it.  A call can time out while its request is still on    *)
(* the way or already handled: the client then sends it again, or, after   *)
(* MaxAttempts, the caller takes its error path.  A runner can crash and   *)
(* start again with nothing but its identity.                              *)
(***************************************************************************)
EXTENDS ExecutionControl

VARIABLE run    \* per runner: where Executor.run is

vars == <<controlVars, run>>

(* pc is "idle", the kind of the outstanding call ("claim", "start",       *)
(* "poll", "update", "complete"), or a place between calls: the head of    *)
(* the step loop, the sleep of _wait_for_approval, a command in progress,  *)
(* the end of the loop.                                                    *)
Calls == {"claim", "start", "poll", "update", "complete"}
PCs == Calls \cup {"idle", "loop", "wait", "execute", "finish"}

(* plan is the steps' status in the claim's response; outcome is what the  *)
(* command gave, then what the loop ended with ("error": an exception).    *)
Process == [pc: PCs, exec: Executions \cup {NoExecution}, tok: 0..MaxClaims,
            plan: [Steps -> StepStatus], pos: 0..(NumSteps + 1),
            attempt: 0..MaxAttempts, cancel: BOOLEAN,
            outcome: {"", "succeeded", "failed", "cancelled", "error"}]

Idle == [pc |-> "idle", exec |-> NoExecution, tok |-> 0,
         plan |-> [s \in Steps |-> "pending"], pos |-> 0, attempt |-> 0,
         cancel |-> FALSE, outcome |-> ""]

RunnerTypeOK == TypeOK /\ run \in [Runners -> Process]

LoopInit == Init /\ run = [r \in Runners |-> Idle]

Become(r, m) == run' = [run EXCEPT ![r] = m]

-----------------------------------------------------------------------------
(* Sending.                                                                *)

(* The request of call k that runner r has outstanding, in the given stage.*)
RequestOf(r, k, m) ==
    NewRequest(k, r, m.exec, m.tok,
               IF k \in {"start", "poll", "update"} THEN m.pos ELSE 0,
               IF k \in {"update", "complete"} THEN m.outcome ELSE "",
               m.attempt)

Call(r, k, m) ==
    LET next == [m EXCEPT !.pc = k, !.attempt = 1]
    IN  SendRequest(RequestOf(r, k, next)) /\ Become(r, next)

(* Poller._poll_once.                                                      *)
SendClaim(r) == run[r].pc = "idle" /\ Call(r, "claim", Idle)

(* The loop of Executor.run over the steps by position, each iteration     *)
(* going by the status the claim's response gave.                          *)
LoopOutcome(m) ==
    IF m.pos > NumSteps THEN "succeeded"
    ELSE IF m.cancel THEN "cancelled"
    ELSE IF m.plan[m.pos] = "failed" THEN "failed" ELSE ""

NextStep(r) ==
    LET m == run[r] IN
    /\ m.pc = "loop"
    /\ \/ /\ LoopOutcome(m) # ""
          /\ Become(r, [m EXCEPT !.pc = "finish", !.outcome = LoopOutcome(m)])
          /\ UNCHANGED controlVars
       \/ /\ LoopOutcome(m) = "" /\ m.plan[m.pos] = "succeeded"
          /\ Become(r, [m EXCEPT !.pos = @ + 1])
          /\ UNCHANGED controlVars
       \/ /\ LoopOutcome(m) = "" /\ m.plan[m.pos] # "succeeded"
          /\ Call(r, "start", m)

(* _wait_for_approval between two polls: a cancellation ends the wait.     *)
Failed(m) == [m EXCEPT !.pc = "finish", !.outcome = "failed"]

WaitForApproval(r) ==
    LET m == run[r] IN
    /\ m.pc = "wait"
    /\ \/ m.cancel /\ Become(r, Failed(m)) /\ UNCHANGED controlVars
       \/ ~m.cancel /\ Call(r, "poll", m)

(* _execute_command: the command ends and its result is reported, or an    *)
(* exception escapes to Executor.run before anything is reported.          *)
CommandEnds(r) ==
    /\ run[r].pc = "execute"
    /\ \/ \E result \in {"succeeded", "failed"} :
             Call(r, "update", [run[r] EXCEPT !.outcome = result])
       \/ /\ Become(r, [run[r] EXCEPT !.pc = "finish", !.outcome = "error"])
          /\ UNCHANGED controlVars

(* The end of Executor.run: a failure after a cancellation is reported as  *)
(* cancelled, an exception as failed.                                      *)
FinalOutcome(m) ==
    CASE m.outcome = "failed" /\ m.cancel -> "cancelled"
      [] m.outcome = "error"              -> "failed"
      [] OTHER                            -> m.outcome

SendComplete(r) ==
    /\ run[r].pc = "finish"
    /\ Call(r, "complete", [run[r] EXCEPT !.outcome = FinalOutcome(run[r])])

(* _HeartbeatThread.run, alive from the claim until the loop has ended.    *)
Beating == {"loop", "start", "wait", "poll", "execute", "update", "finish"}
SendHeartbeat(r) ==
    /\ run[r].pc \in Beating
    /\ SendRequest(NewRequest("heartbeat", r, run[r].exec, run[r].tok, 0, "", 1))
    /\ UNCHANGED run

-----------------------------------------------------------------------------
(* Receiving.                                                              *)

(* Faults of After: a failed step does not end the loop; a start whose     *)
(* answer is an error is taken for granted.                                *)
AfterContinues(m, reply) ==
    CASE m.pc \in {"claim", "complete"} -> Idle
      [] reply = "run" -> [m EXCEPT !.pc = "execute"]
      [] reply = "wait" \/ (m.pc = "poll" /\ reply = "error") ->
             [m EXCEPT !.pc = "wait"]
      [] OTHER -> [m EXCEPT !.pc = "loop", !.pos = @ + 1, !.outcome = ""]
AfterAssumesStart(m, reply) ==
    CASE m.pc \in {"claim", "complete"} -> Idle
      [] reply = "run" \/ (m.pc = "start" /\ reply = "error") ->
             [m EXCEPT !.pc = "execute"]
      [] reply = "wait" \/ (m.pc = "poll" /\ reply = "error") ->
             [m EXCEPT !.pc = "wait"]
      [] m.pc = "update" /\ reply = "ok" /\ m.outcome = "succeeded" ->
             [m EXCEPT !.pc = "loop", !.pos = @ + 1, !.outcome = ""]
      [] OTHER -> Failed(m)

(* The caller's reaction to each reply.  A 4xx answer to a poll is retried *)
(* like any other error; every other error ends the step, or the call.     *)
After(m, reply) ==
    CASE m.pc \in {"claim", "complete"} -> Idle
      [] reply = "run" -> [m EXCEPT !.pc = "execute"]
      [] reply = "wait" \/ (m.pc = "poll" /\ reply = "error") ->
             [m EXCEPT !.pc = "wait"]
      [] m.pc = "update" /\ reply = "ok" /\ m.outcome = "succeeded" ->
             [m EXCEPT !.pc = "loop", !.pos = @ + 1, !.outcome = ""]
      [] OTHER -> Failed(m)

Awaits(r, q) ==
    /\ run[r].pc \in Calls
    /\ q = [RequestOf(r, run[r].pc, run[r]) EXCEPT !.stage = q.stage]

(* A handler's reply reaches the caller if it still waits for it, and may  *)
(* be lost even then.                                                      *)
Reply(q, reply) ==
    \/ UNCHANGED run
    \/ Awaits(q.runner, q) /\ Become(q.runner, After(run[q.runner], reply))

ClaimReply(q, e) ==
    \/ UNCHANGED run
    \/ /\ Awaits(q.runner, q)
       /\ Become(q.runner, [Idle EXCEPT !.pc = "loop", !.exec = e,
                               !.tok = token'[e], !.plan = step[e], !.pos = 1])

(* The cancellation event is set by a heartbeat's answer.                  *)
HeartbeatReply(q, reply) ==
    LET m == run[q.runner] IN
    \/ UNCHANGED run
    \/ /\ reply = "cancel"
       /\ m.pc \in Beating /\ m.exec = q.exec /\ m.tok = q.tok
       /\ Become(q.runner, [m EXCEPT !.cancel = TRUE])

ServeCall(q) ==
    \/ \E e \in Executions : ServeClaim(q, e) /\ ClaimReply(q, e)
    \/ ServeNoWork(q) /\ Reply(q, "none")
    \/ HeartbeatRead(q) /\ UNCHANGED run
    \/ \E reply \in {"ok", "cancel"} :
           HeartbeatWrite(q, reply) /\ HeartbeatReply(q, reply)
    \/ StartRead(q) /\ UNCHANGED run
    \/ StartWaiting(q) /\ Reply(q, "wait")
    \/ \E reply \in {"run", "wait", "blocked"} :
           StartEvaluate(q, reply) /\ Reply(q, reply)
    \/ ServeUpdate(q) /\ Reply(q, "ok")
    \/ PollRead(q) /\ UNCHANGED run
    \/ \E reply \in {"run", "wait", "fail"} :
           PollAnswer(q, reply) /\ Reply(q, reply)
    \/ ServeComplete(q) /\ Reply(q, "ok")
    \/ ServeRefusal(q) /\ Reply(q, "error")

(* ApiClient._post_response: a transport error, the request may still be   *)
(* on its way.  It is sent again, or the error is raised: after the last   *)
(* attempt, or earlier when a shutdown interrupts the pause.               *)
Timeout(r) ==
    LET m == run[r]
        again == [m EXCEPT !.attempt = @ + 1]
    IN  /\ m.pc \in Calls
        /\ \/ /\ m.attempt < MaxAttempts
              /\ SendRequest(RequestOf(r, m.pc, again))
              /\ Become(r, again)
           \/ Become(r, After(m, "error")) /\ UNCHANGED controlVars

Crash(r) ==
    /\ run[r].pc # "idle"
    /\ Become(r, Idle)
    /\ UNCHANGED controlVars

RunnerStep(r) ==
    \/ NextStep(r) \/ WaitForApproval(r) \/ CommandEnds(r) \/ SendComplete(r)
    \/ Timeout(r)

LoopNext ==
    \/ \E r \in Runners :
          SendClaim(r) \/ RunnerStep(r) \/ SendHeartbeat(r) \/ Crash(r)
    \/ \E q \in requests : ServeCall(q)
    \/ \E e \in Executions : ControlStep(e) /\ UNCHANGED run

LoopSpec == LoopInit /\ [][LoopNext]_vars

(* Fairness.  A live runner goes on: its calls end by an answer or by the  *)
(* client's timeout, its commands by their own end or the sandbox's        *)
(* wall-clock limit.  Django handles what reaches it.  The watchdog        *)
(* command is scheduled and time passes.  Of polls, repeated for as long   *)
(* as a step waits, not every one is lost.  Nothing is assumed of          *)
(* operators, approvers, heartbeats or crashes.                            *)
ServeFor(r, k) == \E q \in requests : q.runner = r /\ q.kind = k /\ ServeCall(q)

PollReaches(r) ==
    \E q \in requests : Awaits(r, q) /\ PollRead(q) /\ UNCHANGED run

PollReturns(r) ==
    \E q \in requests : \E reply \in {"run", "wait", "fail"} :
        /\ Awaits(r, q)
        /\ PollAnswer(q, reply)
        /\ Become(r, After(run[r], reply))

Watchdog(e) ==
    \/ RecoverStuck(e)
    \/ \E s \in Steps : RecoverExpiredApproval(e, s)

Fairness ==
    /\ \A r \in Runners :
          /\ WF_vars(RunnerStep(r))
          /\ SF_vars(PollReaches(r)) /\ SF_vars(PollReturns(r))
          /\ \A k \in Kinds : WF_vars(ServeFor(r, k))
    /\ \A e \in Executions :
          /\ WF_vars(HeartbeatAges(e) /\ UNCHANGED run)
          /\ WF_vars(Watchdog(e) /\ UNCHANGED run)
          /\ \A s \in Steps : WF_vars(ApprovalDeadline(e, s) /\ UNCHANGED run)

FairLoopSpec == LoopSpec /\ Fairness

-----------------------------------------------------------------------------
(* Properties.                                                             *)

(* The composition is one of the client behaviours ExecutionControl allows,*)
(* so what is shown of ExecutionControl holds of runners that follow       *)
(* executor.py: a runner sends only what its place in the loop calls for,  *)
(* with a token it was given itself, also after it has lost its claim, when*)
(* the answers it waits for come late or a heartbeat's comes from a row    *)
(* that is another runner's by then.                                       *)
RunnersAreClients == Spec

(* Executor.run goes by position and complete_execution takes the runner's *)
(* word for the outcome.  Still, a step is touched only after every earlier*)
(* step has succeeded, and an execution ends "succeeded" only if all have, *)
(* also when requests arrive late or twice, or another runner has taken    *)
(* the execution over.                                                     *)
StepsInOrder ==
    \A e \in Executions : \A s \in Steps :
        \/ status[e] = "succeeded"
        \/ \E t \in Steps : s < t /\ step[e][t] # "pending"
        => step[e][s] = "succeeded"

(* A command is in progress only for a step that the control plane moved   *)
(* to running, with its approval granted if the step requires one.         *)
CommandsWereCleared ==
    \A r \in Runners : run[r].pc = "execute" =>
        LET e == run[r].exec
            s == run[r].pos
        IN  /\ step[e][s] \in {"running", "succeeded", "failed"}
            /\ s \in RequiresApproval => approval[e][s] = "approved"

(* No two runners run commands of the same execution at the same time.     *)
AtMostOneExecutor ==
    \A r, p \in Runners :
        run[r].pc = "execute" /\ run[p].pc = "execute" /\ run[r].exec = run[p].exec
            => r = p

(* Once an execution is terminal and the work after its commit is done,    *)
(* its lease no longer counts against the runner and the pool, whoever     *)
(* ended it and whoever had claimed it first; only the timeout of an       *)
(* approval (fail_execution_for_approval_timeout) leaves a lease behind.   *)
LeaseSettled ==
    \A e \in Executions :
        status[e] \in Terminal /\ hook[e] = "none" /\ lease[e] = "active"
            => \E s \in Steps : approval[e][s] = "timed_out"

(* An execution that was claimed does not stay claimed or running: it is   *)
(* completed by its runner or failed by the watchdog, whatever crashes and *)
(* whichever calls are lost, if approvals have deadlines.                  *)
ActiveExecutionEnds ==
    \A e \in Executions : status[e] \in Active ~> status[e] \in Terminal

=============================================================================
