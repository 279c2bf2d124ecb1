# Runbook Platform: executions, changes and their evidence in TLA+

This directory models the parts of Runbook Platform in which several processes act on the same
rows, files or streams: how an execution is claimed, run, approved and ended; how runners register
and share pools; what becomes of a command's output; how a production change is approved,
dispatched onto locked targets, bound to a runner, verified, overridden in an emergency and closed;
how its evidence is sealed, exported, held and erased; and how a page follows an execution live.
The modules are translated from the code under `src/`; `PROJECT.json` maps each definition to its
lines.

## 1. Inventory

The system is a Django control plane over PostgreSQL, runner processes that poll it over HTTP, a
web client and a stateless AI service. Concurrency comes from API workers that serve requests at
the same time (row locks taken with `select_for_update`, reads without a lock elsewhere), from
management commands that act as watchdogs, from runners whose requests are repeated, late or lost,
and from the processes a command leaves behind.

| Component | State | Operations | Talks to | What is hard, what makes it correct |
|---|---|---|---|---|
| executions | `Execution`, `ExecutionStep`, `ExecutionLease` | create, cancel, claim (pool and legacy), heartbeat, step start and update, approval poll, complete, recover stuck | runners by HTTP, approvals, policies, changes | requests of a runner that lost its claim; checks before a lock; work after a commit. One owner, final states stay, leases follow claims |
| approvals | `ApprovalRequest` | request, decide, time out on read, recover expired | executions, changes, exceptions | decision, timeout and poll race. A gated step runs only behind an approval |
| policies | rules, evaluations | evaluate a step | executions | re-evaluated on each start. The workflow's own approval demand is a floor |
| runner | place in the executor's loop, heartbeat thread | poll, run steps, wait, complete, bind, announce the end | control plane | crashes, retries of non-idempotent calls. Steps in order, honest outcome, no command without clearance |
| shell action, sandbox, uploader | process group, captured streams, workspace files, upload attempts | run, stop, collect, upload, retry, clean up | artifacts | processes that outlive the shell, also within the grace period; retries beside a late first attempt. What is left of a stopped group, output as written and redacted, bounded waiting |
| artifacts | `Artifact`, stored files, the daily counter | check, store, record | runner | two stores, quota checks without a lock. No row without bytes, required evidence recorded in spite of failures |
| runner pools | `RunnerPool`, `Runner`, `RunnerRegistrationToken` | drain, disable, reactivate, revoke, register, authenticate, heartbeat, mark offline, schedule a claim | executions | limits counted under concurrency; status read before a lock. Limits, one identity, stops respected |
| changes: dispatch | `ChangeRecord`, `ChangeWindow`, `FreezeRule`, `TargetLock`, `DispatchEligibilityCheck`, `ChangeExecutionBinding` | create, submit, decide, set window, freeze rules, preflight, dispatch, bind, finish, hook | executions, approvals, runner | a reservation that expires at any time; the hook after the commit; late announcements. Target exclusion, locks cover dispatch, approval of the window |
| changes: verification, closure | `VerificationPlan`, `VerificationCheck`, `VerificationResult`, `ChangeClosure` | generate a plan, report facts, attest, recompute, close | runner, operators | facts before, after and beside the completion. A verdict rests on evidence, follows the execution and stands |
| changes: emergency | `ChangeException`, `BreakglassSession`, `RetroReview` | request, decide on two paths, resolve, expire, activate, end, review | approvals, dispatch, closure | opposite lock orders, unlocked saves, expiry at any time. Decisions agree, authority ends and does not return |
| evidence | `EvidenceBundle`, items, `EvidenceExport`, `LegalHold`, stored packages | create, seal, invalidate, export, hold, release, clean up | changes, artifacts, storage | rows and files do not commit together; announcements fail after the commit. Sealed content is what is recorded, a hold holds |
| event stream, live page | the bus and its ring buffer, connections, the page's cache | emit on commit, subscribe, replay, reconcile, apply, reconnect, poll, refetch | executions | missed, repeated and overtaken events. Nothing uncommitted is shown, the end is shown |
| audit, auditor workspace, integrations, workflows, runbooks, organizations, users, AI service, the rest of the web client, packages, infrastructure | | | | not modelled; see section 8 |

`PROJECT.json` lists every component with its status, and under `hazards` the places where the
code is exposed, each with the properties aimed at it.

## 2. Modules

| Module | What it is |
|---|---|
| `ExecutionLifecycle` | abstract specification: an execution is created, handed to an owner, begun, ended once, or withdrawn while queued |
| `ExecutionControl` | the API's side of executions, steps, approvals and leases against arbitrary clients; implements `ExecutionLifecycle` (`Lifecycle == INSTANCE ExecutionLifecycle WITH ...`) |
| `RunnerLoop` | `ExecutionControl` composed with runners that follow `poller.py`, `executor.py` and `client.py`; proved to implement `ExecutionControl` |
| `RunnerPools` | pools, runners, registration tokens, leases, at the granularity of API workers and row locks |
| `StepOutput` | one sandboxed command: its processes, its output, the uploader and the artifact service |
| `ExecutionStream` | events of one execution, the bus, the stream and the page |
| `ChangeDispatch` | one or more changes, their executions and their runners, from submission to closure |
| `ChangeVerification` | the verification plan of one change, its results, verdict and closure |
| `ChangeEmergency` | exceptions, breakglass sessions and retrospective reviews of one change |
| `EvidenceBundles` | the evidence of one closed change |
| `RunnerPoolsProofs`, `StepOutputProofs`, `ExecutionStreamProofs`, `ChangeDispatchProofs`, `ChangeVerificationProofs`, `ChangeEmergencyProofs`, `EvidenceBundlesProofs` | theorems about the module they are named for, checked by TLAPS |
| `ExecutionProofs` | the same for `ExecutionControl` and for its composition `RunnerLoop` |
| `MC...` | the instances TLC checks |

The three change modules share the change's course. `ChangeDispatch` has all of it with results
that are just passed or failed; `ChangeVerification` and `ChangeEmergency` take a short form of the
course (approved, dispatched, bound, run, ended) and refine the part they are named for. Their
product would be far too large for TLC.

### ExecutionControl

`requests` is the set of requests on their way or half handled. A request carries its kind, runner,
execution, claim token, step, argument and attempt; `stage` says whether the handler has made its
unlocked checks ("checked"). A request may be handled at any later time, after anything else, which
gives delay and reordering; a request that is never handled is a lost one.

- Handlers inside one transaction are one action: `ServeClaim`, `ServeUpdate`, `ServeComplete`,
  `CancelExecution`, `DecideApproval`, `RecoverStuck`, `RecoverExpiredApproval`.
- Handlers that check on an unlocked row and act later are two: `HeartbeatRead`/`HeartbeatWrite`,
  `StartRead`/`StartEvaluate`, `PollRead`/`PollAnswer`.
- The lease update after a commit is `hook` and `SettleLease`; that it may fail alone and be
  swallowed is `LoseLeaseUpdate`.
- Time: a heartbeat is fresh, stale (`RUNNER_STALE_HEARTBEAT_SECONDS`) or stuck (the watchdog's
  threshold); an approval is due or not.
- `PolicyOutcomes` is the set of outcomes `evaluate_step_policy` may give; the rules that choose are
  left open.
- Clients send any request, also twice, with any token that was issued to them (`ClientSends`), the
  tokens of claims they lost included. `issued` is the history of who was given which token; the row
  itself keeps the last one only. `OldTokensDecideNothing` is what the ownership checks are for: a
  request with the token of a claim that was taken over moves nothing, also when its handler had
  passed the check before the takeover, except that a poll may find an approval timed out.

### RunnerLoop

`run[r]` is the place of `Executor.run` (`pc`), the steps as the claim's answer gave them (`plan`),
the position, the attempt, the cancel flag of the heartbeat thread and the outcome. A call may time
out with its request still on the way (`Timeout`): the client repeats it, and after `MaxAttempts`
the caller takes its error path. `Crash` loses everything but the identity. An answer to `complete`
may reach the runner before the lease update: in the code the answer follows it, and the earlier
answer is the same as a timed-out call, which the runner treats the same way.

### RunnerPools

A worker serves one request at a time and keeps in `task` what it has read so far. Row locks are
derived: a pool's row is locked while some worker's task is behind `select_for_update` on it
(`PoolLocked`, `TokenLocked`, `ExecutionLocked`). So what is read before the lock may be stale, and
what is counted under it is not. Operators' requests read the row when the view loads it and save
the status later, without a lock, as the code does: lost updates between them are behaviours of the
model. `WorkerDies` drops a request at any place. `Operations` selects which operators' requests an
instance makes. A lease ends at some time (`EndLease`); how it ends is the subject of
`ExecutionControl`.

### ChangeDispatch

The `ChangeRecord` row is locked first by every service, so a service is one action. Separate
actions are: the claim and its serialised answer (`AnswerClaim`), the binding check and the start of
a step (`StartChecked`, `StepStarts`), the end of the execution and its hook (`hook`,
`CompletionHook`, `CompletionHookFails`), the runner's announcement of the end
(`ExecutionFinished`). `vouched` is an observation: the approval was given with the window that is
set now. `window` and `due` move with the clock; `freeze` is a target's active rule, which blocks or
is idle: operators create, change and deactivate it, and its interval begins and ends
(`FreezeInterval`). `passed` is the preflight check that can be reused. The stored final status of a
window is read by no gate and left out.

### ChangeVerification

Services that lock the change row are one action. The internal endpoint checks the claim in one
transaction (`CheckClaim`) and records the result in another (`RecordFact`), so other steps come
between. `facts` are the runner's reports on their way; they are lost (`LoseFact`), answered too
late (`GiveUpWaiting`), refused, or sent twice. `typed` says which steps run as typed actions, whose
path in the executor reports no facts (`FactsFollow`). Evidence is a record of what a submission
carries; `RunnerStepEvidence`, `ArtifactPresenceEvidence` and so on are the rules of each check type.

### ChangeEmergency

An exception is decided on two paths that lock its two rows in opposite orders: `DirectBegin` /
`DirectCommit` (exception first) and `CentralBegin` / `CentralCommit` (approval request first). A
pair that waits for each other is broken by the database, which aborts one of them. Resolving,
ending and expiring read without a lock and save later: `saving` holds these writes. The review of
an approved exception is created after the commit (`hook`, `EnsureRetroReview`). Time is `due`
(exceptions and sessions past their expiry) and `lateReview`. `passed` and `granted` remember what
opened the gates of a preflight and of the dispatch made from it. `window` is the change's window,
or that it has none. The end of the execution is recorded by `CompletionHook`, which ends the
sessions first, or by `MismatchCloses`: when the operation profile or the workflow was edited since
the request was frozen, the hook closes the change and returns before it comes to its sessions
(`mismatch`).

### EvidenceBundles

Handlers that use the database and the file store are cut wherever the other store, another handler
or a fault can come between: sealing is `SealBegin`, `SealWrite`, `SealCommit`, `SealEmit` and the
failures with their `SealUnwind`; exporting and erasing are cut alike. A package is identified with
the content it was built from, so that a hash comparison is a comparison of packages. `edits` counts
changes of the live rows the sections are built from, and `refers` says that external references
have appeared: their section is optional, and a section that is there when the bundle is sealed but
was not when it was created is packed without an item (`SyncedItems` updates the items that exist).
An export keeps the policy it was made with, and `ExportRule` is one turn of the loop in
`_apply_redaction_policy`. A rule names an entry and what of it its pointer or field finds
(`covers`, empty without a pointer or when the field is absent); `Reads` says which entries an
action can decode, so that a rule for another format leaves its entry as it was. `Promised` states
what a policy of n rules promises of an entry, independently of their order.

### StepOutput

`leader` is the shell, `rest` the kinds of other processes in its group: "running" ones end on
SIGTERM, "deaf" ones ignore it or take their time to handle it, "late" ones were started after it
was sent. They write, start others, exit and change files at any time, the grace period included:
stopping is `Terminate` (SIGTERM to the group), then `GraceReturns` (the shell has ended, whatever
became of the others) or `GraceEnds` (SIGKILL to the group). `alone` is an observation: no process
has outlived the shell so far. A process that leaves the group with `setsid` is out of the
sandbox's reach and not followed.

`written` and `captured` are lengths; `hidden` is the place of one secret in a stream, and
`Redacted` is the length of a beginning of it once the secret, if all of it is there, is replaced.
The uploader cuts again after redaction and reports only its own cut (`SizeOf`, `Truncated`).
Files have any size from none up to one byte over their limit. An upload without bytes is refused
by the serializer, one of an execution that ended, was taken over or is no longer bound is refused
by the service (`open`); neither is tried again. A key may be declared without a path (kinds stdout,
stderr and log): no file stands for it, and nothing is recorded under it, required or not. An
`OSError` while files are collected ends the handler with an exception (`CollectRaises`, "raised").

The API serves an upload in three steps (`UploadChecked`, `UploadSaved`, `UploadRecorded`) because
quota checks take no lock and storage is not part of the transaction. A timed-out upload goes on in
the API while the uploader tries again. `total` is the sum of the sizes of the rows, which the quota
check computes with a query: rows are only added, so the sum is kept beside them. Declared artifacts
have distinct keys (the workflow validator refuses `duplicate_artifact_key`); files are collected in
the order of their declarations, and the first error among them decides.

### ExecutionStream

Writers commit and then emit (`Transact`, `Emit`). A connection reads the row, subscribes, replays
and forwards; these are separate actions, and so are the page's read of the execution and its reply.
Progress of the steps is a number, so that "older" and "newer" can be told apart. A step update
checks the claim and the step's transition only, so `UpdateStep` is possible after the end as well;
`ended` is the number of changes the end was committed with. Ending by an approval timeout or by the
watchdog may change a step in the same transaction.

## 3. Runs

All runs finish in less than five minutes with two workers.

| Run | Instance | Checks |
|---|---|---|
| `control_clients` | 1 execution, 1 step that needs approval with a deadline, 1 pool and 1 legacy runner, 2 claims, 2 requests in flight, lease updates may fail | `TypeOK`, `LeaseMatchesClaim`, `ApprovalGate`, `FinalStatesStay`, `OldTokensDecideNothing`, and the refinement `ImplementsLifecycle` |
| `loop` | a pool and a legacy runner, 2 steps, the first gated, 2 claims, lost answers and crashes | `StepsInOrder`, `CommandsWereCleared`, `LeaseSettled` |
| `loop_liveness` | 1 runner, 2 attempts of each call, fairness | `ActiveExecutionEnds` |
| `stale_runner_runs` | a pool and a legacy runner, 1 gated step | violation of `AtMostOneExecutor` |
| `pool_registration` | 1 pool with one slot, 2 installations, 1 token with two uses, 2 executions, 2 workers, operators' requests on pool, runners and token | `PoolWithinLimit`, `RegistrationsCounted`, `OneIdentity`, `StopIsRespected` |
| `change_targets` | 2 changes with a common target, one verified, 2 runners, cancellation, freezes, failing hooks | `TargetExclusion`, `LocksCoverDispatch`, `WorkIsBound` |
| `change_course` | 1 change with approval, schedule, window, freeze, two checks, 2 runners, fairness | `DispatchedWindowApproved`, `DispatchedChangeEnds` |
| `change_verification` | 6 checks of all types in 7 templates, 2 steps of which one may be typed, 2 operators, 2 lost requests or replies | `VerifiedByEvidence`, `VerdictAfterExecution`, `PendingCanBeDecided`, `VerdictIsFinal` |
| `emergency_controls` | a change with a window, 1 exception, 1 session, 1 freeze rule, 2 users, one of them admin, reviews that accept, 1 unlocked save at a time | `DecisionsAgree`, `EmergencyEndsAtClose`, `DispatchWasAuthorized`, `AuthorityNeverReturns` |
| `evidence_retention` | 1 bundle, 1 export, 2 holds, 2 workers, 3 redaction policies of two to four rules (among them rules nothing comes of), an optional section, 2 edits, 2 faults | `SealedAsRecorded`, `ExportAsPromised`, `SealedNeverRewritten`, `HeldBundleKept` |
| `step_output` | 1 noisy stream of two bytes that may be a secret, which a mask of one byte replaces; 1 required file of up to two bytes with a limit of one, 1 required key without a path, quotas of three and four bytes, 1 kind of process beside the shell, 2 attempts, 2 faults, fairness | `GroupStopped`, `StreamAsWritten`, `EvidenceComplete`, `RowsBacked`, `HandlerReturns` |
| `event_stream` | buffer of 2, 2 step changes before or after the end, 3 failures to the fallback, 3 faults, fairness | `ShownIsCommitted`, `ReplayLeavesNoGap`, `SettledIsFinal`, `EndIsShown` |

Every property of a passing run has a mutant: a definition placed before the one it replaces that
changes it as a plausible bug would (a dropped status check, a lock not taken, a lease not created,
a join without timeout, a buffer that drops the wrong end). With the mutant TLC finds the property
violated.

Each module but the abstract `ExecutionLifecycle` defines a type invariant; `control_clients`
checks one of them, and all of them are proved.

Deadlock is checked in the execution and pool runs; elsewhere changes, commands, evidence or pages
may be done for good.

### Bounds

- `MaxClaims = 2`: an execution is claimed and taken over once. A third claim meets the same row as
  the second: the code keeps no history of owners.
- `MaxRequests = 2`: a request half handled and another one beside it, which is what every race
  between two handlers needs.
- `MaxAttempts`: 2 in `loop_liveness`, where retries are the question; 1 in `loop`, where takeover
  and two steps already make 2.5 million states and lost calls are enough. The client's real bound
  only delays the error path.
- Two workers: each pair of handlers is interleaved; a lock that serialises two serialises more.
- Two changes and two runners: the lock tables relate pairs.
- One exception and one session: the records of a change meet only in the gates, and a gate takes
  the first that covers it. Two users are the least with which four eyes can be asked for.
- One secret in a stream, and as many bytes as the capture limit: the run tells a redacted stream
  from an unredacted one and a cut from an uncut one at the uploader; that the capture itself cuts
  is in the model and in the proof, for all sizes. One process beside the shell at a time, of each
  kind in turn: each is alone in deciding what is left of the group.
- One bundle version: versions share no file and no lock, and later ones start from the same states.
- Faults (`MaxFaults`) are failures of storage, network, reads or announcements; two let a failure
  meet the failure of its retry. `event_stream` has three, as many as the page tolerates.
- Symmetry is used for API workers, installations and runners where a run checks no liveness.

## 4. Fairness

`FairLoopSpec`: a live runner takes its next step (calls end by an answer or the client's timeout,
commands by the sandbox's wall-clock limit), the API handles the request a live runner waits for,
time passes, and the watchdog command is run again and again. Polls get strong fairness: they are
repeated as long as a step waits and not every one of them is lost. Nothing is assumed of
operators, approvers, heartbeats, crashes or of requests nobody waits for.

`FairSpec` of `ChangeDispatch`: runners poll and go on as above, a bind that is tried again is
answered at last (the client's attempts are bounded, after which `BindGivenUp` is the other way on),
a workflow has finitely many steps, the watchdog acts on an execution no runner works on, and the
worker that committed an end goes on to the hook. `DispatchedChangeEnds` is checked without
`CancelRequests` and `HookFaults`; section 6 says why.

`StepOutput`: the handler's own steps and the API's answers. The command owes nothing: it may run,
ignore SIGTERM or keep the pipes open, and `HandlerReturns` holds because every wait of the handler
has a timeout. `ExecutionStream`: a thread that committed goes on to emit, the event loop serves
open streams, and the browser's loop runs the hook; nobody owes a step to the execution.

## 5. Proofs

The theorems hold for every value of the constants that satisfies the named assumption of the
module: any numbers of executions, steps, runners, workers, changes, targets, users, bundles,
requests in flight, retries and faults. The bounds of section 3 are not in them.

| Module | Proved of its specification |
|---|---|
| `ExecutionProofs` | of `ExecutionControl`: `TypeOK`, `LeaseMatchesClaim`, `ApprovalGate`, `FinalStatesStay`, the refinement `ImplementsLifecycle`, `OldTokensDecideNothing`; that a pool runner owns at most one execution that is claimed or running (`OneExecutionPerRunnerHolds`) and that active leases stay within the pool's limit (`PoolLimitHolds`). Of `RunnerLoop`: `RunnerTypeOK`, the refinement `RunnersAreClients`, `CommandsWereCleared`, `StepsInOrder`, and `LeaseSettled` if lease updates do not fail |
| `RunnerPoolsProofs` | `TypeOK`, `PoolWithinLimit`, `RegistrationsCounted`, `OneIdentity`, `StopIsRespected` |
| `ChangeDispatchProofs` | `TypeOK`, `LocksCoverDispatch`, `WorkIsBound`, `TargetExclusion`, `DispatchedWindowApproved` |
| `ChangeVerificationProofs` | `TypeOK`, `VerdictIsFinal`, `VerdictAfterExecution`, `VerifiedByEvidence`, and `PendingCanBeDecided` if reviewers and their evidence are available |
| `ChangeEmergencyProofs` | `TypeOK`, `DecisionsAgree`, `AuthorityNeverReturns`, `EmergencyEndsAtClose`, `DispatchWasAuthorized` |
| `EvidenceBundlesProofs` | `TypeOK`, `SealedNeverRewritten`, `SealedAsRecorded`, `HeldBundleKept`, `ExportAsPromised` |
| `StepOutputProofs` | `TypeOK`, `GroupStopped`, `StreamAsWritten`, `RowsBacked`, `EvidenceComplete` |
| `ExecutionStreamProofs` | `TypeOK`, `ShownIsCommitted`, `SettledIsFinal`, `ReplayLeavesNoGap` |

Each theorem is named after its property, with `Holds` at the end; type invariants are
`TypeCorrect`, that of `RunnerLoop` is `RunnerTypeCorrect`. Hardly any of the properties is
inductive. What had to be added is, in each case, the reason why the code is right:

- `ExecutionControl`. `RowEffects` and `StepEffects` say once what any step can do to an execution
  and to its steps; the invariants are proved from these effects and not action by action.
  `OneExecutionPerRunner` needs `LeaseInv`: the claim counts leases and not executions, so each
  runner has at most one active lease, also when a lease outlives its execution, and a live claim
  has its lease. `ApprovalGate` needs `RequestsFollowSteps`: a step that was never started has no
  request, so a request is created once and what is decided later is decided about that step. The
  refinement maps status and owner by name. `OldTokensDecideNothing` rests on
  `HandledBy` (a request leaves its way only by being handled): every handler that moves something
  checks owner and token in the same step in which it writes.
- `RunnerLoop`. `Sound` says what a runner may rely on at each place of `Executor.run`: its token
  was issued to it, the steps before its position and those its plan gives as succeeded have
  succeeded, a command it runs was cleared. All of it is stable (`SoundStays`): nobody can undo it,
  which is why lost answers, late requests and a second runner do no harm. From it each step of a
  runner is a step of a client that sends only what it was given the token for, which is the
  refinement (`RunnersAreClients`), and the theorems about `ExecutionControl` hold of the
  composition. `StepsInOrder` further needs `RequestsInOrder`: a request carries the runner's
  knowledge to wherever it arrives, since `complete_execution` takes its word. `LeaseSettled` needs
  `LeaseEnds`: before the first claim there is no active lease, and after the end there is one only
  while its update is due or an approval has timed out.
- `RunnerPools`. `LockInv` proves that the locks derived from the workers' tasks exclude each
  other. `RequestInv` says what a worker behind its locks may still rely on: token, pool and a free
  use for a registration, a queued execution, an active pool and a free slot for a claim. The
  counted limit is a statement about the cardinality of the set of leases. `RowInv` ties rows,
  leases and tasks to identities.
- `ChangeDispatch`. `TargetExclusion` rests on `WorkInv` (a runner at work holds every lock of its
  change unless the change was closed) and that on `JobInv` (no two runners share a job, and a
  runner whose end was recorded has none). `ApprovalInv` carries the approval of the window through
  scheduling.
- `ChangeVerification`. `EarlyInv` and `RunInv` follow the runner through the steps, so that an
  execution that succeeded has succeeded in each of them. `PassedInv` and `SuccessInv` carry
  evidence on: steps and artifacts do not go back. `PendingCanBeDecided` needs `FactInv`, that no
  fact is forgotten: it is still to be sent, on its way, known to be lost, or its check is decided.
- `ChangeEmergency`. `LockInv` describes what the two decision paths hold while they wait for each
  other, `RequestInv` the pairs of statuses an exception and its request can have, `SessionSaved`
  that a save under way belongs to a session that exists. `ClosureInv` ties sessions to the flag
  that makes reviews count, and `GateInv` remembers the authority behind each gate that was opened.
- `EvidenceBundles`. `SealInv` (versions in order, a locked row has one worker, a stage works on a
  row in the matching status, what was not sealed has no content), `WrittenInv` (a package that was
  written is found at the commit), `HoldInv` (a cleanup under way has no hold on its row),
  `ExportInv` (an export shows its bundle's package through its policy and has one worker).
  `RuleKeepsPromises` is the step of the loop over the rules: what the rules so far promised of an
  entry the next one does not take back. `ListedInv` says that only the optional section can be
  missing among the items.
- `StepOutput`. `PhaseInv` says what each place of the handler has behind it: after SIGTERM no
  process is left that it ends, and none is started that could be one; after SIGKILL none is left;
  nothing is captured or sent before the shell has ended. `StreamInv` ties what was captured to what
  was written, which no longer moves within the captured part, and carries the captured size of a
  stream through every request to its row. `KeyInv`: an attempt is made once and an output leaves
  the work list for good, so a key is one upload's own and the clean-up of an attempt takes no other
  row's file. `LimitInv`: while no upload was given up at work, the one at work is the one the
  uploader waits for, and what its checks found is still true when its row is written.
  `EvidenceInv`: a required file of a command that succeeded has a row or is still on the work list,
  and every further attempt has cost a failure.
- `ExecutionStream`. Every event that is waiting anywhere and every read under way is true of the
  committed row (`Facts`, `Past`), and the row only moves forward; `StreamInv` states this as the
  type of the queues. `SettledInv`: a page whose stream was closed is disconnected for good and its
  last read finds a row whose status no longer moves and whose steps are those of the end or later.
  `GapInv`: the ring buffer and a subscriber's queue both end with the event published last and
  leave none out (`Recent`), because both are fed under the lock of the bus. For the types,
  `CountInv` bounds the events published and pending by what the row has owed, and `BoundInv` ties
  the failure count to the turn to polling.

Assumptions. The constants' assumptions are types, disjointness of model values (`None` is no
record, no user is called `runner`), finiteness and positive limits; TLC evaluates them on every
run. Two theorems have a hypothesis of their own. `LeaseSettledHolds` assumes `~LeaseUpdateFaults`:
with the swallowed failure of a lease update the property does not hold, and the `loop` run, too,
excludes it. `PendingCanBeDecidedHolds` assumes `Answerable`: the reviewers a check may ask for
exist and evidence that they can attest is among the evidence; `MCChangeVerification` asserts it of
the instance.

Only model-checked:

- liveness, which needs fairness: `ActiveExecutionEnds`, `DispatchedChangeEnds`, `HandlerReturns`,
  `EndIsShown`;
- `AtMostOneExecutor`, which the code violates (section 6).

## 6. What the runs show about the code

One run ends in a violation, against a document of the repository: `stale_runner_runs`.
`ApprovalStatusView` checks the claim on a row read without a lock and answers from the step it
reads afterwards. A runner taken over between the two is told to run the command its successor runs.
`docs/runner/execution-loop.md` says that a stale runner receives 400 and stops.

The models also show where a property has to stop; each of these is a behaviour of the code that a
property names as its exception, or that keeps a stronger one from holding.

- The organization's limit: leases are counted under the lock of one pool, so claims in two pools of
  an organization together exceed it. `PoolWithinLimit` is the part that holds. The comment above
  the lock (`scheduling.py:67-69`) takes the counts for accurate under concurrent load.
- The hook after a completion: when it raises, the answer is a 5xx so that the runner "can retry
  completion" (`executions/services.py:1294-1295`). The retry finds a terminal execution and is
  refused before the hook; the change stays running. `DispatchedChangeEnds` is therefore checked
  without hook faults.
- `LeaseSettled`: `fail_execution_for_approval_timeout` leaves the lease active, and the runner then
  claims nothing.
- `TargetExclusion`: a person closes a running change, which frees its targets while its runner goes
  on.
- `DispatchedChangeEnds` does not hold when the queued execution of a dispatched change is
  cancelled: the change is not told and stays dispatchable.
- A change sent back to `pending_approval` by a new window keeps its old, decided request
  (`DispatchedWindowApproved` is safe, but nobody can approve it again).
- Target locks of a dispatch that expired, or of a bound change whose runner died, are released by
  no path. `docs/implemented` names the manual repair.
- A preflight that passed is reused for five minutes, also behind a freeze rule created meanwhile
  and after the exception or session that opened a gate has ended. `DispatchWasAuthorized` says
  that it was in force at some time.
- `EmergencyEndsAtClose`: a change that its execution's end closes (failed, cancelled, or without
  verification) is closed with its reviews pending; the 11.4 blueprint (line 71) asks for them first.
  When the hook finds that the request has drifted, after an ordinary edit of the operation profile
  or the workflow, it closes the change before it ends the sessions
  (`changes/services.py:3576-3587`): they stay active until they expire or somebody ends them.
- `SealedAsRecorded`: a section that appears between the creation and the sealing of a bundle
  (external references, after a late retrospective review) is packed without an item.
- `ExportAsPromised`: a rule that names an entry it cannot decode, or without a pointer or field,
  leaves the entry as it was, and the export is ready all the same. The tests of the repository
  expect this.
- `SealedAsRecorded`, `ExportAsPromised`: a sealer or exporter that fails after the commit (its
  announcement runs inside the same `try`), or beside another sealer of the same key, removes the
  stored file of a sealed bundle (`unwound`).
- A hold on one bundle of a change protects that bundle; a cleanup that has already looked for holds
  on the change goes on with another bundle of it.
- `GroupStopped`: when the shell exits in the grace period nobody sends SIGKILL, so a process that
  ignores SIGTERM, that takes its time to handle it, or that was started after it was sent, survives.
- `StreamAsWritten`: the record of a stream does not tell that the sandbox cut it, only that the
  uploader did, and redaction may make it longer than the capture limit.
- `EvidenceComplete`: a required file without bytes is refused by the API, and nothing is recorded
  for a required key declared without a path; the step succeeds without its evidence.
- `RowsBacked`: an upload that was given up while it was at work may pass the quotas, and leave a
  second row of the same output.
- `PendingCanBeDecided` names dead ends: a runner-step check whose fact was lost or refused, whose
  step is a typed action, or that has a step key but no verification key; an artifact check whose
  artifact is missing; an API check without adapter. Such a change can only be closed by a person
  with another outcome.
- `SettledIsFinal` needs the last read of the page to succeed, and stops at the end of the
  execution: a runner whose execution was ended by the watchdog or an approval timeout may still move
  a step, of which a page whose stream is closed is told nothing.

## 7. Plan

The modules above, their runs and the proofs of section 5 are done. Every safety and action property
that a passing run checks is proved. The refinement of `ExecutionControl` by `RunnerLoop` is proved
and not in a run: with two steps its check takes longer than a run may, and `OldTokensDecideNothing`
is checked in its place. What is left is outside of these models: the approval wait of a runner that
has lost its claim, a count of the organization's leases across pools, concurrent saves of one
runner row, and the target locks that no path releases are known (section 6 and the notes of the
hazards) and would each be a run with a stronger property once the code provides for them.

## 8. Not modelled, and why

- HTTP, SQL and container actions, secrets, log streaming, resource limits: what a command does, or
  lines for display.
- Workflow and input validation, hashes, request snapshots: pure data. Drift of the submitted
  dossier (`validate_request_integrity`) is modelled where it closes a change with its emergency
  controls (`ChangeEmergency`); in `ChangeDispatch` and `ChangeVerification` it is taken not to
  happen.
- Creation of pools, tokens, operation profiles, retention and redaction policies: they are
  constants of the modules.
- `mark_overdue_retro_reviews` and `mark_breakglass_review_overdue`: no command or service calls
  them; that a review is late is computed where it is read.
- Audit rows, metrics, notifications: written beside the transitions and read by no decision. That
  an announcement can fail is modelled where the failure has an effect.
- Who may send a request (roles, tenancy), except for exceptions, reviews and attestations, where
  the four-eyes rules are part of the service.
- Auditor workspace: reads and grants over finished records.
- The rest of the web client, AI service, packages, infrastructure: no state of this system.
