---------------------------- MODULE RunnerPools ----------------------------
(***************************************************************************)
(* Runner identity and pool scheduling in the control plane: RunnerPool,   *)
(* Runner, RunnerRegistrationToken and ExecutionLease rows of one          *)
(* organization, and the requests that change them.  Sources:              *)
(* apps/api/apps/runners/services.py, scheduling.py, internal_views.py and *)
(* common/authentication.py.                                               *)
(*                                                                         *)
(* A worker of the API serves one request at a time.  What a handler reads *)
(* outside a row lock is kept in its worker's task and may be stale when   *)
(* it is used; what it reads and writes under a lock is protected by the   *)
(* lock until the handler commits.  The organization row that registration *)
(* locks as well only delays others and is left out.                       *)
(*                                                                         *)
(* What a runner does with an execution is the subject of ExecutionControl *)
(* and RunnerLoop; here a lease ends at some time (EndLease).              *)
(***************************************************************************)
EXTENDS Naturals, FiniteSets

CONSTANTS
    Operations,         \* the operators' requests that are made
    Workers,            \* API workers: requests served at the same time
    Pools,
    Fingerprints,       \* runner installations
    Tokens,             \* registration tokens
    MaxRunners,         \* bound: Runner rows
    NumExecutions,      \* executions, numbered by created_at
    PoolOf,             \* RunnerRegistrationToken.pool
    MaxRegistrations,   \* RunnerRegistrationToken.max_registrations
    MaxConcurrent,      \* RunnerPool.max_concurrent_executions
    OrgLimit,           \* RUNNER_ORG_MAX_CONCURRENT
    DefaultPools,       \* pools with default_for_non_change_executions
    ChangeBound,        \* executions with a ChangeExecutionBinding
    RoutedTo,           \* pools a change-bound execution's key admits
    Capable,            \* pools with the workflow's requiredCapabilities
    None

Runners == 1..MaxRunners
Executions == 1..NumExecutions

ASSUME PoolConstants ==
    /\ MaxRunners \in Nat
    /\ NumExecutions \in Nat
    /\ PoolOf \in [Tokens -> Pools]
    /\ MaxRegistrations \in [Tokens -> Nat \ {0}]
    /\ MaxConcurrent \in [Pools -> Nat \ {0}]
    /\ OrgLimit \in Nat
    /\ DefaultPools \subseteq Pools
    /\ Cardinality(DefaultPools) <= 1
    /\ ChangeBound \subseteq Executions
    /\ RoutedTo \in [ChangeBound -> SUBSET Pools]
    /\ Capable \in [Executions -> SUBSET Pools]
    /\ None \notin Pools \cup Tokens \cup Fingerprints \cup Runners \cup Executions
    /\ None \notin [fingerprint: Fingerprints, pool: Pools]
    /\ None \notin [token: Tokens, use: Nat \ {0}]

PoolStatus == {"active", "draining", "disabled"}
RunnerStatus == {"absent", "active", "draining", "offline", "disabled", "revoked"}
TokenStatus == {"none", "live", "expired", "revoked"}
ExecutionStatus == {"queued", "leased", "ended"}

VARIABLES
    pool,        \* RunnerPool.status
    runner,      \* Runner.status; a row not yet created is "absent"
    identity,    \* Runner.fingerprint_sha256 and Runner.pool
    credential,  \* Runner.token_hash: the registration that issued it
    revokedAt,   \* Runner.revoked_at is set
    fresh,       \* Runner.last_heartbeat_at is within RUNNER_OFFLINE_SECONDS
    token,       \* RunnerRegistrationToken.status (expires_at, revoked_at);
                 \* "none" before it is issued
    used,        \* RunnerRegistrationToken.used_count
    exec,        \* Execution.status
    holder,      \* ExecutionLease.runner
    task         \* the request each worker serves

runnerVars == <<runner, identity, credential, revokedAt, fresh>>
tokenVars == <<token, used>>
leaseVars == <<exec, holder>>
poolVars == <<pool, runner, identity, credential, revokedAt, fresh, token,
              used, exec, holder, task>>

Identity == [fingerprint: Fingerprints, pool: Pools] \cup {None}
Credential == [token: Tokens, use: Nat \ {0}] \cup {None}

(* A task: what the handler has read so far.  "runner" is the row it works *)
(* on (None when registration will create one), "exec" the execution row   *)
(* it holds.                                                               *)
Idle == [op |-> "idle"]
AdminTask == [op: {"drain_pool", "disable_pool", "reactivate_pool"}, pool: Pools]
    \cup [op: {"drain_runner", "disable_runner", "revoke_runner"}, runner: Runners]
    \cup [op: {"revoke_token"}, token: Tokens]
RegisterTask == [op: {"register"}, token: Tokens, fingerprint: Fingerprints,
                 runner: Runners \cup {None}]
AuthenticatedTask == [op: {"claim", "heartbeat"}, runner: Runners]
LoadedTask == [op: {"heartbeat_loaded", "claim_loaded"}, runner: Runners]
LeasingTask == [op: {"leasing"}, runner: Runners, exec: Executions]
Task == {Idle} \cup AdminTask \cup RegisterTask \cup AuthenticatedTask
    \cup LoadedTask \cup LeasingTask

TypeOK ==
    /\ pool \in [Pools -> PoolStatus]
    /\ runner \in [Runners -> RunnerStatus]
    /\ identity \in [Runners -> Identity]
    /\ credential \in [Runners -> Credential]
    /\ revokedAt \in [Runners -> BOOLEAN]
    /\ fresh \in [Runners -> BOOLEAN]
    /\ token \in [Tokens -> TokenStatus]
    /\ used \in [Tokens -> Nat]
    /\ exec \in [Executions -> ExecutionStatus]
    /\ holder \in [Executions -> Runners \cup {None}]
    /\ task \in [Workers -> Task]
    /\ \A r \in Runners : runner[r] # "absent" => identity[r] # None
    /\ \A e \in Executions : exec[e] = "leased" => holder[e] # None

Init ==
    /\ pool = [p \in Pools |-> "active"]
    /\ runner = [r \in Runners |-> "absent"]
    /\ identity = [r \in Runners |-> None]
    /\ credential = [r \in Runners |-> None]
    /\ revokedAt = [r \in Runners |-> FALSE]
    /\ fresh = [r \in Runners |-> FALSE]
    /\ token = [t \in Tokens |-> "none"]
    /\ used = [t \in Tokens |-> 0]
    /\ exec = [e \in Executions |-> "queued"]
    /\ holder = [e \in Executions |-> None]
    /\ task = [w \in Workers |-> Idle]

Await(w, op) == task[w].op = op
Done(w) == task' = [task EXCEPT ![w] = Idle]

-----------------------------------------------------------------------------
(* Row locks, held by the tasks that took them until they commit.          *)

(* Fault: the pool is read without select_for_update.                    *)
PoolUnlocked(p) == FALSE

PoolLocked(p) ==
    \E w \in Workers :
        \/ task[w].op = "leasing" /\ identity[task[w].runner].pool = p
        \/ task[w].op = "register" /\ PoolOf[task[w].token] = p

TokenLocked(t) == \E w \in Workers : task[w].op = "register" /\ task[w].token = t

ExecutionLocked(e) == \E w \in Workers : task[w].op = "leasing" /\ task[w].exec = e

-----------------------------------------------------------------------------
(* Operators' requests.  The row is read and its status checked without a  *)
(* lock, and the new status is written later over whatever is there.       *)

PoolRefusals == [drain_pool |-> {"disabled", "draining"},
                 disable_pool |-> {"disabled"},
                 reactivate_pool |-> {"active"}]
PoolOutcome == [drain_pool |-> "draining", disable_pool |-> "disabled",
                reactivate_pool |-> "active"]

LoadPool(w, op, p) ==
    /\ Await(w, "idle") /\ op \in Operations
    /\ pool[p] \notin PoolRefusals[op]
    /\ task' = [task EXCEPT ![w] = [op |-> op, pool |-> p]]
    /\ UNCHANGED <<pool, runnerVars, tokenVars, leaseVars>>

SavePool(w, op) ==
    /\ Await(w, op)
    /\ ~PoolLocked(task[w].pool)
    /\ pool' = [pool EXCEPT ![task[w].pool] = PoolOutcome[op]]
    /\ Done(w)
    /\ UNCHANGED <<runnerVars, tokenVars, leaseVars>>

RunnerRefusals == [drain_runner |-> {"disabled", "revoked", "draining"},
                   disable_runner |-> {"disabled", "revoked"},
                   revoke_runner |-> {"revoked"}]
RunnerOutcome == [drain_runner |-> "draining", disable_runner |-> "disabled",
                  revoke_runner |-> "revoked"]

LoadRunner(w, op, r) ==
    /\ Await(w, "idle") /\ op \in Operations
    /\ runner[r] \notin {"absent"} \cup RunnerRefusals[op]
    /\ task' = [task EXCEPT ![w] = [op |-> op, runner |-> r]]
    /\ UNCHANGED <<pool, runnerVars, tokenVars, leaseVars>>

SaveRunner(w, op) ==
    /\ Await(w, op)
    /\ LET r == task[w].runner IN
        /\ runner' = [runner EXCEPT ![r] = RunnerOutcome[op]]
        /\ revokedAt' = [revokedAt EXCEPT ![r] = @ \/ op = "revoke_runner"]
    /\ Done(w)
    /\ UNCHANGED <<pool, identity, credential, fresh, tokenVars, leaseVars>>

(* An insert of one row; the clear token is shown to the operator once.    *)
CreateRegistrationToken(t) ==
    /\ token[t] = "none"
    /\ token' = [token EXCEPT ![t] = "live"]
    /\ UNCHANGED <<pool, runnerVars, used, leaseVars, task>>

LoadToken(w, t) ==
    /\ Await(w, "idle") /\ "revoke_token" \in Operations
    /\ token[t] \notin {"none", "revoked"}
    /\ task' = [task EXCEPT ![w] = [op |-> "revoke_token", token |-> t]]
    /\ UNCHANGED <<pool, runnerVars, tokenVars, leaseVars>>

SaveToken(w) ==
    /\ Await(w, "revoke_token")
    /\ ~TokenLocked(task[w].token)
    /\ token' = [token EXCEPT ![task[w].token] = "revoked"]
    /\ Done(w)
    /\ UNCHANGED <<pool, runnerVars, used, leaseVars>>

-----------------------------------------------------------------------------
(* Registration.  The token row is locked together with its pool's (the    *)
(* select_for_update covers the joined rows); the runner row is not.       *)

(* Fault: used_count is not compared with max_registrations.             *)
TokenUsableAgain(t) == token[t] = "live" /\ pool[PoolOf[t]] = "active"

TokenUsable(t) ==
    /\ token[t] = "live"
    /\ used[t] < MaxRegistrations[t]
    /\ pool[PoolOf[t]] = "active"

(* Fault: a disabled row is not recognised.                              *)
RegisteredEnabled(f, p) ==
    {r \in Runners : /\ identity[r] = [fingerprint |-> f, pool |-> p]
                     /\ runner[r] \notin {"revoked", "disabled"}}

(* The rows of this installation in this pool that may be reused.          *)
Registered(f, p) ==
    {r \in Runners : /\ identity[r] = [fingerprint |-> f, pool |-> p]
                     /\ runner[r] # "revoked"}

BeginRegistration(w, t, f) ==
    /\ Await(w, "idle")
    /\ ~TokenLocked(t)
    /\ ~PoolLocked(PoolOf[t])
    /\ TokenUsable(t)
    /\ LET old == Registered(f, PoolOf[t]) IN
       \E r \in (IF old = {} THEN {None} ELSE old) :
         task' = [task EXCEPT ![w] =
                    [op |-> "register", token |-> t, fingerprint |-> f, runner |-> r]]
    /\ UNCHANGED <<pool, runnerVars, tokenVars, leaseVars>>

(* The row is made active and its bearer token rotated, whatever has been  *)
(* written to the row since it was read.                                   *)
FinishRegistration(w, r) ==
    /\ Await(w, "register")
    /\ IF task[w].runner = None
       THEN runner[r] = "absent" /\ \A x \in 1..(r - 1) : runner[x] # "absent"
       ELSE r = task[w].runner
    /\ LET t == task[w].token IN
        /\ runner' = [runner EXCEPT ![r] = "active"]
        /\ identity' = [identity EXCEPT ![r] =
                          [fingerprint |-> task[w].fingerprint, pool |-> PoolOf[t]]]
        /\ credential' = [credential EXCEPT ![r] = [token |-> t, use |-> used[t] + 1]]
        /\ fresh' = [fresh EXCEPT ![r] = TRUE]
        /\ used' = [used EXCEPT ![t] = @ + 1]
    /\ Done(w)
    /\ UNCHANGED <<pool, revokedAt, token, leaseVars>>

-----------------------------------------------------------------------------
(* Requests of a runner.  Authentication reads the row the bearer token    *)
(* names, and the handler reads it again.                                  *)

Authenticate(w, op, r) ==
    /\ Await(w, "idle")
    /\ runner[r] \notin {"absent", "revoked", "disabled"}
    /\ task' = [task EXCEPT ![w] = [op |-> op, runner |-> r]]
    /\ UNCHANGED <<pool, runnerVars, tokenVars, leaseVars>>

HeartbeatLoad(w) ==
    /\ Await(w, "heartbeat")
    /\ task' = [task EXCEPT ![w] =
                  IF runner[task[w].runner] \in {"revoked", "disabled", "offline"}
                  THEN Idle
                  ELSE [op |-> "heartbeat_loaded", runner |-> task[w].runner]]
    /\ UNCHANGED <<pool, runnerVars, tokenVars, leaseVars>>

(* Only the liveness fields are saved.                                     *)
HeartbeatSave(w) ==
    /\ Await(w, "heartbeat_loaded")
    /\ fresh' = [fresh EXCEPT ![task[w].runner] = TRUE]
    /\ Done(w)
    /\ UNCHANGED <<pool, runner, identity, credential, revokedAt, tokenVars, leaseVars>>


Leases == {e \in Executions : exec[e] = "leased"}
RunnerLeases(r) == {e \in Leases : holder[e] = r}
PoolLeases(p) == {e \in Leases : identity[holder[e]].pool = p}

(* The runner's status is checked on the row just read.                    *)
ClaimLoad(w) ==
    /\ Await(w, "claim")
    /\ LET r == task[w].runner IN
       task' = [task EXCEPT ![w] =
                  IF runner[r] = "active"
                  THEN [op |-> "claim_loaded", runner |-> r]
                  ELSE Idle]
    /\ UNCHANGED <<pool, runnerVars, tokenVars, leaseVars>>

(* Fault: the pool's limit is not checked.                                 *)
BelowRunnerLimit(r, p) == RunnerLeases(r) = {} /\ Cardinality(Leases) < OrgLimit

BelowLimits(r, p) ==
    /\ RunnerLeases(r) = {}
    /\ Cardinality(PoolLeases(p)) < MaxConcurrent[p]
    /\ Cardinality(Leases) < OrgLimit

(* _execution_eligible_for_pool, and the capability check.                 *)
Eligible(e, p) ==
    /\ p \in Capable[e]
    /\ IF e \in ChangeBound
       THEN p \in RoutedTo[e]
       ELSE p \in DefaultPools \/ \A q \in DefaultPools : pool[q] # "active"

(* Under the pool's lock: the pool's status, the limits, and the oldest    *)
(* eligible execution whose row no other claim holds.  Change-bound        *)
(* executions met on the way whose dispatch has expired ("late") end.      *)
ClaimSelect(w) ==
    LET r == task[w].runner
        p == identity[r].pool
        open == {e \in Executions : exec[e] = "queued" /\ ~ExecutionLocked(e)}
    IN  /\ Await(w, "claim_loaded")
        /\ ~PoolLocked(p)
        /\ IF pool[p] = "active" /\ BelowLimits(r, p)
           THEN \E late \in SUBSET (open \cap ChangeBound) :
                  LET found == {e \in open \ late : Eligible(e, p)} IN
                  /\ \A e \in found, l \in late : l < e
                  /\ exec' = [e \in Executions |->
                                 IF e \in late THEN "ended" ELSE exec[e]]
                  /\ IF found = {}
                     THEN Done(w)
                     ELSE \E e \in found :
                            /\ \A f \in found : e <= f
                            /\ task' = [task EXCEPT ![w] =
                                  [op |-> "leasing", runner |-> r, exec |-> e]]
           ELSE Done(w) /\ UNCHANGED exec
        /\ UNCHANGED <<pool, runnerVars, tokenVars, holder>>

(* The claim and its lease commit together.                                *)
GrantLease(w) ==
    /\ Await(w, "leasing")
    /\ exec' = [exec EXCEPT ![task[w].exec] = "leased"]
    /\ holder' = [holder EXCEPT ![task[w].exec] = task[w].runner]
    /\ Done(w)
    /\ UNCHANGED <<pool, runnerVars, tokenVars>>

(* The execution completes, fails or is recovered, and its lease with it.  *)
EndLease(e) ==
    /\ exec[e] = "leased"
    /\ exec' = [exec EXCEPT ![e] = "ended"]
    /\ UNCHANGED <<pool, runnerVars, tokenVars, holder, task>>

-----------------------------------------------------------------------------
(* Time, the watchdog and failures of the API itself.                      *)

HeartbeatAges(r) ==
    /\ fresh[r]
    /\ fresh' = [fresh EXCEPT ![r] = FALSE]
    /\ UNCHANGED <<pool, runner, identity, credential, revokedAt, tokenVars,
                   leaseVars, task>>

MarkOffline(r) ==
    /\ runner[r] \in {"active", "draining"}
    /\ ~fresh[r]
    /\ runner' = [runner EXCEPT ![r] = "offline"]
    /\ UNCHANGED <<pool, identity, credential, revokedAt, fresh, tokenVars,
                   leaseVars, task>>

TokenExpires(t) ==
    /\ token[t] = "live"
    /\ token' = [token EXCEPT ![t] = "expired"]
    /\ UNCHANGED <<pool, runnerVars, used, leaseVars, task>>

(* The worker dies and its transaction is rolled back.                     *)
WorkerDies(w) ==
    /\ ~Await(w, "idle")
    /\ Done(w)
    /\ UNCHANGED <<pool, runnerVars, tokenVars, leaseVars>>

Serve(w) ==
    \/ \E op \in DOMAIN PoolOutcome, p \in Pools : LoadPool(w, op, p)
    \/ \E op \in DOMAIN PoolOutcome : SavePool(w, op)
    \/ \E op \in DOMAIN RunnerOutcome, r \in Runners : LoadRunner(w, op, r)
    \/ \E op \in DOMAIN RunnerOutcome : SaveRunner(w, op)
    \/ \E t \in Tokens : LoadToken(w, t)
    \/ SaveToken(w)
    \/ \E t \in Tokens, f \in Fingerprints : BeginRegistration(w, t, f)
    \/ \E r \in Runners : FinishRegistration(w, r)
    \/ \E op \in {"claim", "heartbeat"}, r \in Runners : Authenticate(w, op, r)
    \/ HeartbeatLoad(w)
    \/ HeartbeatSave(w)
    \/ ClaimLoad(w)
    \/ ClaimSelect(w)
    \/ GrantLease(w)
    \/ WorkerDies(w)

Next ==
    \/ \E w \in Workers : Serve(w)
    \/ \E r \in Runners : HeartbeatAges(r) \/ MarkOffline(r)
    \/ \E t \in Tokens : CreateRegistrationToken(t) \/ TokenExpires(t)
    \/ \E e \in Executions : EndLease(e)

Spec == Init /\ [][Next]_poolVars

-----------------------------------------------------------------------------
(* Safety.                                                                 *)

(* A pool never has more active leases than max_concurrent_executions,     *)
(* however many of its runners claim at once: the limit is checked before  *)
(* the lease exists, and the pool's row lock must cover both.              *)
PoolWithinLimit ==
    \A p \in Pools : Cardinality(PoolLeases(p)) <= MaxConcurrent[p]

(* A registration token issues at most max_registrations credentials, with *)
(* any number of installations registering at the same time.               *)
RegistrationsCounted ==
    \A t \in Tokens :
        /\ used[t] <= MaxRegistrations[t]
        /\ Cardinality({r \in Runners : /\ credential[r] # None
                                        /\ credential[r].token = t}) <= used[t]

(* Registering again never gives an installation a second row in its pool, *)
(* unless a row of it was revoked: "can re-register idempotently".         *)
OneIdentity ==
    \A q, r \in Runners :
        q # r /\ identity[q] # None /\ identity[q] = identity[r]
            => revokedAt[q] \/ revokedAt[r]

(* An operator's stop is respected by the requests it overtakes.  Once the *)
(* revocation of a registration token or the drain of its pool has been    *)
(* answered, no registration that uses the token takes effect; and a       *)
(* draining or disabled pool gets no new lease, although the claim was let *)
(* in while it was active.                                                 *)
StopIsRespected ==
    [][/\ \A r \in Runners :
            credential'[r] # credential[r]
                => LET t == credential'[r].token IN
                   token[t] # "revoked" /\ pool[PoolOf[t]] = "active"
       /\ \A e \in Executions :
            exec[e] = "queued" /\ exec'[e] = "leased"
                => pool[identity[holder'[e]].pool] = "active"]_poolVars
=============================================================================
