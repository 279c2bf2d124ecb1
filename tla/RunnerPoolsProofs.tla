------------------------- MODULE RunnerPoolsProofs -------------------------
(***************************************************************************)
(* Machine-checked proofs about RunnerPools, for any numbers of workers,   *)
(* pools, runners, installations, registration tokens and executions.      *)
(***************************************************************************)
EXTENDS RunnerPools, FiniteSetTheorems, TLAPS

-----------------------------------------------------------------------------
(* Requests being served.                                                  *)

PoolOps == {"drain_pool", "disable_pool", "reactivate_pool"}
RunnerOps == {"drain_runner", "disable_runner", "revoke_runner"}

(* Tasks that work on the row of a runner that has been registered.        *)
RowOps == RunnerOps \cup {"claim", "heartbeat", "heartbeat_loaded", "claim_loaded",
                          "leasing"}

(* What a handler may rely on about the fields of its task.                *)
LEMMA TaskFields ==
    ASSUME NEW x \in Task
    PROVE  /\ x.op \in {"idle", "register", "revoke_token"} \cup PoolOps \cup RowOps
           /\ x.op \in PoolOps => x.pool \in Pools
           /\ x.op \in RowOps => x.runner \in Runners
           /\ x.op = "revoke_token" => x.token \in Tokens
           /\ x.op = "register" => /\ x.token \in Tokens
                                   /\ x.fingerprint \in Fingerprints
                                   /\ x.runner \in Runners \cup {None}
           /\ x.op = "leasing" => x.exec \in Executions
BY DEF Task, Idle, AdminTask, RegisterTask, AuthenticatedTask, LoadedTask,
       LeasingTask, PoolOps, RowOps, RunnerOps

(* The tasks that requests begin, and their later stages, are well-formed. *)
LEMMA TasksTyped ==
    /\ Idle \in Task
    /\ \A op \in PoolOps, p \in Pools : [op |-> op, pool |-> p] \in Task
    /\ \A op \in RunnerOps \cup {"claim", "heartbeat", "heartbeat_loaded", "claim_loaded"},
          r \in Runners : [op |-> op, runner |-> r] \in Task
    /\ \A t \in Tokens : [op |-> "revoke_token", token |-> t] \in Task
    /\ \A t \in Tokens, f \in Fingerprints, r \in Runners \cup {None} :
          [op |-> "register", token |-> t, fingerprint |-> f, runner |-> r] \in Task
    /\ \A r \in Runners, e \in Executions :
          [op |-> "leasing", runner |-> r, exec |-> e] \in Task
BY DEF Task, Idle, AdminTask, RegisterTask, AuthenticatedTask, LoadedTask,
       LeasingTask, PoolOps, RunnerOps

(* What the operators' requests write.                                     *)
LEMMA Outcomes ==
    /\ DOMAIN PoolOutcome = PoolOps
    /\ \A op \in PoolOps : PoolOutcome[op] \in PoolStatus
    /\ DOMAIN RunnerOutcome = RunnerOps
    /\ \A op \in RunnerOps : RunnerOutcome[op] \in RunnerStatus \ {"absent"}
    /\ \A op \in RunnerOps : RunnerOutcome[op] = "revoked" <=> op = "revoke_runner"
BY DEF PoolOutcome, RunnerOutcome, PoolOps, RunnerOps, PoolStatus, RunnerStatus

-----------------------------------------------------------------------------
(* Rows.                                                                   *)

TaskIdentity(w) == [fingerprint |-> task[w].fingerprint, pool |-> PoolOf[task[w].token]]

(* A row has an identity as soon as it exists, and every lease and every   *)
(* task names a row that exists; a registration that reuses a row reuses   *)
(* the row of its own installation in its own pool.                        *)
RowInv ==
    /\ \A r \in Runners : runner[r] = "absent" <=> identity[r] = None
    /\ \A e \in Executions : holder[e] # None => identity[holder[e]] # None
    /\ \A w \in Workers : task[w].op \in RowOps => identity[task[w].runner] # None
    /\ \A w \in Workers : task[w].op = "register" /\ task[w].runner # None
          => identity[task[w].runner] = TaskIdentity(w)

(* Once a row has an identity it keeps it: no step but the end of a        *)
(* registration touches an identity, and that writes what is there.        *)
IdentityKept ==
    \A r \in Runners : identity[r] # None => identity'[r] = identity[r]

(* The row that a registration writes.                                     *)
LEMMA RegisteredRow ==
    ASSUME TypeOK, RowInv, NEW w \in Workers, NEW r \in Runners, FinishRegistration(w, r)
    PROVE  /\ task[w] \in Task /\ task[w].op = "register"
           /\ task[w].token \in Tokens /\ task[w].fingerprint \in Fingerprints
           /\ TaskIdentity(w) \in Identity /\ TaskIdentity(w) # None
           /\ identity' = [identity EXCEPT ![r] = TaskIdentity(w)]
           /\ identity[r] \in {None, TaskIdentity(w)}
           /\ task[w].runner = None => identity[r] = None
           /\ task[w].runner # None => r = task[w].runner
<1>1. task[w] \in Task /\ task[w].op = "register"
  BY DEF TypeOK, FinishRegistration, Await
<1>2. task[w].token \in Tokens /\ task[w].fingerprint \in Fingerprints
  BY <1>1, TaskFields
<1>3. TaskIdentity(w) \in [fingerprint: Fingerprints, pool: Pools]
  BY <1>2, PoolConstants DEF TaskIdentity
<1>4. identity' = [identity EXCEPT ![r] = TaskIdentity(w)]
  BY DEF FinishRegistration, TaskIdentity
<1>5. CASE task[w].runner = None
  <2>1. identity[r] = None
    BY <1>5 DEF FinishRegistration, RowInv
  <2> QED
    BY <1>1, <1>2, <1>3, <1>4, <1>5, <2>1, PoolConstants DEF Identity
<1>6. CASE task[w].runner # None
  <2>1. r = task[w].runner
    BY <1>6 DEF FinishRegistration
  <2>2. identity[r] = TaskIdentity(w)
    BY <1>1, <1>6, <2>1 DEF RowInv
  <2> QED
    BY <1>1, <1>2, <1>3, <1>4, <1>6, <2>1, <2>2, PoolConstants DEF Identity
<1> QED
  BY <1>5, <1>6

LEMMA IdentityStep ==
    ASSUME TypeOK, RowInv, [Next]_poolVars
    PROVE  /\ UNCHANGED <<identity, credential, used>>
              \/ \E w \in Workers, r \in Runners : FinishRegistration(w, r)
           /\ IdentityKept
<1> USE DEF runnerVars, tokenVars, leaseVars
<1>1. UNCHANGED <<identity, credential, used>>
         \/ \E w \in Workers, r \in Runners : FinishRegistration(w, r)
  <2>1. CASE UNCHANGED poolVars
    BY <2>1 DEF poolVars
  <2>2. ASSUME NEW w \in Workers, Serve(w)
        PROVE  UNCHANGED <<identity, credential, used>>
                  \/ \E r \in Runners : FinishRegistration(w, r)
    BY <2>2 DEF Serve, LoadPool, SavePool, LoadRunner, SaveRunner, LoadToken, SaveToken,
                BeginRegistration, Authenticate, HeartbeatLoad, HeartbeatSave,
                ClaimLoad, ClaimSelect, GrantLease, WorkerDies
  <2>3. CASE \/ \E r \in Runners : HeartbeatAges(r) \/ MarkOffline(r)
             \/ \E t \in Tokens : CreateRegistrationToken(t) \/ TokenExpires(t)
             \/ \E e \in Executions : EndLease(e)
    BY <2>3 DEF HeartbeatAges, MarkOffline, CreateRegistrationToken, TokenExpires,
                EndLease
  <2> QED
    BY <2>1, <2>2, <2>3 DEF Next
<1>2. ASSUME NEW w \in Workers, NEW r \in Runners, FinishRegistration(w, r)
      PROVE  IdentityKept
  BY <1>2, RegisteredRow DEF IdentityKept, TypeOK
<1> QED
  BY <1>1, <1>2 DEF IdentityKept

LEMMA TaskIdentityTyped ==
    ASSUME TypeOK, NEW w \in Workers, task[w].op = "register"
    PROVE  TaskIdentity(w) \in [fingerprint: Fingerprints, pool: Pools] /\ TaskIdentity(w) # None
<1>1. task[w].token \in Tokens /\ task[w].fingerprint \in Fingerprints
  BY TaskFields DEF TypeOK
<1> QED
  BY <1>1, PoolConstants DEF TaskIdentity

(* No request, clock, watchdog or failing worker leaves the types of the   *)
(* rows, or loses sight of the row it works on.                            *)
LEMMA TypeInductive ==
    ASSUME TypeOK, RowInv, [Next]_poolVars
    PROVE  TypeOK' /\ RowInv'
<1>0. /\ pool \in [Pools -> PoolStatus] /\ runner \in [Runners -> RunnerStatus]
      /\ identity \in [Runners -> Identity] /\ credential \in [Runners -> Credential]
      /\ revokedAt \in [Runners -> BOOLEAN] /\ fresh \in [Runners -> BOOLEAN]
      /\ token \in [Tokens -> TokenStatus] /\ used \in [Tokens -> Nat]
      /\ exec \in [Executions -> ExecutionStatus]
      /\ holder \in [Executions -> Runners \cup {None}] /\ task \in [Workers -> Task]
  BY DEF TypeOK
<1>k. None \notin Runners
  BY PoolConstants
<1>i. IdentityKept
  BY IdentityStep
<1> USE <1>k DEF runnerVars, tokenVars, leaseVars
<1> DEFINE Rows ==
      /\ \A r \in Runners : runner[r] = "absent" <=> identity[r] = None
      /\ \A e \in Executions : holder[e] # None => identity[holder[e]] # None
      /\ \A e \in Executions : exec[e] = "leased" => holder[e] # None
    TaskNames(w) ==
      /\ task[w].op \in RowOps => identity[task[w].runner] # None
      /\ task[w].op = "register" /\ task[w].runner # None
            => identity[task[w].runner] = TaskIdentity(w)
    Typed ==
      /\ pool \in [Pools -> PoolStatus] /\ runner \in [Runners -> RunnerStatus]
      /\ identity \in [Runners -> Identity] /\ credential \in [Runners -> Credential]
      /\ revokedAt \in [Runners -> BOOLEAN] /\ fresh \in [Runners -> BOOLEAN]
      /\ token \in [Tokens -> TokenStatus] /\ used \in [Tokens -> Nat]
      /\ exec \in [Executions -> ExecutionStatus]
      /\ holder \in [Executions -> Runners \cup {None}]
<1>r. Rows
  BY DEF TypeOK, RowInv
<1>s. (Typed /\ Rows)' /\ task' \in [Workers -> Task] /\ (\A w \in Workers : TaskNames(w)')
         => TypeOK' /\ RowInv'
  BY DEF TypeOK, RowInv, TaskIdentity
<1>t. ASSUME NEW w \in Workers, NEW x \in Task, task' = [task EXCEPT ![w] = x],
             x.op \notin RowOps, x.op # "register"
      PROVE  task' \in [Workers -> Task] /\ \A v \in Workers : TaskNames(v)'
  <2>1. task' \in [Workers -> Task]
    BY <1>0, <1>t
  <2>2. ASSUME NEW v \in Workers
        PROVE  TaskNames(v)'
    <3>1. CASE v = w
      BY <1>0, <1>t, <3>1
    <3>2. CASE v # w
      <4>1. task'[v] = task[v] /\ task[v] \in Task
        BY <1>0, <1>t, <3>2
      <4>2. task[v].op \in RowOps => task[v].runner \in Runners
        BY <4>1, TaskFields
      <4>3. task[v].op = "register" => task[v].runner \in Runners \cup {None}
        BY <4>1, TaskFields
      <4> QED
        BY <1>i, <4>1, <4>2, <4>3, TaskIdentityTyped DEF RowInv, IdentityKept, TaskIdentity
    <3> QED
      BY <3>1, <3>2
  <2> QED
    BY <2>1, <2>2
<1>u. ASSUME NEW w \in Workers, NEW x \in Task, task' = [task EXCEPT ![w] = x],
             x.op \in RowOps => identity[x.runner] # None,
             x.op = "register" /\ x.runner # None =>
               identity[x.runner] = [fingerprint |-> x.fingerprint, pool |-> PoolOf[x.token]],
             UNCHANGED identity
      PROVE  task' \in [Workers -> Task] /\ \A v \in Workers : TaskNames(v)'
  <2>1. task' \in [Workers -> Task]
    BY <1>0, <1>u
  <2>2. \A v \in Workers : TaskNames(v)
    BY DEF RowInv
  <2>3. ASSUME NEW v \in Workers
        PROVE  TaskNames(v)'
    <3>1. CASE v = w
      BY <1>0, <1>u, <3>1 DEF TaskIdentity
    <3>2. CASE v # w
      BY <1>0, <1>u, <2>2, <3>2 DEF TaskIdentity
    <3> QED
      BY <3>1, <3>2
  <2> QED
    BY <2>1, <2>3
<1>v. UNCHANGED task => task' \in [Workers -> Task] /\ \A v \in Workers : TaskNames(v)'
  <2>1. ASSUME UNCHANGED task, NEW v \in Workers
        PROVE  TaskNames(v)'
    <3>1. task'[v] = task[v] /\ task[v] \in Task
      BY <1>0, <2>1
    <3>2. /\ task[v].op \in RowOps => task[v].runner \in Runners
          /\ task[v].op = "register" => task[v].runner \in Runners \cup {None}
      BY <3>1, TaskFields
    <3> QED
      BY <1>i, <3>1, <3>2, TaskIdentityTyped DEF RowInv, IdentityKept, TaskIdentity
  <2> QED
    BY <1>0, <2>1
<1>id. Idle \in Task /\ Idle.op \notin RowOps /\ Idle.op # "register"
  BY TasksTyped DEF Idle, RowOps, RunnerOps
<1>f. ASSUME NEW w \in Workers
      PROVE  /\ task[w] \in Task
             /\ task[w].op \in PoolOps => task[w].pool \in Pools
             /\ task[w].op \in RowOps => task[w].runner \in Runners /\ identity[task[w].runner] # None
             /\ task[w].op = "revoke_token" => task[w].token \in Tokens
             /\ task[w].op = "leasing" => task[w].exec \in Executions
  BY <1>0, TaskFields DEF RowInv
<1> HIDE DEF Rows, TaskNames, Typed
<1>1. CASE UNCHANGED poolVars
  <2>1. (Typed /\ Rows)'
    BY <1>0, <1>1, <1>r DEF Typed, Rows, poolVars
  <2> QED
    BY <1>1, <1>s, <1>v, <2>1 DEF poolVars
<1>2. ASSUME NEW w \in Workers, Serve(w)
      PROVE  TypeOK' /\ RowInv'
  <2>1. ASSUME NEW op \in PoolOps, NEW p \in Pools, LoadPool(w, op, p)
        PROVE  TypeOK' /\ RowInv'
    <3>1. (Typed /\ Rows)'
      BY <1>0, <1>r, <2>1 DEF Typed, Rows, LoadPool
    <3>2. [op |-> op, pool |-> p] \in Task /\ op \notin RowOps /\ op # "register"
      BY TasksTyped DEF PoolOps, RowOps, RunnerOps
    <3> QED
      BY <1>s, <1>t, <2>1, <3>1, <3>2 DEF LoadPool
  <2>2. ASSUME NEW op \in PoolOps, SavePool(w, op)
        PROVE  TypeOK' /\ RowInv'
    <3>1. (Typed /\ Rows)'
      BY <1>0, <1>r, <2>2, Outcomes DEF Typed, Rows, SavePool
    <3> QED
      BY <1>s, <1>t, <1>id, <2>2, <3>1 DEF SavePool, Done
  <2>3. ASSUME NEW op \in RunnerOps, NEW r \in Runners, LoadRunner(w, op, r)
        PROVE  TypeOK' /\ RowInv'
    <3>1. (Typed /\ Rows)'
      BY <1>0, <1>r, <2>3 DEF Typed, Rows, LoadRunner
    <3>2. [op |-> op, runner |-> r] \in Task /\ op # "register"
      BY TasksTyped DEF RunnerOps
    <3>3. identity[r] # None
      BY <1>r, <2>3 DEF LoadRunner, Rows
    <3>4. task' = [task EXCEPT ![w] = [op |-> op, runner |-> r]] /\ UNCHANGED identity
      BY <2>3 DEF LoadRunner
    <3> QED
      BY <1>s, <1>u, <3>1, <3>2, <3>3, <3>4
  <2>4. ASSUME NEW op \in RunnerOps, SaveRunner(w, op)
        PROVE  TypeOK' /\ RowInv'
    <3>1. task[w].runner \in Runners /\ identity[task[w].runner] # None
      BY <1>f, <2>4 DEF SaveRunner, Await, RowOps
    <3>2. RunnerOutcome[op] \in RunnerStatus /\ RunnerOutcome[op] # "absent"
      BY Outcomes
    <3>3. Typed'
      BY <1>0, <2>4, <3>1, <3>2 DEF Typed, SaveRunner
    <3>4. Rows'
      BY <1>0, <1>r, <2>4, <3>1, <3>2 DEF Rows, SaveRunner
    <3> QED
      BY <1>s, <1>t, <1>id, <2>4, <3>3, <3>4 DEF SaveRunner, Done
  <2>5. ASSUME NEW t \in Tokens, LoadToken(w, t)
        PROVE  TypeOK' /\ RowInv'
    <3>1. (Typed /\ Rows)'
      BY <1>0, <1>r, <2>5 DEF Typed, Rows, LoadToken
    <3>2. [op |-> "revoke_token", token |-> t] \in Task
      BY TasksTyped
    <3> QED
      BY <1>s, <1>t, <2>5, <3>1, <3>2 DEF LoadToken, RowOps, RunnerOps
  <2>6. CASE SaveToken(w)
    <3>1. (Typed /\ Rows)'
      BY <1>0, <1>r, <2>6 DEF Typed, Rows, SaveToken, TokenStatus
    <3> QED
      BY <1>s, <1>t, <1>id, <2>6, <3>1 DEF SaveToken, Done
  <2>7. ASSUME NEW t \in Tokens, NEW f \in Fingerprints, BeginRegistration(w, t, f)
        PROVE  TypeOK' /\ RowInv'
    <3>1. (Typed /\ Rows)'
      BY <1>0, <1>r, <2>7 DEF Typed, Rows, BeginRegistration
    <3>2. PICK r \in Runners \cup {None} :
             /\ r # None => identity[r] = [fingerprint |-> f, pool |-> PoolOf[t]]
             /\ task' = [task EXCEPT ![w] =
                   [op |-> "register", token |-> t, fingerprint |-> f, runner |-> r]]
      BY <2>7 DEF BeginRegistration, Registered
    <3>3. [op |-> "register", token |-> t, fingerprint |-> f, runner |-> r] \in Task
      BY TasksTyped
    <3>4. UNCHANGED identity
      BY <2>7 DEF BeginRegistration
    <3> QED
      BY <1>s, <1>u, <3>1, <3>2, <3>3, <3>4 DEF RowOps, RunnerOps
  <2>8. ASSUME NEW r \in Runners, FinishRegistration(w, r)
        PROVE  TypeOK' /\ RowInv'
    <3>1. /\ task[w].token \in Tokens /\ TaskIdentity(w) \in Identity
          /\ TaskIdentity(w) # None
          /\ identity' = [identity EXCEPT ![r] = TaskIdentity(w)]
      BY <2>8, RegisteredRow
    <3>2. [token |-> task[w].token, use |-> used[task[w].token] + 1] \in Credential
      BY <1>0, <3>1 DEF Credential
    <3>3. Typed'
      BY <1>0, <2>8, <3>1, <3>2 DEF Typed, FinishRegistration, RunnerStatus
    <3>4. Rows'
      BY <1>0, <1>i, <1>r, <2>8, <3>1 DEF Rows, FinishRegistration, IdentityKept
    <3> QED
      BY <1>s, <1>t, <1>id, <2>8, <3>3, <3>4 DEF FinishRegistration, Done
  <2>9. ASSUME NEW op \in {"claim", "heartbeat"}, NEW r \in Runners, Authenticate(w, op, r)
        PROVE  TypeOK' /\ RowInv'
    <3>1. (Typed /\ Rows)'
      BY <1>0, <1>r, <2>9 DEF Typed, Rows, Authenticate
    <3>2. [op |-> op, runner |-> r] \in Task /\ op # "register"
      BY TasksTyped
    <3>3. identity[r] # None
      BY <1>r, <2>9 DEF Authenticate, Rows
    <3>4. task' = [task EXCEPT ![w] = [op |-> op, runner |-> r]] /\ UNCHANGED identity
      BY <2>9 DEF Authenticate
    <3> QED
      BY <1>s, <1>u, <3>1, <3>2, <3>3, <3>4
  <2>10. ASSUME Done(w), UNCHANGED <<pool, runnerVars, tokenVars, leaseVars>>
         PROVE  TypeOK' /\ RowInv'
    <3>1. (Typed /\ Rows)'
      BY <1>0, <1>r, <2>10 DEF Typed, Rows
    <3> QED
      BY <1>s, <1>t, <1>id, <2>10, <3>1 DEF Done
  <2>a. ASSUME NEW op \in {"heartbeat_loaded", "claim_loaded"},
               task[w].runner \in Runners, identity[task[w].runner] # None,
               task' = [task EXCEPT ![w] = [op |-> op, runner |-> task[w].runner]],
               UNCHANGED <<pool, runnerVars, tokenVars, leaseVars>>
         PROVE  TypeOK' /\ RowInv'
    <3>1. (Typed /\ Rows)'
      BY <1>0, <1>r, <2>a DEF Typed, Rows
    <3>2. [op |-> op, runner |-> task[w].runner] \in Task
      BY <2>a, TasksTyped
    <3> QED
      BY <1>s, <1>u, <2>a, <3>1, <3>2
  <2>11. CASE HeartbeatLoad(w)
    <3>1. task[w].runner \in Runners /\ identity[task[w].runner] # None
      BY <1>f, <2>11 DEF HeartbeatLoad, Await, RowOps
    <3>2. /\ Done(w) \/ task' = [task EXCEPT ![w] =
                            [op |-> "heartbeat_loaded", runner |-> task[w].runner]]
          /\ UNCHANGED <<pool, runnerVars, tokenVars, leaseVars>>
      BY <2>11 DEF HeartbeatLoad, Done
    <3> QED
      BY <2>10, <2>a, <3>1, <3>2
  <2>12. CASE ClaimLoad(w)
    <3>1. task[w].runner \in Runners /\ identity[task[w].runner] # None
      BY <1>f, <2>12 DEF ClaimLoad, Await, RowOps
    <3>2. /\ Done(w) \/ task' = [task EXCEPT ![w] =
                            [op |-> "claim_loaded", runner |-> task[w].runner]]
          /\ UNCHANGED <<pool, runnerVars, tokenVars, leaseVars>>
      BY <2>12 DEF ClaimLoad, Done
    <3> QED
      BY <2>10, <2>a, <3>1, <3>2
  <2>13. CASE HeartbeatSave(w)
    <3>1. (Typed /\ Rows)'
      BY <1>0, <1>r, <2>13 DEF Typed, Rows, HeartbeatSave
    <3> QED
      BY <1>s, <1>t, <1>id, <2>13, <3>1 DEF HeartbeatSave, Done
  <2>14. CASE ClaimSelect(w)
    <3>1. task[w].runner \in Runners /\ identity[task[w].runner] # None
      BY <1>f, <2>14 DEF ClaimSelect, Await, RowOps
    <3>2. UNCHANGED <<pool, runnerVars, tokenVars, holder>>
      BY <2>14 DEF ClaimSelect
    <3>3. /\ exec' \in [Executions -> ExecutionStatus]
          /\ \A e \in Executions : exec'[e] = "leased" => exec[e] = "leased"
      BY <1>0, <2>14 DEF ClaimSelect, ExecutionStatus
    <3>4. (Typed /\ Rows)'
      BY <1>0, <1>r, <3>2, <3>3 DEF Typed, Rows
    <3>5. CASE Done(w)
      BY <1>s, <1>t, <1>id, <3>4, <3>5 DEF Done
    <3>6. ASSUME NEW e \in Executions,
                 task' = [task EXCEPT ![w] = [op |-> "leasing", runner |-> task[w].runner,
                                              exec |-> e]]
          PROVE  TypeOK' /\ RowInv'
      <4>1. [op |-> "leasing", runner |-> task[w].runner, exec |-> e] \in Task
        BY <3>1, TasksTyped
      <4> QED
        BY <1>s, <1>u, <3>1, <3>2, <3>4, <3>6, <4>1
    <3> QED
      BY <2>14, <3>5, <3>6 DEF ClaimSelect
  <2>15. CASE GrantLease(w)
    <3>1. /\ task[w].runner \in Runners /\ identity[task[w].runner] # None
          /\ task[w].exec \in Executions
      BY <1>f, <2>15 DEF GrantLease, Await, RowOps
    <3>2. Typed'
      BY <1>0, <2>15, <3>1 DEF Typed, GrantLease, ExecutionStatus
    <3>3. Rows'
      BY <1>0, <1>r, <2>15, <3>1 DEF Rows, GrantLease
    <3> QED
      BY <1>s, <1>t, <1>id, <2>15, <3>2, <3>3 DEF GrantLease, Done
  <2>16. CASE WorkerDies(w)
    BY <2>10, <2>16 DEF WorkerDies
  <2> QED
    BY <1>2, <2>1, <2>2, <2>3, <2>4, <2>5, <2>6, <2>7, <2>8, <2>9, <2>11, <2>12, <2>13,
       <2>14, <2>15, <2>16, Outcomes DEF Serve
<1>3. ASSUME NEW r \in Runners, HeartbeatAges(r) \/ MarkOffline(r)
      PROVE  TypeOK' /\ RowInv'
  <2>1. (Typed /\ Rows)'
    BY <1>0, <1>r, <1>3 DEF Typed, Rows, HeartbeatAges, MarkOffline, RunnerStatus
  <2> QED
    BY <1>3, <1>s, <1>v, <2>1 DEF HeartbeatAges, MarkOffline
<1>4. ASSUME NEW t \in Tokens, CreateRegistrationToken(t) \/ TokenExpires(t)
      PROVE  TypeOK' /\ RowInv'
  <2>1. (Typed /\ Rows)'
    BY <1>0, <1>r, <1>4 DEF Typed, Rows, CreateRegistrationToken, TokenExpires, TokenStatus
  <2> QED
    BY <1>4, <1>s, <1>v, <2>1 DEF CreateRegistrationToken, TokenExpires
<1>5. ASSUME NEW e \in Executions, EndLease(e)
      PROVE  TypeOK' /\ RowInv'
  <2>1. (Typed /\ Rows)'
    BY <1>0, <1>r, <1>5 DEF Typed, Rows, EndLease, ExecutionStatus
  <2> QED
    BY <1>5, <1>s, <1>v, <2>1 DEF EndLease
<1> QED
  BY <1>1, <1>2, <1>3, <1>4, <1>5 DEF Next

LEMMA RowInvariant == Spec => [](TypeOK /\ RowInv)
<1>1. Init => TypeOK /\ RowInv
  BY PoolConstants, TasksTyped
     DEF Init, TypeOK, RowInv, PoolStatus, RunnerStatus, TokenStatus, ExecutionStatus,
         Identity, Credential, Idle, RowOps, RunnerOps
<1> QED
  BY <1>1, TypeInductive, PTL DEF Spec

(* Every row and every task keeps its type.                                *)
THEOREM TypeCorrect == Spec => []TypeOK
BY RowInvariant, PTL

-----------------------------------------------------------------------------
(* Row locks.                                                              *)

HoldsPool(w, p) ==
    \/ task[w].op = "leasing" /\ identity[task[w].runner].pool = p
    \/ task[w].op = "register" /\ PoolOf[task[w].token] = p

(* A pool's row is locked by one task at a time, and so is the execution   *)
(* that a claim has selected.                                              *)
LockInv ==
    /\ \A v, w \in Workers, p \in Pools : HoldsPool(v, p) /\ HoldsPool(w, p) => v = w
    /\ \A v, w \in Workers :
          /\ task[v].op = "leasing" /\ task[w].op = "leasing"
          /\ task[v].exec = task[w].exec
          => v = w

(* A task holds locks because it has just taken them, or still does.       *)
LEMMA LockTaken ==
    ASSUME TypeOK, [Next]_poolVars, NEW v \in Workers,
           task'[v].op \in {"register", "leasing"}
    PROVE  \/ task'[v] = task[v]
           \/ \E t \in Tokens, f \in Fingerprints : BeginRegistration(v, t, f)
           \/ ClaimSelect(v)
<1>0. task \in [Workers -> Task]
  BY DEF TypeOK
<1>1. CASE UNCHANGED task
  BY <1>1
<1>2. ASSUME NEW w \in Workers, v # w, Serve(w)
      PROVE  task'[v] = task[v]
  BY <1>0, <1>2 DEF Serve, LoadPool, SavePool, LoadRunner, SaveRunner, LoadToken, SaveToken,
                BeginRegistration, FinishRegistration, Authenticate, HeartbeatLoad,
                HeartbeatSave, ClaimLoad, ClaimSelect, GrantLease, WorkerDies, Done
<1>3. CASE Serve(v)
  <2>1. Done(v) => task'[v].op = "idle"
    BY <1>0 DEF Done, Idle
  <2>2. ASSUME \/ \E op \in DOMAIN PoolOutcome, p \in Pools : LoadPool(v, op, p)
               \/ \E op \in DOMAIN RunnerOutcome, r \in Runners : LoadRunner(v, op, r)
               \/ \E op \in {"claim", "heartbeat"}, r \in Runners : Authenticate(v, op, r)
        PROVE  FALSE
    BY <1>0, <2>2, Outcomes DEF LoadPool, LoadRunner, Authenticate, PoolOps, RunnerOps
  <2>3. ASSUME \/ \E t \in Tokens : LoadToken(v, t)
               \/ HeartbeatLoad(v) \/ ClaimLoad(v)
        PROVE  FALSE
    BY <1>0, <2>3 DEF LoadToken, HeartbeatLoad, ClaimLoad, Idle
  <2>4. ~ \/ \E op \in DOMAIN PoolOutcome : SavePool(v, op)
          \/ \E op \in DOMAIN RunnerOutcome : SaveRunner(v, op)
          \/ SaveToken(v) \/ HeartbeatSave(v) \/ GrantLease(v) \/ WorkerDies(v)
          \/ \E r \in Runners : FinishRegistration(v, r)
    BY <2>1 DEF SavePool, SaveRunner, SaveToken, HeartbeatSave, GrantLease, WorkerDies,
                FinishRegistration
  <2> QED
    BY <1>3, <2>2, <2>3, <2>4 DEF Serve
<1>4. ASSUME \/ \E r \in Runners : HeartbeatAges(r) \/ MarkOffline(r)
             \/ \E t \in Tokens : CreateRegistrationToken(t) \/ TokenExpires(t)
             \/ \E e \in Executions : EndLease(e)
      PROVE  UNCHANGED task
  BY <1>4 DEF HeartbeatAges, MarkOffline, CreateRegistrationToken, TokenExpires, EndLease
<1> QED
  BY <1>1, <1>2, <1>3, <1>4 DEF Next, poolVars

(* Which requests write which columns.                                     *)
LEMMA ColumnSteps ==
    ASSUME TypeOK, [Next]_poolVars
    PROVE  /\ UNCHANGED pool \/ \E w \in Workers, op \in PoolOps : SavePool(w, op)
           /\ UNCHANGED <<exec, holder>>
                 \/ (\E w \in Workers : ClaimSelect(w) \/ GrantLease(w))
                 \/ (\E e \in Executions : EndLease(e))
           /\ \A t \in Tokens : token[t] # "revoked" /\ token'[t] = "revoked" =>
                 \E w \in Workers : SaveToken(w) /\ task[w].token = t
           /\ \A r \in Runners : revokedAt[r] => revokedAt'[r]
           /\ \A r \in Runners : runner'[r] = "revoked" =>
                 runner[r] = "revoked" \/ revokedAt'[r]
<1>0. /\ runner \in [Runners -> RunnerStatus] /\ revokedAt \in [Runners -> BOOLEAN]
      /\ token \in [Tokens -> TokenStatus]
  BY DEF TypeOK
<1> USE <1>0 DEF runnerVars, tokenVars, leaseVars
<1> DEFINE Columns ==
      /\ UNCHANGED pool \/ \E w \in Workers, op \in PoolOps : SavePool(w, op)
      /\ UNCHANGED <<exec, holder>>
            \/ (\E w \in Workers : ClaimSelect(w) \/ GrantLease(w))
            \/ (\E e \in Executions : EndLease(e))
      /\ \A t \in Tokens : token[t] # "revoked" /\ token'[t] = "revoked" =>
            \E w \in Workers : SaveToken(w) /\ task[w].token = t
      /\ \A r \in Runners : revokedAt[r] => revokedAt'[r]
      /\ \A r \in Runners : runner'[r] = "revoked" =>
            runner[r] = "revoked" \/ revokedAt'[r]
<1>1. ASSUME UNCHANGED <<pool, runner, revokedAt, token, exec, holder>>
      PROVE  Columns
  BY <1>1
<1>2. ASSUME NEW w \in Workers, Serve(w)
      PROVE  Columns
  <2>1. ASSUME NEW op \in PoolOps, SavePool(w, op)
        PROVE  Columns
    BY <2>1 DEF SavePool
  <2>2. ASSUME NEW op \in RunnerOps, SaveRunner(w, op)
        PROVE  Columns
    <3>1. RunnerOutcome[op] = "revoked" <=> op = "revoke_runner"
      BY Outcomes
    <3> QED
      BY <2>2, <3>1 DEF SaveRunner
  <2>3. CASE SaveToken(w)
    BY <2>3 DEF SaveToken
  <2>4. ASSUME NEW r \in Runners, FinishRegistration(w, r)
        PROVE  Columns
    BY <2>4 DEF FinishRegistration
  <2>5. CASE ClaimSelect(w) \/ GrantLease(w)
    <3>1. UNCHANGED <<pool, runner, revokedAt, token>>
      BY <2>5 DEF ClaimSelect, GrantLease
    <3> QED
      BY <2>5, <3>1
  <2>6. CASE \/ \E op \in DOMAIN PoolOutcome, p \in Pools : LoadPool(w, op, p)
             \/ \E op \in DOMAIN RunnerOutcome, r \in Runners : LoadRunner(w, op, r)
             \/ \E t \in Tokens : LoadToken(w, t)
             \/ \E t \in Tokens, f \in Fingerprints : BeginRegistration(w, t, f)
             \/ \E op \in {"claim", "heartbeat"}, r \in Runners : Authenticate(w, op, r)
             \/ HeartbeatLoad(w) \/ HeartbeatSave(w) \/ ClaimLoad(w) \/ WorkerDies(w)
    <3>1. UNCHANGED <<pool, runner, revokedAt, token, exec, holder>>
      BY <2>6 DEF LoadPool, LoadRunner, LoadToken, BeginRegistration, Authenticate,
                  HeartbeatLoad, HeartbeatSave, ClaimLoad, WorkerDies
    <3> QED
      BY <1>1, <3>1
  <2> QED
    BY <1>2, <2>1, <2>2, <2>3, <2>4, <2>5, <2>6, Outcomes DEF Serve
<1>3. ASSUME NEW r \in Runners, HeartbeatAges(r) \/ MarkOffline(r)
      PROVE  Columns
  BY <1>3 DEF HeartbeatAges, MarkOffline
<1>4. ASSUME NEW t \in Tokens, CreateRegistrationToken(t) \/ TokenExpires(t)
      PROVE  Columns
  BY <1>4 DEF CreateRegistrationToken, TokenExpires
<1>5. ASSUME NEW e \in Executions, EndLease(e)
      PROVE  Columns
  BY <1>5 DEF EndLease
<1> HIDE DEF Columns
<1>6. Columns
  BY <1>1, <1>2, <1>3, <1>4, <1>5 DEF Next, poolVars
<1> QED
  BY <1>6 DEF Columns

(* HoldsPool(w, p) after the step.                                         *)
HeldAfter(w, p) ==
    \/ task'[w].op = "leasing" /\ identity'[task'[w].runner].pool = p
    \/ task'[w].op = "register" /\ PoolOf[task'[w].token] = p

(* A lock that is held after a step was held before it or was free.        *)
LEMMA LockInductive ==
    ASSUME TypeOK, RowInv, LockInv, [Next]_poolVars
    PROVE  LockInv'
<1>0. task \in [Workers -> Task]
  BY DEF TypeOK
<1>i. IdentityKept
  BY IdentityStep
<1>1. ASSUME NEW v \in Workers, NEW p \in Pools, HeldAfter(v, p)
      PROVE  \/ HoldsPool(v, p) /\ task'[v] = task[v]
             \/ ~PoolLocked(p) /\ \A w \in Workers \ {v} : task'[w] = task[w]
  <2>0. task'[v].op \in {"register", "leasing"}
    BY <1>1 DEF HeldAfter
  <2>1. CASE task'[v] = task[v]
    <3>1. task[v].op = "leasing" =>
             task[v].runner \in Runners /\ identity[task[v].runner] # None
      BY <1>0, TaskFields DEF RowInv, RowOps
    <3> QED
      BY <1>1, <1>i, <2>1, <3>1 DEF HoldsPool, HeldAfter, IdentityKept
  <2>2. ASSUME NEW t \in Tokens, NEW f \in Fingerprints, BeginRegistration(v, t, f)
        PROVE  ~PoolLocked(p) /\ \A w \in Workers \ {v} : task'[w] = task[w]
    BY <1>0, <1>1, <2>2 DEF BeginRegistration, HeldAfter
  <2>3. CASE ClaimSelect(v)
    <3>1. task[v].runner \in Runners
      BY <1>0, <2>3, TaskFields DEF ClaimSelect, Await, RowOps
    <3>2. task'[v].op = "leasing" /\ task'[v].runner = task[v].runner
      BY <1>0, <2>0, <2>3 DEF ClaimSelect, Done, Idle
    <3>3. identity' = identity
      BY <2>3 DEF ClaimSelect, runnerVars
    <3>4. identity[task[v].runner].pool = p
      BY <1>1, <3>2, <3>3 DEF HeldAfter
    <3>5. \A w \in Workers \ {v} : task'[w] = task[w]
      BY <1>0, <2>3 DEF ClaimSelect, Done
    <3> QED
      BY <2>3, <3>4, <3>5 DEF ClaimSelect
  <2> QED
    BY <2>0, <2>1, <2>2, <2>3, LockTaken
<1>2. ASSUME NEW v \in Workers, NEW w \in Workers, NEW p \in Pools,
             HeldAfter(v, p), HeldAfter(w, p), v # w
      PROVE  FALSE
  <2>1. HoldsPool(v, p) => PoolLocked(p)
    BY DEF HoldsPool, PoolLocked
  <2>2. HoldsPool(w, p) => PoolLocked(p)
    BY DEF HoldsPool, PoolLocked
  <2>3. ~(HoldsPool(v, p) /\ HoldsPool(w, p))
    BY <1>2 DEF LockInv
  <2>4. HoldsPool(v, p) \/ (~PoolLocked(p) /\ task'[w] = task[w])
    BY <1>1, <1>2
  <2>5. HoldsPool(w, p) \/ (~PoolLocked(p) /\ task'[v] = task[v])
    BY <1>1, <1>2
  <2>6. ASSUME NEW u \in Workers, task'[u] = task[u], HeldAfter(u, p)
        PROVE  HoldsPool(u, p)
    <3>1. task[u].op = "leasing" =>
             task[u].runner \in Runners /\ identity[task[u].runner] # None
      BY <1>0, TaskFields DEF RowInv, RowOps
    <3> QED
      BY <1>i, <2>6, <3>1 DEF HoldsPool, HeldAfter, IdentityKept
  <2> QED
    BY <1>2, <2>1, <2>2, <2>3, <2>4, <2>5, <2>6
<1>3. ASSUME NEW v \in Workers, task'[v].op = "leasing"
      PROVE  \/ task'[v] = task[v]
             \/ ~ExecutionLocked(task'[v].exec) /\ \A w \in Workers \ {v} : task'[w] = task[w]
  <2>1. CASE ClaimSelect(v)
    <3>1. \E e \in Executions : /\ ~ExecutionLocked(e)
                                /\ task' = [task EXCEPT ![v] =
                                      [op |-> "leasing", runner |-> task[v].runner, exec |-> e]]
      BY <1>0, <1>3, <2>1 DEF ClaimSelect, Done, Idle
    <3> QED
      BY <1>0, <3>1
  <2>2. ASSUME NEW t \in Tokens, NEW f \in Fingerprints, BeginRegistration(v, t, f)
        PROVE  FALSE
    BY <1>0, <1>3, <2>2 DEF BeginRegistration
  <2> QED
    BY <1>3, <2>1, <2>2, LockTaken
<1>4. ASSUME NEW v \in Workers, NEW w \in Workers, task'[v].op = "leasing",
             task'[w].op = "leasing", task'[v].exec = task'[w].exec, v # w
      PROVE  FALSE
  <2>1. task'[v] = task[v] \/ (~ExecutionLocked(task'[v].exec) /\ task'[w] = task[w])
    BY <1>3, <1>4 DEF ExecutionLocked
  <2>2. task'[w] = task[w] \/ (~ExecutionLocked(task'[w].exec) /\ task'[v] = task[v])
    BY <1>3, <1>4 DEF ExecutionLocked
  <2> QED
    BY <1>4, <2>1, <2>2 DEF LockInv, ExecutionLocked
<1> QED
  BY <1>2, <1>4 DEF LockInv, HoldsPool, HeldAfter

LEMMA LockInvariant == Spec => []LockInv
<1>1. Init => LockInv
  BY DEF Init, LockInv, HoldsPool, Idle
<1>2. TypeOK /\ RowInv /\ LockInv /\ [Next]_poolVars => LockInv'
  BY LockInductive
<1> QED
  BY <1>1, <1>2, RowInvariant, PTL DEF Spec

-----------------------------------------------------------------------------
(* Leases and registrations.                                               *)

TaskPool(w) == identity[task[w].runner].pool

(* Under its locks a registration may go on to issue a credential: its     *)
(* token was not revoked, its pool is active, a use is left, and if it     *)
(* found no row of its installation, only revoked ones have appeared.      *)
RegisterInv ==
    \A w \in Workers : task[w].op = "register" =>
        /\ token[task[w].token] # "revoked"
        /\ pool[PoolOf[task[w].token]] = "active"
        /\ used[task[w].token] < MaxRegistrations[task[w].token]
        /\ task[w].runner = None =>
              \A q \in Runners : identity[q] = TaskIdentity(w) => revokedAt[q]

(* Under its locks a claim may go on to lease its execution: it is still   *)
(* queued, the pool is active, and a slot of the pool is free.             *)
LeasingInv ==
    \A w \in Workers : task[w].op = "leasing" =>
        /\ exec[task[w].exec] = "queued"
        /\ pool[TaskPool(w)] = "active"
        /\ Cardinality(PoolLeases(TaskPool(w))) < MaxConcurrent[TaskPool(w)]

RevokedInv == \A r \in Runners : runner[r] = "revoked" => revokedAt[r]

LEMMA ExecutionSets ==
    ASSUME NEW S \in SUBSET Executions
    PROVE  IsFiniteSet(S) /\ Cardinality(S) \in Nat
<1>1. 1 \in Int /\ NumExecutions \in Int
  BY PoolConstants
<1>2. IsFiniteSet(1..NumExecutions)
  BY <1>1, FS_Interval
<1>3. IsFiniteSet(Executions)
  BY <1>2 DEF Executions
<1> QED
  BY <1>3, FS_Subset, FS_CardinalityType

LEMMA RunnerSets ==
    ASSUME NEW S \in SUBSET Runners
    PROVE  IsFiniteSet(S) /\ Cardinality(S) \in Nat
<1>1. 1 \in Int /\ MaxRunners \in Int
  BY PoolConstants
<1>2. IsFiniteSet(1..MaxRunners)
  BY <1>1, FS_Interval
<1>3. IsFiniteSet(Runners)
  BY <1>2 DEF Runners
<1> QED
  BY <1>3, FS_Subset, FS_CardinalityType

LEMMA OneMore ==
    ASSUME NEW S, NEW x, IsFiniteSet(S), Cardinality(S) \in Nat
    PROVE  /\ IsFiniteSet(S \cup {x})
           /\ Cardinality(S \cup {x}) <= Cardinality(S) + 1
           /\ Cardinality(S \cup {x}) \in Nat
<1>1. /\ IsFiniteSet(S \cup {x})
      /\ Cardinality(S \cup {x}) = IF x \in S THEN Cardinality(S) ELSE Cardinality(S) + 1
  BY FS_AddElement
<1> QED
  BY <1>1

(* The row whose pool a lock-holding or leasing task works in.             *)
LEMMA LeasingTaskFields ==
    ASSUME TypeOK, RowInv, NEW w \in Workers, task[w].op = "leasing"
    PROVE  /\ task[w].runner \in Runners /\ task[w].exec \in Executions
           /\ identity[task[w].runner] # None /\ TaskPool(w) \in Pools
<1>1. task[w].runner \in Runners /\ task[w].exec \in Executions
  BY TaskFields DEF TypeOK, RowOps
<1>2. identity[task[w].runner] # None
  BY DEF RowInv, RowOps
<1>3. identity[task[w].runner] \in Identity
  BY <1>1 DEF TypeOK
<1> QED
  BY <1>1, <1>2, <1>3 DEF Identity, TaskPool

(* A pool gains a lease only when a claim that holds its lock commits.     *)
LEMMA LeasesShrink ==
    ASSUME TypeOK, RowInv, [Next]_poolVars, NEW p \in Pools,
           \A w \in Workers : GrantLease(w) => TaskPool(w) # p
    PROVE  PoolLeases(p)' \subseteq PoolLeases(p)
<1>i. IdentityKept
  BY IdentityStep
<1>0. /\ exec \in [Executions -> ExecutionStatus]
      /\ holder \in [Executions -> Runners \cup {None}]
      /\ \A e \in Executions : exec[e] = "leased" =>
            holder[e] \in Runners /\ identity[holder[e]] # None
  BY DEF TypeOK, RowInv
<1>1. CASE UNCHANGED <<exec, holder>>
  BY <1>0, <1>1, <1>i DEF PoolLeases, Leases, IdentityKept
<1>2. ASSUME NEW w \in Workers, ClaimSelect(w)
      PROVE  PoolLeases(p)' \subseteq PoolLeases(p)
  <2>1. UNCHANGED <<holder, identity>>
    BY <1>2 DEF ClaimSelect, runnerVars
  <2>2. \A e \in Executions : exec'[e] = "leased" => exec[e] = "leased"
    BY <1>0, <1>2 DEF ClaimSelect
  <2> QED
    BY <2>1, <2>2 DEF PoolLeases, Leases
<1>3. ASSUME NEW w \in Workers, GrantLease(w)
      PROVE  PoolLeases(p)' \subseteq PoolLeases(p)
  <2>1. task[w].exec \in Executions /\ task[w].runner \in Runners
    BY <1>3, LeasingTaskFields DEF GrantLease, Await
  <2>2. identity' = identity
    BY <1>3 DEF GrantLease, runnerVars
  <2>3. identity[task[w].runner].pool # p
    BY <1>3 DEF TaskPool
  <2> QED
    BY <1>0, <1>3, <2>1, <2>2, <2>3 DEF GrantLease, PoolLeases, Leases
<1>4. ASSUME NEW e \in Executions, EndLease(e)
      PROVE  PoolLeases(p)' \subseteq PoolLeases(p)
  BY <1>0, <1>4 DEF EndLease, runnerVars, PoolLeases, Leases
<1> QED
  BY <1>1, <1>2, <1>3, <1>4, ColumnSteps

LEMMA RegisterInductive ==
    ASSUME TypeOK, RowInv, LockInv, RegisterInv, RevokedInv, [Next]_poolVars
    PROVE  RegisterInv' /\ RevokedInv'
<1>0. /\ task \in [Workers -> Task] /\ pool \in [Pools -> PoolStatus]
      /\ used \in [Tokens -> Nat] /\ token \in [Tokens -> TokenStatus]
      /\ identity \in [Runners -> Identity]
      /\ PoolOf \in [Tokens -> Pools] /\ MaxRegistrations \in [Tokens -> Nat \ {0}]
  BY PoolConstants DEF TypeOK
<1>1. RevokedInv'
  BY ColumnSteps DEF RevokedInv
<1>2. ASSUME NEW v \in Workers, task'[v].op = "register"
      PROVE  /\ token'[task'[v].token] # "revoked"
             /\ pool'[PoolOf[task'[v].token]] = "active"
             /\ used'[task'[v].token] < MaxRegistrations[task'[v].token]
             /\ task'[v].runner = None =>
                   \A q \in Runners :
                      identity'[q] = [fingerprint |-> task'[v].fingerprint,
                                      pool |-> PoolOf[task'[v].token]] => revokedAt'[q]
  <2>1. ASSUME NEW t \in Tokens, NEW f \in Fingerprints, BeginRegistration(v, t, f)
        PROVE  /\ token'[task'[v].token] # "revoked"
               /\ pool'[PoolOf[task'[v].token]] = "active"
               /\ used'[task'[v].token] < MaxRegistrations[task'[v].token]
               /\ task'[v].runner = None =>
                     \A q \in Runners :
                        identity'[q] = [fingerprint |-> task'[v].fingerprint,
                                        pool |-> PoolOf[task'[v].token]] => revokedAt'[q]
    <3>1. task'[v].token = t /\ task'[v].fingerprint = f
      BY <1>0, <2>1 DEF BeginRegistration
    <3>2. UNCHANGED <<pool, token, used, identity, revokedAt>> /\ TokenUsable(t)
      BY <2>1 DEF BeginRegistration, runnerVars, tokenVars
    <3>3. task'[v].runner = None => Registered(f, PoolOf[t]) = {}
      BY <1>0, <2>1, PoolConstants DEF BeginRegistration, Registered
    <3> QED
      BY <3>1, <3>2, <3>3 DEF TokenUsable, Registered, RevokedInv
  <2>2. CASE task'[v] = task[v]
    <3>0. /\ task[v].op = "register" /\ task[v].token \in Tokens
          /\ HoldsPool(v, PoolOf[task[v].token])
          /\ token[task[v].token] # "revoked"
          /\ pool[PoolOf[task[v].token]] = "active"
          /\ used[task[v].token] < MaxRegistrations[task[v].token]
          /\ task[v].runner = None =>
                \A q \in Runners : identity[q] = TaskIdentity(v) => revokedAt[q]
      BY <1>0, <1>2, <2>2, TaskFields DEF RegisterInv, HoldsPool
    <3>1. token'[task[v].token] # "revoked"
      <4>1. ASSUME NEW w \in Workers, SaveToken(w)
            PROVE  task[w].token # task[v].token
        BY <3>0, <4>1 DEF SaveToken, TokenLocked
      <4> QED
        BY <3>0, <4>1, ColumnSteps
    <3>2. pool'[PoolOf[task[v].token]] = "active"
      <4>1. ASSUME NEW w \in Workers, NEW op \in PoolOps, SavePool(w, op)
            PROVE  pool'[PoolOf[task[v].token]] = "active"
        BY <1>0, <3>0, <4>1 DEF SavePool, PoolLocked
      <4> QED
        BY <3>0, <4>1, ColumnSteps
    <3>3. ASSUME NEW w \in Workers, NEW r \in Runners, FinishRegistration(w, r)
          PROVE  task[w].token \in Tokens /\ PoolOf[task[w].token] # PoolOf[task[v].token]
      <4>1. v # w
        BY <1>0, <1>2, <3>3 DEF FinishRegistration, Done, Idle
      <4>2. task[w].token \in Tokens /\ task[w].op = "register"
        BY <3>3, RegisteredRow
      <4> QED
        BY <1>0, <3>0, <4>1, <4>2 DEF LockInv, HoldsPool
    <3>4. used'[task[v].token] = used[task[v].token]
      <4>1. ASSUME NEW w \in Workers, NEW r \in Runners, FinishRegistration(w, r)
            PROVE  used'[task[v].token] = used[task[v].token]
        BY <1>0, <3>0, <3>3, <4>1 DEF FinishRegistration
      <4> QED
        BY <4>1, IdentityStep
    <3>5. ASSUME NEW q \in Runners, identity'[q] = TaskIdentity(v)
          PROVE  identity[q] = TaskIdentity(v)
      <4>1. ASSUME NEW w \in Workers, NEW r \in Runners, FinishRegistration(w, r)
            PROVE  identity[q] = TaskIdentity(v)
        <5>1. identity' = [identity EXCEPT ![r] = TaskIdentity(w)]
          BY <4>1, RegisteredRow
        <5>2. TaskIdentity(w).pool # TaskIdentity(v).pool
          BY <3>3, <4>1 DEF TaskIdentity
        <5> QED
          BY <1>0, <3>5, <5>1, <5>2
      <4> QED
        BY <3>5, <4>1, IdentityStep
    <3>6. \A q \in Runners : revokedAt[q] => revokedAt'[q]
      BY ColumnSteps
    <3> QED
      BY <2>2, <3>0, <3>1, <3>2, <3>4, <3>5, <3>6 DEF TaskIdentity
  <2>3. ~ClaimSelect(v)
    BY <1>0, <1>2 DEF ClaimSelect, Await, Done, Idle
  <2> QED
    BY <1>2, <2>1, <2>2, <2>3, LockTaken
<1> QED
  BY <1>1, <1>2 DEF RegisterInv, TaskIdentity

LEMMA LeasingInductive ==
    ASSUME TypeOK, RowInv, LockInv, LeasingInv, [Next]_poolVars
    PROVE  LeasingInv'
<1>0. /\ task \in [Workers -> Task] /\ pool \in [Pools -> PoolStatus]
      /\ exec \in [Executions -> ExecutionStatus]
      /\ MaxConcurrent \in [Pools -> Nat \ {0}]
  BY PoolConstants DEF TypeOK
<1>i. IdentityKept
  BY IdentityStep
<1>c. ASSUME NEW p \in Pools, PoolLeases(p)' \subseteq PoolLeases(p),
             Cardinality(PoolLeases(p)) < MaxConcurrent[p]
      PROVE  Cardinality(PoolLeases(p)') < MaxConcurrent[p]
  <2>1. PoolLeases(p) \in SUBSET Executions
    BY DEF PoolLeases, Leases
  <2>2. IsFiniteSet(PoolLeases(p)) /\ Cardinality(PoolLeases(p)) \in Nat
    BY <2>1, ExecutionSets
  <2>3. PoolLeases(p)' \in SUBSET Executions
    BY <1>c, <2>1
  <2>4. Cardinality(PoolLeases(p)') \in Nat
    BY <2>3, ExecutionSets
  <2>5. Cardinality(PoolLeases(p)') <= Cardinality(PoolLeases(p))
    BY <1>c, <2>2, FS_Subset
  <2> QED
    BY <1>0, <1>c, <2>2, <2>4, <2>5
<1>2. ASSUME NEW v \in Workers, task'[v].op = "leasing"
      PROVE  \E p \in Pools :
                /\ identity'[task'[v].runner].pool = p
                /\ exec'[task'[v].exec] = "queued"
                /\ pool'[p] = "active"
                /\ Cardinality(PoolLeases(p)') < MaxConcurrent[p]
  <2>1. CASE ClaimSelect(v)
    <3>1. task[v].runner \in Runners /\ identity[task[v].runner] # None
      BY <1>0, <2>1, TaskFields DEF ClaimSelect, Await, RowOps, RowInv
    <3>2. /\ pool[TaskPool(v)] = "active" /\ BelowLimits(task[v].runner, TaskPool(v))
          /\ task'[v].runner = task[v].runner /\ task'[v].exec \in Executions
          /\ exec'[task'[v].exec] = "queued"
      BY <1>0, <1>2, <2>1 DEF ClaimSelect, TaskPool, Done, Idle
    <3>3. UNCHANGED <<pool, identity, holder>>
      BY <2>1 DEF ClaimSelect, runnerVars
    <3>4. TaskPool(v) \in Pools
      BY <3>1 DEF TypeOK, Identity, TaskPool
    <3>5. ASSUME NEW w \in Workers, GrantLease(w) PROVE TaskPool(w) # TaskPool(v)
      <4>1. PoolLocked(TaskPool(w))
        BY <3>5 DEF GrantLease, Await, PoolLocked, TaskPool
      <4> QED
        BY <2>1, <4>1 DEF ClaimSelect, TaskPool
    <3>6. PoolLeases(TaskPool(v))' \subseteq PoolLeases(TaskPool(v))
      <4> DEFINE p == TaskPool(v)
      <4>1. p \in Pools /\ \A w \in Workers : GrantLease(w) => TaskPool(w) # p
        BY <3>4, <3>5
      <4>2. identity'[task'[v].runner].pool = identity[task[v].runner].pool
        BY <3>2, <3>3
      <4>3. p' = p
        BY <4>2 DEF TaskPool
      <4> HIDE DEF p
      <4>4. PoolLeases(p)' \subseteq PoolLeases(p)
        BY <4>1, <4>3, LeasesShrink DEF PoolLeases, Leases
      <4> QED
        BY <4>4 DEF p
    <3> QED
      BY <1>c, <3>2, <3>3, <3>4, <3>6 DEF BelowLimits, TaskPool
  <2>2. CASE task'[v] = task[v]
    <3> DEFINE e == task[v].exec
    <3>0. /\ task[v].op = "leasing" /\ task[v].runner \in Runners /\ e \in Executions
          /\ identity[task[v].runner] # None
          /\ exec[e] = "queued"
      BY <1>2, <2>2, LeasingTaskFields DEF LeasingInv
    <3>1. PICK p \in Pools : /\ TaskPool(v) = p /\ pool[p] = "active"
                             /\ Cardinality(PoolLeases(p)) < MaxConcurrent[p]
      BY <3>0, LeasingTaskFields DEF LeasingInv
    <3>2. identity'[task'[v].runner].pool = p
      BY <1>i, <2>2, <3>0, <3>1 DEF IdentityKept, TaskPool
    <3>3. HoldsPool(v, p) /\ PoolLocked(p) /\ ExecutionLocked(e)
      BY <3>0, <3>1 DEF HoldsPool, PoolLocked, ExecutionLocked, TaskPool
    <3>4. pool'[p] = "active"
      <4>1. ASSUME NEW w \in Workers, NEW op \in PoolOps, SavePool(w, op)
            PROVE  pool'[p] = "active"
        BY <1>0, <3>1, <3>3, <4>1 DEF SavePool
      <4> QED
        BY <3>1, <4>1, ColumnSteps
    <3>5. ASSUME NEW w \in Workers, GrantLease(w)
          PROVE  v # w /\ task[w].op = "leasing" /\ TaskPool(w) # p /\ task[w].exec # e
      <4>1. v # w /\ task[w].op = "leasing"
        BY <1>0, <1>2, <3>5 DEF GrantLease, Await, Done, Idle
      <4> QED
        BY <3>0, <3>3, <4>1 DEF LockInv, HoldsPool, TaskPool
    <3>6. exec'[e] = "queued"
      <4>1. ASSUME NEW w \in Workers, ClaimSelect(w) PROVE exec'[e] = "queued"
        BY <1>0, <3>0, <3>3, <4>1 DEF ClaimSelect
      <4>2. ASSUME NEW w \in Workers, GrantLease(w) PROVE exec'[e] = "queued"
        BY <1>0, <3>0, <3>5, <4>2 DEF GrantLease
      <4>3. ASSUME NEW f \in Executions, EndLease(f) PROVE exec'[e] = "queued"
        BY <1>0, <3>0, <4>3 DEF EndLease
      <4> QED
        BY <3>0, <4>1, <4>2, <4>3, ColumnSteps
    <3>7. PoolLeases(p)' \subseteq PoolLeases(p)
      BY <3>5, LeasesShrink
    <3> QED
      BY <1>c, <2>2, <3>1, <3>2, <3>4, <3>6, <3>7
  <2>3. ASSUME NEW t \in Tokens, NEW f \in Fingerprints, BeginRegistration(v, t, f)
        PROVE  FALSE
    BY <1>0, <1>2, <2>3 DEF BeginRegistration
  <2> QED
    BY <1>2, <2>1, <2>2, <2>3, LockTaken
<1> QED
  BY <1>2 DEF LeasingInv, TaskPool

RequestInv == RegisterInv /\ RevokedInv /\ LeasingInv

LEMMA RequestInvariant == Spec => []RequestInv
<1>1. Init => RequestInv
  BY DEF Init, RequestInv, RegisterInv, RevokedInv, LeasingInv, Idle
<1>2. TypeOK /\ RowInv /\ LockInv /\ RequestInv /\ [Next]_poolVars => RequestInv'
  BY RegisterInductive, LeasingInductive DEF RequestInv
<1> QED
  BY <1>1, <1>2, RowInvariant, LockInvariant, PTL DEF Spec

-----------------------------------------------------------------------------
(* The limit of a pool, claimed by any number of runners of it at once     *)
(* (scheduling.claim_next_execution): the claim that commits holds the     *)
(* pool's lock since it counted the leases, so the count has not grown     *)
(* and one more lease still fits.                                          *)
THEOREM PoolWithinLimitHolds == Spec => []PoolWithinLimit
<1>0. MaxConcurrent \in [Pools -> Nat \ {0}]
  BY PoolConstants
<1>1. Init => PoolWithinLimit
  <2>1. Init => \A p \in Pools : PoolLeases(p) = {}
    BY DEF Init, PoolLeases, Leases
  <2> QED
    BY <1>0, <2>1, FS_EmptySet DEF PoolWithinLimit
<1>2. ASSUME TypeOK, RowInv, RequestInv, PoolWithinLimit, [Next]_poolVars
      PROVE  PoolWithinLimit'
  <2>1. ASSUME NEW p \in Pools PROVE Cardinality(PoolLeases(p)') <= MaxConcurrent[p]
    <3>1. PoolLeases(p) \in SUBSET Executions /\ PoolLeases(p)' \in SUBSET Executions
      BY DEF PoolLeases, Leases
    <3>2. /\ IsFiniteSet(PoolLeases(p)) /\ Cardinality(PoolLeases(p)) \in Nat
          /\ Cardinality(PoolLeases(p)') \in Nat
      BY <3>1, ExecutionSets
    <3>3. CASE \A w \in Workers : GrantLease(w) => TaskPool(w) # p
      <4>1. PoolLeases(p)' \subseteq PoolLeases(p)
        BY <1>2, <3>3, LeasesShrink
      <4>2. Cardinality(PoolLeases(p)') <= Cardinality(PoolLeases(p))
        BY <3>2, <4>1, FS_Subset
      <4> QED
        BY <1>0, <1>2, <3>2, <4>2 DEF PoolWithinLimit
    <3>4. ASSUME NEW w \in Workers, GrantLease(w), TaskPool(w) = p
          PROVE  Cardinality(PoolLeases(p)') <= MaxConcurrent[p]
      <4>1. task[w].op = "leasing" /\ task[w].exec \in Executions
        BY <1>2, <3>4, LeasingTaskFields DEF GrantLease, Await
      <4>2. Cardinality(PoolLeases(p)) < MaxConcurrent[p]
        BY <1>2, <3>4, <4>1 DEF RequestInv, LeasingInv
      <4>3. PoolLeases(p)' \subseteq PoolLeases(p) \cup {task[w].exec}
        BY <1>2, <3>4, <4>1 DEF GrantLease, PoolLeases, Leases, runnerVars, TypeOK
      <4>4. /\ IsFiniteSet(PoolLeases(p) \cup {task[w].exec})
            /\ Cardinality(PoolLeases(p) \cup {task[w].exec}) <= Cardinality(PoolLeases(p)) + 1
            /\ Cardinality(PoolLeases(p) \cup {task[w].exec}) \in Nat
        BY <3>2, OneMore
      <4>5. Cardinality(PoolLeases(p)') <= Cardinality(PoolLeases(p) \cup {task[w].exec})
        BY <4>3, <4>4, FS_Subset
      <4> QED
        BY <1>0, <3>2, <4>2, <4>4, <4>5
    <3> QED
      BY <3>3, <3>4
  <2> QED
    BY <2>1 DEF PoolWithinLimit
<1> QED
  BY <1>1, <1>2, RowInvariant, RequestInvariant, PTL DEF Spec

-----------------------------------------------------------------------------
(* The uses of a registration token (services.register_runner).            *)

Issued(t) == {r \in Runners : credential[r] # None /\ credential[r].token = t}

(* With any number of installations registering at the same time a token   *)
(* issues at most max_registrations credentials: used_count is compared    *)
(* and incremented under the token's lock, once for each credential.       *)
THEOREM RegistrationsCountedHolds == Spec => []RegistrationsCounted
<1>1. Init => RegistrationsCounted
  <2>1. Init => \A t \in Tokens : Issued(t) = {} /\ used[t] = 0
    BY DEF Init, Issued
  <2>2. Cardinality({}) = 0 /\ MaxRegistrations \in [Tokens -> Nat \ {0}]
    BY FS_EmptySet, PoolConstants
  <2>3. Init => \A t \in Tokens : used[t] <= MaxRegistrations[t] /\ Cardinality(Issued(t)) <= used[t]
    BY <2>1, <2>2
  <2> QED
    BY <2>3 DEF RegistrationsCounted, Issued
<1>2. ASSUME TypeOK, RowInv, RequestInv, RegistrationsCounted, [Next]_poolVars
      PROVE  RegistrationsCounted'
  <2>0. /\ used \in [Tokens -> Nat] /\ MaxRegistrations \in [Tokens -> Nat \ {0}]
        /\ credential \in [Runners -> Credential]
    BY <1>2, PoolConstants DEF TypeOK
  <2>1. ASSUME NEW t \in Tokens
        PROVE  used'[t] <= MaxRegistrations[t] /\ Cardinality(Issued(t)') <= used'[t]
    <3>0. used[t] <= MaxRegistrations[t] /\ Cardinality(Issued(t)) <= used[t]
      BY <1>2 DEF RegistrationsCounted, Issued
    <3>1. Issued(t) \in SUBSET Runners /\ Issued(t)' \in SUBSET Runners
      BY DEF Issued
    <3>2. /\ IsFiniteSet(Issued(t)) /\ Cardinality(Issued(t)) \in Nat
          /\ Cardinality(Issued(t)') \in Nat
      BY <3>1, RunnerSets
    <3>3. CASE UNCHANGED <<used, credential>>
      BY <3>0, <3>3 DEF Issued
    <3>4. ASSUME NEW w \in Workers, NEW r \in Runners, FinishRegistration(w, r)
          PROVE  used'[t] <= MaxRegistrations[t] /\ Cardinality(Issued(t)') <= used'[t]
      <4>0. task[w].op = "register" /\ task[w].token \in Tokens
        BY <1>2, <3>4, RegisteredRow
      <4>1. CASE task[w].token = t
        <5>1. used'[t] = used[t] + 1 /\ used[t] < MaxRegistrations[t]
          BY <1>2, <2>0, <3>4, <4>0, <4>1 DEF FinishRegistration, RequestInv, RegisterInv
        <5>2. Issued(t)' \subseteq Issued(t) \cup {r}
          BY <2>0, <3>4 DEF FinishRegistration, Issued
        <5>3. /\ IsFiniteSet(Issued(t) \cup {r})
              /\ Cardinality(Issued(t) \cup {r}) <= Cardinality(Issued(t)) + 1
              /\ Cardinality(Issued(t) \cup {r}) \in Nat
          BY <3>2, OneMore
        <5>4. Cardinality(Issued(t)') <= Cardinality(Issued(t) \cup {r})
          BY <5>2, <5>3, FS_Subset
        <5> QED
          BY <2>0, <3>0, <3>2, <5>1, <5>3, <5>4
      <4>2. CASE task[w].token # t
        <5>1. used'[t] = used[t]
          BY <2>0, <3>4, <4>0, <4>2 DEF FinishRegistration
        <5>2. credential'[r].token # t /\ \A q \in Runners \ {r} : credential'[q] = credential[q]
          BY <2>0, <3>4, <4>2 DEF FinishRegistration
        <5>3. Issued(t)' \subseteq Issued(t)
          BY <5>2 DEF Issued
        <5>4. Cardinality(Issued(t)') <= Cardinality(Issued(t))
          BY <3>2, <5>3, FS_Subset
        <5> QED
          BY <2>0, <3>0, <3>2, <5>1, <5>4
      <4> QED
        BY <4>1, <4>2
    <3> QED
      BY <1>2, <3>3, <3>4, IdentityStep
  <2> QED
    BY <2>1 DEF RegistrationsCounted, Issued
<1> QED
  BY <1>1, <1>2, RowInvariant, RequestInvariant, PTL DEF Spec

-----------------------------------------------------------------------------
(* An installation that registers again gets its row back, unless a row of *)
(* it was revoked: a row is created only while every row of the same       *)
(* installation and pool carries revoked_at, and the pool's lock keeps a   *)
(* second registration from creating one too.                              *)
THEOREM OneIdentityHolds == Spec => []OneIdentity
<1>1. Init => OneIdentity
  BY DEF Init, OneIdentity
<1>2. ASSUME TypeOK, RowInv, RequestInv, OneIdentity, [Next]_poolVars
      PROVE  OneIdentity'
  <2>0. identity \in [Runners -> Identity]
    BY <1>2 DEF TypeOK
  <2>1. \A r \in Runners : revokedAt[r] => revokedAt'[r]
    BY <1>2, ColumnSteps
  <2>2. CASE identity' = identity
    BY <1>2, <2>1, <2>2 DEF OneIdentity
  <2>3. ASSUME NEW w \in Workers, NEW r \in Runners, FinishRegistration(w, r)
        PROVE  OneIdentity'
    <3>1. /\ identity' = [identity EXCEPT ![r] = TaskIdentity(w)]
          /\ identity[r] \in {None, TaskIdentity(w)}
          /\ task[w].runner = None => identity[r] = None
          /\ task[w].runner # None => r = task[w].runner
          /\ task[w].op = "register" /\ TaskIdentity(w) # None
      BY <1>2, <2>3, RegisteredRow
    <3>2. CASE task[w].runner # None
      <4>1. identity[r] = TaskIdentity(w)
        BY <1>2, <3>1, <3>2 DEF RowInv
      <4>2. identity' = identity
        BY <2>0, <3>1, <4>1
      <4> QED
        BY <2>2, <4>2
    <3>3. CASE task[w].runner = None
      <4>1. \A q \in Runners : identity[q] = TaskIdentity(w) => revokedAt[q]
        BY <1>2, <3>1, <3>3 DEF RequestInv, RegisterInv
      <4>2. /\ identity'[r] = TaskIdentity(w)
            /\ \A q \in Runners \ {r} : identity'[q] = identity[q]
        BY <2>0, <3>1
      <4> QED
        BY <1>2, <2>1, <4>1, <4>2 DEF OneIdentity
    <3> QED
      BY <3>2, <3>3
  <2> QED
    BY <1>2, <2>2, <2>3, IdentityStep
<1> QED
  BY <1>1, <1>2, RowInvariant, RequestInvariant, PTL DEF Spec

(* A registration or a claim that was let in before an operator's stop     *)
(* does not take effect after it: the locks it holds make the revocation   *)
(* of its token and the drain of its pool wait until it has committed.     *)
THEOREM StopIsRespectedHolds == Spec => StopIsRespected
<1>1. ASSUME TypeOK, RowInv, RequestInv, [Next]_poolVars
      PROVE  /\ \A r \in Runners :
                  credential'[r] # credential[r]
                      => LET t == credential'[r].token IN
                         token[t] # "revoked" /\ pool[PoolOf[t]] = "active"
             /\ \A e \in Executions :
                  exec[e] = "queued" /\ exec'[e] = "leased"
                      => pool[identity[holder'[e]].pool] = "active"
  <2>0. /\ credential \in [Runners -> Credential]
        /\ exec \in [Executions -> ExecutionStatus]
        /\ holder \in [Executions -> Runners \cup {None}]
    BY <1>1 DEF TypeOK
  <2>1. ASSUME NEW r \in Runners, credential'[r] # credential[r]
        PROVE  /\ token[credential'[r].token] # "revoked"
               /\ pool[PoolOf[credential'[r].token]] = "active"
    <3>1. PICK w \in Workers, q \in Runners : FinishRegistration(w, q)
      BY <1>1, <2>1, IdentityStep
    <3>2. task[w].op = "register"
      BY <3>1 DEF FinishRegistration, Await
    <3>3. credential'[r].token = task[w].token
      BY <2>0, <2>1, <3>1 DEF FinishRegistration
    <3> QED
      BY <1>1, <3>2, <3>3 DEF RequestInv, RegisterInv
  <2>2. ASSUME NEW e \in Executions, exec[e] = "queued", exec'[e] = "leased"
        PROVE  pool[identity[holder'[e]].pool] = "active"
    <3>1. ASSUME NEW w \in Workers, ClaimSelect(w) PROVE FALSE
      BY <2>0, <2>2, <3>1 DEF ClaimSelect
    <3>2. ASSUME NEW f \in Executions, EndLease(f) PROVE FALSE
      BY <2>0, <2>2, <3>2 DEF EndLease
    <3>3. ~UNCHANGED <<exec, holder>>
      BY <2>2
    <3>4. PICK w \in Workers : GrantLease(w)
      BY <1>1, <3>1, <3>2, <3>3, ColumnSteps
    <3>5. task[w].op = "leasing" /\ holder'[e] = task[w].runner
      BY <2>0, <2>2, <3>4 DEF GrantLease, Await
    <3> QED
      BY <1>1, <3>5 DEF RequestInv, LeasingInv, TaskPool
  <2> QED
    BY <2>1, <2>2
<1> QED
  BY <1>1, RowInvariant, RequestInvariant, PTL DEF Spec, StopIsRespected
=============================================================================
