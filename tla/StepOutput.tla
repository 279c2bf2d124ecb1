------------------------------ MODULE StepOutput ------------------------------
(***************************************************************************)
(* One sandboxed command and what becomes of its output: the process group *)
(* under the runner's deadline and cancellation, the captured streams and  *)
(* collected files, their upload with one retry, and the artifact service  *)
(* that checks, stores and records them.                                   *)
(*                                                                         *)
(* The processes run on, and start others, while the runner waits, stops,  *)
(* reads and uploads, the grace period after SIGTERM included; an upload   *)
(* the runner has given up goes on in the API; the execution may end       *)
(* between the checks of an upload and its row.                            *)
(***************************************************************************)
EXTENDS Integers, Sequences, FiniteSets, FiniteSetsExt, SequencesExt

CONSTANTS Declared,     \* keys of the declared artifacts, in the order of the snapshot
          Pathless,     \* those of a kind that needs no path, declared without one
          Required,     \* those declared as required
          StreamLimit,  \* stdout_max_bytes, stderr_max_bytes and the uploader's cap
          FileLimit,    \* artifact_max_bytes and the uploader's cap
          MaxArtifacts, \* max_artifacts of the sandbox
          Quota,        \* ARTIFACT_MAX_TOTAL_BYTES_PER_EXECUTION
          DailyQuota,   \* ARTIFACT_DAILY_BYTES_PER_RUNNER
          StepLimit,    \* ARTIFACT_MAX_ARTIFACTS_PER_STEP
          MaxRetries,   \* _MAX_RETRIES of the uploader
          CleanupPolicy,\* sandbox_cleanup_policy
          SecretSize,   \* bytes of a secret of the environment
          MaskSize,     \* bytes of what redaction puts in its place
          MaxBytes,     \* bound on the bytes written to a stream
          NoisyStreams, \* streams the processes write to
          MaxOthers,    \* bound on the kinds of processes beside the shell
          MaxFaults     \* bound on failures of storage, database and network

Streams == <<"stdout", "stderr">>

(* A declaration without a path is passed over: no file stands for it.     *)
Files == Range(Declared) \ Pathless

Outputs == Range(Streams) \cup Files

(* validators.py refuses a workflow that declares an artifact key twice.   *)
ASSUME OutputAssumption ==
    /\ Declared \in Seq(Range(Declared))
    /\ \A i, j \in DOMAIN Declared : Declared[i] = Declared[j] => i = j
    /\ Range(Declared) \cap Range(Streams) = {} /\ NoisyStreams \subseteq Range(Streams)
    /\ Pathless \subseteq Range(Declared) /\ Required \subseteq Range(Declared)
    /\ {StreamLimit, FileLimit, MaxRetries, SecretSize, MaskSize} \subseteq Nat \ {0}
    /\ {MaxArtifacts, Quota, DailyQuota, StepLimit, MaxBytes, MaxOthers, MaxFaults} \subseteq Nat
    /\ CleanupPolicy \in {"always", "on_success", "never"}

VARIABLES mode,      \* live, dry_run, or a shell command that is not permitted
          leader,    \* the shell that runs the script
          rest,      \* the kinds of other processes in its group
          alone,     \* none of them has outlived the shell
          written,   \* bytes the processes wrote to each stream
          hidden,    \* the last byte of the secret in them, 0 without one
          file,      \* sizes of the files in the workspace
          at,        \* where the handler is
          stop,      \* why the wait ended: "", timeout or cancelled
          verdict,   \* the failure_kind of the result; "succeeded" without one
          captured,  \* bytes kept of each stream, before redaction
          todo,      \* outputs still to upload
          attempt,   \* the attempt of the upload under way, 0 if none
          requests,  \* uploads at work in the API
          rows,      \* Artifact rows
          total,     \* the sum of their sizes
          stored,    \* stored files
          counted,   \* the runner's daily bytes in the cache
          open,      \* claimed by this runner, bound to its change, not terminal
          given,     \* an upload was given up while it was at work
          faults     \* failures so far

vars == <<mode, leader, rest, alone, written, hidden, file, at, stop, verdict, captured, todo, attempt,
          requests, rows, total, stored, counted, open, given, faults>>

group == <<leader, rest, alone>>
streams == <<written, hidden>>
processes == <<group, streams, file>>
service == <<requests, rows, total, stored, counted, open>>
handler == <<at, stop, verdict, captured, todo, attempt, given>>

NoFile == -1

LeaderStates == {"none", "running", "deaf", "zero", "nonzero", "terminated", "killed"}

(* SIGTERM ends a "running" process; a "deaf" one ignores it or takes its  *)
(* time to handle it; a "late" one was started after it was sent.          *)
Kinds == {"running", "deaf", "late"}

Alive == {"running", "deaf"}

Places == {"setup", "waiting", "stopping", "grace", "draining", "uploading", "cleaning",
           "done", "raised", "crashed"}

FileSizes == {NoFile} \cup (0 .. (FileLimit + 1))

Verdicts == {"", "succeeded", "policy_blocked", "sandbox_setup_failed", "timeout", "cancelled",
             "required_artifact_missing", "action_input_invalid", "action_failed"}

(* An upload: what is sent, and how far the API is with it.                *)
Upload == [output : Outputs, attempt : 1 .. MaxRetries, size : Nat,
           truncated : BOOLEAN, stage : {"sent", "checked", "saved"}]

Row == [output : Outputs, attempt : 1 .. MaxRetries, size : Nat, truncated : BOOLEAN]

(* A file is stored under the id its upload was given.                     *)
Keys == [output : Outputs, attempt : 1 .. MaxRetries]

Init ==
    /\ mode \in {"live", "dry_run", "blocked"}
    /\ leader = "none" /\ rest = {} /\ alone = TRUE
    /\ written = [s \in Range(Streams) |-> 0] /\ hidden = [s \in Range(Streams) |-> 0]
    /\ file = [f \in Files |-> NoFile]
    /\ at = "setup" /\ stop = "" /\ verdict = ""
    /\ captured = [s \in Range(Streams) |-> 0]
    /\ todo = <<>> /\ attempt = 0
    /\ requests = {} /\ rows = {} /\ total = 0 /\ stored = {} /\ counted = 0
    /\ open = TRUE /\ given = FALSE /\ faults = 0

-----------------------------------------------------------------------------
(* The processes.                                                          *)

GroupAlive == leader \in Alive \/ rest # {}

(* The byte written may be the last one of a secret.  One secret a stream  *)
(* is enough to tell what redaction changes.                               *)
Writes(s) ==
    /\ GroupAlive /\ written[s] < MaxBytes
    /\ written' = [written EXCEPT ![s] = @ + 1]
    /\ \/ UNCHANGED hidden
       \/ hidden[s] = 0 /\ written'[s] >= SecretSize /\ hidden' = [hidden EXCEPT ![s] = written'[s]]
    /\ UNCHANGED <<mode, group, file, handler, service, faults>>

(* A file appears, grows, shrinks or is removed. *)
ChangesFile(f) ==
    /\ GroupAlive
    /\ \E size \in FileSizes : size # file[f] /\ file' = [file EXCEPT ![f] = size]
    /\ UNCHANGED <<mode, group, streams, handler, service, faults>>

Forks ==
    /\ GroupAlive
    /\ \E kind \in IF stop = "" \/ at = "stopping" THEN {"running", "deaf"} ELSE {"late"} :
        kind \notin rest /\ rest' = rest \cup {kind}
    /\ Cardinality(rest) < MaxOthers
    /\ UNCHANGED <<mode, leader, alone, streams, file, handler, service, faults>>

(* The shell ends: what is left of its group then has outlived it.         *)
NotesSurvivors == alone' = (alone /\ (leader' \in Alive \/ rest' = {}))

LeaderExits ==
    /\ leader \in Alive
    /\ leader' \in {"zero", "nonzero"}
    /\ UNCHANGED rest /\ NotesSurvivors
    /\ UNCHANGED <<mode, streams, file, handler, service, faults>>

(* The last process of a kind ends. *)
OtherExits ==
    /\ \E kind \in rest : rest' = rest \ {kind}
    /\ UNCHANGED <<mode, leader, alone, streams, file, handler, service, faults>>

(* Somebody else ends the execution or takes it over. *)
ExecutionEnds ==
    /\ open /\ open' = FALSE
    /\ UNCHANGED <<mode, processes, handler, requests, rows, total, stored, counted, faults>>

-----------------------------------------------------------------------------
(* The sandbox.                                                            *)

Return(result) == at' = "done" /\ verdict' = result

(* Checks before anything runs. *)
Refuse ==
    /\ at = "setup" /\ mode # "live"
    /\ Return(IF mode = "dry_run" THEN "succeeded" ELSE "policy_blocked")
    /\ UNCHANGED <<mode, processes, stop, captured, todo, attempt, given, service, faults>>

(* The workspace cannot be made (an error ends the handler), or the shell  *)
(* cannot be started (a result whose empty streams are uploaded).          *)
SetupFails ==
    /\ at = "setup" /\ mode = "live" /\ faults < MaxFaults
    /\ faults' = faults + 1
    /\ \/ Return("sandbox_setup_failed") /\ UNCHANGED todo
       \/ at' = "uploading" /\ verdict' = "sandbox_setup_failed" /\ todo' = Streams
    /\ UNCHANGED <<mode, processes, stop, captured, attempt, given, service>>

Start ==
    /\ at = "setup" /\ mode = "live"
    /\ leader' \in {"running", "deaf"}
    /\ at' = "waiting"
    /\ UNCHANGED <<mode, rest, alone, streams, file, stop, verdict, captured, todo, attempt,
                   given, service, faults>>

WaitReturns ==
    /\ at = "waiting" /\ leader \notin Alive
    /\ at' = "draining"
    /\ UNCHANGED <<mode, processes, stop, verdict, captured, todo, attempt, given, service, faults>>

(* The deadline is looked at first and the cancellation event, which a     *)
(* heartbeat's answer may set at any time, last: the shell may have ended  *)
(* by itself in between.                                                   *)
WaitStops(reason) ==
    /\ at = "waiting"
    /\ stop' = reason /\ at' = "stopping"
    /\ UNCHANGED <<mode, processes, verdict, captured, todo, attempt, given, service, faults>>

(* _kill_process_group: SIGTERM to the group, whether or not the shell has *)
(* just ended.                                                             *)
Terminate ==
    /\ at = "stopping"
    /\ leader' = IF leader = "running" THEN "terminated" ELSE leader
    /\ rest' = rest \ {"running"} /\ NotesSurvivors
    /\ at' = "grace"
    /\ UNCHANGED <<mode, streams, file, stop, verdict, captured, todo, attempt, given, service, faults>>

(* The grace period waits for the shell alone, while its group runs on.    *)
GraceReturns ==
    /\ at = "grace" /\ leader \notin Alive
    /\ at' = "draining"
    /\ UNCHANGED <<mode, processes, stop, verdict, captured, todo, attempt, given, service, faults>>

(* A slip: SIGKILL goes to the shell alone. *)
KillsShellOnly ==
    /\ at = "grace" /\ leader \in Alive
    /\ leader' = "killed"
    /\ UNCHANGED rest /\ NotesSurvivors
    /\ at' = "draining"
    /\ UNCHANGED <<mode, streams, file, stop, verdict, captured, todo, attempt, given, service, faults>>

(* It is over and the shell is there still: SIGKILL to the group.          *)
GraceEnds ==
    /\ at = "grace" /\ leader \in Alive
    /\ leader' = "killed"
    /\ rest' = {} /\ NotesSurvivors
    /\ at' = "draining"
    /\ UNCHANGED <<mode, streams, file, stop, verdict, captured, todo, attempt, given, service, faults>>

(* What a stream's buffer holds when the reader is joined: all of it once  *)
(* nobody can write any more, else what was read before the join times out.*)
Capturable(s) ==
    LET kept == Min({written[s], StreamLimit})
    IN  IF GroupAlive THEN 0 .. kept ELSE {kept}

(* Positions of the declared files that exist, and what is collected when  *)
(* nothing is wrong with them: these, in the order of their declarations.  *)
Present(positions) == {i \in positions : Declared[i] \in Files /\ file[Declared[i]] # NoFile}

Collected ==
    {s \in BoundedSeq(Files, Len(Declared)) :
        /\ \A i \in DOMAIN s : \E m \in Present(DOMAIN Declared) : s[i] = Declared[m]
        /\ \A m \in Present(DOMAIN Declared) : \E i \in DOMAIN s : s[i] = Declared[m]
        /\ \A i, j \in DOMAIN s : \A m, n \in DOMAIN Declared :
            i < j /\ s[i] = Declared[m] /\ s[j] = Declared[n] => m < n}

(* What collect_artifacts raises an error for at the i-th declaration.     *)
Missing(i) == Declared[i] \in Files \cap Required /\ file[Declared[i]] = NoFile

Refused(i) ==
    /\ Declared[i] \in Files /\ file[Declared[i]] # NoFile
    /\ \/ file[Declared[i]] > FileLimit
       \/ Cardinality(Present(1 .. (i - 1))) >= MaxArtifacts

(* The first error ends it, and nothing is collected.                      *)
Defect ==
    LET wrong == {i \in DOMAIN Declared : Missing(i) \/ Refused(i)}
    IN  IF wrong = {} THEN ""
        ELSE IF Missing(Min(wrong)) THEN "required_artifact_missing" ELSE "action_input_invalid"

Outcome ==
    IF stop # "" THEN stop
    ELSE IF Defect # "" THEN Defect
    ELSE IF leader = "nonzero" THEN "action_failed" ELSE "succeeded"

(* A stopped command's files are not collected. *)
Uploadable == IF stop = "" /\ Defect = "" THEN Collected ELSE {<<>>}

(* A slip: the buffers are read while the reader threads still run. *)
JoinNotAwaited ==
    /\ at = "draining"
    /\ captured' \in {c \in [Range(Streams) -> 0 .. MaxBytes] :
                        \A s \in DOMAIN c : c[s] <= Min({written[s], StreamLimit})}
    /\ verdict' = Outcome
    /\ \E files \in Uploadable : todo' = Streams \o files
    /\ at' = "uploading"
    /\ UNCHANGED <<mode, processes, stop, attempt, given, service, faults>>

(* A slip: the readers are joined without a timeout. *)
JoinAwaitsEnd ==
    /\ at = "draining" /\ ~GroupAlive
    /\ captured' = [s \in Range(Streams) |-> Min({written[s], StreamLimit})]
    /\ verdict' = Outcome
    /\ \E files \in Uploadable : todo' = Streams \o files
    /\ at' = "uploading"
    /\ UNCHANGED <<mode, processes, stop, attempt, given, service, faults>>

(* Joining the readers, then collecting. *)
Collect ==
    /\ at = "draining"
    /\ captured' \in {c \in [Range(Streams) -> 0 .. MaxBytes] :
                        \A s \in DOMAIN c : c[s] \in Capturable(s)}
    /\ verdict' = Outcome
    /\ \E files \in Uploadable : todo' = Streams \o files
    /\ at' = "uploading"
    /\ UNCHANGED <<mode, processes, stop, attempt, given, service, faults>>

(* A file that cannot be read, or that a process removes between two looks *)
(* at it, is an OSError nobody below the executor catches.                 *)
CollectRaises ==
    /\ at = "draining" /\ stop = "" /\ Files # {}
    /\ \/ GroupAlive /\ UNCHANGED faults
       \/ faults < MaxFaults /\ faults' = faults + 1
    /\ at' = "raised"
    /\ UNCHANGED <<mode, processes, stop, verdict, captured, todo, attempt, given, service>>

-----------------------------------------------------------------------------
(* The uploader.                                                           *)

(* The length of the first n bytes of a stream once the secret, if all of  *)
(* it is among them, is replaced.                                          *)
Redacted(s, n) == IF hidden[s] \in 1 .. n THEN n - SecretSize + MaskSize ELSE n

(* The bytes of an output as they are read, and cut again, for the upload. *)
(* The sandbox's own cut of a stream is not passed on: the uploader        *)
(* reports only its own.                                                   *)
Length(o) == IF o \in Files THEN file[o] ELSE Redacted(o, captured[o])

Limit(o) == IF o \in Files THEN FileLimit ELSE StreamLimit

SizeOf(o) == Min({Length(o), Limit(o)})

Truncated(o) == Length(o) > Limit(o)

RequestOf(o, n) == [output |-> o, attempt |-> n, size |-> SizeOf(o), truncated |-> Truncated(o), stage |-> "sent"]

(* A file that is gone by now is skipped. *)
UploadNext ==
    /\ at = "uploading" /\ todo # <<>> /\ attempt = 0
    /\ IF Head(todo) \in Files /\ file[Head(todo)] = NoFile
       THEN todo' = Tail(todo) /\ UNCHANGED <<attempt, requests>>
       ELSE /\ attempt' = 1 /\ requests' = requests \cup {RequestOf(Head(todo), 1)}
            /\ UNCHANGED todo
    /\ UNCHANGED <<mode, processes, at, stop, verdict, captured, given, rows, total, stored,
                   counted, open, faults>>

(* The reply of the request the uploader waits for moves it on; the bytes  *)
(* sent again are the ones read at first.                                  *)
Awaits(q) == at = "uploading" /\ attempt = q.attempt /\ todo # <<>> /\ Head(todo) = q.output

Finished == todo' = Tail(todo) /\ attempt' = 0

(* A slip: a failed upload is not tried again. *)
GivesUpAtOnce(q, others) == Finished /\ requests' = others

RetryOrGiveUp(q, others) ==
    IF attempt < MaxRetries
    THEN /\ attempt' = attempt + 1
         /\ requests' = others \cup {[q EXCEPT !.attempt = @ + 1, !.stage = "sent"]}
         /\ UNCHANGED todo
    ELSE Finished /\ requests' = others

Accepted(q) ==
    IF Awaits(q) THEN Finished ELSE UNCHANGED <<todo, attempt>>

(* A server error answers q, which is over. *)
ServerError(q) ==
    IF Awaits(q) THEN RetryOrGiveUp(q, requests \ {q})
    ELSE requests' = requests \ {q} /\ UNCHANGED <<todo, attempt>>

(* The client's timeout: the request goes on without it. *)
UploadTimesOut(q) ==
    /\ q \in requests /\ Awaits(q) /\ faults < MaxFaults
    /\ faults' = faults + 1 /\ given' = TRUE
    /\ RetryOrGiveUp(q, requests)
    /\ UNCHANGED <<mode, processes, at, stop, verdict, captured, rows, total, stored, counted, open>>

UploadsEnd ==
    /\ at = "uploading" /\ todo = <<>>
    /\ at' = "cleaning"
    /\ UNCHANGED <<mode, processes, stop, verdict, captured, todo, attempt, given, service, faults>>

CleansUp == CleanupPolicy = "always" \/ (CleanupPolicy = "on_success" /\ verdict = "succeeded")

Clean ==
    /\ at = "cleaning"
    /\ file' = IF CleansUp THEN [f \in Files |-> NoFile] ELSE file
    /\ at' = "done"
    /\ UNCHANGED <<mode, group, streams, stop, verdict, captured, todo, attempt, given, service,
                   faults>>

Returned == at \in {"done", "raised", "crashed"}

(* The runner dies, and what it knew with it; the group was started in a   *)
(* session of its own.                                                     *)
RunnerCrashes ==
    /\ ~Returned /\ faults < MaxFaults
    /\ at' = "crashed" /\ faults' = faults + 1
    /\ todo' = <<>> /\ attempt' = 0
    /\ UNCHANGED <<mode, processes, stop, verdict, captured, given, service>>

-----------------------------------------------------------------------------
(* create_from_runner_upload.                                              *)

WithinLimits(q) ==
    /\ counted + q.size <= DailyQuota
    /\ total + q.size <= Quota
    /\ Cardinality(rows) < StepLimit

(* The serializer refuses a file without bytes; the checks that follow     *)
(* read the execution, the rows and the counter without a lock.  A refused *)
(* upload is not tried again.                                              *)
UploadChecked(q) ==
    /\ q \in requests /\ q.stage = "sent"
    /\ IF q.size > 0 /\ open /\ WithinLimits(q)
       THEN /\ requests' = (requests \ {q}) \cup {[q EXCEPT !.stage = "checked"]}
            /\ UNCHANGED <<todo, attempt>>
       ELSE requests' = requests \ {q} /\ Accepted(q)
    /\ UNCHANGED <<mode, processes, at, stop, verdict, captured, given, rows, total, stored,
                   counted, open, faults>>

Key(q) == [output |-> q.output, attempt |-> q.attempt]

UploadSaved(q) ==
    /\ q \in requests /\ q.stage = "checked"
    /\ stored' = stored \cup {Key(q)}
    /\ requests' = (requests \ {q}) \cup {[q EXCEPT !.stage = "saved"]}
    /\ UNCHANGED <<mode, processes, handler, rows, total, counted, open, faults>>

(* A failed write may leave a part of the file behind. *)
SaveFails(q) ==
    /\ q \in requests /\ q.stage = "checked" /\ faults < MaxFaults
    /\ faults' = faults + 1
    /\ stored' \in {stored, stored \cup {Key(q)}}
    /\ ServerError(q)
    /\ UNCHANGED <<mode, processes, at, stop, verdict, captured, given, rows, total, counted, open>>

(* The row with its audit event, then the counter; the reply may be lost,  *)
(* which the uploader sees as a timeout.                                   *)
UploadRecorded(q) ==
    /\ q \in requests /\ q.stage = "saved"
    /\ rows' = rows \cup {[output |-> q.output, attempt |-> q.attempt, size |-> q.size,
                           truncated |-> q.truncated]}
    /\ total' = total + q.size /\ counted' = counted + q.size
    /\ \/ requests' = requests \ {q} /\ Accepted(q) /\ UNCHANGED <<given, faults>>
       \/ /\ Awaits(q) /\ faults < MaxFaults
          /\ faults' = faults + 1 /\ UNCHANGED given
          /\ RetryOrGiveUp(q, requests \ {q})
    /\ UNCHANGED <<mode, processes, at, stop, verdict, captured, stored, open>>

(* A slip: the clean-up removes every stored file of the output. *)
FailedRowRemovesStep(q) ==
    /\ q \in requests /\ q.stage = "saved" /\ faults < MaxFaults
    /\ faults' = faults + 1
    /\ stored' = stored \ {k \in stored : k.output = q.output}
    /\ ServerError(q)
    /\ UNCHANGED <<mode, processes, at, stop, verdict, captured, given, rows, total, counted, open>>

(* The transaction fails: the file just written is removed. *)
RowFails(q) ==
    /\ q \in requests /\ q.stage = "saved" /\ faults < MaxFaults
    /\ faults' = faults + 1
    /\ stored' = stored \ {Key(q)}
    /\ ServerError(q)
    /\ UNCHANGED <<mode, processes, at, stop, verdict, captured, given, rows, total, counted, open>>

-----------------------------------------------------------------------------
(* What the processes do once the handler has returned, or died, is not    *)
(* looked at any more.                                                     *)
Processes ==
    \/ \E s \in NoisyStreams : Writes(s)
    \/ \E f \in Files : ChangesFile(f)
    \/ Forks \/ LeaderExits \/ OtherExits

RunnerStep ==
    \/ Refuse \/ Start \/ WaitReturns
    \/ \E reason \in {"timeout", "cancelled"} : WaitStops(reason)
    \/ Terminate \/ GraceReturns \/ GraceEnds
    \/ Collect \/ UploadNext \/ UploadsEnd \/ Clean

Service(q) == UploadChecked(q) \/ UploadSaved(q) \/ UploadRecorded(q)

Next ==
    \/ ~Returned /\ Processes
    \/ ExecutionEnds
    \/ RunnerStep \/ SetupFails \/ CollectRaises \/ RunnerCrashes
    \/ \E q \in requests : Service(q) \/ UploadTimesOut(q) \/ SaveFails(q) \/ RowFails(q)

(* The deadline of the sandbox and the timeouts of the client are the      *)
(* runner's own clock; Django answers what reaches it.  The processes owe  *)
(* nothing.                                                                *)
Fairness == WF_vars(RunnerStep) /\ WF_vars(\E q \in requests : Service(q))

Spec == Init /\ [][Next]_vars /\ Fairness

-----------------------------------------------------------------------------
(* Properties.                                                             *)

(* Every part of the state has a value the code can give it. *)
TypeOK ==
    /\ mode \in {"live", "dry_run", "blocked"}
    /\ leader \in LeaderStates /\ rest \subseteq Kinds /\ alone \in BOOLEAN
    /\ written \in [Range(Streams) -> 0 .. MaxBytes] /\ captured \in [Range(Streams) -> 0 .. MaxBytes]
    /\ hidden \in [Range(Streams) -> {0} \cup (SecretSize .. MaxBytes)]
    /\ file \in [Files -> FileSizes]
    /\ at \in Places /\ stop \in {"", "timeout", "cancelled"} /\ verdict \in Verdicts
    /\ todo \in BoundedSeq(Outputs, Len(Streams) + Len(Declared)) /\ attempt \in 0 .. MaxRetries
    /\ requests \subseteq Upload /\ rows \subseteq Row /\ IsFiniteSet(rows) /\ stored \subseteq Keys
    /\ {total, counted} \subseteq Nat /\ {open, given} \subseteq BOOLEAN /\ faults \in 0 .. MaxFaults

(* Once the sandbox has stopped a command for its deadline or a            *)
(* cancellation, the shell is gone.  If it had to be killed its whole      *)
(* group went with it; if it ended within the grace period a process may   *)
(* be left that handles SIGTERM or was started after it was sent, and no   *)
(* other one.                                                              *)
GroupStopped ==
    stop # "" /\ at \notin {"stopping", "grace", "crashed"} =>
        /\ leader \notin Alive /\ "running" \notin rest
        /\ leader = "killed" => rest = {}

(* What is recorded of a stream is a beginning of what the command wrote,  *)
(* with the secret in it replaced and cut again at the uploader's limit;   *)
(* when no process outlived the shell the beginning is all of it, up to    *)
(* the limit, although readers and writers run in threads and processes of *)
(* their own and the command may still write while it is being stopped.    *)
StreamAsWritten ==
    \A r \in rows : r.output \in Range(Streams) =>
        LET kept == Min({written[r.output], StreamLimit})
        IN  \E n \in 0 .. kept :
                /\ r.size = Min({Redacted(r.output, n), StreamLimit})
                /\ r.truncated = (Redacted(r.output, n) > StreamLimit)
                /\ alone => n = kept

(* A row without bytes is never left behind, whichever attempt failed, was *)
(* given up or came late, and the limits per step and execution hold as    *)
(* long as no upload was given up while it was at work.                    *)
RowsBacked ==
    /\ \A r \in rows : Key(r) \in stored
    /\ ~given => total <= Quota /\ Cardinality(rows) <= StepLimit

(* After the uploads of a command that succeeds,                           *)
(* check_step_evidence_completeness finds every required file, although an *)
(* attempt of the upload may have failed, timed out or lost its reply: the *)
(* retry makes up for it.  Exceptions are a file without bytes, which the  *)
(* API refuses, an execution that ended, limits without room left for the  *)
(* file, and a process that outlived the shell and may have changed it.    *)
(* Nothing is recorded for a required key that is declared without a path. *)
RoomLeft ==
    /\ total + FileLimit <= Quota /\ counted + FileLimit <= DailyQuota
    /\ Cardinality(rows) < StepLimit

EvidenceComplete ==
    /\ at = "cleaning" /\ verdict = "succeeded"
    /\ open /\ faults < MaxRetries /\ alone /\ RoomLeft
    => \A f \in Required \cap Files : file[f] # 0 => \E r \in rows : r.output = f

(* The handler always ends, if only with an error it does not handle:      *)
(* stopping, joining and retrying are bounded, whatever the command and    *)
(* the API do.                                                             *)
HandlerReturns == <>Returned
=============================================================================
