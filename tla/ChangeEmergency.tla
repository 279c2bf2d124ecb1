--------------------------- MODULE ChangeEmergency ---------------------------
(***************************************************************************)
(* Emergency controls of one change: exceptions, breakglass sessions and   *)
(* retrospective reviews, the preflight gates they open and the closure    *)
(* they hold back.                                                         *)
(*                                                                         *)
(* Two handlers decide an exception and take its two row locks in opposite *)
(* orders; resolving, ending and expiring save rows that were read without *)
(* a lock; the review of an approved exception is created after the commit *)
(* of its approval.  The course of the change itself (ChangeDispatch) is   *)
(* reduced to its status.                                                  *)
(***************************************************************************)
EXTENDS Naturals, FiniteSets

CONSTANTS Users,        \* members with the operator role or above
          Admins,       \* the admins and owners among them
          Exceptions,   \* rows of ChangeException that may come to exist
          Sessions,     \* rows of BreakglassSession that may come to exist
          Rules,        \* freeze rules of the organization
          BlockRules,   \* the rules with behavior "block"
          Types,        \* exception types that are requested
          Gates,        \* gate types a session's scope may name
          Dispositions, \* dispositions reviews are submitted with
          Windows,      \* "scheduled" if the change has a window, "none" if not, or both
          MaxInFlight,  \* bound on saves that follow an unlocked read
          Autocommit,   \* work after a commit runs outside a transaction
          NoUser

ExceptionTypes == {"freeze_override", "window_overrun", "late_verification",
                   "policy_override", "missing_artifact"}

ASSUME EmergencyAssumption ==
    /\ Admins \subseteq Users /\ NoUser \notin Users
    /\ BlockRules \subseteq Rules
    /\ Types \subseteq ExceptionTypes
    /\ Gates \subseteq ExceptionTypes
    /\ Dispositions \subseteq {"accepted", "needs_remediation", "control_failure"}
    /\ Windows \subseteq {"none", "scheduled"}
    /\ MaxInFlight \in Nat
    /\ Autocommit \in BOOLEAN
    /\ Exceptions \cap Sessions = {}

VARIABLES status,     \* ChangeRecord.status
          closure,    \* the ChangeClosure row exists
          mismatch,   \* its terminal_reason is request_integrity_mismatch
          exc,        \* the exceptions
          request,    \* the status of each exception's ApprovalRequest
          session,    \* the breakglass sessions
          review,     \* the retrospective review of an exception or a session
          required,   \* ChangeRecord.retro_review_required
          blocking,   \* ChangeRecord.retro_review_blocking_status
          due,        \* exceptions and sessions past expires_at
          lateReview, \* reviews past due_at
          hook,       \* approved exceptions whose review is created after the commit
          saving,     \* unlocked saves under way: what was read and is about to be written
          deciding,   \* the decision each user has begun
          evaluation, \* a policy evaluation is linked to the change
          freeze,     \* the active freeze rules that match the change's targets
          window,     \* the phase of the change window
          passed,     \* a fresh preflight check that passed, with what covered its gates
          granted     \* what covered the gates of the dispatch

vars == <<status, closure, mismatch, exc, request, session, review, required, blocking, due,
          lateReview, hook, saving, deciding, evaluation, freeze, window, passed, granted>>

rows == <<exc, request, session, review, required, blocking>>
course == <<status, closure, mismatch, evaluation, freeze, window, passed, granted>>

(***************************************************************************)
(* Rows.                                                                   *)
(***************************************************************************)
ChangeStatus == {"approved", "dispatchable", "running", "verification_pending",
                 "verification_failed", "verified", "closed", "expired"}

ExceptionStatus == {"none", "pending_approval", "approved", "rejected", "resolved", "expired"}

SessionStatus == {"none", "active", "ended", "expired"}

SessionReviewStatus == {"pending", "submitted", "overdue"}

DispositionValues == {"accepted", "needs_remediation", "control_failure"}

ReviewStatus == {"none", "pending", "submitted"}

Sources == Exceptions \cup Sessions

NoRow == "none"

(* Types that need an admin's approval and a review once approved. *)
Severe == {"policy_override", "missing_artifact"}

NoDecision == [path |-> "none", row |-> NoRow, verdict |-> "none"]

NotPassed == [ok |-> FALSE, cover |-> {}]

ExceptionRow == [status : ExceptionStatus, type : ExceptionTypes, rule : Rules \cup {NoRow},
                 by : Users \cup {NoUser}, approver : Users \cup {NoUser}]

SessionRow == [status : SessionStatus, reviewed : SessionReviewStatus, gates : SUBSET Gates,
               wide : BOOLEAN, by : Users \cup {NoUser}]

ReviewRow == [status : ReviewStatus, disposition : DispositionValues \cup {"none"},
              by : Users \cup {NoUser}]

Init ==
    /\ status = "approved" /\ closure = FALSE /\ mismatch = FALSE
    /\ exc = [e \in Exceptions |-> [status |-> "none", type |-> "freeze_override",
                                    rule |-> NoRow, by |-> NoUser, approver |-> NoUser]]
    /\ request = [e \in Exceptions |-> "none"]
    /\ session = [s \in Sessions |-> [status |-> "none", reviewed |-> "pending", gates |-> {},
                                      wide |-> FALSE, by |-> NoUser]]
    /\ review = [x \in Sources |-> [status |-> "none", disposition |-> "none", by |-> NoUser]]
    /\ required = FALSE /\ blocking = ""
    /\ due = {} /\ lateReview = {} /\ hook = {} /\ saving = {}
    /\ deciding = [u \in Users |-> NoDecision]
    /\ evaluation = FALSE
    /\ freeze \in SUBSET Rules
    /\ window \in Windows
    /\ passed = NotPassed
    /\ granted = {}

(***************************************************************************)
(* Locks.  A handler that has begun a decision holds one row: the          *)
(* exception on the direct path, the approval request on the central one.  *)
(***************************************************************************)
ExceptionFree(e) == \A u \in Users : ~(deciding[u].path = "direct" /\ deciding[u].row = e)

RequestFree(e) == \A u \in Users : ~(deciding[u].path = "central" /\ deciding[u].row = e)

(***************************************************************************)
(* Expiry.  A due row that is still open is saved as expired; the session's*)
(* review status is written again from the review's due time.              *)
(***************************************************************************)
Lapsed(e) == e \in due /\ exc[e].status \in {"pending_approval", "approved"}

ExpireExceptions ==
    [e \in Exceptions |-> IF Lapsed(e) /\ ExceptionFree(e) THEN [exc[e] EXCEPT !.status = "expired"]
                                                          ELSE exc[e]]

ExpiredSession(s) ==
    [session[s] EXCEPT !.status = "expired",
                       !.reviewed = IF s \in lateReview THEN "overdue" ELSE "pending"]

ExpireSessions ==
    [s \in Sessions |-> IF s \in due /\ session[s].status = "active" THEN ExpiredSession(s)
                                                                    ELSE session[s]]

ActiveSession(sessions) == {s \in Sessions : sessions[s].status = "active"}

EndActive(sessions) ==
    [s \in Sessions |-> IF sessions[s].status = "active" THEN [sessions[s] EXCEPT !.status = "ended"]
                                                        ELSE sessions[s]]

(***************************************************************************)
(* Exceptions.                                                             *)
(***************************************************************************)

(* A freeze override names a rule of the organization that may be overridden.
   That its targets belong to the change is taken as given. *)
FreezeScopeAccepted(rule) == rule \in Rules \ BlockRules

(* A policy override names the evaluation linked to the change. *)
PolicyScopeAccepted(rule) == evaluation /\ rule = NoRow

(* A window overrun names the change's window, once the window has opened. *)
WindowScopeAccepted(rule) == window \in {"open", "closed"} /\ rule = NoRow

ScopeAccepted(type, rule) ==
    CASE type = "freeze_override" -> FreezeScopeAccepted(rule)
      [] type = "policy_override" -> PolicyScopeAccepted(rule)
      [] type = "window_overrun" -> WindowScopeAccepted(rule)
      [] OTHER -> rule = NoRow

(* The status of the change is not looked at: a closed change accepts requests too. *)
RequestException(u, e, type, rule) ==
    /\ exc[e].status = "none"
    /\ ScopeAccepted(type, rule)
    /\ exc' = [exc EXCEPT ![e] = [status |-> "pending_approval", type |-> type, rule |-> rule,
                                  by |-> u, approver |-> NoUser]]
    /\ request' = [request EXCEPT ![e] = "pending"]
    /\ UNCHANGED <<session, review, required, blocking, due, lateReview, hook, saving, deciding>>
    /\ UNCHANGED course

MayApprove(u, e) ==
    /\ exc[e].by # u
    /\ exc[e].type \in Severe => u \in Admins

(* What an approval does beside the exception's own row. *)
ApprovalEffects(e, verdict) ==
    IF verdict = "approved" /\ exc[e].type \in Severe
    THEN /\ required' = TRUE /\ blocking' = "pending" /\ hook' = hook \cup {e}
    ELSE UNCHANGED <<required, blocking, hook>>

Decided(e, u, verdict) ==
    [ExpireExceptions EXCEPT
        ![e] = [exc[e] EXCEPT !.status = verdict,
                              !.approver = IF verdict = "approved" THEN u ELSE @]]

(* A slip: a row that was decided already is decided again. *)
BeginOnStaleRow(u, e, verdict) ==
    /\ deciding[u] = NoDecision
    /\ exc[e].status # "none"
    /\ verdict = "approved" => MayApprove(u, e)
    /\ ExceptionFree(e)
    /\ deciding' = [deciding EXCEPT ![u] = [path |-> "direct", row |-> e, verdict |-> verdict]]
    /\ UNCHANGED <<rows, due, lateReview, hook, saving>> /\ UNCHANGED course

(* The views of the exception: permission first, then the exception's row is
   locked and found pending and not lapsed. *)
DirectBegin(u, e, verdict) ==
    /\ deciding[u] = NoDecision
    /\ exc[e].status = "pending_approval" /\ ~Lapsed(e)
    /\ verdict = "approved" => MayApprove(u, e)
    /\ ExceptionFree(e)
    /\ deciding' = [deciding EXCEPT ![u] = [path |-> "direct", row |-> e, verdict |-> verdict]]
    /\ UNCHANGED <<rows, due, lateReview, hook, saving>> /\ UNCHANGED course

DirectCommit(u) ==
    LET e == deciding[u].row
        verdict == deciding[u].verdict
    IN /\ deciding[u].path = "direct"
       /\ RequestFree(e)
       /\ exc' = Decided(e, u, verdict)
       /\ request' = [request EXCEPT ![e] = IF @ = "pending" THEN verdict ELSE @]
       /\ ApprovalEffects(e, verdict)
       /\ deciding' = [deciding EXCEPT ![u] = NoDecision]
       /\ UNCHANGED <<session, review, due, lateReview, saving>> /\ UNCHANGED course

(* The approvals inbox: the request's row is locked and found pending. *)
CentralBegin(u, e, verdict) ==
    /\ deciding[u] = NoDecision
    /\ request[e] = "pending"
    /\ RequestFree(e)
    /\ deciding' = [deciding EXCEPT ![u] = [path |-> "central", row |-> e, verdict |-> verdict]]
    /\ UNCHANGED <<rows, due, lateReview, hook, saving>> /\ UNCHANGED course

(* A slip: the central decision does not look at the exception's status. *)
CentralIgnoresStatus(u, e, verdict) ==
    verdict = "approved" => MayApprove(u, e)

CentralAllowed(u, e, verdict) ==
    /\ exc[e].status = "pending_approval" /\ ~Lapsed(e)
    /\ verdict = "approved" => MayApprove(u, e)

CentralCommit(u) ==
    LET e == deciding[u].row
        verdict == deciding[u].verdict
    IN /\ deciding[u].path = "central"
       /\ ExceptionFree(e)
       /\ IF CentralAllowed(u, e, verdict)
          THEN /\ exc' = Decided(e, u, verdict)
               /\ request' = [request EXCEPT ![e] = verdict]
               /\ ApprovalEffects(e, verdict)
          ELSE UNCHANGED <<exc, request, required, blocking, hook>>
       /\ deciding' = [deciding EXCEPT ![u] = NoDecision]
       /\ UNCHANGED <<session, review, due, lateReview, saving>> /\ UNCHANGED course

(* Each holds what the other waits for: the database ends one of the two. *)
DeadlockAborted(u, v) ==
    /\ deciding[u].path = "direct" /\ deciding[v].path = "central"
    /\ deciding[u].row = deciding[v].row
    /\ \E loser \in {u, v} : deciding' = [deciding EXCEPT ![loser] = NoDecision]
    /\ UNCHANGED <<rows, due, lateReview, hook, saving>> /\ UNCHANGED course

(* After the commit: the review's creation locks the change row.  Outside a
   transaction that query raises, and the review is not created. *)
EnsureRetroReview(e) ==
    /\ e \in hook
    /\ hook' = hook \ {e}
    /\ IF Autocommit
       THEN UNCHANGED <<review, required, blocking>>
       ELSE /\ review' = [review EXCEPT ![e] = [@ EXCEPT !.status = "pending"]]
            /\ required' = TRUE /\ blocking' = "pending"
    /\ UNCHANGED <<exc, request, session, due, lateReview, saving, deciding>> /\ UNCHANGED course

(***************************************************************************)
(* Saves that follow an unlocked read: resolve, end, expire.               *)
(***************************************************************************)
Save(op, row) == [op |-> op, row |-> row]

BeginSave(op, row) ==
    /\ Cardinality(saving) < MaxInFlight
    /\ saving' = saving \cup {Save(op, row)}
    /\ UNCHANGED <<rows, due, lateReview, hook, deciding>> /\ UNCHANGED course

ResolveRead(e) == exc[e].status = "approved" /\ BeginSave("resolve", e)

ExpireRead(e) == Lapsed(e) /\ BeginSave("expire", e)

EndRead(s) == session[s].status = "active" /\ BeginSave("end", s)

SessionExpireRead(s) == s \in due /\ session[s].status = "active" /\ BeginSave("lapse", s)

FinishSave(op, row) ==
    /\ Save(op, row) \in saving
    /\ saving' = saving \ {Save(op, row)}
    /\ UNCHANGED <<request, review, required, blocking, due, lateReview, hook, deciding>>
    /\ UNCHANGED course

ResolveSave(e) ==
    /\ FinishSave("resolve", e)
    /\ ExceptionFree(e)
    /\ exc' = [exc EXCEPT ![e].status = "resolved"]
    /\ UNCHANGED session

ExpireSave(e) ==
    /\ FinishSave("expire", e)
    /\ ExceptionFree(e)
    /\ exc' = [exc EXCEPT ![e].status = "expired"]
    /\ UNCHANGED session

EndSave(s) ==
    /\ FinishSave("end", s)
    /\ session' = [session EXCEPT ![s].status = "ended"]
    /\ UNCHANGED exc

SessionExpireSave(s) ==
    /\ FinishSave("lapse", s)
    /\ session' = [session EXCEPT ![s] = ExpiredSession(s)]
    /\ UNCHANGED exc

(***************************************************************************)
(* Breakglass.  Activation holds the change row; the partial unique index  *)
(* admits one active session.                                              *)
(***************************************************************************)
Activatable == {"approved", "dispatchable", "running", "verification_pending",
                "verification_failed", "verified"}

BreakglassScopeAccepted(gates) == gates # {}

ActivateBreakglass(u, s, gates, wide) ==
    /\ session[s].status = "none"
    /\ status \in Activatable
    /\ BreakglassScopeAccepted(gates)
    /\ ActiveSession(ExpireSessions) = {}
    /\ session' = [ExpireSessions EXCEPT
                      ![s] = [status |-> "active", reviewed |-> "pending", gates |-> gates,
                              wide |-> wide, by |-> u]]
    /\ required' = TRUE /\ blocking' = "pending"
    /\ review' = [review EXCEPT ![s].status = "pending"]
    /\ UNCHANGED <<exc, request, due, lateReview, hook, saving, deciding>> /\ UNCHANGED course

(* assert_breakglass_allows: the active session, after expiry, has the gate in
   its scope and all of the change's targets. *)
Allowing(gate) ==
    {s \in ActiveSession(ExpireSessions) : gate \in session[s].gates /\ session[s].wide}

(* The runner's heartbeat and the start of a step expire what is due. *)
RunnerHeartbeat ==
    /\ status = "running"
    /\ exc' = ExpireExceptions /\ session' = ExpireSessions
    /\ <<exc', session'>> # <<exc, session>>
    /\ UNCHANGED <<request, review, required, blocking, due, lateReview, hook, saving, deciding>>
    /\ UNCHANGED course

(***************************************************************************)
(* Retrospective reviews.                                                  *)
(***************************************************************************)

Recompute(reviews) ==
    IF \E x \in Sources : reviews[x].disposition = "control_failure" THEN "control_failure"
    ELSE IF \E x \in Sources : reviews[x].status = "pending" /\ x \in lateReview THEN "overdue"
    ELSE IF \E x \in Sources : reviews[x].status = "pending" THEN "pending"
    ELSE ""

MayReview(u, x, disposition) ==
    /\ IF x \in Sessions THEN session[x].by # u ELSE exc[x].by # u
    /\ disposition = "control_failure" => u \in Admins

SubmitRetroReview(u, x, disposition) ==
    /\ review[x].status = "pending"
    /\ MayReview(u, x, disposition)
    /\ review' = [review EXCEPT ![x] = [status |-> "submitted", disposition |-> disposition, by |-> u]]
    /\ session' = IF x \in Sessions THEN [session EXCEPT ![x].reviewed = "submitted"] ELSE session
    /\ blocking' = Recompute(review')
    /\ UNCHANGED <<exc, request, required, due, lateReview, hook, saving, deciding>>
    /\ UNCHANGED course

(* Without the required flag the reviews are not looked at. *)
ReviewsAllowClosure == required => \A x \in Sources : review[x].status # "pending"

(***************************************************************************)
(* The gates of the preflight that emergency records open.                 *)
(***************************************************************************)
(* A slip: an exception covers its rule whatever its status. *)
AnyExceptionCovers(type, rule) ==
    {e \in Exceptions : exc[e].status # "none" /\ exc[e].type = type /\ exc[e].rule = rule}

CoveringExceptions(type, rule) ==
    {e \in Exceptions : /\ ExpireExceptions[e].status = "approved" /\ e \notin due
                        /\ exc[e].type = type /\ exc[e].rule = rule}

FreezeGateOpen == \A r \in freeze : r \notin BlockRules /\ CoveringExceptions("freeze_override", r) # {}

WindowGateOpen == window \in {"none", "open"} \/ Allowing("window_overrun") # {}

(* No policy evaluation is linked before the change runs. *)
PolicyGateOpen == ~evaluation

GatesOpen == FreezeGateOpen /\ WindowGateOpen /\ PolicyGateOpen

CoverOfGates ==
    (UNION {CoveringExceptions("freeze_override", r) : r \in freeze})
        \cup (IF window \in {"none", "open"} THEN {} ELSE Allowing("window_overrun"))

RunPreflight ==
    /\ status = "approved"
    /\ passed' = [ok |-> GatesOpen, cover |-> IF GatesOpen THEN CoverOfGates ELSE {}]
    /\ exc' = ExpireExceptions /\ session' = ExpireSessions
    /\ UNCHANGED <<request, review, required, blocking, due, lateReview, hook, saving, deciding,
                   status, closure, mismatch, evaluation, freeze, window, granted>>

(* A preflight that passed is reused as long as it is fresh, whatever expired
   meanwhile.  No later step reads the check. *)
Dispatch ==
    /\ status = "approved"
    /\ passed.ok \/ GatesOpen
    /\ status' = "dispatchable"
    /\ granted' = IF passed.ok THEN passed.cover ELSE CoverOfGates
    /\ passed' = NotPassed
    /\ exc' = ExpireExceptions /\ session' = ExpireSessions
    /\ UNCHANGED <<request, review, required, blocking, due, lateReview, hook, saving, deciding,
                   closure, mismatch, evaluation, freeze, window>>

(***************************************************************************)
(* The course of the change, and its closure.                              *)
(***************************************************************************)
Bind ==
    /\ status = "dispatchable"
    /\ status' = "running"
    /\ exc' = ExpireExceptions /\ session' = ExpireSessions
    /\ UNCHANGED <<request, review, required, blocking, due, lateReview, hook, saving, deciding,
                   closure, mismatch, evaluation, freeze, window, passed, granted>>

(* The dispatch token runs out, or the bind finds that the request drifted. *)
DispatchExpires ==
    /\ status = "dispatchable"
    /\ status' = "expired"
    /\ UNCHANGED <<rows, due, lateReview, hook, saving, deciding, closure, mismatch, evaluation,
                   freeze, window, passed, granted>>

LinkPolicyEvaluation ==
    /\ status = "running" /\ ~evaluation
    /\ evaluation' = TRUE
    /\ UNCHANGED <<rows, due, lateReview, hook, saving, deciding, status, closure, mismatch, freeze,
                   window, passed, granted>>

(* A slip: the hook leaves the breakglass sessions of the change open. *)
HookKeepsSessions(outcome) ==
    /\ status = "running"
    /\ status' = outcome
    /\ UNCHANGED <<rows, due, lateReview, hook, saving, deciding, closure, mismatch, evaluation,
                   freeze, window, passed, granted>>

(* The hook of a completed execution ends the sessions; a failed execution, or
   a profile without verification, closes the change with no look at its reviews. *)
CompletionHook(outcome) ==
    /\ status = "running"
    /\ status' = outcome
    /\ session' = EndActive(session)
    /\ UNCHANGED <<exc, request, review, required, blocking, due, lateReview, hook, saving,
                   deciding, closure, mismatch, evaluation, freeze, window, passed, granted>>

(* The profile or the workflow was edited since the request was frozen, which
   nothing hinders: the hook closes the change before it comes to its sessions.
   (A runner's completion is refused then, the watchdog's is not.) *)
MismatchCloses ==
    /\ status = "running"
    /\ status' = "closed" /\ mismatch' = TRUE
    /\ UNCHANGED <<rows, due, lateReview, hook, saving, deciding, closure, evaluation,
                   freeze, window, passed, granted>>

Verify(outcome) ==
    /\ status = "verification_pending"
    /\ status' = outcome
    /\ exc' = ExpireExceptions /\ session' = ExpireSessions
    /\ UNCHANGED <<request, review, required, blocking, due, lateReview, hook, saving, deciding,
                   closure, mismatch, evaluation, freeze, window, passed, granted>>

CloseChange ==
    /\ ~closure
    /\ status \in {"verified", "verification_failed", "running"}
    /\ ReviewsAllowClosure
    /\ closure' = TRUE /\ status' = "closed"
    /\ exc' = ExpireExceptions
    /\ session' = EndActive(ExpireSessions)
    /\ UNCHANGED <<request, review, required, blocking, due, lateReview, hook, saving, deciding,
                   mismatch, evaluation, freeze, window, passed, granted>>

(***************************************************************************)
(* Time and the organization's calendar.                                   *)
(***************************************************************************)
(* The times matter as long as somebody still compares them. *)
ExpiryPasses(x) ==
    /\ x \notin due
    /\ IF x \in Exceptions THEN exc[x].status \in {"pending_approval", "approved"}
                            ELSE session[x].status = "active"
    /\ due' = due \cup {x}
    /\ UNCHANGED <<rows, lateReview, hook, saving, deciding>> /\ UNCHANGED course

ReviewDuePasses(x) ==
    /\ x \notin lateReview
    /\ \/ review[x].status = "pending"
       \/ x \in Sessions /\ (session[x].status = "active" \/ Save("lapse", x) \in saving)
    /\ lateReview' = lateReview \cup {x}
    /\ UNCHANGED <<rows, due, hook, saving, deciding>> /\ UNCHANGED course

CalendarMoves ==
    /\ \/ freeze' \in (SUBSET Rules) \ {freeze} /\ UNCHANGED <<window, passed>>
       \/ window = "scheduled" /\ window' = "open" /\ UNCHANGED <<freeze, passed>>
       \/ window = "open" /\ window' = "closed" /\ UNCHANGED <<freeze, passed>>
       \/ passed.ok /\ passed' = NotPassed /\ UNCHANGED <<freeze, window>>
    /\ status = "approved"
    /\ UNCHANGED <<rows, due, lateReview, hook, saving, deciding, status, closure, mismatch, evaluation, granted>>

Decisions ==
    \/ \E u \in Users, e \in Exceptions, v \in {"approved", "rejected"} :
           DirectBegin(u, e, v) \/ CentralBegin(u, e, v)
    \/ \E u \in Users : DirectCommit(u) \/ CentralCommit(u)
    \/ \E u, v \in Users : DeadlockAborted(u, v)

Saves ==
    \/ \E e \in Exceptions : ResolveRead(e) \/ ResolveSave(e) \/ ExpireRead(e) \/ ExpireSave(e)
    \/ \E s \in Sessions : EndRead(s) \/ EndSave(s) \/ SessionExpireRead(s) \/ SessionExpireSave(s)

Course ==
    \/ RunPreflight \/ Dispatch \/ Bind \/ DispatchExpires \/ LinkPolicyEvaluation \/ RunnerHeartbeat
    \/ \E o \in {"verification_pending", "closed"} : CompletionHook(o)
    \/ MismatchCloses
    \/ \E o \in {"verified", "verification_failed"} : Verify(o)
    \/ CloseChange

Next ==
    \/ \E u \in Users, e \in Exceptions, t \in Types, r \in Rules \cup {NoRow} :
           RequestException(u, e, t, r)
    \/ Decisions
    \/ \E e \in Exceptions : EnsureRetroReview(e)
    \/ Saves
    \/ \E u \in Users, s \in Sessions, g \in SUBSET Gates, w \in BOOLEAN : ActivateBreakglass(u, s, g, w)
    \/ \E u \in Users, x \in Sources, d \in Dispositions : SubmitRetroReview(u, x, d)
    \/ Course
    \/ \E x \in Sources : ExpiryPasses(x) \/ ReviewDuePasses(x)
    \/ CalendarMoves

Spec == Init /\ [][Next]_vars

(***************************************************************************)
(* Properties.                                                             *)
(***************************************************************************)

(* Every row has a status, a type and users the models of changes/models.py
   admit, and what is under way names rows that can exist. *)
TypeOK ==
    /\ status \in ChangeStatus /\ closure \in BOOLEAN /\ mismatch \in BOOLEAN
    /\ exc \in [Exceptions -> ExceptionRow]
    /\ request \in [Exceptions -> {"none", "pending", "approved", "rejected"}]
    /\ session \in [Sessions -> SessionRow]
    /\ review \in [Sources -> ReviewRow]
    /\ required \in BOOLEAN
    /\ blocking \in {"", "pending", "overdue", "control_failure"}
    /\ due \subseteq Sources /\ lateReview \subseteq Sources /\ hook \subseteq Exceptions
    /\ saving \subseteq [op : {"resolve", "expire", "end", "lapse"}, row : Sources]
    /\ deciding \in [Users -> [path : {"none", "direct", "central"}, row : Exceptions \cup {NoRow},
                               verdict : {"none", "approved", "rejected"}]]
    /\ evaluation \in BOOLEAN /\ freeze \subseteq Rules
    /\ window \in {"none", "scheduled", "open", "closed"}
    /\ passed \in [ok : BOOLEAN, cover : SUBSET Sources]
    /\ granted \subseteq Sources

(* An exception and its approval request are decided by two handlers with
   opposite lock orders.  They never end up decided differently: an exception
   in force has an approved request and was approved by somebody entitled to,
   not its requester; one whose request was rejected is never in force. *)
DecisionsAgree ==
    \A e \in Exceptions :
        /\ exc[e].status \in {"approved", "resolved"} =>
               /\ request[e] = "approved"
               /\ exc[e].approver \in Users \ {exc[e].by}
               /\ exc[e].type \in Severe => exc[e].approver \in Admins
        /\ request[e] = "rejected" => exc[e].status \in {"rejected", "expired"}
        /\ exc[e].status = "rejected" => request[e] = "rejected"

(* Closing a change, by a person or by the end of its execution, leaves no
   active breakglass session, also when an activation or an unlocked save races
   it, unless the request had drifted; and where a person closed it, every
   session was reviewed by somebody else than its activator.  (The end of an
   execution closes without reviews.) *)
EmergencyEndsAtClose ==
    /\ status = "closed" /\ ~mismatch => ActiveSession(session) = {}
    /\ closure => \A s \in Sessions : session[s].status # "none" =>
                      review[s].status = "submitted" /\ review[s].by # session[s].by

(* What covered the gates of a dispatch was in force at some time: exceptions
   approved by a second person, sessions whose scope has the gate. *)
DispatchWasAuthorized ==
    \A x \in granted :
        IF x \in Exceptions
        THEN request[x] = "approved" /\ exc[x].approver \in Users \ {exc[x].by}
        ELSE session[x].status # "none" /\ session[x].wide /\ "window_overrun" \in session[x].gates

(* An exception or a session that is no longer in force never comes back. *)
AuthorityNeverReturns ==
    [][/\ \A e \in Exceptions :
            exc[e].status \in {"rejected", "resolved", "expired"} =>
                exc'[e].status \in {"rejected", "resolved", "expired"}
       /\ \A s \in Sessions :
            session[s].status \in {"ended", "expired"} => session'[s].status \in {"ended", "expired"}]_vars
=============================================================================
