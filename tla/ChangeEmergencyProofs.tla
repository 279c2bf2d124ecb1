----------------------- MODULE ChangeEmergencyProofs -----------------------
(***************************************************************************)
(* Proofs about the emergency controls of a change, for any users,         *)
(* exceptions, sessions, freeze rules and number of saves under way.       *)
(*                                                                         *)
(* First which actions write which column, then what a step can do to one  *)
(* exception (ExceptionSteps) and to one session (SessionSteps); the       *)
(* invariants are proved from those two lemmas.                            *)
(***************************************************************************)
EXTENDS ChangeEmergency, TLAPS

Requests ==
    \E u \in Users, e \in Exceptions, t \in Types, r \in Rules \cup {NoRow} : RequestException(u, e, t, r)

Activates ==
    \E u \in Users, s \in Sessions, g \in SUBSET Gates, w \in BOOLEAN : ActivateBreakglass(u, s, g, w)

Reviews ==
    \E u \in Users, x \in Sources, d \in Dispositions : SubmitRetroReview(u, x, d)

Verdicts == {"approved", "rejected"}

Begins ==
    \E u \in Users, e \in Exceptions, v \in Verdicts : DirectBegin(u, e, v) \/ CentralBegin(u, e, v)

Commits == \E u \in Users : DirectCommit(u) \/ CentralCommit(u)

Aborts == \E u, v \in Users : DeadlockAborted(u, v)

ExceptionSaves == \E e \in Exceptions : ResolveSave(e) \/ ExpireSave(e)

SessionSaves == \E s \in Sessions : EndSave(s) \/ SessionExpireSave(s)

SaveReads ==
    \/ \E e \in Exceptions : ResolveRead(e) \/ ExpireRead(e)
    \/ \E s \in Sessions : EndRead(s) \/ SessionExpireRead(s)

Hooks == \E o \in {"verification_pending", "closed"} : CompletionHook(o)

Verifies == \E o \in {"verified", "verification_failed"} : Verify(o)

Retros == \E e \in Exceptions : EnsureRetroReview(e)

(* Which actions write which columns. *)
LEMMA ColumnSteps ==
    ASSUME [Next]_vars
    PROVE  /\ UNCHANGED status \/ Dispatch \/ Bind \/ DispatchExpires \/ Hooks \/ MismatchCloses \/ Verifies
                \/ CloseChange
           /\ UNCHANGED mismatch \/ MismatchCloses
           /\ UNCHANGED closure \/ CloseChange
           /\ UNCHANGED exc \/ Requests \/ Commits \/ ExceptionSaves \/ exc' = ExpireExceptions
           /\ UNCHANGED request \/ Requests \/ Commits
           /\ UNCHANGED session \/ SessionSaves \/ Activates \/ Reviews \/ Hooks \/ CloseChange
                \/ session' = ExpireSessions
           /\ UNCHANGED review \/ Retros \/ Activates \/ Reviews
           /\ UNCHANGED required \/ Commits \/ Retros \/ Activates
           /\ UNCHANGED blocking \/ Commits \/ Retros \/ Activates \/ Reviews
           /\ UNCHANGED due \/ \E x \in Sources : ExpiryPasses(x)
           /\ UNCHANGED lateReview \/ \E x \in Sources : ReviewDuePasses(x)
           /\ UNCHANGED hook \/ Commits \/ Retros
           /\ UNCHANGED saving \/ SaveReads \/ ExceptionSaves \/ SessionSaves
           /\ UNCHANGED deciding \/ Begins \/ Commits \/ Aborts
           /\ UNCHANGED evaluation \/ LinkPolicyEvaluation
           /\ UNCHANGED <<freeze, window>> \/ CalendarMoves
           /\ UNCHANGED passed \/ CalendarMoves \/ RunPreflight \/ Dispatch
           /\ UNCHANGED granted \/ Dispatch
<1> USE DEF rows, course
<1>1. CASE UNCHANGED vars
  BY <1>1 DEF vars
<1>2. CASE Requests
  BY <1>2 DEF Requests, RequestException
<1>3. CASE Decisions
  <2>1. CASE Begins
    BY <2>1 DEF Begins, DirectBegin, CentralBegin
  <2>2. CASE Commits
    BY <2>2 DEF Commits, DirectCommit, CentralCommit
  <2>3. CASE Aborts
    BY <2>3 DEF Aborts, DeadlockAborted
  <2> QED
    BY <1>3, <2>1, <2>2, <2>3 DEF Decisions, Begins, Commits, Aborts, Verdicts
<1>4. CASE Retros
  BY <1>4 DEF Retros, EnsureRetroReview
<1>5. CASE Saves
  <2>1. CASE SaveReads
    BY <2>1 DEF SaveReads, ResolveRead, ExpireRead, EndRead, SessionExpireRead, BeginSave
  <2>2. CASE ExceptionSaves
    BY <2>2 DEF ExceptionSaves, ResolveSave, ExpireSave, FinishSave
  <2>3. CASE SessionSaves
    BY <2>3 DEF SessionSaves, EndSave, SessionExpireSave, FinishSave
  <2> QED
    BY <1>5, <2>1, <2>2, <2>3 DEF Saves, SaveReads, ExceptionSaves, SessionSaves
<1>6. CASE Activates
  BY <1>6 DEF Activates, ActivateBreakglass
<1>7. CASE Reviews
  BY <1>7 DEF Reviews, SubmitRetroReview
<1>8. CASE Course
  <2>1. CASE RunPreflight \/ Dispatch \/ Bind \/ DispatchExpires \/ MismatchCloses
    BY <2>1 DEF RunPreflight, Dispatch, Bind, DispatchExpires, MismatchCloses
  <2>2. CASE LinkPolicyEvaluation \/ RunnerHeartbeat
    BY <2>2 DEF LinkPolicyEvaluation, RunnerHeartbeat
  <2>3. CASE Hooks
    BY <2>3 DEF Hooks, CompletionHook
  <2>4. CASE Verifies
    BY <2>4 DEF Verifies, Verify
  <2>5. CASE CloseChange
    BY <2>5 DEF CloseChange
  <2> QED
    BY <1>8, <2>1, <2>2, <2>3, <2>4, <2>5 DEF Course, Hooks, Verifies
<1>9. CASE \E x \in Sources : ExpiryPasses(x) \/ ReviewDuePasses(x)
  BY <1>9 DEF ExpiryPasses, ReviewDuePasses
<1>10. CASE CalendarMoves
  BY <1>10 DEF CalendarMoves
<1> QED
  BY <1>1, <1>2, <1>3, <1>4, <1>5, <1>6, <1>7, <1>8, <1>9, <1>10
     DEF Next, Requests, Retros, Activates, Reviews

-----------------------------------------------------------------------------
(* Types. *)

LEMMA InitTyped == ASSUME Init PROVE TypeOK
<1> USE EmergencyAssumption
<1>1. exc \in [Exceptions -> ExceptionRow]
  BY DEF Init, ExceptionRow, ExceptionStatus, ExceptionTypes, NoRow
<1>2. session \in [Sessions -> SessionRow]
  BY DEF Init, SessionRow, SessionStatus, SessionReviewStatus
<1>3. review \in [Sources -> ReviewRow]
  BY DEF Init, ReviewRow, ReviewStatus
<1>4. deciding \in [Users -> [path : {"none", "direct", "central"}, row : Exceptions \cup {NoRow},
                               verdict : {"none", "approved", "rejected"}]]
  BY DEF Init, NoDecision
<1>5. passed \in [ok : BOOLEAN, cover : SUBSET Sources]
  BY DEF Init, NotPassed
<1> QED
  BY <1>1, <1>2, <1>3, <1>4, <1>5 DEF Init, TypeOK, ChangeStatus

(* The rows that expire are rows again. *)
LEMMA ExpireTyped ==
    ASSUME TypeOK
    PROVE  /\ ExpireExceptions \in [Exceptions -> ExceptionRow]
           /\ ExpireSessions \in [Sessions -> SessionRow]
           /\ \A s \in Sessions : ExpiredSession(s) \in SessionRow
<1>1. ASSUME NEW e \in Exceptions PROVE [exc[e] EXCEPT !.status = "expired"] \in ExceptionRow
  <2>1. exc[e] \in ExceptionRow
    BY DEF TypeOK
  <2> QED
    BY <2>1 DEF ExceptionRow, ExceptionStatus
<1>2. ASSUME NEW s \in Sessions PROVE ExpiredSession(s) \in SessionRow
  <2>1. session[s] \in SessionRow
    BY DEF TypeOK
  <2> QED
    BY <2>1 DEF SessionRow, SessionStatus, SessionReviewStatus, ExpiredSession
<1>3. ExpireExceptions \in [Exceptions -> ExceptionRow]
  BY <1>1 DEF TypeOK, ExpireExceptions
<1>4. ExpireSessions \in [Sessions -> SessionRow]
  BY <1>2 DEF TypeOK, ExpireSessions
<1> QED
  BY <1>2, <1>3, <1>4

(* Ending the active sessions of typed rows gives typed rows. *)
LEMMA EndTyped ==
    ASSUME NEW f \in [Sessions -> SessionRow]
    PROVE  EndActive(f) \in [Sessions -> SessionRow]
<1>1. ASSUME NEW s \in Sessions PROVE [f[s] EXCEPT !.status = "ended"] \in SessionRow
  <2>1. f[s] \in SessionRow
    OBVIOUS
  <2> QED
    BY <2>1 DEF SessionRow, SessionStatus
<1> QED
  BY <1>1 DEF EndActive

(* The handler that has begun a decision names the row it holds. *)
DecidingRow == \A u \in Users : deciding[u].path # "none" =>
    deciding[u].row \in Exceptions /\ deciding[u].verdict \in Verdicts

LEMMA DecidingTyped ==
    ASSUME TypeOK, DecidingRow, [Next]_vars
    PROVE  /\ deciding' \in [Users -> [path : {"none", "direct", "central"}, row : Exceptions \cup {NoRow},
                                       verdict : {"none", "approved", "rejected"}]]
           /\ DecidingRow'
<1> DEFINE D == [path : {"none", "direct", "central"}, row : Exceptions \cup {NoRow},
                 verdict : {"none", "approved", "rejected"}]
<1>0. deciding \in [Users -> D]
  BY DEF TypeOK
<1>1. CASE UNCHANGED deciding
  BY <1>0, <1>1 DEF DecidingRow
<1>2. ASSUME NEW u \in Users, deciding' = [deciding EXCEPT ![u] = NoDecision]
      PROVE  deciding' \in [Users -> D] /\ DecidingRow'
  <2>1. NoDecision \in D
    BY DEF NoDecision
  <2>2. deciding' \in [Users -> D]
    BY <1>0, <1>2, <2>1
  <2> QED
    BY <1>0, <1>2, <2>2 DEF DecidingRow, NoDecision
<1>3. ASSUME NEW u \in Users, NEW e \in Exceptions, NEW v \in Verdicts, NEW p \in {"direct", "central"},
             deciding' = [deciding EXCEPT ![u] = [path |-> p, row |-> e, verdict |-> v]]
      PROVE  deciding' \in [Users -> D] /\ DecidingRow'
  <2>1. [path |-> p, row |-> e, verdict |-> v] \in D
    BY DEF Verdicts
  <2>2. deciding' \in [Users -> D]
    BY <1>0, <1>3, <2>1
  <2> QED
    BY <1>0, <1>3, <2>2 DEF DecidingRow
<1>4. CASE Begins
  BY <1>3, <1>4 DEF Begins, DirectBegin, CentralBegin
<1>5. CASE Commits
  BY <1>2, <1>5 DEF Commits, DirectCommit, CentralCommit
<1>6. CASE Aborts
  BY <1>2, <1>6 DEF Aborts, DeadlockAborted
<1> QED
  BY <1>1, <1>4, <1>5, <1>6, ColumnSteps

(* The decided row, and beside it the rows that expire. *)
LEMMA DecidedTyped ==
    ASSUME TypeOK, NEW e \in Exceptions, NEW u \in Users, NEW v \in Verdicts
    PROVE  Decided(e, u, v) \in [Exceptions -> ExceptionRow]
<1>1. exc[e] \in ExceptionRow
  BY DEF TypeOK
<1>2. [exc[e] EXCEPT !.status = v, !.approver = IF v = "approved" THEN u ELSE @] \in ExceptionRow
  BY <1>1 DEF ExceptionRow, ExceptionStatus, Verdicts
<1> QED
  BY <1>2, ExpireTyped DEF Decided

LEMMA ExceptionTyped ==
    ASSUME TypeOK, DecidingRow, [Next]_vars
    PROVE  /\ exc' \in [Exceptions -> ExceptionRow]
           /\ request' \in [Exceptions -> {"none", "pending", "approved", "rejected"}]
<1>0. /\ exc \in [Exceptions -> ExceptionRow]
      /\ request \in [Exceptions -> {"none", "pending", "approved", "rejected"}]
  BY DEF TypeOK
<1>1. CASE Requests
  <2>1. PICK u \in Users, e \in Exceptions, t \in Types, r \in Rules \cup {NoRow} : RequestException(u, e, t, r)
    BY <1>1 DEF Requests
  <2>2. [status |-> "pending_approval", type |-> t, rule |-> r, by |-> u, approver |-> NoUser] \in ExceptionRow
    BY EmergencyAssumption DEF ExceptionRow, ExceptionStatus
  <2>3. /\ exc' = [exc EXCEPT ![e] = [status |-> "pending_approval", type |-> t, rule |-> r,
                                      by |-> u, approver |-> NoUser]]
        /\ request' = [request EXCEPT ![e] = "pending"]
    BY <2>1 DEF RequestException
  <2> QED
    BY <1>0, <2>2, <2>3
<1>2. ASSUME NEW u \in Users, DirectCommit(u) \/ CentralCommit(u)
      PROVE  /\ exc' \in [Exceptions -> ExceptionRow]
             /\ request' \in [Exceptions -> {"none", "pending", "approved", "rejected"}]
  <2>1. deciding[u].row \in Exceptions /\ deciding[u].verdict \in Verdicts
    BY <1>2 DEF DecidingRow, DirectCommit, CentralCommit
  <2>2. exc' = exc \/ exc' = Decided(deciding[u].row, u, deciding[u].verdict)
    BY <1>2 DEF DirectCommit, CentralCommit
  <2>3. \/ request' = request
        \/ request' = [request EXCEPT ![deciding[u].row] = IF @ = "pending" THEN deciding[u].verdict ELSE @]
        \/ request' = [request EXCEPT ![deciding[u].row] = deciding[u].verdict]
    BY <1>2 DEF DirectCommit, CentralCommit
  <2>4. exc' \in [Exceptions -> ExceptionRow]
    BY <1>0, <2>1, <2>2, DecidedTyped
  <2>5. request' \in [Exceptions -> {"none", "pending", "approved", "rejected"}]
    BY <1>0, <2>1, <2>3 DEF Verdicts
  <2> QED
    BY <2>4, <2>5
<1>3. ASSUME NEW e \in Exceptions, NEW w \in {"resolved", "expired"}, exc' = [exc EXCEPT ![e].status = w]
      PROVE  exc' \in [Exceptions -> ExceptionRow]
  <2>1. [exc[e] EXCEPT !.status = w] \in ExceptionRow
    BY <1>0 DEF ExceptionRow, ExceptionStatus
  <2> QED
    BY <1>0, <1>3, <2>1
<1>4. CASE ExceptionSaves
  BY <1>0, <1>3, <1>4 DEF ExceptionSaves, ResolveSave, ExpireSave, FinishSave
<1>5. UNCHANGED exc \/ Requests \/ Commits \/ ExceptionSaves \/ exc' = ExpireExceptions
  BY ColumnSteps
<1>6. UNCHANGED request \/ Requests \/ Commits
  BY ColumnSteps
<1>7. CASE Commits
  BY <1>2, <1>7 DEF Commits
<1> QED
  BY <1>0, <1>1, <1>4, <1>5, <1>6, <1>7, ExpireTyped

LEMMA SessionTyped ==
    ASSUME TypeOK, [Next]_vars
    PROVE  session' \in [Sessions -> SessionRow]
<1>0. session \in [Sessions -> SessionRow]
  BY DEF TypeOK
<1>1. ASSUME NEW s \in Sessions, EndSave(s) \/ SessionExpireSave(s)
      PROVE  session' \in [Sessions -> SessionRow]
  <2>1. [session[s] EXCEPT !.status = "ended"] \in SessionRow
    BY <1>0 DEF SessionRow, SessionStatus
  <2>2. \/ session' = [session EXCEPT ![s] = [session[s] EXCEPT !.status = "ended"]]
        \/ session' = [session EXCEPT ![s] = ExpiredSession(s)]
    BY <1>1 DEF EndSave, SessionExpireSave
  <2> QED
    BY <1>0, <2>1, <2>2, ExpireTyped
<1>2. CASE Activates
  <2>1. PICK u \in Users, s \in Sessions, g \in SUBSET Gates, w \in BOOLEAN : ActivateBreakglass(u, s, g, w)
    BY <1>2 DEF Activates
  <2>2. [status |-> "active", reviewed |-> "pending", gates |-> g, wide |-> w, by |-> u] \in SessionRow
    BY DEF SessionRow, SessionStatus, SessionReviewStatus
  <2>3. session' = [ExpireSessions EXCEPT ![s] = [status |-> "active", reviewed |-> "pending", gates |-> g,
                                                  wide |-> w, by |-> u]]
    BY <2>1 DEF ActivateBreakglass
  <2> QED
    BY <2>2, <2>3, ExpireTyped
<1>3. CASE Reviews
  <2>1. PICK x \in Sources : session' = IF x \in Sessions THEN [session EXCEPT ![x].reviewed = "submitted"]
                                                          ELSE session
    BY <1>3 DEF Reviews, SubmitRetroReview
  <2>2. ASSUME x \in Sessions PROVE [session[x] EXCEPT !.reviewed = "submitted"] \in SessionRow
    BY <1>0, <2>2 DEF SessionRow, SessionReviewStatus
  <2> QED
    BY <1>0, <2>1, <2>2
<1>4. CASE Hooks
  BY <1>0, <1>4, EndTyped DEF Hooks, CompletionHook
<1>5. CASE CloseChange
  BY <1>5, EndTyped, ExpireTyped DEF CloseChange
<1> QED
  BY <1>0, <1>1, <1>2, <1>3, <1>4, <1>5, ColumnSteps, ExpireTyped DEF SessionSaves

LEMMA ReviewTyped ==
    ASSUME TypeOK, [Next]_vars
    PROVE  review' \in [Sources -> ReviewRow]
<1>0. review \in [Sources -> ReviewRow]
  BY DEF TypeOK
<1>1. ASSUME NEW x \in Sources, review' = [review EXCEPT ![x] = [@ EXCEPT !.status = "pending"]]
      PROVE  review' \in [Sources -> ReviewRow]
  <2>1. [review[x] EXCEPT !.status = "pending"] \in ReviewRow
    BY <1>0 DEF ReviewRow, ReviewStatus
  <2> QED
    BY <1>0, <1>1, <2>1
<1>2. CASE Retros
  BY <1>0, <1>1, <1>2 DEF Retros, EnsureRetroReview, Sources
<1>3. CASE Activates
  BY <1>1, <1>3 DEF Activates, ActivateBreakglass, Sources
<1>4. CASE Reviews
  <2>1. PICK u \in Users, x \in Sources, d \in Dispositions : SubmitRetroReview(u, x, d)
    BY <1>4 DEF Reviews
  <2>2. [status |-> "submitted", disposition |-> d, by |-> u] \in ReviewRow
    BY EmergencyAssumption DEF ReviewRow, ReviewStatus, DispositionValues
  <2>3. review' = [review EXCEPT ![x] = [status |-> "submitted", disposition |-> d, by |-> u]]
    BY <2>1 DEF SubmitRetroReview
  <2> QED
    BY <1>0, <2>2, <2>3
<1> QED
  BY <1>0, <1>2, <1>3, <1>4, ColumnSteps

(* What covers the gates are exceptions of freeze rules and sessions. *)
LEMMA CoverParts ==
    CoverOfGates \subseteq (UNION {CoveringExceptions("freeze_override", r) : r \in freeze})
                               \cup Allowing("window_overrun")
<1> DEFINE U == UNION {CoveringExceptions("freeze_override", r) : r \in freeze}
           A == Allowing("window_overrun")
           W == window \in {"none", "open"}
<1>1. CoverOfGates = U \cup (IF W THEN {} ELSE A)
  BY Zenon DEF CoverOfGates
<1> HIDE DEF U, A, W
<1>2. CoverOfGates \subseteq U \cup A
  BY <1>1
<1> QED
  BY <1>2, Zenon DEF U, A

LEMMA TypeInductive ==
    ASSUME TypeOK, DecidingRow, [Next]_vars
    PROVE  TypeOK' /\ DecidingRow'
<1>1. status' \in ChangeStatus /\ closure' \in BOOLEAN /\ mismatch' \in BOOLEAN
  BY ColumnSteps DEF TypeOK, ChangeStatus, Dispatch, Bind, DispatchExpires, Hooks, CompletionHook,
     MismatchCloses, Verifies, Verify, CloseChange
<1>2. required' \in BOOLEAN
  <2>1. CASE Commits
    BY <2>1 DEF TypeOK, Commits, DirectCommit, CentralCommit, ApprovalEffects
  <2>2. CASE Retros \/ Activates
    BY <2>2 DEF TypeOK, Retros, EnsureRetroReview, Activates, ActivateBreakglass
  <2> QED
    BY <2>1, <2>2, ColumnSteps DEF TypeOK
<1>3. blocking' \in {"", "pending", "overdue", "control_failure"}
  <2>1. CASE Commits
    BY <2>1 DEF TypeOK, Commits, DirectCommit, CentralCommit, ApprovalEffects
  <2>2. CASE Retros \/ Activates
    BY <2>2 DEF TypeOK, Retros, EnsureRetroReview, Activates, ActivateBreakglass
  <2>3. CASE Reviews
    BY <2>3 DEF Reviews, SubmitRetroReview, Recompute
  <2> QED
    BY <2>1, <2>2, <2>3, ColumnSteps DEF TypeOK
<1>4. due' \subseteq Sources /\ lateReview' \subseteq Sources
  BY ColumnSteps DEF TypeOK, ExpiryPasses, ReviewDuePasses
<1>5. hook' \subseteq Exceptions
  <2>1. CASE Commits
    <3>1. PICK u \in Users : DirectCommit(u) \/ CentralCommit(u)
      BY <2>1 DEF Commits
    <3>2. deciding[u].row \in Exceptions
      BY <3>1 DEF DecidingRow, DirectCommit, CentralCommit
    <3>3. hook' = hook \/ hook' = hook \cup {deciding[u].row}
      BY <3>1 DEF DirectCommit, CentralCommit, ApprovalEffects
    <3> QED
      BY <3>2, <3>3 DEF TypeOK
  <2>2. CASE Retros
    BY <2>2 DEF TypeOK, Retros, EnsureRetroReview
  <2> QED
    BY <2>1, <2>2, ColumnSteps DEF TypeOK
<1>6. saving' \subseteq [op : {"resolve", "expire", "end", "lapse"}, row : Sources]
  <2>1. CASE SaveReads
    <3>1. \E op \in {"resolve", "expire", "end", "lapse"}, x \in Sources : BeginSave(op, x)
      BY <2>1 DEF SaveReads, ResolveRead, ExpireRead, EndRead, SessionExpireRead, Sources
    <3>2. PICK op \in {"resolve", "expire", "end", "lapse"}, x \in Sources : BeginSave(op, x)
      BY <3>1
    <3>3. saving' = saving \cup {[op |-> op, row |-> x]}
      BY <3>2 DEF BeginSave, Save
    <3>4. [op |-> op, row |-> x] \in [op : {"resolve", "expire", "end", "lapse"}, row : Sources]
      OBVIOUS
    <3> QED
      BY <3>3, <3>4 DEF TypeOK
  <2>2. CASE ExceptionSaves \/ SessionSaves
    BY <2>2 DEF TypeOK, ExceptionSaves, ResolveSave, ExpireSave, SessionSaves, EndSave, SessionExpireSave, FinishSave
  <2> QED
    BY <2>1, <2>2, ColumnSteps DEF TypeOK
<1>7. evaluation' \in BOOLEAN /\ freeze' \subseteq Rules /\ window' \in {"none", "scheduled", "open", "closed"}
  BY ColumnSteps DEF TypeOK, LinkPolicyEvaluation, CalendarMoves
<1>8. CoverOfGates \subseteq Sources
  <2>1. \A r \in freeze : CoveringExceptions("freeze_override", r) \subseteq Sources
    BY DEF CoveringExceptions, Sources
  <2>2. Allowing("window_overrun") \subseteq Sources
    BY DEF Allowing, ActiveSession, Sources
  <2>3. UNION {CoveringExceptions("freeze_override", r) : r \in freeze} \subseteq Sources
    BY <2>1, Zenon
  <2> QED
    BY <2>2, <2>3, CoverParts, Zenon
<1>9. passed' \in [ok : BOOLEAN, cover : SUBSET Sources]
  <2>1. CASE RunPreflight
    <3>1. GatesOpen \in BOOLEAN
      BY DEF GatesOpen, FreezeGateOpen, WindowGateOpen, PolicyGateOpen
    <3>2. passed' = [ok |-> GatesOpen, cover |-> IF GatesOpen THEN CoverOfGates ELSE {}]
      BY <2>1 DEF RunPreflight
    <3> QED
      BY <1>8, <3>1, <3>2
  <2>2. CASE CalendarMoves \/ Dispatch
    <3>1. NotPassed \in [ok : BOOLEAN, cover : SUBSET Sources]
      BY DEF NotPassed
    <3>2. UNCHANGED passed \/ passed' = NotPassed
      BY <2>2 DEF CalendarMoves, Dispatch
    <3> QED
      BY <3>1, <3>2 DEF TypeOK
  <2> QED
    BY <2>1, <2>2, ColumnSteps DEF TypeOK
<1>10. granted' \subseteq Sources
  BY <1>8, ColumnSteps DEF TypeOK, Dispatch
<1>11. TypeOK'
  BY <1>1, <1>2, <1>3, <1>4, <1>5, <1>6, <1>7, <1>9, <1>10,
     DecidingTyped, ExceptionTyped, SessionTyped, ReviewTyped DEF TypeOK
<1> QED
  BY <1>11, DecidingTyped

LEMMA TypeInvariant == Spec => [](TypeOK /\ DecidingRow)
<1>1. Init => DecidingRow
  <2>1. NoDecision.path = "none"
    BY DEF NoDecision
  <2> QED
    BY <2>1 DEF Init, DecidingRow
<1> QED
  BY <1>1, InitTyped, TypeInductive, PTL DEF Spec

(* Every row of the emergency controls keeps the statuses, types and users *)
(* of changes/models.py, whatever saves and decisions interleave.          *)
THEOREM TypeCorrect == Spec => []TypeOK
<1> QED
  BY TypeInvariant, PTL

-----------------------------------------------------------------------------
(* Decisions.  The inductive invariant says what the two row locks protect: *)
(* the holder of an exception finds it pending until it commits, the holder *)
(* of a request finds that pending, and each row has one holder.            *)

DirectHeld(u, e) == deciding[u].path = "direct" /\ deciding[u].row = e

CentralHeld(u, e) == deciding[u].path = "central" /\ deciding[u].row = e

LockInv ==
    \A u \in Users, e \in Exceptions :
        /\ DirectHeld(u, e) =>
               /\ exc[e].status = "pending_approval"
               /\ deciding[u].verdict = "approved" => MayApprove(u, e)
               /\ \A v \in Users : DirectHeld(v, e) => v = u
        /\ CentralHeld(u, e) =>
               /\ request[e] = "pending"
               /\ \A v \in Users : CentralHeld(v, e) => v = u

(* Row and request of an exception are decided together. *)
RequestInv ==
    \A e \in Exceptions :
        /\ exc[e].status = "none" => request[e] = "none"
        /\ exc[e].status = "pending_approval" => request[e] = "pending"
        /\ exc[e].status \in {"approved", "resolved"} => request[e] = "approved"
        /\ exc[e].status = "rejected" => request[e] = "rejected"
        /\ request[e] = "rejected" => exc[e].status \in {"rejected", "expired"}
        /\ request[e] = "approved" =>
               /\ exc[e].approver \in Users \ {exc[e].by}
               /\ exc[e].type \in Severe => exc[e].approver \in Admins
        /\ Save("resolve", e) \in saving => request[e] = "approved"

(* What a step does to the row of an exception and to its request. *)
LeftAlone(e) == exc'[e] = exc[e] /\ request'[e] = request[e]

Requested(e) ==
    /\ exc[e].status = "none" /\ exc'[e].status = "pending_approval" /\ request'[e] = "pending"

Lapses(e) ==
    /\ exc'[e] = [exc[e] EXCEPT !.status = "expired"] /\ request'[e] = request[e]
    /\ ExceptionFree(e)

Resolves(e) ==
    /\ exc'[e] = [exc[e] EXCEPT !.status = "resolved"] /\ request'[e] = request[e]
    /\ ExceptionFree(e) /\ Save("resolve", e) \in saving

IsDecided(u, e, v) ==
    /\ exc[e].status = "pending_approval"
    /\ v = "approved" => MayApprove(u, e)
    /\ exc'[e] = [exc[e] EXCEPT !.status = v, !.approver = IF v = "approved" THEN u ELSE @]
    /\ request'[e] = v
    /\ \A w \in Users \ {u} : ~DirectHeld(w, e) /\ ~CentralHeld(w, e)
    /\ deciding' = [deciding EXCEPT ![u] = NoDecision]

LEMMA ExpireSteps ==
    ASSUME TypeOK, NEW e \in Exceptions
    PROVE  \/ ExpireExceptions[e] = exc[e]
           \/ /\ ExpireExceptions[e] = [exc[e] EXCEPT !.status = "expired"] /\ ExceptionFree(e)
              /\ exc[e].status \in {"pending_approval", "approved"}
  BY DEF ExpireExceptions, Lapsed

LEMMA ExceptionSteps ==
    ASSUME TypeOK, DecidingRow, LockInv, RequestInv, [Next]_vars, NEW e \in Exceptions
    PROVE  \/ LeftAlone(e) \/ Requested(e) \/ Lapses(e) \/ Resolves(e)
           \/ \E u \in Users, v \in Verdicts : IsDecided(u, e, v)
<1>0. /\ exc \in [Exceptions -> ExceptionRow]
      /\ request \in [Exceptions -> {"none", "pending", "approved", "rejected"}]
  BY DEF TypeOK
<1>1. CASE Requests
  <2>1. PICK u \in Users, d \in Exceptions, t \in Types, r \in Rules \cup {NoRow} : RequestException(u, d, t, r)
    BY <1>1 DEF Requests
  <2>2. /\ exc[d].status = "none"
        /\ exc' = [exc EXCEPT ![d] = [status |-> "pending_approval", type |-> t, rule |-> r,
                                      by |-> u, approver |-> NoUser]]
        /\ request' = [request EXCEPT ![d] = "pending"]
    BY <2>1 DEF RequestException
  <2> QED
    BY <1>0, <2>2 DEF LeftAlone, Requested
<1>2. ASSUME NEW u \in Users, DirectCommit(u) \/ CentralCommit(u), ~LeftAlone(e), ~Lapses(e)
      PROVE  \E v \in Verdicts : IsDecided(u, e, v)
  <2> DEFINE d == deciding[u].row
             v == deciding[u].verdict
  <2>1. d \in Exceptions /\ v \in Verdicts
    BY <1>2 DEF DecidingRow, DirectCommit, CentralCommit
  <2>2. DirectHeld(u, d) \/ CentralHeld(u, d)
    BY <1>2 DEF DirectHeld, CentralHeld, DirectCommit, CentralCommit
  <2>3. /\ exc' = Decided(d, u, v)
        /\ request' = [request EXCEPT ![d] = v]
        /\ exc[d].status = "pending_approval" /\ (v = "approved" => MayApprove(u, d))
        /\ deciding' = [deciding EXCEPT ![u] = NoDecision]
        /\ \/ DirectHeld(u, d) /\ RequestFree(d)
           \/ CentralHeld(u, d) /\ ExceptionFree(d)
    <3>1. CASE DirectCommit(u)
      <4>1. DirectHeld(u, d)
        BY <3>1 DEF DirectHeld, DirectCommit
      <4>2. exc[d].status = "pending_approval" /\ (v = "approved" => MayApprove(u, d))
        BY <2>1, <4>1 DEF LockInv
      <4>3. request[d] = "pending"
        BY <2>1, <4>2 DEF RequestInv
      <4>4. request' = [request EXCEPT ![d] = IF @ = "pending" THEN v ELSE @]
        BY <3>1 DEF DirectCommit
      <4>5. request' = [request EXCEPT ![d] = v]
        BY <1>0, <2>1, <4>3, <4>4
      <4> QED
        BY <3>1, <4>1, <4>2, <4>5 DEF DirectCommit
    <3>2. CASE CentralCommit(u) /\ CentralAllowed(u, d, v)
      BY <3>2 DEF CentralCommit, CentralAllowed, CentralHeld
    <3>3. CASE CentralCommit(u) /\ ~CentralAllowed(u, d, v)
      BY <1>2, <3>3 DEF CentralCommit, LeftAlone
    <3> QED
      BY <1>2, <3>1, <3>2, <3>3
  <2>4. d = e
    <3>1. SUFFICES ASSUME d # e PROVE FALSE
      OBVIOUS
    <3>2. exc'[e] = ExpireExceptions[e] /\ request'[e] = request[e]
      BY <1>0, <2>1, <2>3, <3>1, ExpireTyped DEF Decided
    <3> QED
      BY <1>2, <3>2, ExpireSteps DEF LeftAlone, Lapses
  <2>5. exc'[e] = [exc[e] EXCEPT !.status = v, !.approver = IF v = "approved" THEN u ELSE @]
    BY <2>3, <2>4, ExpireTyped DEF Decided
  <2>6. request'[e] = v
    BY <1>0, <2>3, <2>4
  <2>7. \A w \in Users \ {u} : ~DirectHeld(w, e) /\ ~CentralHeld(w, e)
    BY <2>3, <2>4 DEF LockInv, RequestFree, ExceptionFree, DirectHeld, CentralHeld
  <2> QED
    BY <2>1, <2>3, <2>4, <2>5, <2>6, <2>7 DEF IsDecided
<1>3. CASE ExceptionSaves
  <2>1. PICK d \in Exceptions : ResolveSave(d) \/ ExpireSave(d)
    BY <1>3 DEF ExceptionSaves
  <2>2. UNCHANGED request
    BY <2>1 DEF ResolveSave, ExpireSave, FinishSave
  <2>3. \/ /\ exc' = [exc EXCEPT ![d].status = "resolved"] /\ ExceptionFree(d)
           /\ Save("resolve", d) \in saving
        \/ exc' = [exc EXCEPT ![d].status = "expired"] /\ ExceptionFree(d)
    BY <2>1 DEF ResolveSave, ExpireSave, FinishSave
  <2> QED
    BY <1>0, <2>2, <2>3 DEF LeftAlone, Lapses, Resolves
<1>4. CASE exc' = ExpireExceptions /\ UNCHANGED request
  BY <1>4, ExpireSteps DEF LeftAlone, Lapses
<1>5. UNCHANGED exc \/ Requests \/ Commits \/ ExceptionSaves \/ exc' = ExpireExceptions
  BY ColumnSteps
<1>6. UNCHANGED request \/ Requests \/ Commits
  BY ColumnSteps
<1>7. CASE UNCHANGED <<exc, request>>
  BY <1>7 DEF LeftAlone
<1> QED
  BY <1>1, <1>2, <1>3, <1>4, <1>5, <1>6, <1>7 DEF Commits

LEMMA LocksInductive ==
    ASSUME TypeOK, DecidingRow, LockInv, RequestInv, [Next]_vars
    PROVE  LockInv'
<1> SUFFICES ASSUME NEW u \in Users, NEW e \in Exceptions
             PROVE  /\ DirectHeld(u, e)' =>
                           /\ exc'[e].status = "pending_approval"
                           /\ deciding'[u].verdict = "approved" => MayApprove(u, e)'
                           /\ \A v \in Users : DirectHeld(v, e)' => v = u
                    /\ CentralHeld(u, e)' =>
                           /\ request'[e] = "pending"
                           /\ \A v \in Users : CentralHeld(v, e)' => v = u
  BY DEF LockInv
<1>0. /\ exc \in [Exceptions -> ExceptionRow] /\ exc[e] \in ExceptionRow
      /\ deciding \in [Users -> [path : {"none", "direct", "central"}, row : Exceptions \cup {NoRow},
                                 verdict : {"none", "approved", "rejected"}]]
      /\ NoDecision.path = "none"
  BY DEF TypeOK, NoDecision
(* A decision is begun, ended or left as it is. *)
<1>1. ASSUME NEW w \in Users, ~(deciding'[w] = deciding[w]), ~(deciding'[w] = NoDecision)
      PROVE  Begins
  BY <1>0, <1>1, ColumnSteps DEF Commits, DirectCommit, CentralCommit, Aborts, DeadlockAborted
<1>2. CASE Begins
  <2>1. PICK w \in Users, d \in Exceptions, v \in Verdicts : DirectBegin(w, d, v) \/ CentralBegin(w, d, v)
    BY <1>2 DEF Begins
  <2>2. CASE DirectBegin(w, d, v)
    <3>1. /\ UNCHANGED <<exc, request>>
          /\ deciding' = [deciding EXCEPT ![w] = [path |-> "direct", row |-> d, verdict |-> v]]
          /\ deciding[w] = NoDecision
          /\ exc[d].status = "pending_approval" /\ ExceptionFree(d)
          /\ v = "approved" => MayApprove(w, d)
      BY <2>2 DEF DirectBegin, rows
    <3>2. ASSUME NEW x \in Users PROVE DirectHeld(x, e)' <=> (IF x = w THEN d = e ELSE DirectHeld(x, e))
      BY <1>0, <3>1 DEF DirectHeld
    <3>3. ASSUME NEW x \in Users PROVE CentralHeld(x, e)' <=> x # w /\ CentralHeld(x, e)
      BY <1>0, <3>1 DEF CentralHeld
    <3>4. MayApprove(u, e)' <=> MayApprove(u, e)
      BY <3>1 DEF MayApprove
    <3>5. u # w => deciding'[u] = deciding[u]
      BY <1>0, <3>1
    <3>6. deciding'[w].verdict = v
      BY <1>0, <3>1
    <3>7. d = e => \A x \in Users : ~DirectHeld(x, e)
      BY <3>1 DEF ExceptionFree, DirectHeld
    <3> QED
      BY <3>1, <3>2, <3>3, <3>4, <3>5, <3>6, <3>7 DEF LockInv
  <2>3. CASE CentralBegin(w, d, v)
    <3>1. /\ UNCHANGED <<exc, request>>
          /\ deciding' = [deciding EXCEPT ![w] = [path |-> "central", row |-> d, verdict |-> v]]
          /\ deciding[w] = NoDecision
          /\ request[d] = "pending" /\ RequestFree(d)
      BY <2>3 DEF CentralBegin, rows
    <3>2. ASSUME NEW x \in Users PROVE CentralHeld(x, e)' <=> (IF x = w THEN d = e ELSE CentralHeld(x, e))
      BY <1>0, <3>1 DEF CentralHeld
    <3>3. ASSUME NEW x \in Users PROVE DirectHeld(x, e)' <=> x # w /\ DirectHeld(x, e)
      BY <1>0, <3>1 DEF DirectHeld
    <3>4. MayApprove(u, e)' <=> MayApprove(u, e)
      BY <3>1 DEF MayApprove
    <3>5. u # w => deciding'[u] = deciding[u]
      BY <1>0, <3>1
    <3>6. d = e => \A x \in Users : ~CentralHeld(x, e)
      BY <3>1 DEF RequestFree, CentralHeld
    <3> QED
      BY <3>1, <3>2, <3>3, <3>4, <3>5, <3>6 DEF LockInv
  <2> QED
    BY <2>1, <2>2, <2>3
<1>3. CASE ~Begins
  <2>1. ASSUME NEW x \in Users
        PROVE  /\ DirectHeld(x, e)' => DirectHeld(x, e) /\ deciding'[x] = deciding[x]
               /\ CentralHeld(x, e)' => CentralHeld(x, e)
    BY <1>0, <1>1, <1>3 DEF DirectHeld, CentralHeld
  <2>2. ASSUME NEW x \in Users, DirectHeld(x, e)' PROVE exc'[e] = exc[e]
    <3>1. DirectHeld(x, e)
      BY <2>1, <2>2
    <3>2. ~ExceptionFree(e) /\ exc[e].status = "pending_approval"
      BY <3>1 DEF ExceptionFree, DirectHeld, LockInv
    <3>3. ASSUME NEW w \in Users, NEW v \in Verdicts, IsDecided(w, e, v) PROVE FALSE
      <4>1. x = w
        BY <3>1, <3>3 DEF IsDecided
      <4>2. deciding'[x] = NoDecision
        BY <1>0, <3>3, <4>1 DEF IsDecided
      <4> QED
        BY <1>0, <2>2, <4>2 DEF DirectHeld
    <3> QED
      BY <3>2, <3>3, ExceptionSteps DEF LeftAlone, Requested, Lapses, Resolves
  <2>3. ASSUME NEW x \in Users, CentralHeld(x, e)' PROVE request'[e] = "pending"
    <3>1. CentralHeld(x, e)
      BY <2>1, <2>3
    <3>2. request[e] = "pending"
      BY <3>1 DEF LockInv
    <3>3. ASSUME NEW w \in Users, NEW v \in Verdicts, IsDecided(w, e, v) PROVE FALSE
      <4>1. x = w
        BY <3>1, <3>3 DEF IsDecided
      <4>2. deciding'[x] = NoDecision
        BY <1>0, <3>3, <4>1 DEF IsDecided
      <4> QED
        BY <1>0, <2>3, <4>2 DEF CentralHeld
    <3> QED
      BY <3>2, <3>3, ExceptionSteps DEF LeftAlone, Requested, Lapses, Resolves
  <2>4. DirectHeld(u, e)' => (MayApprove(u, e)' <=> MayApprove(u, e))
    BY <2>2 DEF MayApprove
  <2> QED
    BY <2>1, <2>2, <2>3, <2>4 DEF LockInv
<1> QED
  BY <1>2, <1>3

LEMMA RequestsInductive ==
    ASSUME TypeOK, DecidingRow, LockInv, RequestInv, [Next]_vars
    PROVE  RequestInv'
<1> DEFINE I(e) == /\ exc[e].status = "none" => request[e] = "none"
                   /\ exc[e].status = "pending_approval" => request[e] = "pending"
                   /\ exc[e].status \in {"approved", "resolved"} => request[e] = "approved"
                   /\ exc[e].status = "rejected" => request[e] = "rejected"
                   /\ request[e] = "rejected" => exc[e].status \in {"rejected", "expired"}
                   /\ request[e] = "approved" =>
                          /\ exc[e].approver \in Users \ {exc[e].by}
                          /\ exc[e].type \in Severe => exc[e].approver \in Admins
<1>1. ASSUME NEW e \in Exceptions PROVE I(e)'
  <2>0. exc[e] \in ExceptionRow /\ I(e)
    BY DEF TypeOK, RequestInv
  <2>1. CASE LeftAlone(e)
    BY <2>0, <2>1 DEF LeftAlone
  <2>2. CASE Requested(e)
    BY <2>2 DEF Requested
  <2>3. CASE Lapses(e)
    BY <2>0, <2>3 DEF Lapses, ExceptionRow
  <2>4. CASE Resolves(e)
    <3>1. request[e] = "approved"
      BY <2>4 DEF Resolves, RequestInv
    <3> QED
      BY <2>0, <2>4, <3>1 DEF Resolves, ExceptionRow
  <2>5. ASSUME NEW u \in Users, NEW v \in Verdicts, IsDecided(u, e, v) PROVE I(e)'
    <3>1. /\ exc'[e].status = v /\ exc'[e].by = exc[e].by /\ exc'[e].type = exc[e].type
          /\ request'[e] = v
          /\ v = "approved" => exc'[e].approver = u
      BY <2>0, <2>5 DEF IsDecided, ExceptionRow
    <3>2. v = "approved" => exc[e].by # u /\ (exc[e].type \in Severe => u \in Admins)
      BY <2>5 DEF IsDecided, MayApprove
    <3> QED
      BY <3>1, <3>2 DEF Verdicts
  <2> QED
    BY <2>1, <2>2, <2>3, <2>4, <2>5, ExceptionSteps
<1>2. ASSUME NEW e \in Exceptions, Save("resolve", e) \in saving' PROVE request'[e] = "approved"
  <2>1. Save("resolve", e) \in saving \/ exc[e].status = "approved"
    <3>1. CASE SaveReads
      BY <1>2, <3>1 DEF SaveReads, ResolveRead, ExpireRead, EndRead, SessionExpireRead, BeginSave, Save
    <3>2. CASE ExceptionSaves \/ SessionSaves
      BY <1>2, <3>2 DEF ExceptionSaves, SessionSaves, ResolveSave, ExpireSave, EndSave, SessionExpireSave, FinishSave
    <3> QED
      BY <1>2, <3>1, <3>2, ColumnSteps
  <2>2. request[e] = "approved"
    BY <2>1 DEF RequestInv
  <2>3. exc[e].status # "none" /\ exc[e].status # "pending_approval"
    BY <2>2 DEF RequestInv
  <2> QED
    BY <2>2, <2>3, ExceptionSteps DEF LeftAlone, Requested, Lapses, Resolves, IsDecided
<1> QED
  BY <1>1, <1>2 DEF RequestInv

LEMMA DecisionInvariant == Spec => [](TypeOK /\ DecidingRow /\ LockInv /\ RequestInv)
<1>1. Init => LockInv /\ RequestInv
  <2>1. NoDecision.path = "none"
    BY DEF NoDecision
  <2>2. Init => LockInv
    BY <2>1 DEF Init, LockInv, DirectHeld, CentralHeld
  <2>3. ASSUME Init PROVE RequestInv
    <3>1. \A e \in Exceptions : exc[e].status = "none" /\ request[e] = "none"
      BY <2>3 DEF Init
    <3>2. saving = {}
      BY <2>3 DEF Init
    <3> QED
      BY <3>1, <3>2 DEF RequestInv
  <2> QED
    BY <2>2, <2>3
<1>2. TypeOK /\ DecidingRow /\ LockInv /\ RequestInv /\ [Next]_vars => LockInv' /\ RequestInv'
  BY LocksInductive, RequestsInductive
<1> QED
  BY <1>1, <1>2, TypeInvariant, PTL DEF Spec

(* However a decision taken at the exception and one taken in the approvals *)
(* inbox interleave with each other, with expiry, with stale saves and with *)
(* the database ending one of the two, the exception and its request agree, *)
(* and what is in force was approved by a second, entitled person.          *)
THEOREM DecisionsAgreeHolds == Spec => []DecisionsAgree
<1>1. RequestInv => DecisionsAgree
  BY DEF RequestInv, DecisionsAgree
<1> QED
  BY <1>1, DecisionInvariant, PTL

-----------------------------------------------------------------------------
(* Sessions and reviews.                                                   *)

(* What a step does to a session: it is activated, or what it is and who   *)
(* activated it stay, and its status only moves to an end.                 *)
Activated(s) ==
    /\ session[s].status = "none" /\ session'[s].status = "active"
    /\ Activates
    /\ required' = TRUE /\ review'[s].status = "pending"

Moves(s) ==
    /\ session'[s].by = session[s].by /\ session'[s].gates = session[s].gates
    /\ session'[s].wide = session[s].wide
    /\ \/ session'[s].status = session[s].status
       \/ session[s].status # "none" /\ session'[s].status \in {"ended", "expired"}

(* A save under way is of a session that was read. *)
SessionSaved ==
    \A s \in Sessions : Save("end", s) \in saving \/ Save("lapse", s) \in saving => session[s].status # "none"

LEMMA ExpireSessionSteps ==
    ASSUME TypeOK, NEW s \in Sessions
    PROVE  /\ ExpireSessions[s].by = session[s].by /\ ExpireSessions[s].gates = session[s].gates
           /\ ExpireSessions[s].wide = session[s].wide
           /\ \/ ExpireSessions[s].status = session[s].status
              \/ session[s].status = "active" /\ ExpireSessions[s].status = "expired"
<1>1. session[s] \in SessionRow
  BY DEF TypeOK
<1> QED
  BY <1>1 DEF ExpireSessions, ExpiredSession, SessionRow

LEMMA EndSteps ==
    ASSUME NEW f \in [Sessions -> SessionRow], NEW s \in Sessions
    PROVE  /\ EndActive(f)[s].by = f[s].by /\ EndActive(f)[s].gates = f[s].gates
           /\ EndActive(f)[s].wide = f[s].wide
           /\ EndActive(f)[s].status = IF f[s].status = "active" THEN "ended" ELSE f[s].status
<1>1. f[s] \in SessionRow
  OBVIOUS
<1> QED
  BY <1>1 DEF EndActive, SessionRow

LEMMA SessionSteps ==
    ASSUME TypeOK, SessionSaved, [Next]_vars, NEW s \in Sessions
    PROVE  Activated(s) \/ Moves(s)
<1>0. session \in [Sessions -> SessionRow] /\ session[s] \in SessionRow
      /\ review \in [Sources -> ReviewRow]
  BY DEF TypeOK
<1>1. CASE Activates
  <2>1. PICK u \in Users, d \in Sessions, g \in SUBSET Gates, w \in BOOLEAN : ActivateBreakglass(u, d, g, w)
    BY <1>1 DEF Activates
  <2>2. /\ session[d].status = "none"
        /\ session' = [ExpireSessions EXCEPT ![d] = [status |-> "active", reviewed |-> "pending", gates |-> g,
                                                     wide |-> w, by |-> u]]
        /\ required' = TRUE
        /\ review' = [review EXCEPT ![d].status = "pending"]
    BY <2>1 DEF ActivateBreakglass
  <2>3. CASE d = s
    <3>1. session'[s].status = "active"
      BY <2>2, <2>3, ExpireTyped
    <3>2. review'[s].status = "pending"
      <4>1. s \in Sources /\ review[s] \in ReviewRow
        BY <1>0 DEF Sources
      <4>2. review'[s] = [review[s] EXCEPT !.status = "pending"]
        BY <1>0, <2>2, <2>3, <4>1
      <4> QED
        BY <4>1, <4>2 DEF ReviewRow
    <3> QED
      BY <1>1, <2>2, <2>3, <3>1, <3>2 DEF Activated
  <2>4. CASE d # s
    <3>1. session'[s] = ExpireSessions[s]
      BY <2>2, <2>4, ExpireTyped
    <3> QED
      BY <3>1, ExpireSessionSteps DEF Moves
  <2> QED
    BY <2>3, <2>4
<1>2. CASE SessionSaves
  <2>1. PICK d \in Sessions : EndSave(d) \/ SessionExpireSave(d)
    BY <1>2 DEF SessionSaves
  <2>2. session' = [session EXCEPT ![d].status = "ended"] \/ session' = [session EXCEPT ![d] = ExpiredSession(d)]
    BY <2>1 DEF EndSave, SessionExpireSave
  <2>3. CASE d # s
    BY <1>0, <2>2, <2>3 DEF Moves
  <2>4. CASE d = s
    <3>1. \/ session'[s] = [session[s] EXCEPT !.status = "ended"]
          \/ session'[s] = ExpiredSession(s)
      BY <1>0, <2>2, <2>4
    <3>2. session[s].status # "none"
      BY <2>1, <2>4 DEF EndSave, SessionExpireSave, FinishSave, SessionSaved
    <3> QED
      BY <1>0, <3>1, <3>2 DEF ExpiredSession, SessionRow, Moves
  <2> QED
    BY <2>3, <2>4
<1>3. CASE Reviews
  <2>1. PICK x \in Sources : session' = IF x \in Sessions THEN [session EXCEPT ![x].reviewed = "submitted"]
                                                          ELSE session
    BY <1>3 DEF Reviews, SubmitRetroReview
  <2>2. session'[s] = session[s] \/ session'[s] = [session[s] EXCEPT !.reviewed = "submitted"]
    BY <1>0, <2>1
  <2> QED
    BY <1>0, <2>2 DEF Moves, SessionRow
<1>4. CASE Hooks
  <2>1. session' = EndActive(session)
    BY <1>4 DEF Hooks, CompletionHook
  <2> QED
    BY <1>0, <2>1, EndSteps DEF Moves
<1>5. CASE CloseChange
  <2>1. session' = EndActive(ExpireSessions)
    BY <1>5 DEF CloseChange
  <2> QED
    BY <2>1, EndSteps, ExpireTyped, ExpireSessionSteps DEF Moves
<1>6. CASE session' = ExpireSessions
  BY <1>6, ExpireSessionSteps DEF Moves
<1> QED
  BY <1>1, <1>2, <1>3, <1>4, <1>5, <1>6, ColumnSteps DEF Moves

LEMMA SavedInductive ==
    ASSUME TypeOK, SessionSaved, [Next]_vars
    PROVE  SessionSaved'
<1> SUFFICES ASSUME NEW s \in Sessions, Save("end", s) \in saving' \/ Save("lapse", s) \in saving'
             PROVE  session'[s].status # "none"
  BY DEF SessionSaved
<1>1. session[s].status # "none"
  <2>1. CASE SaveReads
    BY <2>1 DEF SessionSaved, SaveReads, ResolveRead, ExpireRead, EndRead, SessionExpireRead, BeginSave, Save
  <2>2. CASE ExceptionSaves \/ SessionSaves
    BY <2>2 DEF SessionSaved, ExceptionSaves, SessionSaves, ResolveSave, ExpireSave, EndSave,
       SessionExpireSave, FinishSave
  <2> QED
    BY <2>1, <2>2, ColumnSteps DEF SessionSaved
<1> QED
  BY <1>1, SessionSteps DEF Activated, Moves

LEMMA SavedInvariant == Spec => []SessionSaved
<1>1. Init => SessionSaved
  BY DEF Init, SessionSaved
<1> QED
  BY <1>1, SavedInductive, TypeInvariant, PTL DEF Spec

(* An exception that was rejected, resolved or has expired stays so, and so *)
(* does a session that ended: nobody gets an authority back that was gone.  *)
THEOREM AuthorityNeverReturnsHolds == Spec => AuthorityNeverReturns
<1> DEFINE Gone == /\ \A e \in Exceptions :
                          exc[e].status \in {"rejected", "resolved", "expired"} =>
                              exc'[e].status \in {"rejected", "resolved", "expired"}
                   /\ \A s \in Sessions :
                          session[s].status \in {"ended", "expired"} =>
                              session'[s].status \in {"ended", "expired"}
<1>1. TypeOK /\ SessionSaved /\ DecidingRow /\ LockInv /\ RequestInv /\ [Next]_vars => [Gone]_vars
  <2> SUFFICES ASSUME TypeOK, SessionSaved, DecidingRow, LockInv, RequestInv, [Next]_vars PROVE Gone
    OBVIOUS
  <2>1. ASSUME NEW e \in Exceptions, exc[e].status \in {"rejected", "resolved", "expired"}
        PROVE  exc'[e].status \in {"rejected", "resolved", "expired"}
    <3>1. exc[e] \in ExceptionRow
      BY DEF TypeOK
    <3> QED
      BY <2>1, <3>1, ExceptionSteps DEF LeftAlone, Requested, Lapses, Resolves, IsDecided, ExceptionRow
  <2>2. ASSUME NEW s \in Sessions, session[s].status \in {"ended", "expired"}
        PROVE  session'[s].status \in {"ended", "expired"}
    BY <2>2, SessionSteps DEF Activated, Moves
  <2> QED
    BY <2>1, <2>2
<1> QED
  BY <1>1, DecisionInvariant, SavedInvariant, PTL DEF Spec, AuthorityNeverReturns

(* A session is known to the change: it set the flag that makes reviews     *)
(* count at the closure, has a review, and reviews are never one's own.     *)
(* After a closure by a person there is none left unreviewed, and no        *)
(* session becomes active in a closed change: where one is, the hook found  *)
(* the request drifted and left it so.                                      *)
ClosureInv ==
    /\ closure => status = "closed"
    /\ status = "closed" /\ ~mismatch => ActiveSession(session) = {}
    /\ \A s \in Sessions : session[s].status # "none" =>
           /\ required
           /\ review[s].status \in {"pending", "submitted"}
           /\ review[s].status = "submitted" => review[s].by # session[s].by
           /\ closure => review[s].status = "submitted"

(* What a step does to the review of a session. *)
LEMMA ReviewSteps ==
    ASSUME TypeOK, [Next]_vars, NEW s \in Sessions, ~Activated(s)
    PROVE  \/ review'[s] = review[s]
           \/ /\ review[s].status = "pending" /\ review'[s].status = "submitted"
              /\ review'[s].by # session[s].by
<1>0. review \in [Sources -> ReviewRow] /\ s \in Sources /\ s \notin Exceptions
  BY EmergencyAssumption DEF TypeOK, Sources
<1>1. CASE Retros
  BY <1>0, <1>1 DEF Retros, EnsureRetroReview
<1>2. CASE Activates
  <2>1. PICK u \in Users, d \in Sessions, g \in SUBSET Gates, w \in BOOLEAN : ActivateBreakglass(u, d, g, w)
    BY <1>2 DEF Activates
  <2>2. review' = [review EXCEPT ![d].status = "pending"] /\ session[d].status = "none"
        /\ session' = [ExpireSessions EXCEPT ![d] = [status |-> "active", reviewed |-> "pending", gates |-> g,
                                                     wide |-> w, by |-> u]]
        /\ required' = TRUE
    BY <2>1 DEF ActivateBreakglass
  <2>3. d # s
    <3>1. SUFFICES ASSUME d = s PROVE FALSE
      OBVIOUS
    <3>2. session'[s].status = "active"
      BY <2>2, <3>1, ExpireTyped
    <3>3. review'[s] = [review[s] EXCEPT !.status = "pending"] /\ review[s] \in ReviewRow
      BY <1>0, <2>2, <3>1
    <3>4. review'[s].status = "pending"
      BY <3>3 DEF ReviewRow
    <3> QED
      BY <1>2, <2>2, <3>1, <3>2, <3>4 DEF Activated
  <2> QED
    BY <1>0, <2>2, <2>3
<1>3. CASE Reviews
  <2>1. PICK u \in Users, x \in Sources, d \in Dispositions : SubmitRetroReview(u, x, d)
    BY <1>3 DEF Reviews
  <2>2. /\ review[x].status = "pending"
        /\ review' = [review EXCEPT ![x] = [status |-> "submitted", disposition |-> d, by |-> u]]
        /\ x \in Sessions => session[x].by # u
    BY <2>1 DEF SubmitRetroReview, MayReview
  <2> QED
    BY <1>0, <2>2
<1> QED
  BY <1>1, <1>2, <1>3, ColumnSteps

LEMMA ClosureInductive ==
    ASSUME TypeOK, SessionSaved, ClosureInv, [Next]_vars
    PROVE  ClosureInv'
<1>1. closure' => status' = "closed"
  BY ColumnSteps DEF ClosureInv, Dispatch, Bind, DispatchExpires, Hooks, CompletionHook, MismatchCloses,
     Verifies, Verify, CloseChange
<1>2. ASSUME status' = "closed", ~mismatch', NEW s \in Sessions PROVE session'[s].status # "active"
  <2>0. ~mismatch
    BY <1>2, ColumnSteps DEF MismatchCloses
  <2>1. CASE status = "closed"
    <3>1. ~Activates
      BY <2>1 DEF Activates, ActivateBreakglass, Activatable
    <3>2. session[s].status # "active"
      BY <2>0, <2>1 DEF ClosureInv, ActiveSession
    <3> QED
      BY <3>1, <3>2, SessionSteps DEF Activated, Moves
  <2>2. CASE status # "closed"
    <3>1. Hooks \/ CloseChange
      BY <1>2, <2>2, ColumnSteps DEF Dispatch, Bind, DispatchExpires, MismatchCloses, Verifies, Verify
    <3>2. session' = EndActive(session) \/ session' = EndActive(ExpireSessions)
      BY <3>1 DEF Hooks, CompletionHook, CloseChange
    <3>3. session \in [Sessions -> SessionRow]
      BY DEF TypeOK
    <3> QED
      BY <3>2, <3>3, ExpireTyped, EndSteps
  <2> QED
    BY <2>1, <2>2
<1>3. required => required'
  BY ColumnSteps DEF Commits, DirectCommit, CentralCommit, ApprovalEffects, Retros, EnsureRetroReview,
     Activates, ActivateBreakglass
<1>4. ASSUME NEW s \in Sessions, session'[s].status # "none"
      PROVE  /\ required'
             /\ review'[s].status \in {"pending", "submitted"}
             /\ review'[s].status = "submitted" => review'[s].by # session'[s].by
             /\ closure' => review'[s].status = "submitted"
  <2>1. CASE Activated(s)
    <3>1. ~closure'
      <4>1. status # "closed" /\ UNCHANGED <<status, closure>>
        BY <2>1 DEF Activated, Activates, ActivateBreakglass, Activatable, course
      <4> QED
        BY <4>1 DEF ClosureInv
    <3> QED
      BY <2>1, <3>1 DEF Activated
  <2>2. CASE ~Activated(s)
    <3>1. /\ session'[s].by = session[s].by
          /\ session[s].status # "none"
      BY <1>4, <2>2, SessionSteps DEF Moves
    <3>2. /\ required /\ review[s].status \in {"pending", "submitted"}
          /\ review[s].status = "submitted" => review[s].by # session[s].by
          /\ closure => review[s].status = "submitted"
      BY <3>1 DEF ClosureInv
    <3>3. CloseChange => review[s].status = "submitted" /\ review'[s] = review[s]
      BY <3>2 DEF CloseChange, ReviewsAllowClosure, Sources
    <3>4. closure' => closure \/ CloseChange
      BY ColumnSteps
    <3>5. closure' => review'[s].status = "submitted"
      BY <2>2, <3>2, <3>3, <3>4, ReviewSteps
    <3> QED
      BY <1>3, <2>2, <3>1, <3>2, <3>5, ReviewSteps
  <2> QED
    BY <2>1, <2>2
<1> QED
  BY <1>1, <1>2, <1>4 DEF ClosureInv, ActiveSession

LEMMA ClosureInvariant == Spec => []ClosureInv
<1>1. ASSUME Init PROVE ClosureInv
  <2>1. \A s \in Sessions : session[s].status = "none"
    BY <1>1 DEF Init
  <2>2. ~closure /\ status = "approved"
    BY <1>1 DEF Init
  <2> QED
    BY <2>1, <2>2 DEF ClosureInv, ActiveSession
<1> QED
  BY <1>1, ClosureInductive, SavedInvariant, TypeInvariant, PTL DEF Spec

(* A closed change has no active breakglass session, whatever activation or *)
(* stale save raced its closure, unless the hook closed it because the      *)
(* request had drifted; and one that a person closed has a review  *)
(* of every session by somebody else than its activator.                    *)
THEOREM EmergencyEndsAtCloseHolds == Spec => []EmergencyEndsAtClose
<1>1. ClosureInv => EmergencyEndsAtClose
  BY DEF ClosureInv, EmergencyEndsAtClose
<1> QED
  BY <1>1, ClosureInvariant, PTL

-----------------------------------------------------------------------------
(* Gates.  What a preflight wrote down, and what a dispatch took over from  *)
(* it, was in force when it was looked at.                                  *)

Authority(x) ==
    IF x \in Exceptions
    THEN request[x] = "approved"
    ELSE session[x].status # "none" /\ session[x].wide /\ "window_overrun" \in session[x].gates

GateInv == \A x \in passed.cover \cup granted : Authority(x)

LEMMA CoverHasAuthority ==
    ASSUME TypeOK, RequestInv
    PROVE  \A x \in CoverOfGates : Authority(x)
<1>1. ASSUME NEW r \in freeze, NEW x \in CoveringExceptions("freeze_override", r) PROVE Authority(x)
  <2>1. x \in Exceptions /\ ExpireExceptions[x].status = "approved" /\ exc[x] \in ExceptionRow
    BY <1>1 DEF CoveringExceptions, TypeOK
  <2>2. exc[x].status = "approved"
    BY <2>1, ExpireSteps DEF ExceptionRow
  <2> QED
    BY <2>1, <2>2 DEF RequestInv, Authority
<1>2. ASSUME NEW x \in Allowing("window_overrun") PROVE Authority(x)
  <2>1. /\ x \in Sessions /\ ExpireSessions[x].status = "active"
        /\ session[x].wide /\ "window_overrun" \in session[x].gates
    BY <1>2 DEF Allowing, ActiveSession
  <2>2. session[x].status # "none" /\ x \notin Exceptions
    BY <2>1, ExpireSessionSteps, EmergencyAssumption
  <2> QED
    BY <2>1, <2>2 DEF Authority
<1>3. \A x \in UNION {CoveringExceptions("freeze_override", r) : r \in freeze} : Authority(x)
  BY <1>1, Zenon
<1> QED
  BY <1>2, <1>3, CoverParts, Zenon

LEMMA AuthorityKept ==
    ASSUME TypeOK, SessionSaved, DecidingRow, LockInv, RequestInv, [Next]_vars,
           NEW x \in Sources, Authority(x)
    PROVE  Authority(x)'
<1>1. CASE x \in Exceptions
  <2>1. request[x] = "approved"
    BY <1>1 DEF Authority
  <2>2. exc[x].status # "none" /\ exc[x].status # "pending_approval"
    BY <1>1, <2>1 DEF RequestInv
  <2>3. request'[x] = "approved"
    BY <1>1, <2>1, <2>2, ExceptionSteps DEF LeftAlone, Requested, Lapses, Resolves, IsDecided
  <2> QED
    BY <1>1, <2>3 DEF Authority
<1>2. CASE x \notin Exceptions
  <2>1. x \in Sessions
    BY <1>2 DEF Sources
  <2>2. Moves(x) /\ session[x].status # "none"
    BY <1>2, <2>1, SessionSteps DEF Authority, Activated
  <2>3. /\ session'[x].status # "none" /\ session'[x].wide = session[x].wide
        /\ session'[x].gates = session[x].gates
    BY <2>2 DEF Moves
  <2> QED
    BY <1>2, <2>3 DEF Authority
<1> QED
  BY <1>1, <1>2

LEMMA GateInductive ==
    ASSUME TypeOK, SessionSaved, DecidingRow, LockInv, RequestInv, GateInv, [Next]_vars
    PROVE  GateInv'
<1> SUFFICES ASSUME NEW x \in passed'.cover \cup granted' PROVE Authority(x)'
  BY DEF GateInv
<1>1. passed'.cover \subseteq passed.cover \cup CoverOfGates
  <2>1. CASE RunPreflight
    BY <2>1 DEF RunPreflight
  <2>2. CASE CalendarMoves \/ Dispatch
    BY <2>2 DEF CalendarMoves, Dispatch, NotPassed
  <2> QED
    BY <2>1, <2>2, ColumnSteps
<1>2. granted' \subseteq granted \cup passed.cover \cup CoverOfGates
  BY ColumnSteps DEF Dispatch
<1>3. x \in passed.cover \cup granted \cup CoverOfGates
  BY <1>1, <1>2
<1>4. Authority(x)
  BY <1>3, CoverHasAuthority DEF GateInv
<1>5. x \in Sources
  <2>1. passed'.cover \subseteq Sources /\ granted' \subseteq Sources
    BY TypeInductive DEF TypeOK
  <2> QED
    BY <2>1
<1> QED
  BY <1>4, <1>5, AuthorityKept

(* Every exception and session that opened a gate of the dispatch was in    *)
(* force when the gate was looked at, even though the preflight is reused   *)
(* after it lapsed: the exception approved by a second person, the session  *)
(* with the window and all targets in its scope.                            *)
THEOREM DispatchWasAuthorizedHolds == Spec => []DispatchWasAuthorized
<1>1. Init => GateInv
  <2>1. NotPassed.cover = {}
    BY DEF NotPassed
  <2> QED
    BY <2>1 DEF Init, GateInv
<1>2. TypeOK /\ RequestInv /\ GateInv => DispatchWasAuthorized
  BY DEF TypeOK, RequestInv, GateInv, Authority, DispatchWasAuthorized
<1> QED
  BY <1>1, <1>2, GateInductive, SavedInvariant, DecisionInvariant, PTL DEF Spec
=============================================================================
