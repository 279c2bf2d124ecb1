--------------------------- MODULE ExecutionStream ---------------------------
(***************************************************************************)
(* How a page learns what became of one execution: events emitted after a  *)
(* commit, the in-process bus with its ring buffer, the server-sent event  *)
(* stream, and the page, which applies events to its query cache,          *)
(* reconnects, falls back to polling and refetches when the stream ends.   *)
(*                                                                         *)
(* Statuses are "active" and "finished"; the progress of the steps is a    *)
(* number.                                                                 *)
(***************************************************************************)
EXTENDS Integers, Sequences, FiniteSets, SequencesExt

CONSTANTS BufferSize,   \* _MAX_BUFFER_SIZE
          MaxFailures,  \* MAX_STREAM_FAILURES
          MaxSteps,     \* bound on status changes of the steps
          MaxFaults     \* bound on rollbacks, lost connections, failed reads, restarts

ASSUME StreamAssumption ==
    /\ BufferSize \in Nat \ {0} /\ MaxFailures \in Nat \ {0}
    /\ MaxSteps \in Nat /\ MaxFaults \in Nat

VARIABLES db,        \* the execution as committed: status, steps, and steps when it ended
          pending,   \* events each writer has still to emit
          published, \* events the bus has handled so far
          buffered,  \* the bus keeps a buffer for the execution
          ring,      \* that buffer
          conn,      \* the server's side of the page's connection
          pipe,      \* what it has sent and the page has not read
          page,      \* the cached execution and the hook's state
          fetch,     \* the page's read of the execution
          faults     \* faults so far

vars == <<db, pending, published, buffered, ring, conn, pipe, page, fetch, faults>>

bus == <<published, buffered, ring>>

(* Requests of the runner come one after the other; the sweeps of the      *)
(* watchdog run beside them.                                               *)
Writers == {"runner", "watchdog"}

Unknown == 0        \* the id of an event the bus never had, or no id at all

Kinds == {"status", "step", "closed"}

MaxEvents == MaxSteps + 3

Events == [id : 0 .. MaxEvents, kind : Kinds, status : {"active", "finished"}, steps : 0 .. MaxSteps]

Ids(events) == {events[i].id : i \in DOMAIN events}

Event(kind, status) == [id |-> Unknown, kind |-> kind, status |-> status, steps |-> 0]

StepEvent(n) == [Event("step", "active") EXCEPT !.steps = n]

States == [status : {"active", "finished"}, steps : 0 .. MaxSteps, ended : 0 .. MaxSteps]

(* A read of the execution: where it is, and what the server read. *)
Fetch(at, state) == [at |-> at, state |-> state]

NoConnection == [at |-> "none", row |-> "active", last |-> Unknown, queue |-> <<>>, hit |-> FALSE, sent |-> {}]

Init ==
    /\ db = [status |-> "active", steps |-> 0, ended |-> 0]
    /\ pending = [w \in Writers |-> <<>>]
    /\ published = 0 /\ buffered = FALSE /\ ring = <<>>
    /\ conn = NoConnection /\ pipe = <<>>
    /\ page = [status |-> "active", steps |-> 0, seen |-> Unknown, failures |-> 0,
               polling |-> FALSE, closed |-> FALSE]
    /\ fetch \in {Fetch("none", db), Fetch("asked", db)}
    /\ faults = 0

-----------------------------------------------------------------------------
(* Writers.  An event is emitted by the thread that committed, afterwards. *)

(* A slip: events are emitted inside the transaction, which may roll back. *)
EmitsAtOnce(w, committed, events) == pending' = [pending EXCEPT ![w] = events]

OnCommit(w, committed, events) == pending' = [pending EXCEPT ![w] = IF committed THEN events ELSE <<>>]

Transact(w, new, events) ==
    /\ pending[w] = <<>>
    /\ \/ db' = new /\ OnCommit(w, TRUE, events) /\ UNCHANGED faults
       \/ /\ faults < MaxFaults /\ faults' = faults + 1
          /\ UNCHANGED db /\ OnCommit(w, FALSE, events)
    /\ UNCHANGED <<bus, conn, pipe, page, fetch>>

(* A step changes, also after the execution has ended: only the owner and  *)
(* the step's own status are looked at.  The first change moves an         *)
(* execution that is still claimed to running.                             *)
UpdateStep ==
    /\ db.steps < MaxSteps
    /\ LET n == db.steps + 1
       IN  Transact("runner", [db EXCEPT !.steps = n],
                    <<StepEvent(n)>> \o (IF n = 1 /\ db.status = "active" THEN <<Event("status", "active")>> ELSE <<>>))

EndEvents == <<Event("status", "finished"), Event("closed", "finished")>>

Ended(n) == [status |-> "finished", steps |-> n, ended |-> n]

(* complete_execution leaves the steps alone. *)
Complete ==
    /\ db.status = "active"
    /\ Transact("runner", Ended(db.steps), EndEvents)

(* The step that waited for the approval fails with the execution, and is  *)
(* announced before the end is.                                            *)
FailForApprovalTimeout ==
    /\ db.status = "active" /\ db.steps \in 1 .. MaxSteps - 1
    /\ LET n == db.steps + 1
       IN  Transact("watchdog", Ended(n), <<StepEvent(n)>> \o EndEvents)

(* recover_stuck_executions fails what runs, if anything, and emits        *)
(* nothing.                                                                *)
RecoverStuck ==
    /\ db.status = "active"
    /\ \E failed \in {0, 1} :
        /\ failed = 1 => db.steps \in 1 .. MaxSteps - 1
        /\ Transact("watchdog", Ended(db.steps + failed), <<>>)

(* A slip: a full replay buffer drops the newest event. *)
RingKeepsOldest(e) == IF Len(ring) < BufferSize THEN Append(ring, e) ELSE ring

Remember(e) ==
    LET longer == Append(ring, e)
    IN  IF Len(longer) > BufferSize THEN Tail(longer) ELSE longer

Subscribed == conn.at \in {"subscribed", "open"}

(* _async_emit, under the lock of the bus. *)
Emit(w) ==
    /\ pending[w] # <<>>
    /\ LET e == [Head(pending[w]) EXCEPT !.id = published + 1]
       IN  /\ published' = published + 1
           /\ ring' = IF buffered THEN Remember(e) ELSE ring
           /\ conn' = IF Subscribed THEN [conn EXCEPT !.queue = Append(@, e)] ELSE conn
    /\ pending' = [pending EXCEPT ![w] = Tail(@)]
    /\ UNCHANGED <<db, buffered, pipe, page, fetch, faults>>

-----------------------------------------------------------------------------
(* The stream view.                                                        *)

Streams == page.status = "active" /\ ~page.polling

(* The hook opens the stream; the view reads the row. *)
Connect ==
    /\ Streams /\ conn.at = "none"
    /\ conn' = [NoConnection EXCEPT !.at = "read", !.row = db.status, !.last = page.seen]
    /\ UNCHANGED <<db, pending, bus, pipe, page, fetch, faults>>

ClosesStream(e) == e.kind = "closed"

EndsStream(e) == ClosesStream(e) \/ (e.kind = "status" /\ e.status = "finished")

(* Events go out up to the first that ends the stream; a final status is   *)
(* followed by a closing event of the view's own.                          *)
EndOf(events) == SelectInSeq(events, EndsStream)

Outgoing(events) ==
    LET end == EndOf(events)
    IN  IF end = 0 THEN events
        ELSE SubSeq(events, 1, end)
             \o (IF ClosesStream(events[end]) THEN <<>> ELSE <<Event("closed", "finished")>>)

Sent(events) ==
    /\ pipe' = pipe \o Outgoing(events)
    /\ conn' = [conn EXCEPT !.at = IF EndOf(events) = 0 THEN "open" ELSE "ended",
                            !.hit = IF conn.at = "subscribed" THEN conn.last \in Ids(ring) ELSE @,
                            !.queue = IF conn.at = "open" /\ @ # <<>> THEN Tail(@) ELSE @,
                            !.sent = @ \cup Ids(events)]

SendTerminal ==
    /\ conn.at = "read" /\ conn.row = "finished"
    /\ Sent(EndEvents)
    /\ UNCHANGED <<db, pending, bus, page, fetch, faults>>

Subscribe ==
    /\ conn.at = "read" /\ conn.row = "active"
    /\ conn' = [conn EXCEPT !.at = "subscribed"]
    /\ buffered' = TRUE
    /\ UNCHANGED <<db, pending, published, ring, pipe, page, fetch, faults>>

(* get_buffered_events_after: what follows the event with this id, nothing *)
(* if the buffer does not hold it.                                         *)
BufferedAfter(id) ==
    LET Same(e) == e.id = id
        i == SelectInSeq(ring, Same)
    IN  IF i = 0 THEN <<>> ELSE SubSeq(ring, i + 1, Len(ring))

Replay ==
    /\ conn.at = "subscribed"
    /\ Sent(BufferedAfter(conn.last))
    /\ UNCHANGED <<db, pending, bus, page, fetch, faults>>

Forward ==
    /\ conn.at = "open" /\ conn.queue # <<>>
    /\ Sent(<<Head(conn.queue)>>)
    /\ UNCHANGED <<db, pending, bus, page, fetch, faults>>

(* A slip: an idle stream sends its heartbeat and does not read the row. *)
HeartbeatOnly ==
    /\ conn.at = "open" /\ conn.queue = <<>>
    /\ UNCHANGED vars

(* Nothing came for HEARTBEAT_INTERVAL_SECONDS: the row is read again. *)
Reconcile ==
    /\ conn.at = "open" /\ conn.queue = <<>> /\ db.status = "finished"
    /\ Sent(EndEvents)
    /\ UNCHANGED <<db, pending, bus, page, fetch, faults>>

-----------------------------------------------------------------------------
(* The page.                                                               *)

Disconnected == conn' = NoConnection /\ pipe' = <<>>

Apply(e) ==
    CASE e.kind = "step" -> [page EXCEPT !.steps = e.steps, !.seen = e.id]
      [] e.kind = "status" -> [page EXCEPT !.status = e.status, !.seen = e.id]
      [] e.kind = "closed" -> [page EXCEPT !.status = e.status, !.seen = Unknown, !.closed = TRUE]

(* A slip: the closing event hangs up without a last read. *)
ClosedWithoutRefetch == Disconnected /\ UNCHANGED fetch

(* The closing event invalidates the query, which starts a new read and    *)
(* drops one under way, and aborts the stream.                             *)
OnClosed == Disconnected /\ fetch' = [fetch EXCEPT !.at = "asked"]

Receive ==
    /\ pipe # <<>>
    /\ page' = Apply(Head(pipe))
    /\ IF ClosesStream(Head(pipe)) THEN OnClosed
       ELSE pipe' = Tail(pipe) /\ UNCHANGED <<conn, fetch>>
    /\ UNCHANGED <<db, pending, bus, faults>>

(* A page that shows a final status disables the stream when it renders,   *)
(* be the closing event received or not.                                   *)
HangUp ==
    /\ ~Streams /\ conn.at # "none"
    /\ Disconnected
    /\ page' = [page EXCEPT !.seen = Unknown]
    /\ UNCHANGED <<db, pending, bus, fetch, faults>>

StreamFailed ==
    page' = [page EXCEPT !.failures = @ + 1, !.polling = page.failures + 1 >= MaxFailures]

ConnectionLost ==
    /\ conn.at # "none" /\ faults < MaxFaults /\ faults' = faults + 1
    /\ Disconnected /\ StreamFailed
    /\ UNCHANGED <<db, pending, bus, fetch>>

(* The API process restarts: its bus and its threads are gone. *)
Restart ==
    /\ faults < MaxFaults /\ faults' = faults + 1
    /\ pending' = [w \in Writers |-> <<>>]
    /\ buffered' = FALSE /\ ring' = <<>>
    /\ Disconnected
    /\ IF conn.at # "none" THEN StreamFailed ELSE UNCHANGED page
    /\ fetch' = IF fetch.at = "read" THEN [fetch EXCEPT !.at = "failed"] ELSE fetch
    /\ UNCHANGED <<db, published>>

Poll ==
    /\ page.polling /\ page.status = "active" /\ fetch.at \in {"none", "failed"}
    /\ fetch' = [fetch EXCEPT !.at = "asked"]
    /\ UNCHANGED <<db, pending, bus, conn, pipe, page, faults>>

FetchRead ==
    /\ fetch.at = "asked"
    /\ fetch' = Fetch("read", db)
    /\ UNCHANGED <<db, pending, bus, conn, pipe, page, faults>>

FetchReply ==
    /\ fetch.at = "read"
    /\ page' = [page EXCEPT !.status = fetch.state.status, !.steps = fetch.state.steps]
    /\ fetch' = [fetch EXCEPT !.at = "none"]
    /\ UNCHANGED <<db, pending, bus, conn, pipe, faults>>

FetchFails ==
    /\ fetch.at \notin {"none", "failed"} /\ faults < MaxFaults
    /\ faults' = faults + 1 /\ fetch' = [fetch EXCEPT !.at = "failed"]
    /\ UNCHANGED <<db, pending, bus, conn, pipe, page>>

-----------------------------------------------------------------------------
View == SendTerminal \/ Subscribe \/ Replay \/ Forward \/ Reconcile

Browser == Connect \/ Receive \/ HangUp \/ Poll \/ FetchRead \/ FetchReply

Next ==
    \/ UpdateStep \/ Complete \/ FailForApprovalTimeout \/ RecoverStuck
    \/ \E w \in Writers : Emit(w)
    \/ View \/ Browser
    \/ ConnectionLost \/ Restart \/ FetchFails

(* A thread that committed goes on to emit, the event loop serves every    *)
(* open stream, and the browser's loop serves the hook.  Nobody owes a     *)
(* step to the execution itself.                                           *)
Fairness ==
    /\ \A w \in Writers : WF_vars(Emit(w))
    /\ WF_vars(View) /\ WF_vars(Connect) /\ WF_vars(Receive) /\ WF_vars(HangUp)
    /\ WF_vars(Poll) /\ WF_vars(FetchRead \/ FetchReply)

Spec == Init /\ [][Next]_vars /\ Fairness

-----------------------------------------------------------------------------
(* Properties.                                                             *)

(* Every variable has a value the code can give it, and the buffer never   *)
(* grows beyond its size.                                                  *)
TypeOK ==
    /\ db \in States /\ published \in 0 .. MaxEvents /\ buffered \in BOOLEAN
    /\ \A w \in Writers : Range(pending[w]) \subseteq Events
    /\ Range(ring) \cup Range(conn.queue) \cup Range(pipe) \subseteq Events
    /\ Len(ring) <= BufferSize
    /\ conn.at \in {"none", "read", "subscribed", "open", "ended"}
    /\ page.status \in {"active", "finished"} /\ page.steps \in 0 .. MaxSteps
    /\ page.failures \in 0 .. MaxFailures /\ {page.polling, page.closed} \subseteq BOOLEAN
    /\ fetch \in [at : {"none", "asked", "read", "failed"}, state : States] /\ faults \in 0 .. MaxFaults

(* The page never shows a step or a final status that was not committed:   *)
(* a transaction that rolls back leaves no event behind.                   *)
ShownIsCommitted ==
    page.steps <= db.steps /\ (page.status = "finished" => db.status = "finished")

(* A page that reconnects with an id the buffer still holds misses no      *)
(* event, whatever was published while it was away, between the read of    *)
(* the row and the subscription, or between that and the replay.           *)
ReplayLeavesNoGap ==
    conn.at = "open" /\ conn.hit =>
        (conn.last + 1) .. published \subseteq conn.sent \cup Ids(conn.queue)

(* A page that was told the stream is closed, and whose refetch did not    *)
(* fail, shows the final status and no step older than the end, although   *)
(* events may have been missed, repeated or overtaken by older reads.  Of  *)
(* steps a runner still changes after the end it is told nothing.          *)
SettledIsFinal ==
    page.closed /\ fetch.at = "none" =>
        page.status = "finished" /\ db.status = "finished" /\ page.steps \in db.ended .. db.steps

(* Once the execution has ended the page comes to show it and keeps        *)
(* showing it: by an event, by the reconciliation of an idle stream, by a  *)
(* reconnection or by polling.                                             *)
EndIsShown == <>[](db.status = "finished" => page.status = "finished")
=============================================================================
