------------------------ MODULE ExecutionStreamProofs ------------------------
(***************************************************************************)
(* Machine-checked proofs about ExecutionStream, for every buffer size,    *)
(* every number of steps and every number of faults.                       *)
(***************************************************************************)
EXTENDS ExecutionStream, SequenceTheorems, NaturalsInduction, WellFoundedInduction, TLAPS

-----------------------------------------------------------------------------
(* The operators the stream is built from.                                 *)

(* A set of positions that is not empty has a least one.                   *)
LEMMA LeastPosition ==
    ASSUME NEW I, I \subseteq Nat, I # {}
    PROVE  Min(I) \in I /\ \A j \in I : Min(I) <= j
<1> DEFINE R == {ss \in Nat \X Nat : ss[1] < ss[2]}
<1>1. IsWellFoundedOn(R, Nat)
  BY NatLessThanWellFounded, Zenon DEF OpToRel
<1>2. PICK x \in I : \A y \in I : <<y, x>> \notin R
  <2> HIDE DEF R
  <2> QED
    BY <1>1, WFMin
<1>3. ASSUME NEW y \in I PROVE x <= y
  <2>1. x \in Nat /\ y \in Nat /\ <<y, x>> \in Nat \X Nat
    BY <1>3
  <2>2. ~(y < x)
    BY <1>2, <1>3, <2>1
  <2> QED
    BY <2>1, <2>2
<1> QED
  BY <1>3 DEF Min

(* The first event that ends the stream, if there is one.                  *)
LEMMA EndPosition ==
    ASSUME NEW S, NEW events \in Seq(S)
    PROVE  /\ EndOf(events) \in 0..Len(events)
           /\ EndOf(events) # 0 => EndsStream(events[EndOf(events)])
           /\ EndOf(events) = 0 => \A i \in 1..Len(events) : ~EndsStream(events[i])
<1> DEFINE I == {i \in 1..Len(events) : EndsStream(events[i])}
<1>0. Len(events) \in Nat
  OBVIOUS
<1>1. EndOf(events) = IF I # {} THEN Min(I) ELSE 0
  BY DEF EndOf, SelectInSeq
<1>2. I # {} => Min(I) \in I
  <2>1. I \subseteq Nat
    BY <1>0
  <2> HIDE DEF I
  <2> QED
    BY <2>1, LeastPosition
<1> QED
  BY <1>0, <1>1, <1>2

(* What the buffer holds after an id, when its ids are consecutive.        *)
LEMMA ReplayPosition ==
    ASSUME NEW S, ring \in Seq(S), NEW id
    PROVE  \/ BufferedAfter(id) = <<>> /\ \A j \in 1..Len(ring) : ring[j].id # id
           \/ \E i \in 1..Len(ring) : ring[i].id = id /\ BufferedAfter(id) = SubSeq(ring, i + 1, Len(ring))
<1> DEFINE I == {i \in 1..Len(ring) : ring[i].id = id}
           k == IF I # {} THEN Min(I) ELSE 0
<1>0. Len(ring) \in Nat
  OBVIOUS
<1>1. BufferedAfter(id) = IF k = 0 THEN <<>> ELSE SubSeq(ring, k + 1, Len(ring))
  BY DEF BufferedAfter, SelectInSeq
<1>2. I # {} => Min(I) \in I
  <2>1. I \subseteq Nat
    BY <1>0
  <2> HIDE DEF I
  <2> QED
    BY <2>1, LeastPosition
<1>3. CASE I = {}
  BY <1>1, <1>3
<1>4. CASE I # {}
  <2>1. PICK m : m = Min(I)
    OBVIOUS
  <2>2. m \in 1..Len(ring) /\ ring[m].id = id /\ k = m
    BY <1>2, <1>4, <2>1
  <2>3. BufferedAfter(id) = SubSeq(ring, m + 1, Len(ring))
    <3>1. m # 0
      BY <1>0, <2>2
    <3> HIDE DEF k
    <3> QED
      BY <1>1, <2>2, <3>1
  <2> QED
    BY <2>2, <2>3
<1> QED
  BY <1>3, <1>4

-----------------------------------------------------------------------------
(* What is told is true.  An event in flight, wherever it waits, and a     *)
(* read under way describe the row as it was committed at some time.       *)

Messages == [id : Nat, kind : Kinds, status : {"active", "finished"}, steps : 0 .. MaxSteps]

Facts ==
    {e \in Messages :
        /\ e.kind = "step" => e.steps <= db.steps
        /\ e.kind # "step" /\ e.status = "finished" => db.status = "finished"
        /\ e.kind = "closed" => e.status = "finished"}

Past ==
    {s \in States :
        /\ s.steps <= db.steps
        /\ s.status = "finished" => db.status = "finished" /\ db.ended <= s.steps}

Connections ==
    [at : {"none", "read", "subscribed", "open", "ended"}, row : {"active", "finished"}, last : Nat,
     queue : Seq(Facts), hit : BOOLEAN, sent : SUBSET Nat]

Pages == [status : {"active", "finished"}, steps : 0 .. MaxSteps, seen : Nat, failures : Nat,
          polling : BOOLEAN, closed : BOOLEAN]

StreamInv ==
    /\ db \in States /\ published \in Nat /\ buffered \in BOOLEAN
    /\ pending \in [Writers -> Seq(Facts)] /\ ring \in Seq(Facts) /\ pipe \in Seq(Facts)
    /\ conn \in Connections /\ (conn.row = "finished" => db.status = "finished")
    /\ fetch \in [at : {"none", "asked", "read", "failed"}, state : Past]
    /\ page \in Pages /\ ShownIsCommitted
    /\ db.status = "finished" => db.ended <= db.steps

(* The steps that end an execution: the step that waits for an approval,   *)
(* or the one that runs, may fail with it.                                 *)
Ends == Complete \/ FailForApprovalTimeout \/ RecoverStuck

Endings(k) == {EndEvents, <<>>, <<StepEvent(db.steps + k)>> \o EndEvents}

LEMMA EndsTransact ==
    ASSUME db \in States, Ends
    PROVE  \E w \in Writers, k \in {0, 1} : \E events \in Endings(k) :
               /\ db.status = "active" /\ db.steps + k \in 0 .. MaxSteps
               /\ k = 0 => events \in {EndEvents, <<>>}
               /\ Transact(w, Ended(db.steps + k), events)
<1>0. MaxSteps \in Nat /\ db.steps \in 0 .. MaxSteps /\ "runner" \in Writers /\ "watchdog" \in Writers
  BY StreamAssumption DEF States, Writers
<1>1. CASE Complete
  <2>1. db.status = "active" /\ db.steps + 0 = db.steps /\ Transact("runner", Ended(db.steps), EndEvents)
    BY <1>0, <1>1 DEF Complete
  <2> QED
    BY <1>0, <2>1 DEF Endings
<1>2. CASE FailForApprovalTimeout
  <2>1. db.status = "active" /\ db.steps + 1 \in 0 .. MaxSteps
        /\ Transact("watchdog", Ended(db.steps + 1), <<StepEvent(db.steps + 1)>> \o EndEvents)
    BY <1>0, <1>2 DEF FailForApprovalTimeout
  <2> QED
    BY <1>0, <2>1 DEF Endings
<1>3. CASE RecoverStuck
  <2>1. PICK failed \in {0, 1} : /\ db.status = "active" /\ (failed = 1 => db.steps \in 1 .. MaxSteps - 1)
                                 /\ Transact("watchdog", Ended(db.steps + failed), <<>>)
    BY <1>3 DEF RecoverStuck
  <2>2. db.steps + failed \in 0 .. MaxSteps
    BY <1>0, <2>1
  <2> QED
    BY <1>0, <2>1, <2>2 DEF Endings
<1> QED
  BY <1>1, <1>2, <1>3 DEF Ends

(* The row only moves forward; a finished one keeps its status, and the    *)
(* steps it ended with are remembered.                                     *)
LEMMA RowGrows ==
    ASSUME db \in States, db.status = "finished" => db.ended <= db.steps, [Next]_vars
    PROVE  /\ db' \in States /\ db.steps <= db'.steps
           /\ db.status = "finished" => db'.status = "finished" /\ db'.ended = db.ended
           /\ db'.status = "finished" => db'.ended <= db'.steps
<1>0. MaxSteps \in Nat
  BY StreamAssumption
<1>1. CASE UNCHANGED db
  BY <1>0, <1>1 DEF States
<1>2. CASE UpdateStep
  <2>1. UNCHANGED db \/ (db' = [db EXCEPT !.steps = db.steps + 1] /\ db.steps < MaxSteps)
    BY <1>2 DEF UpdateStep, Transact
  <2>2. CASE db' = [db EXCEPT !.steps = db.steps + 1] /\ db.steps < MaxSteps
    <3>1. db.steps \in 0..MaxSteps /\ db.ended \in 0..MaxSteps
      BY DEF States
    <3>2. db.steps + 1 \in 0..MaxSteps /\ db.steps <= db.steps + 1
      BY <1>0, <2>2, <3>1
    <3>3. db' \in States /\ db'.steps = db.steps + 1 /\ db'.status = db.status /\ db'.ended = db.ended
      BY <2>2, <3>2 DEF States
    <3> QED
      BY <1>0, <3>1, <3>2, <3>3
  <2> QED
    BY <1>1, <2>1, <2>2
<1>3. CASE Ends
  <2>1. PICK k \in {0, 1} : /\ db.status = "active" /\ db.steps + k \in 0..MaxSteps
                            /\ UNCHANGED db \/ db' = Ended(db.steps + k)
    BY <1>3, EndsTransact DEF Transact
  <2>2. CASE db' = Ended(db.steps + k)
    <3>1. db' \in States /\ db'.steps = db.steps + k /\ db'.ended = db.steps + k /\ db.steps \in 0..MaxSteps
      BY <2>1, <2>2 DEF States, Ended
    <3> QED
      BY <1>0, <2>1, <3>1
  <2> QED
    BY <1>1, <2>1, <2>2
<1> QED
  BY <1>1, <1>2, <1>3 DEF Next, Ends, vars, Emit, View, SendTerminal, Subscribe, Replay, Forward, Reconcile, Browser,
     Connect, Receive, HangUp, Poll, FetchRead, FetchReply, ConnectionLost, Restart, FetchFails

LEMMA FactsGrow ==
    ASSUME db \in States, db' \in States, db.steps <= db'.steps,
           db.status = "finished" => db'.status = "finished" /\ db'.ended = db.ended
    PROVE  Facts \subseteq Facts' /\ Past \subseteq Past'
<1>0. MaxSteps \in Nat
  BY StreamAssumption
<1>1. ASSUME NEW e \in Facts PROVE e \in Facts'
  <2>1. e \in Messages /\ (e.kind = "step" => e.steps <= db.steps) /\ e.steps \in Nat
        /\ db.steps \in Nat /\ db'.steps \in Nat
    BY <1>0, <1>1 DEF Facts, Messages, States
  <2>2. e.kind = "step" => e.steps <= db'.steps
    BY <2>1
  <2> QED
    BY <1>1, <2>1, <2>2 DEF Facts
<1>2. ASSUME NEW s \in Past PROVE s \in Past'
  <2>1. s \in States /\ s.steps <= db.steps /\ s.steps \in Nat /\ db.steps \in Nat /\ db'.steps \in Nat
    BY <1>0, <1>2 DEF Past, States
  <2>2. s.steps <= db'.steps
    BY <2>1
  <2> QED
    BY <1>2, <2>1, <2>2 DEF Past
<1> QED
  BY <1>1, <1>2

LEMMA EndIsFact ==
    ASSUME db.status = "finished"
    PROVE  EndEvents \in Seq(Facts) /\ Event("closed", "finished") \in Facts
<1>0. MaxSteps \in Nat /\ 0 \in 0..MaxSteps
  BY StreamAssumption
<1>1. Event("closed", "finished") \in Facts
  BY <1>0 DEF Event, Facts, Messages, Kinds, Unknown
<1>2. Event("status", "finished") \in Facts
  BY <1>0 DEF Event, Facts, Messages, Kinds, Unknown
<1> QED
  BY <1>1, <1>2 DEF EndEvents

(* What the view sends is true, its own closing event included.            *)
LEMMA OutgoingFacts ==
    ASSUME NEW events \in Seq(Facts)
    PROVE  Outgoing(events) \in Seq(Facts) /\ Ids(events) \subseteq Nat
<1>0. /\ Len(events) \in Nat /\ EndOf(events) \in 0..Len(events)
      /\ EndOf(events) # 0 => EndsStream(events[EndOf(events)])
      /\ \A i \in 1..Len(events) : events[i] \in Facts
  BY EndPosition, ElementOfSeq
<1>1. Ids(events) \subseteq Nat
  BY <1>0 DEF Ids, Facts, Messages
<1>2. CASE EndOf(events) = 0
  BY <1>1, <1>2 DEF Outgoing
<1>3. CASE EndOf(events) # 0
  <2>1. SubSeq(events, 1, EndOf(events)) \in Seq(Facts)
    <3>1. 1 \in Int /\ EndOf(events) \in Int /\ \A i \in 1..EndOf(events) : events[i] \in Facts
      BY <1>0
    <3> QED
      BY <3>1, SubSeqProperties
  <2>2. db.status = "finished"
    BY <1>0, <1>3 DEF EndsStream, ClosesStream, Facts
  <2>3. <<Event("closed", "finished")>> \in Seq(Facts) /\ <<>> \in Seq(Facts)
    BY <2>2, EndIsFact
  <2> DEFINE last == IF ClosesStream(events[EndOf(events)]) THEN <<>> ELSE <<Event("closed", "finished")>>
  <2>4. last \in Seq(Facts)
    BY <2>3
  <2>5. Outgoing(events) = SubSeq(events, 1, EndOf(events)) \o last
    BY <1>3 DEF Outgoing
  <2> HIDE DEF last
  <2> QED
    BY <1>1, <2>1, <2>4, <2>5, ConcatProperties
<1> QED
  BY <1>2, <1>3

LEMMA SentFacts ==
    ASSUME pipe \in Seq(Facts), conn \in Connections, NEW events \in Seq(Facts), Sent(events)
    PROVE  /\ pipe' \in Seq(Facts) /\ conn' \in Connections /\ conn'.row = conn.row
<1>1. Outgoing(events) \in Seq(Facts) /\ Ids(events) \subseteq Nat
  BY OutgoingFacts
<1>2. pipe' \in Seq(Facts)
  BY <1>1, ConcatProperties DEF Sent
<1> DEFINE at == IF EndOf(events) = 0 THEN "open" ELSE "ended"
           hit == IF conn.at = "subscribed" THEN conn.last \in Ids(ring) ELSE conn.hit
           queue == IF conn.at = "open" /\ conn.queue # <<>> THEN Tail(conn.queue) ELSE conn.queue
           sent == conn.sent \cup Ids(events)
<1>3. conn' = [conn EXCEPT !.at = at, !.hit = hit, !.queue = queue, !.sent = sent]
  BY DEF Sent, Connections
<1>4. at \in {"open", "ended"} /\ hit \in BOOLEAN /\ sent \in SUBSET Nat
  <2>1. conn.hit \in BOOLEAN /\ conn.sent \in SUBSET Nat
    BY DEF Connections
  <2>2. hit \in BOOLEAN
    <3>1. (conn.last \in Ids(ring)) \in BOOLEAN
      OBVIOUS
    <3>2. CASE conn.at = "subscribed"
      BY <3>1, <3>2, Zenon
    <3>3. CASE conn.at # "subscribed"
      BY <2>1, <3>3, Zenon
    <3> QED
      BY <3>2, <3>3
  <2> QED
    BY <1>1, <2>1, <2>2
<1>5. queue \in Seq(Facts)
  <2>1. conn.queue \in Seq(Facts)
    BY DEF Connections
  <2> QED
    BY <2>1, HeadTailProperties
<1> HIDE DEF at, hit, queue, sent
<1>6. conn' \in Connections /\ conn'.row = conn.row
  BY <1>3, <1>4, <1>5 DEF Connections
<1> QED
  BY <1>2, <1>6

(* A commit: the row moves, the writer has events of the new row to emit.  *)
LEMMA CommitFacts ==
    ASSUME StreamInv, NEW w \in Writers, NEW new, NEW events \in Seq(Facts'), db' = new,
           db' \in States, db.steps <= db'.steps, db'.status = "finished" => db'.ended <= db'.steps,
           db.status = "finished" => db'.status = "finished" /\ db'.ended = db.ended,
           pending' = [pending EXCEPT ![w] = events],
           UNCHANGED <<bus, conn, pipe, page, fetch>>
    PROVE  StreamInv'
<1>0. db \in States /\ Facts \subseteq Facts' /\ Past \subseteq Past'
  BY FactsGrow DEF StreamInv
<1>1. ASSUME NEW s \in Seq(Facts) PROVE s \in Seq(Facts')
  BY <1>0, <1>1, SeqMonotonic
<1>2. pending' \in [Writers -> Seq(Facts')]
  <2>1. ASSUME NEW v \in Writers PROVE pending'[v] \in Seq(Facts')
    BY <1>1 DEF StreamInv
  <2> QED
    BY <2>1 DEF StreamInv
<1>3. ring' \in Seq(Facts') /\ pipe' \in Seq(Facts')
  BY <1>1 DEF StreamInv, bus
<1>4. conn' \in Connections'
  BY <1>1 DEF StreamInv, Connections
<1>5. fetch' \in [at : {"none", "asked", "read", "failed"}, state : Past']
  BY <1>0 DEF StreamInv
<1>6. page.steps <= db'.steps
  <2>1. page.steps \in 0..MaxSteps /\ db.steps \in 0..MaxSteps /\ db'.steps \in 0..MaxSteps /\ MaxSteps \in Nat
    BY StreamAssumption DEF StreamInv, Pages, States
  <2>2. page.steps <= db.steps
    BY DEF StreamInv, ShownIsCommitted
  <2> QED
    BY <2>1, <2>2
<1>7. ShownIsCommitted'
  BY <1>6 DEF StreamInv, ShownIsCommitted
<1>8. conn'.row = "finished" => db'.status = "finished"
  BY DEF StreamInv
<1> QED
  BY <1>2, <1>3, <1>4, <1>5, <1>7, <1>8 DEF StreamInv, bus

LEMMA StepIsFact ==
    ASSUME db' \in States, NEW n, n = db'.steps
    PROVE  /\ StepEvent(n) \in Facts'
           /\ (<<StepEvent(n)>> \o (IF n = 1 /\ db.status = "active" THEN <<Event("status", "active")>> ELSE <<>>))
                  \in Seq(Facts')
<1>0. MaxSteps \in Nat /\ 0 \in 0..MaxSteps /\ n \in 0..MaxSteps /\ n <= db'.steps
  BY StreamAssumption DEF States
<1>1. StepEvent(n) = [id |-> 0, kind |-> "step", status |-> "active", steps |-> n]
  BY DEF StepEvent, Event, Unknown
<1>2. StepEvent(n) \in Facts'
  BY <1>0, <1>1 DEF Facts, Messages, Kinds
<1>3. Event("status", "active") \in Facts'
  BY <1>0 DEF Event, Facts, Messages, Kinds, Unknown
<1> DEFINE rest == IF n = 1 /\ db.status = "active" THEN <<Event("status", "active")>> ELSE <<>>
<1>4. <<StepEvent(n)>> \in Seq(Facts') /\ rest \in Seq(Facts')
  BY <1>2, <1>3
<1> HIDE DEF rest
<1>5. <<StepEvent(n)>> \o rest \in Seq(Facts')
  BY <1>4, ConcatProperties
<1> QED
  BY <1>2, <1>5 DEF rest

(* The invariant where the row stays as it is.                             *)
LEMMA QuietFacts ==
    ASSUME StreamInv, UNCHANGED db,
           published' \in Nat, buffered' \in BOOLEAN,
           pending' \in [Writers -> Seq(Facts)], ring' \in Seq(Facts), pipe' \in Seq(Facts),
           conn' \in Connections, conn'.row = "finished" => db.status = "finished",
           fetch' \in [at : {"none", "asked", "read", "failed"}, state : Past],
           page' \in Pages, page'.steps <= db.steps, page'.status = "finished" => db.status = "finished"
    PROVE  StreamInv'
<1>1. Facts' = Facts /\ Past' = Past
  BY DEF Facts, Past
<1>2. Connections' = Connections
  BY <1>1 DEF Connections
<1> QED
  BY <1>1, <1>2 DEF StreamInv, ShownIsCommitted

LEMMA StreamInductive ==
    ASSUME StreamInv, [Next]_vars
    PROVE  StreamInv'
<1>0. /\ db \in States /\ published \in Nat /\ buffered \in BOOLEAN
      /\ pending \in [Writers -> Seq(Facts)] /\ ring \in Seq(Facts) /\ pipe \in Seq(Facts)
      /\ conn \in Connections /\ (conn.row = "finished" => db.status = "finished")
      /\ fetch \in [at : {"none", "asked", "read", "failed"}, state : Past]
      /\ page \in Pages /\ page.steps <= db.steps /\ (page.status = "finished" => db.status = "finished")
  BY DEF StreamInv, ShownIsCommitted
<1>1. /\ db' \in States /\ db.steps <= db'.steps
      /\ db.status = "finished" => db'.status = "finished" /\ db'.ended = db.ended
      /\ db'.status = "finished" => db'.ended <= db'.steps
  BY <1>0, RowGrows DEF StreamInv
<1>2. CASE UNCHANGED <<db, pending, bus, conn, pipe, page, fetch>>
  BY <1>0, <1>2, QuietFacts DEF bus
<1>3. ASSUME NEW w \in Writers, pending' = [pending EXCEPT ![w] = <<>>], UNCHANGED <<db, bus, conn, pipe, page, fetch>>
      PROVE  StreamInv'
  BY <1>0, <1>3, QuietFacts DEF bus
<1>4. CASE UpdateStep
  <2>0. "runner" \in Writers
    BY DEF Writers
  <2> DEFINE n == db.steps + 1
             events == <<StepEvent(n)>> \o (IF n = 1 /\ db.status = "active" THEN <<Event("status", "active")>> ELSE <<>>)
  <2>1. CASE db' = [db EXCEPT !.steps = n] /\ pending' = [pending EXCEPT !["runner"] = events]
             /\ UNCHANGED <<bus, conn, pipe, page, fetch>>
    <3>1. n = db'.steps
      BY <1>0, <2>1 DEF States
    <3>2. events \in Seq(Facts')
      BY <1>1, <3>1, StepIsFact
    <3> HIDE DEF events
    <3> QED
      BY <1>1, <2>0, <2>1, <3>2, CommitFacts
  <2> QED
    BY <1>3, <1>4, <2>0, <2>1 DEF UpdateStep, Transact, OnCommit
<1>5. CASE Ends
  <2>p. PICK w \in Writers, k \in {0, 1} : \E events \in Endings(k) :
            /\ db.status = "active" /\ db.steps + k \in 0 .. MaxSteps
            /\ Transact(w, Ended(db.steps + k), events)
    BY <1>0, <1>5, EndsTransact
  <2>1. PICK events \in Endings(k) :
            /\ db.status = "active" /\ db.steps + k \in 0 .. MaxSteps
            /\ Transact(w, Ended(db.steps + k), events)
    BY <2>p
  <2>e. events \in {EndEvents, <<>>, <<StepEvent(db.steps + k)>> \o EndEvents}
    BY <2>1 DEF Endings
<2>2. CASE db' = Ended(db.steps + k) /\ pending' = [pending EXCEPT ![w] = events]
             /\ UNCHANGED <<bus, conn, pipe, page, fetch>>
    <3>1. db'.status = "finished" /\ db.steps + k = db'.steps
      BY <2>2 DEF Ended
    <3>2. EndEvents \in Seq(Facts')
      <4>0. MaxSteps \in Nat /\ 0 \in 0..MaxSteps
        BY StreamAssumption
      <4>1. Event("closed", "finished") \in Facts'
        BY <3>1, <4>0 DEF Event, Facts, Messages, Kinds, Unknown
      <4>2. Event("status", "finished") \in Facts'
        BY <3>1, <4>0 DEF Event, Facts, Messages, Kinds, Unknown
      <4> QED
        BY <4>1, <4>2 DEF EndEvents
    <3>3. <<StepEvent(db.steps + k)>> \in Seq(Facts')
      <4>1. StepEvent(db.steps + k) \in Facts'
        BY <1>1, <3>1, StepIsFact
      <4> QED
        BY <4>1
    <3>4. <<StepEvent(db.steps + k)>> \o EndEvents \in Seq(Facts')
      BY <3>2, <3>3, ConcatProperties
    <3>5. events \in Seq(Facts')
      <4>1. <<>> \in Seq(Facts')
        OBVIOUS
      <4> QED
        BY <2>e, <3>2, <3>4, <4>1
    <3> QED
      BY <1>1, <2>2, <3>5, CommitFacts
  <2> QED
    BY <1>3, <2>1, <2>2 DEF Transact, OnCommit
<1>8. ASSUME NEW w \in Writers, Emit(w) PROVE StreamInv'
  <2>0. pending[w] \in Seq(Facts) /\ pending[w] # <<>> /\ UNCHANGED <<db, buffered, pipe, page, fetch>>
    BY <1>0, <1>8 DEF Emit
  <2> DEFINE e == [Head(pending[w]) EXCEPT !.id = published + 1]
  <2>1. e \in Facts
    <3>1. Head(pending[w]) \in Facts
      BY <2>0, HeadTailProperties
    <3>2. Head(pending[w]) \in Messages /\ published + 1 \in Nat
      BY <1>0, <3>1 DEF Facts
    <3>3. /\ e \in Messages /\ e.kind = Head(pending[w]).kind /\ e.status = Head(pending[w]).status
          /\ e.steps = Head(pending[w]).steps
      BY <3>2 DEF Messages
    <3> HIDE DEF e
    <3> QED
      BY <3>1, <3>3 DEF Facts
  <2>2. /\ published' = published + 1
        /\ ring' = IF buffered THEN Remember(e) ELSE ring
        /\ conn' = IF Subscribed THEN [conn EXCEPT !.queue = Append(@, e)] ELSE conn
        /\ pending' = [pending EXCEPT ![w] = Tail(@)]
    BY <1>8 DEF Emit
  <2> HIDE DEF e
  <2>3. ring' \in Seq(Facts)
    <3>1. Append(ring, e) \in Seq(Facts) /\ Append(ring, e) # <<>>
      BY <1>0, <2>1, AppendProperties
    <3>2. Tail(Append(ring, e)) \in Seq(Facts)
      BY <3>1, HeadTailProperties
    <3> QED
      BY <1>0, <2>2, <3>1, <3>2 DEF Remember
  <2>4. conn' \in Connections /\ conn'.row = conn.row
    <3>1. Append(conn.queue, e) \in Seq(Facts)
      BY <1>0, <2>1 DEF Connections
    <3> QED
      BY <1>0, <2>2, <3>1 DEF Connections
  <2>5. pending' \in [Writers -> Seq(Facts)]
    <3>1. Tail(pending[w]) \in Seq(Facts)
      BY <2>0, HeadTailProperties
    <3> QED
      BY <1>0, <2>2, <3>1
  <2> QED
    BY <1>0, <2>0, <2>2, <2>3, <2>4, <2>5, QuietFacts
<1>9. ASSUME NEW events \in Seq(Facts), Sent(events), UNCHANGED <<db, pending, bus, page, fetch>>
      PROVE  StreamInv'
  BY <1>0, <1>9, SentFacts, QuietFacts DEF bus
<1>10. CASE View
  <2>1. CASE SendTerminal \/ Reconcile
    <3>1. db.status = "finished" /\ Sent(EndEvents) /\ UNCHANGED <<db, pending, bus, page, fetch>>
      BY <1>0, <2>1 DEF SendTerminal, Reconcile
    <3> QED
      BY <1>9, <3>1, EndIsFact
  <2>2. CASE Subscribe
    <3>1. conn' = [conn EXCEPT !.at = "subscribed"] /\ buffered' = TRUE
          /\ UNCHANGED <<db, pending, published, ring, pipe, page, fetch>>
      BY <2>2 DEF Subscribe
    <3>2. conn' \in Connections /\ conn'.row = conn.row
      BY <1>0, <3>1 DEF Connections
    <3> QED
      BY <1>0, <3>1, <3>2, QuietFacts
  <2>3. CASE Replay
    <3>1. BufferedAfter(conn.last) \in Seq(Facts)
      <4>1. CASE BufferedAfter(conn.last) = <<>>
        BY <4>1
      <4>2. ASSUME NEW i \in 1..Len(ring), BufferedAfter(conn.last) = SubSeq(ring, i + 1, Len(ring))
            PROVE  BufferedAfter(conn.last) \in Seq(Facts)
        <5>1. i + 1 \in Int /\ Len(ring) \in Int /\ \A j \in (i + 1)..Len(ring) : ring[j] \in Facts
          BY <1>0, ElementOfSeq
        <5> QED
          BY <4>2, <5>1, SubSeqProperties
      <4> QED
        BY <1>0, <4>1, <4>2, ReplayPosition
    <3> QED
      BY <1>9, <2>3, <3>1 DEF Replay
  <2>4. CASE Forward
    <3>1. conn.queue \in Seq(Facts) /\ conn.queue # <<>>
      BY <1>0, <2>4 DEF Forward, Connections
    <3>2. Head(conn.queue) \in Facts
      BY <3>1, HeadTailProperties
    <3>3. <<Head(conn.queue)>> \in Seq(Facts)
      BY <3>2
    <3> QED
      BY <1>9, <2>4, <3>3 DEF Forward
  <2> QED
    BY <1>10, <2>1, <2>2, <2>3, <2>4 DEF View
<1>11. NoConnection \in Connections /\ NoConnection.row = "active" /\ <<>> \in Seq(Facts)
  BY DEF NoConnection, Connections, Unknown
<1>12. CASE Connect
  <2>1. conn' = [NoConnection EXCEPT !.at = "read", !.row = db.status, !.last = page.seen]
        /\ UNCHANGED <<db, pending, bus, pipe, page, fetch>>
    BY <1>12 DEF Connect
  <2>2. db.status \in {"active", "finished"} /\ page.seen \in Nat
    BY <1>0 DEF States, Pages
  <2>3. conn' \in Connections /\ conn'.row = db.status
    BY <1>11, <2>1, <2>2 DEF Connections
  <2> QED
    BY <1>0, <2>1, <2>3, QuietFacts DEF bus
<1>13. CASE Receive
  <2>1. pipe # <<>> /\ page' = Apply(Head(pipe)) /\ UNCHANGED <<db, pending, bus>>
    BY <1>13 DEF Receive
  <2>2. Head(pipe) \in Facts /\ Tail(pipe) \in Seq(Facts)
    BY <1>0, <2>1, HeadTailProperties
  <2>3. PICK e : e = Head(pipe)
    OBVIOUS
  <2>4. /\ e \in Messages /\ e.id \in Nat /\ e.kind \in Kinds /\ e.status \in {"active", "finished"}
        /\ e.steps \in 0..MaxSteps
        /\ e.kind = "step" => e.steps <= db.steps
        /\ e.kind # "step" /\ e.status = "finished" => db.status = "finished"
    BY <2>2, <2>3 DEF Facts, Messages
  <2>5. page' \in Pages /\ page'.steps <= db.steps /\ (page'.status = "finished" => db.status = "finished")
    <3>1. CASE e.kind = "step"
      <4>1. page' = [page EXCEPT !.steps = e.steps, !.seen = e.id]
        BY <2>1, <2>3, <3>1 DEF Apply
      <4>2. page' \in Pages /\ page'.steps = e.steps /\ page'.status = page.status
        BY <1>0, <2>4, <4>1 DEF Pages
      <4> QED
        BY <1>0, <2>4, <3>1, <4>2
    <3>2. CASE e.kind = "status"
      <4>1. page' = [page EXCEPT !.status = e.status, !.seen = e.id]
        BY <2>1, <2>3, <3>2 DEF Apply
      <4>2. page' \in Pages /\ page'.steps = page.steps /\ page'.status = e.status
        BY <1>0, <2>4, <4>1 DEF Pages
      <4> QED
        BY <1>0, <2>4, <3>2, <4>2
    <3>3. CASE e.kind = "closed"
      <4>1. page' = [page EXCEPT !.status = e.status, !.seen = Unknown, !.closed = TRUE]
        BY <2>1, <2>3, <3>3 DEF Apply
      <4>2. page' \in Pages /\ page'.steps = page.steps /\ page'.status = e.status
        BY <1>0, <2>4, <4>1 DEF Pages, Unknown
      <4> QED
        BY <1>0, <2>4, <3>3, <4>2
    <3> QED
      BY <2>4, <3>1, <3>2, <3>3 DEF Kinds
  <2>6. /\ pipe' \in Seq(Facts) /\ conn' \in Connections /\ (conn'.row = "finished" => db.status = "finished")
        /\ fetch' \in [at : {"none", "asked", "read", "failed"}, state : Past]
    <3>1. CASE OnClosed
      BY <1>0, <1>11, <3>1 DEF OnClosed, Disconnected
    <3>2. CASE pipe' = Tail(pipe) /\ UNCHANGED <<conn, fetch>>
      BY <1>0, <2>2, <3>2
    <3> QED
      BY <1>13, <3>1, <3>2 DEF Receive
  <2> QED
    BY <1>0, <2>1, <2>5, <2>6, QuietFacts DEF bus
<1>14. CASE HangUp
  <2>1. page' = [page EXCEPT !.seen = Unknown] /\ Disconnected /\ UNCHANGED <<db, pending, bus, fetch>>
    BY <1>14 DEF HangUp
  <2>2. page' \in Pages /\ page'.steps = page.steps /\ page'.status = page.status
    BY <1>0, <2>1 DEF Pages, Unknown
  <2> QED
    BY <1>0, <1>11, <2>1, <2>2, QuietFacts DEF bus, Disconnected
<1>15. StreamFailed => page' \in Pages /\ page'.steps = page.steps /\ page'.status = page.status
  <2>1. page.failures \in Nat /\ page.failures + 1 \in Nat /\ MaxFailures \in Nat
    BY <1>0, StreamAssumption DEF Pages
  <2>2. (page.failures + 1 >= MaxFailures) \in BOOLEAN
    BY <2>1
  <2> DEFINE b == page.failures + 1 >= MaxFailures
  <2>3. b \in BOOLEAN /\ (StreamFailed => page' = [page EXCEPT !.failures = @ + 1, !.polling = b])
    BY <2>2 DEF StreamFailed
  <2> HIDE DEF b
  <2> QED
    BY <1>0, <2>1, <2>3 DEF Pages
<1>16. CASE ConnectionLost
  <2>1. Disconnected /\ StreamFailed /\ UNCHANGED <<db, pending, bus, fetch>>
    BY <1>16 DEF ConnectionLost
  <2> QED
    BY <1>0, <1>11, <1>15, <2>1, QuietFacts DEF bus, Disconnected
<1>17. CASE Restart
  <2>1. /\ pending' = [w \in Writers |-> <<>>] /\ buffered' = FALSE /\ ring' = <<>> /\ Disconnected
        /\ StreamFailed \/ UNCHANGED page
        /\ fetch' = [fetch EXCEPT !.at = "failed"] \/ fetch' = fetch
        /\ UNCHANGED <<db, published>>
    BY <1>17 DEF Restart
  <2>2. page' \in Pages /\ page'.steps = page.steps /\ page'.status = page.status
    BY <1>0, <1>15, <2>1
  <2>3. fetch' \in [at : {"none", "asked", "read", "failed"}, state : Past]
    BY <1>0, <2>1
  <2>4. pending' \in [Writers -> Seq(Facts)]
    BY <1>11, <2>1
  <2> QED
    BY <1>0, <1>11, <2>1, <2>2, <2>3, <2>4, QuietFacts DEF Disconnected
<1>18. CASE Poll \/ FetchRead \/ FetchFails
  <2>1. /\ fetch' = [fetch EXCEPT !.at = "asked"] \/ fetch' = Fetch("read", db) \/ fetch' = [fetch EXCEPT !.at = "failed"]
        /\ UNCHANGED <<db, pending, bus, conn, pipe, page>>
    BY <1>18 DEF Poll, FetchRead, FetchFails
  <2>2. db \in Past
    <3>1. db.steps \in Nat /\ (db.status = "finished" => db.ended <= db.steps)
      BY <1>0, StreamAssumption DEF StreamInv, States
    <3> QED
      BY <1>0, <3>1 DEF Past
  <2>3. fetch' \in [at : {"none", "asked", "read", "failed"}, state : Past]
    BY <1>0, <2>1, <2>2 DEF Fetch
  <2> QED
    BY <1>0, <2>1, <2>3, QuietFacts DEF bus
<1>19. CASE FetchReply
  <2>1. /\ page' = [page EXCEPT !.status = fetch.state.status, !.steps = fetch.state.steps]
        /\ fetch' = [fetch EXCEPT !.at = "none"]
        /\ UNCHANGED <<db, pending, bus, conn, pipe>>
    BY <1>19 DEF FetchReply
  <2>2. PICK s : s = fetch.state
    OBVIOUS
  <2>3. s \in States /\ s.steps <= db.steps /\ (s.status = "finished" => db.status = "finished")
    BY <1>0, <2>2 DEF Past
  <2>4. page' \in Pages /\ page'.steps = s.steps /\ page'.status = s.status
    BY <1>0, <2>1, <2>2, <2>3 DEF Pages, States
  <2>5. fetch' \in [at : {"none", "asked", "read", "failed"}, state : Past]
    BY <1>0, <2>1
  <2> QED
    BY <1>0, <2>1, <2>3, <2>4, <2>5, QuietFacts DEF bus
<1>20. UNCHANGED vars => UNCHANGED <<db, pending, bus, conn, pipe, page, fetch>>
  BY DEF vars, bus
<1> QED
  BY <1>20, <1>2, <1>4, <1>5, <1>8, <1>10, <1>12, <1>13, <1>14, <1>16, <1>17, <1>18, <1>19 DEF Next, Ends, Browser

LEMMA StreamInitial == Init => StreamInv
<1> SUFFICES ASSUME Init PROVE StreamInv
  OBVIOUS
<1>0. MaxSteps \in Nat /\ 0 \in 0..MaxSteps /\ <<>> \in Seq(Facts)
  BY StreamAssumption
<1>1. db \in States /\ db.steps = 0 /\ db.status = "active"
  BY <1>0 DEF Init, States
<1>2. db \in Past
  BY <1>1 DEF Past
<1>3. fetch \in [at : {"none", "asked", "read", "failed"}, state : Past]
  BY <1>2 DEF Init, Fetch
<1>4. conn \in Connections /\ conn.row = "active"
  BY <1>0 DEF Init, NoConnection, Connections, Unknown
<1>5. page \in Pages /\ page.steps = 0 /\ page.status = "active"
  BY <1>0 DEF Init, Pages, Unknown
<1>6. pending \in [Writers -> Seq(Facts)] /\ ring \in Seq(Facts) /\ pipe \in Seq(Facts)
  BY <1>0 DEF Init
<1>7. published \in Nat /\ buffered \in BOOLEAN
  BY DEF Init
<1> QED
  BY <1>1, <1>3, <1>4, <1>5, <1>6, <1>7 DEF StreamInv, ShownIsCommitted

LEMMA StreamInvariant == Spec => []StreamInv
BY StreamInitial, StreamInductive, PTL DEF Spec

(* The page never shows a step or a final status that was not committed,   *)
(* for any number of rollbacks, restarts, lost connections and late reads. *)
THEOREM ShownIsCommittedHolds == Spec => []ShownIsCommitted
<1>1. StreamInv => ShownIsCommitted
  BY DEF StreamInv
<1> QED
  BY <1>1, StreamInvariant, PTL

-----------------------------------------------------------------------------
(* The end of the stream.  Once the page was told that the stream is       *)
(* closed, nothing but its own last read can change what it shows: it is   *)
(* disconnected for good, and that read finds the row as it ended or, if   *)
(* a runner still reported a step, later.                                  *)

SettledInv ==
    page.closed =>
        /\ db.status = "finished" /\ page.status = "finished"
        /\ conn.at = "none" /\ pipe = <<>>
        /\ fetch.at = "read" => fetch.state.status = "finished"
        /\ fetch.at = "none" => db.ended <= page.steps

LEMMA SettledStays ==
    ASSUME StreamInv, SettledInv, [Next]_vars, page.closed
    PROVE  SettledInv'
<1>0. /\ db.status = "finished" /\ page.status = "finished" /\ conn.at = "none" /\ pipe = <<>>
      /\ fetch.at = "read" => fetch.state.status = "finished"
      /\ fetch.at = "none" => db.ended <= page.steps
      /\ page \in Pages /\ fetch \in [at : {"none", "asked", "read", "failed"}, state : Past]
  BY DEF SettledInv, StreamInv
<1>1. db'.status = "finished" /\ db'.ended = db.ended
  BY RowGrows, <1>0 DEF StreamInv
<1>2. NoConnection.at = "none"
  BY DEF NoConnection
<1>3. CASE UNCHANGED <<conn, pipe, page, fetch>>
  BY <1>0, <1>1, <1>3 DEF SettledInv
<1>4. CASE Restart
  BY <1>0, <1>1, <1>2, <1>4 DEF Restart, Disconnected, SettledInv
<1>5. CASE FetchRead
  BY <1>0, <1>1, <1>5 DEF FetchRead, Fetch, SettledInv
<1>6. CASE FetchFails
  BY <1>0, <1>1, <1>6 DEF FetchFails, SettledInv
<1>7. CASE FetchReply
  <2>1. /\ page' = [page EXCEPT !.status = fetch.state.status, !.steps = fetch.state.steps]
        /\ fetch' = [fetch EXCEPT !.at = "none"] /\ UNCHANGED <<conn, pipe>>
    BY <1>0, <1>7 DEF FetchReply
  <2>2. fetch.state \in Past /\ fetch.state.status = "finished"
    BY <1>0, <1>7 DEF FetchReply
  <2>3. db.ended <= fetch.state.steps
    BY <2>2 DEF Past
  <2>4. /\ page'.status = "finished" /\ page'.steps = fetch.state.steps /\ page'.closed
        /\ fetch'.at = "none"
    BY <1>0, <2>1, <2>2 DEF Pages
  <2> QED
    BY <1>0, <1>1, <2>1, <2>3, <2>4 DEF SettledInv
<1>8. ASSUME NEW w \in Writers, Emit(w) PROVE UNCHANGED <<conn, pipe, page, fetch>>
  BY <1>0, <1>8 DEF Emit, Subscribed
<1>9. ~Ends /\ (UpdateStep => UNCHANGED <<conn, pipe, page, fetch>>)
  BY <1>0 DEF Ends, Complete, FailForApprovalTimeout, RecoverStuck, UpdateStep, Transact
<1>10. ~(View \/ Connect \/ Receive \/ HangUp \/ Poll \/ ConnectionLost)
  BY <1>0 DEF View, SendTerminal, Subscribe, Replay, Forward, Reconcile, Connect, Streams, Receive, HangUp, Poll,
     ConnectionLost
<1> QED
  BY <1>3, <1>4, <1>5, <1>6, <1>7, <1>8, <1>9, <1>10 DEF Next, Ends, Browser, vars

LEMMA SettledBegins ==
    ASSUME StreamInv, [Next]_vars, ~page.closed
    PROVE  SettledInv'
<1>0. page \in Pages /\ pipe \in Seq(Facts) /\ fetch \in [at : {"none", "asked", "read", "failed"}, state : Past]
  BY DEF StreamInv
<1>1. CASE Receive /\ ClosesStream(Head(pipe))
  <2>1. Head(pipe) \in Facts
    BY <1>0, <1>1, HeadTailProperties DEF Receive
  <2>2. Head(pipe).kind = "closed" /\ Head(pipe).status = "finished" /\ db.status = "finished"
    BY <1>1, <2>1 DEF ClosesStream, Facts
  <2>3. /\ page' = [page EXCEPT !.status = "finished", !.seen = Unknown, !.closed = TRUE]
        /\ Disconnected /\ fetch' = [fetch EXCEPT !.at = "asked"] /\ UNCHANGED db
    BY <1>1, <2>2 DEF Receive, Apply, OnClosed
  <2>4. page'.status = "finished" /\ conn'.at = "none" /\ pipe' = <<>> /\ fetch'.at = "asked"
    BY <1>0, <2>3 DEF Pages, Disconnected, NoConnection
  <2> QED
    BY <2>2, <2>3, <2>4 DEF SettledInv
<1>2. CASE Receive /\ ~ClosesStream(Head(pipe))
  <2>1. Head(pipe) \in Facts
    BY <1>0, <1>2, HeadTailProperties DEF Receive
  <2>2. PICK e : e = Head(pipe)
    OBVIOUS
  <2>3. e.kind \in {"step", "status"}
    BY <1>2, <2>1, <2>2 DEF ClosesStream, Facts, Messages, Kinds
  <2>4. \/ page' = [page EXCEPT !.steps = e.steps, !.seen = e.id]
        \/ page' = [page EXCEPT !.status = e.status, !.seen = e.id]
    BY <1>2, <2>2, <2>3 DEF Receive, Apply
  <2>5. ~page'.closed
    BY <1>0, <2>4 DEF Pages
  <2> QED
    BY <2>5 DEF SettledInv
<1>3. CASE ~Receive
  <2>1. page'.closed = page.closed
    <3>1. CASE UNCHANGED page
      BY <3>1
    <3>2. CASE StreamFailed
      BY <1>0, <3>2 DEF StreamFailed, Pages
    <3>3. CASE HangUp \/ FetchReply
      BY <1>0, <3>3 DEF HangUp, FetchReply, Pages
    <3> QED
      BY <1>3, <3>1, <3>2, <3>3 DEF Next, vars, UpdateStep, Complete, FailForApprovalTimeout,
         RecoverStuck, Transact, Emit, View, SendTerminal,
         Subscribe, Replay, Forward, Reconcile, Browser, Connect, Poll, FetchRead, ConnectionLost, Restart, FetchFails
  <2> QED
    BY <2>1 DEF SettledInv
<1> QED
  BY <1>1, <1>2, <1>3

(* A page that was told the stream is closed, and whose last read has come *)
(* back, shows the final status and the steps as of the end or later:      *)
(* events that were missed or repeated, and reads that were under way      *)
(* before, leave no trace.                                                 *)
THEOREM SettledIsFinalHolds == Spec => []SettledIsFinal
<1>1. Init => SettledInv
  BY DEF Init, SettledInv
<1>2. StreamInv /\ SettledInv /\ [Next]_vars => SettledInv'
  BY SettledStays, SettledBegins
<1>3. StreamInv /\ SettledInv => SettledIsFinal
  <2> SUFFICES ASSUME StreamInv, SettledInv, page.closed, fetch.at = "none"
               PROVE  page.status = "finished" /\ db.status = "finished" /\ page.steps \in db.ended .. db.steps
    BY DEF SettledIsFinal
  <2>1. /\ page.status = "finished" /\ db.status = "finished" /\ db.ended <= page.steps
        /\ page.steps <= db.steps
    BY DEF SettledInv, StreamInv, ShownIsCommitted
  <2>2. MaxSteps \in Nat /\ page.steps \in 0..MaxSteps /\ db.steps \in 0..MaxSteps /\ db.ended \in 0..MaxSteps
    BY StreamAssumption DEF StreamInv, Pages, States
  <2> QED
    BY <2>1, <2>2
<1> QED
  BY <1>1, <1>2, <1>3, StreamInvariant, PTL DEF Spec

-----------------------------------------------------------------------------
(* The replay.  The buffer, and the queue of a subscriber, hold the most   *)
(* recent events without a gap: both are fed under the lock of the bus.    *)

(* s ends with the event published last and leaves none out.               *)
Recent(s, last) == Len(s) <= last /\ \A i \in 1..Len(s) : s[i].id = last - Len(s) + i

GapInv ==
    /\ Recent(ring, published) /\ (~buffered => ring = <<>>)
    /\ Subscribed => buffered /\ Recent(conn.queue, published)
    /\ conn.at \in {"none", "read"} => conn.queue = <<>>
    /\ conn.at = "open" /\ conn.hit => (conn.last + 1) .. (published - Len(conn.queue)) \subseteq conn.sent

LEMMA RecentAppend ==
    ASSUME NEW S, NEW s \in Seq(S), NEW last \in Nat, Recent(s, last), NEW e \in S, e.id = last + 1
    PROVE  Recent(Append(s, e), last + 1)
<1>0. Len(s) \in Nat
  OBVIOUS
<1>1. /\ Len(Append(s, e)) = Len(s) + 1
      /\ \A i \in 1..Len(s) : Append(s, e)[i] = s[i]
      /\ Append(s, e)[Len(s) + 1] = e
  BY AppendProperties
<1>2. Len(s) + 1 <= last + 1
  BY <1>0 DEF Recent
<1>3. ASSUME NEW i \in 1..(Len(s) + 1) PROVE Append(s, e)[i].id = (last + 1) - (Len(s) + 1) + i
  <2>1. CASE i \in 1..Len(s)
    BY <1>0, <1>1, <2>1 DEF Recent
  <2>2. CASE i = Len(s) + 1
    BY <1>0, <1>1, <2>2
  <2> QED
    BY <1>0, <1>3, <2>1, <2>2
<1> QED
  BY <1>1, <1>2, <1>3 DEF Recent

LEMMA RecentTail ==
    ASSUME NEW S, NEW s \in Seq(S), NEW last \in Nat, Recent(s, last), s # <<>>
    PROVE  Recent(Tail(s), last) /\ Head(s).id = last - Len(s) + 1
<1>0. Len(s) \in Nat /\ Len(s) # 0
  BY EmptySeq
<1>1. Len(Tail(s)) = Len(s) - 1 /\ \A i \in 1..Len(Tail(s)) : Tail(s)[i] = s[i + 1]
  BY HeadTailProperties
<1>2. ASSUME NEW i \in 1..Len(Tail(s)) PROVE Tail(s)[i].id = last - Len(Tail(s)) + i
  <2>1. i + 1 \in 1..Len(s)
    BY <1>0, <1>1, <1>2
  <2>2. s[i + 1].id = last - Len(s) + (i + 1)
    BY <2>1 DEF Recent
  <2> QED
    BY <1>0, <1>1, <1>2, <2>2
<1>3. Len(Tail(s)) <= last
  BY <1>0, <1>1 DEF Recent
<1>4. Head(s) = s[1] /\ 1 \in 1..Len(s)
  BY <1>0
<1> QED
  BY <1>2, <1>3, <1>4 DEF Recent

LEMMA RecentEmpty == \A last \in Nat : Recent(<<>>, last)
BY DEF Recent

(* Whatever follows the last id the page has seen is sent again.           *)
LEMMA ReplayComplete ==
    ASSUME NEW S, ring \in Seq(S), published \in Nat, Recent(ring, published), NEW id \in Nat, id \in Ids(ring)
    PROVE  (id + 1) .. published \subseteq Ids(BufferedAfter(id))
<1>0. Len(ring) \in Nat /\ DOMAIN ring = 1..Len(ring)
  BY LenProperties
<1>1. PICK j \in 1..Len(ring) : ring[j].id = id
  BY <1>0 DEF Ids
<1>2. PICK i \in 1..Len(ring) : ring[i].id = id /\ BufferedAfter(id) = SubSeq(ring, i + 1, Len(ring))
  BY <1>1, ReplayPosition
<1>3. id = published - Len(ring) + i
  BY <1>2 DEF Recent
<1>4. /\ SubSeq(ring, i + 1, Len(ring)) \in Seq(S)
      /\ Len(SubSeq(ring, i + 1, Len(ring))) = IF i + 1 <= Len(ring) THEN Len(ring) - i ELSE 0
      /\ \A k \in 1..(Len(ring) - i) : SubSeq(ring, i + 1, Len(ring))[k] = ring[i + k]
  <2>1. i + 1 \in Int /\ Len(ring) \in Int /\ \A k \in (i + 1)..Len(ring) : ring[k] \in S
    BY <1>0, ElementOfSeq
  <2>2. /\ SubSeq(ring, i + 1, Len(ring)) \in Seq(S)
        /\ Len(SubSeq(ring, i + 1, Len(ring))) = IF i + 1 <= Len(ring) THEN Len(ring) - (i + 1) + 1 ELSE 0
        /\ \A k \in 1..(Len(ring) - (i + 1) + 1) : SubSeq(ring, i + 1, Len(ring))[k] = ring[(i + 1) + k - 1]
    BY <2>1, SubSeqProperties
  <2>3. Len(ring) - (i + 1) + 1 = Len(ring) - i /\ \A k \in Int : (i + 1) + k - 1 = i + k
    BY <1>0
  <2> QED
    BY <2>2, <2>3
<1>5. PICK t : t = BufferedAfter(id)
  OBVIOUS
<1>6. ASSUME NEW n \in (id + 1) .. published PROVE n \in Ids(t)
  <2>1. PICK k \in Int : k = n - id
    OBVIOUS
  <2>2. k \in 1..(Len(ring) - i) /\ i + k \in 1..Len(ring) /\ i + 1 <= Len(ring)
    BY <1>0, <1>3, <1>6, <2>1
  <2>3. ring[i + k].id = n
    <3>1. ring[i + k].id = published - Len(ring) + (i + k)
      BY <2>2 DEF Recent
    <3> QED
      BY <1>0, <1>3, <2>1, <3>1
  <2>4. Len(t) = Len(ring) - i /\ t[k] = ring[i + k] /\ t \in Seq(S)
    BY <1>2, <1>4, <1>5, <2>2
  <2>5. k \in DOMAIN t
    BY <2>2, <2>4, LenProperties
  <2> QED
    BY <2>3, <2>4, <2>5 DEF Ids
<1> QED
  BY <1>5, <1>6

LEMMA EndEventsEnd == EndOf(EndEvents) # 0
<1>1. EndEvents \in Seq({Event("status", "finished"), Event("closed", "finished")}) /\ Len(EndEvents) = 2
  BY DEF EndEvents
<1>2. EndsStream(EndEvents[1])
  BY DEF EndEvents, EndsStream, Event
<1> QED
  BY <1>1, <1>2, EndPosition

(* What sending does to the connection.                                    *)
LEMMA SentConnection ==
    ASSUME conn \in Connections, NEW events, Sent(events)
    PROVE  /\ conn'.at = IF EndOf(events) = 0 THEN "open" ELSE "ended"
           /\ conn'.last = conn.last
           /\ conn.at = "subscribed" => (conn'.hit <=> conn.last \in Ids(ring))
           /\ conn.at # "subscribed" => conn'.hit = conn.hit
           /\ conn'.queue = IF conn.at = "open" /\ conn.queue # <<>> THEN Tail(conn.queue) ELSE conn.queue
           /\ conn'.sent = conn.sent \cup Ids(events)
<1> DEFINE at == IF EndOf(events) = 0 THEN "open" ELSE "ended"
           hit == IF conn.at = "subscribed" THEN conn.last \in Ids(ring) ELSE conn.hit
           queue == IF conn.at = "open" /\ conn.queue # <<>> THEN Tail(conn.queue) ELSE conn.queue
           sent == conn.sent \cup Ids(events)
<1>1. conn' = [conn EXCEPT !.at = at, !.hit = hit, !.queue = queue, !.sent = sent]
  BY DEF Sent, Connections
<1>2. conn.at = "subscribed" => (hit <=> conn.last \in Ids(ring))
  OBVIOUS
<1>3. conn.at # "subscribed" => hit = conn.hit
  OBVIOUS
<1>4. at = (IF EndOf(events) = 0 THEN "open" ELSE "ended") /\ sent = conn.sent \cup Ids(events)
      /\ queue = IF conn.at = "open" /\ conn.queue # <<>> THEN Tail(conn.queue) ELSE conn.queue
  OBVIOUS
<1> HIDE DEF at, hit, queue, sent
<1>5. conn'.at = at /\ conn'.last = conn.last /\ conn'.hit = hit /\ conn'.queue = queue /\ conn'.sent = sent
  BY <1>1 DEF Connections
<1> QED
  BY <1>2, <1>3, <1>4, <1>5

LEMMA GapInductive ==
    ASSUME StreamInv, GapInv, [Next]_vars
    PROVE  GapInv'
<1>0. /\ published \in Nat /\ buffered \in BOOLEAN /\ ring \in Seq(Facts) /\ conn \in Connections
      /\ conn.queue \in Seq(Facts) /\ conn.last \in Nat /\ Len(conn.queue) \in Nat
      /\ Recent(ring, published) /\ (~buffered => ring = <<>>)
      /\ Subscribed => buffered /\ Recent(conn.queue, published)
      /\ conn.at \in {"none", "read"} => conn.queue = <<>>
      /\ conn.at = "open" /\ conn.hit => (conn.last + 1) .. (published - Len(conn.queue)) \subseteq conn.sent
  BY DEF StreamInv, GapInv, Connections
<1>1. CASE UNCHANGED <<bus, conn>>
  BY <1>0, <1>1 DEF GapInv, bus, Subscribed
<1>2. NoConnection.at = "none" /\ NoConnection.queue = <<>>
  BY DEF NoConnection
<1>3. CASE Disconnected /\ UNCHANGED bus
  BY <1>0, <1>2, <1>3 DEF GapInv, bus, Subscribed, Disconnected
<1>4. CASE Restart
  BY <1>0, <1>2, <1>4, RecentEmpty DEF GapInv, Subscribed, Disconnected, Restart
<1>5. CASE Connect
  <2>1. conn' = [NoConnection EXCEPT !.at = "read", !.row = db.status, !.last = page.seen] /\ UNCHANGED bus
    BY <1>5 DEF Connect
  <2>2. conn'.at = "read" /\ conn'.queue = <<>>
    BY <2>1 DEF NoConnection
  <2> QED
    BY <1>0, <2>1, <2>2 DEF GapInv, bus, Subscribed
<1>6. CASE SendTerminal \/ Reconcile
  <2>1. conn'.at = "ended" /\ UNCHANGED bus
    BY <1>0, <1>6, EndEventsEnd, SentConnection DEF SendTerminal, Reconcile
  <2> QED
    BY <1>0, <2>1 DEF GapInv, bus, Subscribed
<1>7. CASE Subscribe
  <2>1. conn.at = "read" /\ conn' = [conn EXCEPT !.at = "subscribed"] /\ buffered' = TRUE /\ UNCHANGED <<published, ring>>
    BY <1>7 DEF Subscribe
  <2>2. conn'.at = "subscribed" /\ conn'.queue = <<>>
    BY <1>0, <2>1 DEF Connections
  <2> QED
    BY <1>0, <2>1, <2>2, RecentEmpty DEF GapInv, Subscribed
<1>8. CASE Replay
  <2>1. conn.at = "subscribed" /\ Sent(BufferedAfter(conn.last)) /\ UNCHANGED bus
    BY <1>8 DEF Replay
  <2>2. /\ conn'.at \in {"open", "ended"} /\ conn'.last = conn.last /\ conn'.queue = conn.queue
        /\ conn'.hit <=> conn.last \in Ids(ring)
        /\ conn'.sent = conn.sent \cup Ids(BufferedAfter(conn.last))
    BY <1>0, <2>1, SentConnection
  <2>3. conn'.hit => (conn.last + 1) .. published \subseteq Ids(BufferedAfter(conn.last))
    BY <1>0, <2>2, ReplayComplete
  <2>4. (conn.last + 1) .. (published - Len(conn.queue)) \subseteq (conn.last + 1) .. published
    BY <1>0
  <2>5. conn'.hit => (conn'.last + 1) .. (published - Len(conn'.queue)) \subseteq conn'.sent
    BY <2>2, <2>3, <2>4
  <2> QED
    BY <1>0, <2>1, <2>2, <2>5 DEF GapInv, bus, Subscribed
<1>9. CASE Forward
  <2>1. conn.at = "open" /\ conn.queue # <<>> /\ Sent(<<Head(conn.queue)>>) /\ UNCHANGED bus
    BY <1>9 DEF Forward
  <2>2. /\ conn'.at \in {"open", "ended"} /\ conn'.last = conn.last /\ conn'.queue = Tail(conn.queue)
        /\ conn'.hit = conn.hit
        /\ conn'.sent = conn.sent \cup Ids(<<Head(conn.queue)>>)
    BY <1>0, <2>1, SentConnection
  <2>3. Recent(conn.queue, published)
    BY <1>0, <2>1 DEF Subscribed
  <2>4. /\ Recent(Tail(conn.queue), published) /\ Head(conn.queue).id = published - Len(conn.queue) + 1
        /\ Len(Tail(conn.queue)) = Len(conn.queue) - 1
    BY <1>0, <2>1, <2>3, RecentTail, HeadTailProperties
  <2>5. Head(conn.queue).id \in Ids(<<Head(conn.queue)>>)
    BY DEF Ids
  <2>6. ASSUME conn.hit, NEW n \in (conn.last + 1) .. (published - Len(Tail(conn.queue))) PROVE n \in conn'.sent
    <3>1. n \in (conn.last + 1) .. (published - Len(conn.queue)) \/ n = published - Len(conn.queue) + 1
      BY <1>0, <2>4, <2>6
    <3> QED
      BY <1>0, <2>1, <2>2, <2>4, <2>5, <2>6, <3>1
  <2>7. conn'.hit => (conn'.last + 1) .. (published - Len(conn'.queue)) \subseteq conn'.sent
    BY <2>2, <2>6
  <2> QED
    BY <1>0, <2>1, <2>2, <2>4, <2>7 DEF GapInv, bus, Subscribed
<1>10. ASSUME NEW w \in Writers, Emit(w) PROVE GapInv'
  <2>0. pending[w] \in Seq(Facts) /\ pending[w] # <<>>
    BY <1>10 DEF Emit, StreamInv
  <2> DEFINE e == [Head(pending[w]) EXCEPT !.id = published + 1]
  <2>1. e \in Messages /\ e.id = published + 1
    <3>1. Head(pending[w]) \in Messages
      BY <2>0, HeadTailProperties DEF Facts
    <3>2. published + 1 \in Nat
      BY <1>0
    <3> QED
      BY <3>1, <3>2 DEF Messages
  <2>2. /\ published' = published + 1 /\ UNCHANGED buffered
        /\ ring' = IF buffered THEN Remember(e) ELSE ring
        /\ conn' = IF Subscribed THEN [conn EXCEPT !.queue = Append(@, e)] ELSE conn
    BY <1>10 DEF Emit
  <2> HIDE DEF e
  <2>3. Facts \subseteq Messages
    BY DEF Facts
  <2>4. ring \in Seq(Messages) /\ conn.queue \in Seq(Messages)
    BY <1>0, <2>3, SeqMonotonic
  <2>5. published + 1 \in Nat /\ published' \in Nat
    BY <1>0, <2>2
  <2>6. Recent(Append(ring, e), published + 1)
    BY <1>0, <2>1, <2>4, RecentAppend
  <2>7. Append(ring, e) \in Seq(Messages) /\ Append(ring, e) # <<>>
    BY <2>1, <2>4, AppendProperties
  <2>8. Recent(Tail(Append(ring, e)), published + 1)
    BY <2>5, <2>6, <2>7, RecentTail
  <2>9. Recent(ring', published') /\ (~buffered' => ring' = <<>>)
    BY <1>0, <2>2, <2>5, <2>6, <2>8, RecentEmpty DEF Remember
  <2>10. CASE ~Subscribed
    BY <1>0, <2>2, <2>9, <2>10 DEF GapInv, Subscribed
  <2>11. CASE Subscribed
    <3>1. conn'.at = conn.at /\ conn'.queue = Append(conn.queue, e) /\ conn'.hit = conn.hit /\ conn'.last = conn.last
          /\ conn'.sent = conn.sent
      BY <1>0, <2>2, <2>11 DEF Connections
    <3>2. Recent(Append(conn.queue, e), published + 1) /\ Len(Append(conn.queue, e)) = Len(conn.queue) + 1
      BY <1>0, <2>1, <2>4, <2>11, RecentAppend, AppendProperties
    <3>3. published' - Len(conn'.queue) = published - Len(conn.queue)
      BY <1>0, <2>2, <3>1, <3>2
    <3> QED
      BY <1>0, <2>2, <2>9, <2>11, <3>1, <3>2, <3>3 DEF GapInv, Subscribed
  <2> QED
    BY <2>10, <2>11
<1>11. CASE Receive
  BY <1>1, <1>3, <1>11 DEF Receive, OnClosed
<1>12. CASE HangUp \/ ConnectionLost
  BY <1>3, <1>12 DEF HangUp, ConnectionLost
<1>13. CASE UpdateStep \/ Ends \/ Poll \/ FetchRead \/ FetchReply \/ FetchFails
  BY <1>1, <1>13 DEF UpdateStep, Ends, Complete, FailForApprovalTimeout, RecoverStuck, Transact, Poll, FetchRead, FetchReply, FetchFails
<1>14. UNCHANGED vars => UNCHANGED <<bus, conn>>
  BY DEF vars, bus
<1> QED
  BY <1>1, <1>4, <1>5, <1>6, <1>7, <1>8, <1>9, <1>10, <1>11, <1>12, <1>13, <1>14 DEF Next, Ends, View, Browser

LEMMA GapCovers == StreamInv /\ GapInv => ReplayLeavesNoGap
<1> SUFFICES ASSUME StreamInv, GapInv, conn.at = "open", conn.hit, NEW n \in (conn.last + 1) .. published
             PROVE  n \in conn.sent \cup Ids(conn.queue)
  BY DEF ReplayLeavesNoGap
<1>0. /\ published \in Nat /\ conn.last \in Nat /\ conn.queue \in Seq(Facts) /\ Len(conn.queue) \in Nat
      /\ DOMAIN conn.queue = 1..Len(conn.queue)
  BY LenProperties DEF StreamInv, Connections
<1>1. Recent(conn.queue, published) /\ (conn.last + 1) .. (published - Len(conn.queue)) \subseteq conn.sent
  BY DEF GapInv, Subscribed
<1>2. CASE n <= published - Len(conn.queue)
  BY <1>0, <1>1, <1>2
<1>3. CASE ~(n <= published - Len(conn.queue))
  <2>0. PICK l : l = Len(conn.queue)
    OBVIOUS
  <2>1. PICK i : i = n - (published - l)
    OBVIOUS
  <2>2. i \in 1..l /\ published - l + i = n
    <3>1. n \in Int /\ n <= published /\ l \in Nat /\ ~(n <= published - l)
      BY <1>0, <1>3, <2>0
    <3> QED
      BY <1>0, <2>1, <3>1
  <2>3. conn.queue[i].id = n
    BY <1>1, <2>0, <2>2 DEF Recent
  <2> QED
    BY <1>0, <2>0, <2>2, <2>3 DEF Ids
<1> QED
  BY <1>2, <1>3

(* A page that reconnects with an id the buffer still holds is sent every  *)
(* event since, or has it in its queue, whenever the events were published *)
(* and however small the buffer is.                                        *)
THEOREM ReplayLeavesNoGapHolds == Spec => []ReplayLeavesNoGap
<1>1. Init => GapInv
  <2> SUFFICES ASSUME Init PROVE GapInv
    OBVIOUS
  <2>1. conn.at = "none" /\ conn.queue = <<>> /\ ring = <<>> /\ published = 0
    BY DEF Init, NoConnection
  <2> QED
    BY <2>1, RecentEmpty DEF GapInv, Subscribed
<1>2. StreamInv /\ GapInv /\ [Next]_vars => GapInv'
  BY GapInductive
<1> QED
  BY <1>1, <1>2, GapCovers, StreamInvariant, PTL DEF Spec

-----------------------------------------------------------------------------
(* Type correctness.  The events of a behaviour are numbered within its    *)
(* bound because no more are published and pending than the row has owed;  *)
(* the buffer stays within its size, and the hook stops streaming when its *)
(* failures reach their limit.                                             *)

Owed ==
    db.steps + (IF db.steps = 0 THEN 0 ELSE 1) + (IF db.status = "finished" THEN 2 ELSE 0)

Backlog == Len(pending["runner"]) + Len(pending["watchdog"])

CountInv == published + Backlog <= Owed

Numbered == {e \in Messages : e.id <= published}

NumberInv ==
    /\ \A w \in Writers : pending[w] \in Seq(Numbered)
    /\ ring \in Seq(Numbered) /\ conn.queue \in Seq(Numbered) /\ pipe \in Seq(Numbered)

BoundInv ==
    /\ Len(ring) <= BufferSize
    /\ IF page.polling THEN conn.at = "none" /\ page.failures <= MaxFailures
       ELSE page.failures < MaxFailures
    /\ faults \in 0 .. MaxFaults

LEMMA EndEventsLength == Len(EndEvents) = 2
BY DEF EndEvents

(* Lengths add up.                                                         *)
LEMMA SumOfLengths ==
    ASSUME NEW m \in Nat, NEW n \in Nat
    PROVE  m + n \in Nat
OBVIOUS

LEMMA LengthsMove ==
    ASSUME NEW m \in Nat, NEW k \in Nat
    PROVE  /\ k + m = (0 + m) + k /\ m + k = (m + 0) + k
           /\ (k - 1) + m = (k + m) - 1 /\ m + (k - 1) = (m + k) - 1
OBVIOUS

LEMMA Cover ==
    ASSUME NEW m \in Nat, NEW p \in Int, NEW k \in {0, 1}, NEW l \in 0 .. 2 + k, p >= m + (2 + k)
    PROVE  p >= m + l
OBVIOUS

(* What a transaction adds to the writer's backlog and to what is owed.    *)
LEMMA TransactCount ==
    ASSUME StreamInv, NEW w \in Writers, NEW new, NEW S, NEW events \in Seq(S), Owed' \in Int,
           CountInv, Transact(w, new, events), db' = new => Owed' >= Owed + Len(events)
    PROVE  CountInv'
<1>0. /\ published \in Nat /\ Len(pending["runner"]) \in Nat /\ Len(pending["watchdog"]) \in Nat
      /\ pending \in [Writers -> Seq(Facts)]
      /\ Len(events) \in Nat /\ Owed \in Nat
  <2>1. db.steps \in Nat
    BY StreamAssumption DEF StreamInv, States
  <2> QED
    BY <2>1, LenProperties DEF StreamInv, Writers, Owed
<1>l. Len(pending["runner"]) \in Nat /\ Len(pending["watchdog"]) \in Nat
  BY <1>0
<1>k. Len(events) \in Nat
  BY <1>0
<1>b. Backlog \in Nat
  BY <1>l, SumOfLengths, Zenon DEF Backlog
<1>1. pending[w] = <<>> /\ published' = published
  BY DEF Transact, bus
<1>2. Len(pending[w]) = 0
  BY <1>1, EmptySeq
<1>3. ASSUME pending' = [pending EXCEPT ![w] = events], db' = new PROVE CountInv'
  <2>1. Backlog' = Backlog + Len(events)
    <3>1. CASE w = "runner"
      <4>1. pending'["runner"] = events /\ pending'["watchdog"] = pending["watchdog"]
        BY <1>0, <1>3, <3>1 DEF Writers
      <4> QED
        <5>1. Backlog = 0 + Len(pending["watchdog"])
          BY <1>2, <3>1, Zenon DEF Backlog
        <5>2. Backlog' = Len(events) + Len(pending["watchdog"])
          BY <4>1, Zenon DEF Backlog
        <5> QED
          BY <1>l, <1>k, <5>1, <5>2, LengthsMove, Zenon
    <3>2. CASE w = "watchdog"
      <4>1. pending'["watchdog"] = events /\ pending'["runner"] = pending["runner"]
        BY <1>0, <1>3, <3>2 DEF Writers
      <4> QED
        <5>1. Backlog = Len(pending["runner"]) + 0
          BY <1>2, <3>2, Zenon DEF Backlog
        <5>2. Backlog' = Len(pending["runner"]) + Len(events)
          BY <4>1, Zenon DEF Backlog
        <5> QED
          BY <1>l, <1>k, <5>1, <5>2, LengthsMove, Zenon
    <3> QED
      BY <3>1, <3>2 DEF Writers
  <2>2. published \in Nat /\ Len(events) \in Nat /\ Owed \in Nat
    BY <1>0
  <2> QED
    BY <1>b, <1>1, <1>3, <2>1, <2>2 DEF CountInv
<1>4. ASSUME pending' = [pending EXCEPT ![w] = <<>>], UNCHANGED db PROVE CountInv'
  <2>1. pending' = pending
    BY <1>0, <1>1, <1>4
  <2> QED
    BY <1>1, <1>4, <2>1 DEF CountInv, Owed, Backlog
<1> QED
  BY <1>3, <1>4 DEF Transact, OnCommit

LEMMA CountInductive ==
    ASSUME StreamInv, CountInv, [Next]_vars
    PROVE  CountInv'
<1>0. /\ db \in States /\ db.steps \in Nat /\ published \in Nat /\ pending \in [Writers -> Seq(Facts)]
      /\ Len(pending["runner"]) \in Nat /\ Len(pending["watchdog"]) \in Nat
  BY StreamAssumption, LenProperties DEF StreamInv, Writers, States
<1>l. Len(pending["runner"]) \in Nat /\ Len(pending["watchdog"]) \in Nat
  BY <1>0
<1>b. Backlog \in Nat
  BY <1>l, SumOfLengths, Zenon DEF Backlog
<1>d. db.steps \in Nat /\ Owed \in Nat
  <2>1. db.steps \in Nat
    BY <1>0
  <2> QED
    BY <2>1 DEF Owed
<1>1. CASE UNCHANGED <<db, published, pending>>
  BY <1>1 DEF CountInv, Owed, Backlog
<1>2. CASE UpdateStep
  <2> DEFINE n == db.steps + 1
             events == <<StepEvent(n)>> \o (IF n = 1 /\ db.status = "active" THEN <<Event("status", "active")>> ELSE <<>>)
             new == [db EXCEPT !.steps = n]
  <2>1. Transact("runner", new, events) /\ "runner" \in Writers /\ db.steps < MaxSteps
    BY <1>2 DEF UpdateStep, Writers
  <2>2. events \in Seq({StepEvent(n), Event("status", "active")})
        /\ Len(events) = IF n = 1 /\ db.status = "active" THEN 2 ELSE 1
    <3>1. CASE n = 1 /\ db.status = "active"
      BY <3>1
    <3>2. CASE ~(n = 1 /\ db.status = "active")
      BY <3>2
    <3> QED
      BY <3>1, <3>2
  <2>3. new.steps = n /\ new.status = db.status /\ n \in Nat /\ n # 0
    BY <1>0 DEF States
  <2>4. db' = new \/ db' = db
    BY <2>1 DEF Transact
  <2>5. Owed' \in Int
    <3>1. db'.steps \in Nat
      BY <1>d, <2>3, <2>4
    <3> QED
      BY <3>1 DEF Owed
  <2>6. db' = new => Owed' >= Owed + Len(events)
    <3>1. n = 1 <=> db.steps = 0
      BY <1>0
    <3> HIDE DEF events, new
    <3> QED
      BY <1>d, <2>2, <2>3, <3>1 DEF Owed
  <2> HIDE DEF events, new
  <2> QED
    BY <2>1, <2>2, <2>5, <2>6, TransactCount
<1>3. CASE Ends
  <2>p. PICK w \in Writers, k \in {0, 1} : \E events \in Endings(k) :
            /\ db.status = "active" /\ db.steps + k \in 0 .. MaxSteps
            /\ k = 0 => events \in {EndEvents, <<>>}
            /\ Transact(w, Ended(db.steps + k), events)
    BY <1>0, <1>3, EndsTransact
  <2>1. PICK events \in Endings(k) :
            /\ db.status = "active" /\ db.steps + k \in 0 .. MaxSteps
            /\ k = 0 => events \in {EndEvents, <<>>}
            /\ Transact(w, Ended(db.steps + k), events)
    BY <2>p
  <2>e. events \in {EndEvents, <<>>, <<StepEvent(db.steps + k)>> \o EndEvents}
    BY <2>1 DEF Endings
<2> DEFINE S == {Event("status", "finished"), Event("closed", "finished"), StepEvent(db.steps + k)}
  <2>2. EndEvents \in Seq(S) /\ <<>> \in Seq(S) /\ <<StepEvent(db.steps + k)>> \in Seq(S)
    BY DEF EndEvents
  <2> HIDE DEF S
  <2>3. <<StepEvent(db.steps + k)>> \o EndEvents \in Seq(S) /\ Len(<<StepEvent(db.steps + k)>> \o EndEvents) = 3
    <3>1. PICK one \in Seq(S) : one = <<StepEvent(db.steps + k)>>
      BY <2>2
    <3>2. Len(one) = 1
      BY <3>1
    <3>3. one \o EndEvents \in Seq(S) /\ Len(one \o EndEvents) = Len(one) + Len(EndEvents)
      BY <2>2, <3>1, ConcatProperties
    <3> QED
      BY <3>1, <3>2, <3>3, EndEventsLength
  <2>4. Len(<<>>) = 0
    OBVIOUS
  <2>5. events \in Seq(S) /\ Len(events) \in 0 .. 2 + k
    <3>1. CASE events = EndEvents
      BY <2>2, <3>1, EndEventsLength
    <3>2. CASE events = <<>>
      BY <2>2, <2>4, <3>2
    <3>3. CASE events = <<StepEvent(db.steps + k)>> \o EndEvents /\ events \notin {EndEvents, <<>>}
      <4>1. k = 1
        BY <2>1, <3>3
      <4>2. events \in Seq(S) /\ Len(events) = 3
        BY <2>3, <3>3
      <4> QED
        BY <4>1, <4>2
    <3> QED
      BY <2>e, <3>1, <3>2, <3>3
  <2>6. Ended(db.steps + k).steps = db.steps + k /\ Ended(db.steps + k).status = "finished"
    BY DEF Ended
  <2>7. Owed' \in Int
    <3>1. db' = Ended(db.steps + k) \/ db' = db
      BY <2>1 DEF Transact
    <3>2. db'.steps \in Nat
      BY <1>d, <2>1, <2>6, <3>1
    <3> QED
      BY <3>2 DEF Owed
  <2>8. db' = Ended(db.steps + k) => Owed' >= Owed + Len(events)
    <3>1. ASSUME db' = Ended(db.steps + k) PROVE Owed' >= Owed + Len(events)
      <4>1. db'.steps = db.steps + k /\ db'.status = "finished" /\ db.status # "finished"
        BY <2>1, <2>6, <3>1
      <4>2. Owed' >= Owed + (2 + k)
        BY <1>d, <4>1 DEF Owed
      <4>3. Owed' \in Int /\ Len(events) \in 0 .. 2 + k /\ k \in {0, 1}
        BY <2>1, <2>5, <2>7
      <4> QED
        BY <1>d, <4>2, <4>3, Cover
    <3> QED
      BY <3>1
  <2> QED
    BY <2>1, <2>5, <2>7, <2>8, TransactCount
<1>6. ASSUME NEW w \in Writers, Emit(w) PROVE CountInv'
  <2>1. /\ pending[w] # <<>> /\ published' = published + 1 /\ UNCHANGED db
        /\ pending' = [pending EXCEPT ![w] = Tail(pending[w])]
    BY <1>6 DEF Emit
  <2>2. Len(Tail(pending[w])) = Len(pending[w]) - 1
    BY <1>0, <2>1, HeadTailProperties
  <2>3. Backlog' = Backlog - 1
    <3>1. CASE w = "runner"
      <4>1. pending'["runner"] = Tail(pending["runner"]) /\ pending'["watchdog"] = pending["watchdog"]
        BY <1>0, <2>1, <3>1 DEF Writers
      <4> QED
        <5>1. Backlog' = (Len(pending["runner"]) - 1) + Len(pending["watchdog"])
          BY <2>2, <3>1, <4>1, Zenon DEF Backlog
        <5>2. Backlog = Len(pending["runner"]) + Len(pending["watchdog"])
          BY Zenon DEF Backlog
        <5> QED
          BY <1>l, <5>1, <5>2, LengthsMove, Zenon
    <3>2. CASE w = "watchdog"
      <4>1. pending'["watchdog"] = Tail(pending["watchdog"]) /\ pending'["runner"] = pending["runner"]
        BY <1>0, <2>1, <3>2 DEF Writers
      <4> QED
        <5>1. Backlog' = Len(pending["runner"]) + (Len(pending["watchdog"]) - 1)
          BY <2>2, <3>2, <4>1, Zenon DEF Backlog
        <5>2. Backlog = Len(pending["runner"]) + Len(pending["watchdog"])
          BY Zenon DEF Backlog
        <5> QED
          BY <1>l, <5>1, <5>2, LengthsMove, Zenon
    <3> QED
      BY <3>1, <3>2 DEF Writers
  <2>4. Owed' = Owed
    BY <2>1 DEF Owed
  <2>5. published \in Nat
    BY <1>0
  <2> QED
    BY <1>b, <1>d, <2>1, <2>3, <2>4, <2>5 DEF CountInv
<1>7. CASE Restart
  <2>1. pending'["runner"] = <<>> /\ pending'["watchdog"] = <<>> /\ UNCHANGED <<db, published>>
    BY <1>7 DEF Restart, Writers
  <2>2. Backlog' = 0
    BY <2>1, EmptySeq DEF Backlog
  <2>3. Owed' = Owed /\ published \in Nat
    BY <1>0, <2>1 DEF Owed
  <2> QED
    BY <1>b, <1>d, <2>1, <2>2, <2>3 DEF CountInv
<1>8. CASE View
  BY <1>1, <1>8 DEF View, SendTerminal, Subscribe, Replay, Forward, Reconcile, bus
<1>9. CASE Browser
  BY <1>1, <1>9 DEF Browser, Connect, Receive, HangUp, Poll, FetchRead, FetchReply, bus
<1>10. CASE ConnectionLost \/ FetchFails \/ UNCHANGED vars
  BY <1>1, <1>10 DEF ConnectionLost, FetchFails, vars, bus
<1> QED
  BY <1>2, <1>3, <1>6, <1>7, <1>8, <1>9, <1>10 DEF Next, Ends

LEMMA BoundInductive ==
    ASSUME StreamInv, BoundInv, [Next]_vars
    PROVE  BoundInv'
<1>0. /\ ring \in Seq(Facts) /\ page \in Pages /\ page.failures \in Nat /\ page.polling \in BOOLEAN
      /\ faults \in 0 .. MaxFaults
      /\ MaxFaults \in Nat /\ MaxFailures \in Nat \ {0} /\ BufferSize \in Nat \ {0} /\ Len(ring) \in Nat
  BY StreamAssumption, LenProperties DEF StreamInv, BoundInv, Pages
<1>1. Len(ring') <= BufferSize
  <2>1. CASE UNCHANGED ring
    BY <2>1 DEF BoundInv
  <2>2. CASE Restart
    BY <1>0, <2>2, EmptySeq DEF Restart
  <2>3. ASSUME NEW w \in Writers, Emit(w) PROVE Len(ring') <= BufferSize
    <3>1. PICK e : ring' = IF buffered THEN Remember(e) ELSE ring
      BY <2>3 DEF Emit
    <3>2. Append(ring, e) \in Seq(Facts \cup {e}) /\ Len(Append(ring, e)) = Len(ring) + 1
      <4>1. ring \in Seq(Facts \cup {e}) /\ e \in Facts \cup {e}
        BY <1>0, SeqMonotonic
      <4> QED
        BY <4>1, AppendProperties
    <3>3. Append(ring, e) # <<>> => Len(Tail(Append(ring, e))) = Len(ring)
      BY <1>0, <3>2, HeadTailProperties
    <3>4. Append(ring, e) # <<>>
      BY <1>0, <3>2, EmptySeq
    <3>5. Len(ring) <= BufferSize
      BY DEF BoundInv
    <3>6. CASE ring' = ring
      BY <3>5, <3>6
    <3>7. CASE ring' = Remember(e)
      <4>1. CASE Len(Append(ring, e)) > BufferSize
        BY <3>3, <3>4, <3>5, <3>7, <4>1 DEF Remember
      <4>2. CASE ~(Len(Append(ring, e)) > BufferSize)
        <5>1. ring' = Append(ring, e)
          BY <3>7, <4>2 DEF Remember
        <5> QED
          BY <1>0, <3>2, <4>2, <5>1
      <4> QED
        BY <4>1, <4>2
    <3> QED
      BY <3>1, <3>6, <3>7
  <2>4. UNCHANGED ring \/ Restart \/ \E w \in Writers : Emit(w)
    <3>1. CASE UpdateStep \/ Ends \/ UNCHANGED vars
      BY <3>1 DEF UpdateStep, Ends, Complete, FailForApprovalTimeout, RecoverStuck, Transact, vars, bus
    <3>2. CASE View
      BY <3>2 DEF View, SendTerminal, Subscribe, Replay, Forward, Reconcile, bus
    <3>3. CASE Browser \/ ConnectionLost \/ FetchFails
      BY <3>3 DEF Browser, Connect, Receive, HangUp, Poll, FetchRead, FetchReply, ConnectionLost, FetchFails, bus
    <3> QED
      BY <3>1, <3>2, <3>3 DEF Next, Ends
  <2> QED
    BY <2>1, <2>2, <2>3, <2>4
<1>2. faults' \in 0 .. MaxFaults
  <2>1. UNCHANGED faults \/ (faults < MaxFaults /\ faults' = faults + 1)
    <3>1. CASE UpdateStep \/ Ends \/ UNCHANGED vars
      BY <3>1 DEF UpdateStep, Ends, Complete, FailForApprovalTimeout, RecoverStuck, Transact, vars
    <3>2. CASE View \/ \E w \in Writers : Emit(w)
      BY <3>2 DEF View, SendTerminal, Subscribe, Replay, Forward, Reconcile, Emit
    <3>3. CASE Browser \/ ConnectionLost \/ FetchFails \/ Restart
      BY <3>3 DEF Browser, Connect, Receive, HangUp, Poll, FetchRead, FetchReply, ConnectionLost, FetchFails, Restart
    <3> QED
      BY <3>1, <3>2, <3>3 DEF Next, Ends
  <2>2. faults \in Nat /\ faults <= MaxFaults
    BY <1>0
  <2> QED
    BY <1>0, <2>1, <2>2
<1>3. IF page'.polling THEN conn'.at = "none" /\ page'.failures <= MaxFailures
      ELSE page'.failures < MaxFailures
  <2> DEFINE Halts == page'.polling = page.polling /\ page'.failures = page.failures
                      /\ (page.polling => conn'.at = "none")
  <2>0. NoConnection.at = "none"
    BY DEF NoConnection
  <2>1. CASE Halts
    BY <2>1 DEF BoundInv
  <2>2. CASE StreamFailed /\ Disconnected /\ conn.at # "none"
    <3>1. ~page.polling /\ page.failures < MaxFailures
      BY <2>2 DEF BoundInv
    <3> DEFINE b == page.failures + 1 >= MaxFailures
    <3>2. page' = [page EXCEPT !.failures = @ + 1, !.polling = b]
      BY <2>2 DEF StreamFailed
    <3>3. b <=> page.failures + 1 >= MaxFailures
      OBVIOUS
    <3> HIDE DEF b
    <3>4. page'.failures = page.failures + 1 /\ page'.polling = b
      BY <1>0, <3>2 DEF Pages
    <3>5. conn'.at = "none"
      BY <2>0, <2>2 DEF Disconnected
    <3> QED
      BY <1>0, <3>1, <3>3, <3>4, <3>5
  <2>3. CASE UNCHANGED <<conn, page>>
    BY <2>1, <2>3 DEF BoundInv
  <2>4. ASSUME NEW w \in Writers, Emit(w) PROVE Halts
    <3>1. UNCHANGED page /\ (conn' = conn \/ (Subscribed /\ \E q : conn' = [conn EXCEPT !.queue = q]))
      BY <2>4 DEF Emit
    <3> QED
      BY <3>1 DEF BoundInv, Subscribed
  <2>5. CASE View
    <3>1. UNCHANGED page /\ conn.at # "none"
      BY <2>5 DEF View, SendTerminal, Subscribe, Replay, Forward, Reconcile
    <3> QED
      BY <2>1, <3>1 DEF BoundInv
  <2>6. CASE Connect
    <3>1. ~page.polling /\ UNCHANGED page
      BY <2>6 DEF Connect, Streams
    <3> QED
      BY <2>1, <3>1
  <2>7. CASE Receive
    <3>1. page' = Apply(Head(pipe)) /\ Head(pipe).kind \in Kinds
      <4>1. Head(pipe) \in Facts
        BY <2>7, HeadTailProperties DEF Receive, StreamInv
      <4> QED
        BY <2>7, <4>1 DEF Receive, Facts, Messages
    <3>2. page'.polling = page.polling /\ page'.failures = page.failures
      BY <1>0, <3>1 DEF Apply, Kinds, Pages
    <3>3. conn' = conn \/ conn' = NoConnection
      BY <2>7 DEF Receive, OnClosed, Disconnected
    <3> QED
      BY <2>0, <2>1, <3>2, <3>3 DEF BoundInv
  <2>8. CASE HangUp \/ FetchReply
    <3>1. conn' = conn \/ conn' = NoConnection
      BY <2>8 DEF HangUp, FetchReply, Disconnected
    <3>2. page'.polling = page.polling /\ page'.failures = page.failures
      BY <1>0, <2>8 DEF HangUp, FetchReply, Pages
    <3> QED
      BY <2>0, <2>1, <3>1, <3>2 DEF BoundInv
  <2>9. CASE ConnectionLost
    BY <2>2, <2>9 DEF ConnectionLost
  <2>10. CASE Restart
    <3>1. CASE conn.at # "none"
      BY <2>2, <2>10, <3>1 DEF Restart
    <3>2. CASE conn.at = "none"
      <4>1. UNCHANGED page /\ conn' = NoConnection
        BY <2>10, <3>2 DEF Restart, Disconnected
      <4> QED
        BY <2>0, <2>1, <4>1
    <3> QED
      BY <3>1, <3>2
  <2>11. CASE UpdateStep \/ Ends \/ Poll \/ FetchRead \/ FetchFails
              \/ UNCHANGED vars
    BY <2>3, <2>11 DEF UpdateStep, Ends, Complete, FailForApprovalTimeout, RecoverStuck, Transact, Poll, FetchRead, FetchFails, vars
  <2> QED
    BY <2>1, <2>4, <2>5, <2>6, <2>7, <2>8, <2>9, <2>10, <2>11 DEF Next, Ends, Browser
<1> QED
  BY <1>1, <1>2, <1>3 DEF BoundInv

LEMMA UnnumberedEvents ==
    ASSUME published \in Nat, NEW n \in 0 .. MaxSteps
    PROVE  /\ StepEvent(n) \in Numbered /\ Event("status", "active") \in Numbered
           /\ Event("status", "finished") \in Numbered /\ Event("closed", "finished") \in Numbered
           /\ EndEvents \in Seq(Numbered) /\ <<>> \in Seq(Numbered)
<1>0. MaxSteps \in Nat /\ 0 \in 0 .. MaxSteps /\ 0 \in Nat /\ 0 <= published
  BY StreamAssumption
<1>1. StepEvent(n) = [id |-> 0, kind |-> "step", status |-> "active", steps |-> n]
  BY DEF StepEvent, Event, Unknown
<1>2. StepEvent(n) \in Numbered
  BY <1>0, <1>1 DEF Numbered, Messages, Kinds
<1>3. /\ Event("status", "active") \in Numbered /\ Event("status", "finished") \in Numbered
      /\ Event("closed", "finished") \in Numbered
  BY <1>0 DEF Event, Numbered, Messages, Kinds, Unknown
<1>4. EndEvents \in Seq(Numbered)
  BY <1>3 DEF EndEvents
<1> QED
  BY <1>2, <1>3, <1>4

LEMMA OutgoingNumbered ==
    ASSUME published \in Nat, NEW events \in Seq(Numbered)
    PROVE  Outgoing(events) \in Seq(Numbered)
<1>0. /\ Len(events) \in Nat /\ EndOf(events) \in 0..Len(events)
      /\ \A i \in 1..Len(events) : events[i] \in Numbered
  BY EndPosition, ElementOfSeq
<1>1. CASE EndOf(events) = 0
  BY <1>1 DEF Outgoing
<1>2. CASE EndOf(events) # 0
  <2>1. SubSeq(events, 1, EndOf(events)) \in Seq(Numbered)
    <3>1. 1 \in Int /\ EndOf(events) \in Int /\ \A i \in 1..EndOf(events) : events[i] \in Numbered
      BY <1>0
    <3> QED
      BY <3>1, SubSeqProperties
  <2>2. <<Event("closed", "finished")>> \in Seq(Numbered) /\ <<>> \in Seq(Numbered)
    <3>1. 0 \in 0 .. MaxSteps
      BY StreamAssumption
    <3>2. Event("closed", "finished") \in Numbered
      BY <3>1, UnnumberedEvents
    <3> QED
      BY <3>2
  <2> DEFINE last == IF ClosesStream(events[EndOf(events)]) THEN <<>> ELSE <<Event("closed", "finished")>>
  <2>3. last \in Seq(Numbered)
    BY <2>2
  <2>4. Outgoing(events) = SubSeq(events, 1, EndOf(events)) \o last
    BY <1>2 DEF Outgoing
  <2> HIDE DEF last
  <2> QED
    BY <2>1, <2>3, <2>4, ConcatProperties
<1> QED
  BY <1>1, <1>2

LEMMA NumberInductive ==
    ASSUME StreamInv, NumberInv, [Next]_vars
    PROVE  NumberInv'
<1>0. /\ published \in Nat /\ conn \in Connections /\ 0 \in 0 .. MaxSteps /\ MaxSteps \in Nat
      /\ pending \in [Writers -> Seq(Facts)] /\ <<>> \in Seq(Numbered)
  BY StreamAssumption DEF StreamInv
<1>1. /\ \A w \in Writers : pending[w] \in Seq(Numbered)
      /\ ring \in Seq(Numbered) /\ conn.queue \in Seq(Numbered) /\ pipe \in Seq(Numbered)
  BY DEF NumberInv
<1>2. ASSUME UNCHANGED published, \A w \in Writers : pending'[w] \in Seq(Numbered),
             ring' \in Seq(Numbered), conn'.queue \in Seq(Numbered), pipe' \in Seq(Numbered)
      PROVE  NumberInv'
  <2>1. Numbered' = Numbered
    BY <1>2 DEF Numbered
  <2> QED
    BY <1>2, <2>1 DEF NumberInv
<1>3. NoConnection.queue = <<>>
  BY DEF NoConnection
<1>4. ASSUME NEW w \in Writers, NEW new, NEW events \in Seq(Numbered), Transact(w, new, events)
      PROVE  NumberInv'
  <2>1. UNCHANGED <<published, ring, conn, pipe>>
    BY <1>4 DEF Transact, bus
  <2>2. \E s \in {events, <<>>} : pending' = [pending EXCEPT ![w] = s]
    BY <1>4 DEF Transact, OnCommit
  <2>3. PICK s \in {events, <<>>} : pending' = [pending EXCEPT ![w] = s]
    BY <2>2
  <2>4. s \in Seq(Numbered)
    BY <1>0, <1>4, <2>3
  <2>5. ASSUME NEW v \in Writers PROVE pending'[v] \in Seq(Numbered)
    <3>1. CASE v = w
      BY <1>0, <2>3, <2>4, <3>1
    <3>2. CASE v # w
      BY <1>0, <1>1, <2>3, <3>2
    <3> QED
      BY <3>1, <3>2
  <2> QED
    BY <1>1, <1>2, <2>1, <2>5
<1>5. CASE UpdateStep
  <2> DEFINE n == db.steps + 1
             rest == IF n = 1 /\ db.status = "active" THEN <<Event("status", "active")>> ELSE <<>>
             new == [db EXCEPT !.steps = n]
  <2>1. "runner" \in Writers /\ n \in 0 .. MaxSteps
    <3>1. db.steps \in 0 .. MaxSteps /\ db.steps < MaxSteps
      BY <1>5 DEF UpdateStep, StreamInv, States
    <3> QED
      BY <1>0, <3>1 DEF Writers
  <2>2. Transact("runner", new, <<StepEvent(n)>> \o rest)
    BY <1>5 DEF UpdateStep
  <2>3. <<StepEvent(n)>> \in Seq(Numbered) /\ rest \in Seq(Numbered)
    <3> HIDE DEF n
    <3>1. StepEvent(n) \in Numbered /\ Event("status", "active") \in Numbered
      BY <1>0, <2>1, UnnumberedEvents
    <3>2. <<StepEvent(n)>> \in Seq(Numbered) /\ <<Event("status", "active")>> \in Seq(Numbered)
      BY <3>1
    <3> QED
      BY <1>0, <3>2
  <2> HIDE DEF n, rest, new
  <2>4. <<StepEvent(n)>> \o rest \in Seq(Numbered)
    BY <2>3, ConcatProperties
  <2> QED
    BY <1>4, <2>1, <2>2, <2>4
<1>6. CASE Ends
  <2>0. db \in States
    BY DEF StreamInv
  <2>p. PICK w \in Writers, k \in {0, 1} : \E events \in Endings(k) :
            db.steps + k \in 0 .. MaxSteps /\ Transact(w, Ended(db.steps + k), events)
    BY <1>6, <2>0, EndsTransact
  <2>1. PICK events \in Endings(k) :
            db.steps + k \in 0 .. MaxSteps /\ Transact(w, Ended(db.steps + k), events)
    BY <2>p
  <2>e. events \in {EndEvents, <<>>, <<StepEvent(db.steps + k)>> \o EndEvents}
    BY <2>1 DEF Endings
<2>2. EndEvents \in Seq(Numbered) /\ StepEvent(db.steps + k) \in Numbered
    BY <1>0, <2>1, UnnumberedEvents
  <2>3. <<StepEvent(db.steps + k)>> \in Seq(Numbered)
    BY <2>2
  <2>4. <<StepEvent(db.steps + k)>> \o EndEvents \in Seq(Numbered)
    BY <2>2, <2>3, ConcatProperties
  <2>5. events \in Seq(Numbered)
    BY <1>0, <2>e, <2>2, <2>4
  <2> QED
    BY <1>4, <2>1, <2>5
<1>8. ASSUME NEW w \in Writers, Emit(w) PROVE NumberInv'
  <2>1. pending[w] \in Seq(Numbered) /\ pending[w] # <<>> /\ published' = published + 1 /\ UNCHANGED pipe
    BY <1>1, <1>8 DEF Emit
  <2>2. ASSUME NEW m \in Numbered PROVE m \in Numbered'
    <3>1. m \in Messages /\ m.id \in Nat /\ m.id <= published
      BY <2>2 DEF Numbered, Messages
    <3>2. m.id <= published'
      BY <1>0, <2>1, <3>1
    <3> QED
      BY <3>1, <3>2 DEF Numbered
  <2>3. ASSUME NEW s \in Seq(Numbered) PROVE s \in Seq(Numbered')
    BY <2>2, <2>3, SeqMonotonic
  <2> DEFINE e == [Head(pending[w]) EXCEPT !.id = published + 1]
  <2>4. e \in Numbered'
    <3>1. Head(pending[w]) \in Numbered
      BY <2>1, HeadTailProperties
    <3>2. Head(pending[w]) \in Messages /\ published + 1 \in Nat
      BY <1>0, <3>1 DEF Numbered
    <3>3. e \in Messages /\ e.id = published + 1
      BY <3>2 DEF Messages
    <3> HIDE DEF e
    <3> QED
      BY <1>0, <2>1, <3>3 DEF Numbered
  <2>5. /\ ring' = IF buffered THEN Remember(e) ELSE ring
        /\ conn' = IF Subscribed THEN [conn EXCEPT !.queue = Append(@, e)] ELSE conn
        /\ pending' = [pending EXCEPT ![w] = Tail(@)]
    BY <1>8 DEF Emit
  <2> HIDE DEF e
  <2>6. ring' \in Seq(Numbered')
    <3>1. Append(ring, e) \in Seq(Numbered') /\ Append(ring, e) # <<>>
      BY <1>1, <2>3, <2>4, AppendProperties
    <3>2. Tail(Append(ring, e)) \in Seq(Numbered')
      BY <3>1, HeadTailProperties
    <3> QED
      BY <1>1, <2>3, <2>5, <3>1, <3>2 DEF Remember
  <2>7. conn'.queue \in Seq(Numbered')
    <3>1. Append(conn.queue, e) \in Seq(Numbered')
      BY <1>1, <2>3, <2>4, AppendProperties
    <3>2. CASE Subscribed
      <4>1. conn'.queue = Append(conn.queue, e)
        BY <1>0, <2>5, <3>2 DEF Connections
      <4> QED
        BY <3>1, <4>1
    <3>3. CASE ~Subscribed
      BY <1>1, <2>3, <2>5, <3>3
    <3> QED
      BY <3>2, <3>3
  <2>8. ASSUME NEW v \in Writers PROVE pending'[v] \in Seq(Numbered')
    <3>1. Tail(pending[w]) \in Seq(Numbered)
      BY <2>1, HeadTailProperties
    <3>2. CASE v = w
      BY <1>0, <2>3, <2>5, <3>1, <3>2
    <3>3. CASE v # w
      BY <1>0, <1>1, <2>3, <2>5, <3>3
    <3> QED
      BY <3>2, <3>3
  <2>9. pipe' \in Seq(Numbered')
    BY <1>1, <2>1, <2>3
  <2> QED
    BY <2>6, <2>7, <2>8, <2>9 DEF NumberInv
<1>9. ASSUME NEW events \in Seq(Numbered), Sent(events), UNCHANGED <<pending, bus>>
      PROVE  NumberInv'
  <2>1. pipe' \in Seq(Numbered)
    <3>1. Outgoing(events) \in Seq(Numbered)
      BY <1>0, OutgoingNumbered
    <3> QED
      BY <1>1, <1>9, <3>1, ConcatProperties DEF Sent
  <2>2. conn'.queue \in Seq(Numbered)
    <3>1. conn'.queue = IF conn.at = "open" /\ conn.queue # <<>> THEN Tail(conn.queue) ELSE conn.queue
      BY <1>0, <1>9, SentConnection
    <3> QED
      BY <1>1, <3>1, HeadTailProperties
  <2> QED
    BY <1>1, <1>2, <1>9, <2>1, <2>2 DEF bus
<1>10. CASE SendTerminal \/ Reconcile
  <2>1. EndEvents \in Seq(Numbered)
    BY <1>0, UnnumberedEvents
  <2> QED
    BY <1>9, <1>10, <2>1 DEF SendTerminal, Reconcile
<1>11. CASE Subscribe
  <2>1. conn'.queue = conn.queue /\ UNCHANGED <<pending, published, ring, pipe>>
    BY <1>0, <1>11 DEF Subscribe, Connections
  <2> QED
    BY <1>1, <1>2, <2>1
<1>12. CASE Replay
  <2>1. BufferedAfter(conn.last) \in Seq(Numbered)
    <3>1. ASSUME NEW i \in 1..Len(ring), BufferedAfter(conn.last) = SubSeq(ring, i + 1, Len(ring))
          PROVE  BufferedAfter(conn.last) \in Seq(Numbered)
      <4>1. i + 1 \in Int /\ Len(ring) \in Int /\ \A j \in (i + 1)..Len(ring) : ring[j] \in Numbered
        BY <1>1, ElementOfSeq
      <4> QED
        BY <3>1, <4>1, SubSeqProperties
    <3> QED
      BY <1>0, <1>1, <3>1, ReplayPosition
  <2> QED
    BY <1>9, <1>12, <2>1 DEF Replay
<1>13. CASE Forward
  <2>1. <<Head(conn.queue)>> \in Seq(Numbered)
    <3>1. Head(conn.queue) \in Numbered
      BY <1>1, <1>13, HeadTailProperties DEF Forward
    <3> QED
      BY <3>1
  <2> QED
    BY <1>9, <1>13, <2>1 DEF Forward
<1>14. CASE Connect
  <2>1. conn'.queue = <<>> /\ UNCHANGED <<pending, bus, pipe>>
    BY <1>14 DEF Connect, NoConnection
  <2> QED
    BY <1>0, <1>1, <1>2, <2>1 DEF bus
<1>15. CASE Disconnected /\ UNCHANGED <<pending, bus>>
  BY <1>0, <1>1, <1>2, <1>3, <1>15 DEF Disconnected, bus
<1>16. CASE Receive
  <2>1. CASE OnClosed
    BY <1>15, <1>16, <2>1 DEF Receive, OnClosed
  <2>2. CASE pipe' = Tail(pipe) /\ UNCHANGED conn
    <3>1. pipe # <<>> /\ UNCHANGED <<pending, bus>>
      BY <1>16 DEF Receive
    <3>2. Tail(pipe) \in Seq(Numbered)
      BY <1>1, <3>1, HeadTailProperties
    <3> QED
      BY <1>1, <1>2, <2>2, <3>1, <3>2 DEF bus
  <2> QED
    BY <1>16, <2>1, <2>2 DEF Receive
<1>17. CASE HangUp \/ ConnectionLost
  BY <1>15, <1>17 DEF HangUp, ConnectionLost
<1>18. CASE Restart
  <2>1. /\ \A w \in Writers : pending'[w] = <<>>
        /\ ring' = <<>> /\ conn'.queue = <<>> /\ pipe' = <<>> /\ UNCHANGED published
    BY <1>3, <1>18 DEF Restart, Disconnected
  <2> QED
    BY <1>0, <1>2, <2>1
<1>19. CASE Poll \/ FetchRead \/ FetchReply \/ FetchFails \/ UNCHANGED vars
  <2>1. UNCHANGED <<pending, bus, conn, pipe>>
    BY <1>19 DEF Poll, FetchRead, FetchReply, FetchFails, vars, bus
  <2> QED
    BY <1>1, <1>2, <2>1 DEF bus
<1> QED
  BY <1>5, <1>6, <1>8, <1>10, <1>11, <1>12, <1>13, <1>14, <1>16, <1>17, <1>18, <1>19
  DEF Next, Ends, View, Browser

(* An event numbered within what the row has owed is one of the bounded    *)
(* instance's, and so is every event of a sequence of them.                *)
LEMMA NumberedEvents ==
    ASSUME StreamInv, CountInv
    PROVE  /\ published \in 0 .. MaxEvents
           /\ \A s \in Seq(Numbered) : Range(s) \subseteq Events
<1>1. db.steps \in 0 .. MaxSteps /\ MaxSteps \in Nat /\ published \in Nat
  BY StreamAssumption DEF StreamInv, States
<1>2. Backlog \in Nat
  <2>1. pending["runner"] \in Seq(Facts) /\ pending["watchdog"] \in Seq(Facts)
    BY DEF StreamInv, Writers
  <2>2. Len(pending["runner"]) \in Nat /\ Len(pending["watchdog"]) \in Nat
    BY <2>1, LenProperties
  <2> QED
    BY <2>2, SumOfLengths, Zenon DEF Backlog
<1>3. Owed \in Nat /\ Owed <= MaxSteps + 3
  BY <1>1 DEF Owed
<1>4. published <= MaxSteps + 3
  BY <1>1, <1>2, <1>3 DEF CountInv
<1>5. ASSUME NEW e \in Numbered PROVE e \in Events
  <2>1. e \in Messages /\ e.id \in Nat /\ e.id <= published
    BY <1>5 DEF Numbered, Messages
  <2>2. e.id \in 0 .. MaxSteps + 3
    BY <1>1, <1>4, <2>1
  <2> QED
    BY <2>1, <2>2 DEF Messages, Events, MaxEvents
<1>6. ASSUME NEW s \in Seq(Numbered), NEW x \in Range(s) PROVE x \in Events
  <2>1. PICK i \in DOMAIN s : x = s[i]
    BY <1>6 DEF Range
  <2>2. i \in 1 .. Len(s)
    BY <2>1, LenProperties
  <2>3. s[i] \in Numbered
    BY <2>2, ElementOfSeq
  <2> QED
    BY <1>5, <2>1, <2>3
<1> QED
  BY <1>1, <1>4, <1>6 DEF MaxEvents

(* Every variable has a value the code can give it: the bus numbers no     *)
(* more events than were committed, its buffer keeps _MAX_BUFFER_SIZE of   *)
(* them (bus.py), and the hook counts MAX_STREAM_FAILURES at most before   *)
(* it turns to polling (useExecutionStream).                               *)
THEOREM TypeCorrect == Spec => []TypeOK
<1>1. Init => CountInv /\ NumberInv /\ BoundInv
  <2> SUFFICES ASSUME Init PROVE CountInv /\ NumberInv /\ BoundInv
    OBVIOUS
  <2>1. Len(<<>>) = 0 /\ <<>> \in Seq(Numbered)
    OBVIOUS
  <2>2. pending["runner"] = <<>> /\ pending["watchdog"] = <<>> /\ db.steps = 0 /\ db.status = "active" /\ published = 0
    BY DEF Init, Writers
  <2>3. CountInv
    BY <2>1, <2>2 DEF CountInv, Backlog, Owed
  <2>4. NumberInv
    BY <2>1 DEF Init, NumberInv, NoConnection
  <2>5. faults \in 0 .. MaxFaults /\ 0 < MaxFailures /\ 0 <= BufferSize
    BY StreamAssumption DEF Init
  <2>6. BoundInv
    BY <2>1, <2>5 DEF Init, BoundInv
  <2> QED
    BY <2>3, <2>4, <2>6
<1>2. ASSUME StreamInv, CountInv, NumberInv, BoundInv PROVE TypeOK
  <2>1. /\ published \in 0 .. MaxEvents
        /\ \A w \in Writers : Range(pending[w]) \subseteq Events
        /\ Range(ring) \cup Range(conn.queue) \cup Range(pipe) \subseteq Events
    BY <1>2, NumberedEvents DEF NumberInv
  <2>2. /\ db \in States /\ buffered \in BOOLEAN
        /\ conn.at \in {"none", "read", "subscribed", "open", "ended"}
        /\ page.status \in {"active", "finished"} /\ page.steps \in 0 .. MaxSteps
        /\ page.failures \in Nat /\ page.polling \in BOOLEAN /\ page.closed \in BOOLEAN
    BY <1>2 DEF StreamInv, Connections, Pages
  <2>3. fetch \in [at : {"none", "asked", "read", "failed"}, state : States]
    BY <1>2 DEF StreamInv, Past
  <2>4. page.failures \in 0 .. MaxFailures
    BY <1>2, <2>2, StreamAssumption DEF BoundInv
  <2>5. Len(ring) <= BufferSize /\ faults \in 0 .. MaxFaults
    BY <1>2 DEF BoundInv
  <2> QED
    BY <2>1, <2>2, <2>3, <2>4, <2>5 DEF TypeOK
<1>3. StreamInv /\ CountInv /\ NumberInv /\ BoundInv /\ [Next]_vars => CountInv' /\ NumberInv' /\ BoundInv'
  BY CountInductive, NumberInductive, BoundInductive
<1> QED
  BY <1>1, <1>2, <1>3, StreamInvariant, PTL DEF Spec
=============================================================================
