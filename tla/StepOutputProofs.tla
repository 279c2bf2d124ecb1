-------------------------- MODULE StepOutputProofs --------------------------
(***************************************************************************)
(* Machine-checked proofs about StepOutput, for any declarations, limits   *)
(* and number of retries, and any number of failures and uploads at work.  *)
(*                                                                         *)
(* What SIGTERM would end never comes back once it was sent, and a process *)
(* that did not outlive the shell is gone with it (PhaseInv), so what the  *)
(* readers kept stays a beginning of what was written, with the secret in  *)
(* it where it was (StreamInv).  An upload is one of a kind:               *)
(* an attempt is made once and an output leaves the work list for good     *)
(* (KeyInv), which is why a clean-up never takes another row's file, and   *)
(* why an upload at a time keeps the limits although its checks and its    *)
(* row are two steps (LimitInv).  Every retry costs a failure, so fewer    *)
(* failures than attempts leave an upload that succeeds (EvidenceInv).     *)
(***************************************************************************)
EXTENDS StepOutput, FiniteSetTheorems, SequenceTheorems, TLAPS

-----------------------------------------------------------------------------
(* The inductive invariants.                                               *)

Early == {"setup", "waiting", "stopping", "grace", "draining"}

(* Where the handler is, what it knows and which processes there can be.   *)
PhaseInv ==
    /\ at = "setup" => leader = "none" /\ rest = {} /\ \A s \in Range(Streams) : written[s] = 0 /\ captured[s] = 0
    /\ at \in {"setup", "waiting", "raised"} => stop = ""
    /\ at \in Early => verdict = ""
    /\ at \in {"uploading", "cleaning", "done"} => verdict # ""
    /\ verdict = "" => todo = <<>> /\ attempt = 0 /\ requests = {} /\ rows = {}
    /\ at = "draining" \/ verdict # "" => leader \notin Alive
    /\ at \in {"cleaning", "done"} => todo = <<>>
    /\ stop # "" /\ at \notin {"stopping", "crashed"} => "running" \notin rest
    /\ leader = "killed" => rest = {}
    /\ alone /\ leader \notin Alive => rest = {}

(* What is sent of a stream is what was captured of it, redacted and cut,  *)
(* and that is true.                                                       *)
StreamInv ==
    /\ \A x \in requests \cup rows : x.output \in Range(Streams) =>
        x.size = SizeOf(x.output) /\ x.truncated = Truncated(x.output)
    /\ verdict # "" => \A s \in Range(Streams) :
        /\ captured[s] <= Min({written[s], StreamLimit})
        /\ alone => captured[s] = Min({written[s], StreamLimit})

(* Of an output under way there are uploads up to the attempt under way,   *)
(* of those behind it in the work list there are none.                     *)
KeyInv ==
    /\ \A i, j \in DOMAIN todo : todo[i] = todo[j] => i = j
    /\ \A x \in requests \cup rows : \A i \in DOMAIN todo :
        todo[i] = x.output => i = 1 /\ x.attempt <= attempt
    /\ \A p, q \in requests : Key(p) = Key(q) => p = q
    /\ \A q \in requests, r \in rows : Key(q) # Key(r)
    /\ \A q \in requests : q.stage = "saved" => Key(q) \in stored
    /\ \A r \in rows : Key(r) \in stored

(* As long as nothing was given up at work, the upload at work is the one  *)
(* the uploader waits for, and what its checks found is still true.        *)
LimitInv ==
    ~given =>
        /\ total <= Quota /\ Cardinality(rows) <= StepLimit
        /\ \A p, q \in requests : p = q
        /\ at = "uploading" => \A q \in requests : todo # <<>> /\ Head(todo) = q.output /\ attempt = q.attempt
        /\ \A q \in requests : q.stage \in {"checked", "saved"} =>
            total + q.size <= Quota /\ Cardinality(rows) < StepLimit

(* A required file of a command that succeeded is still to be uploaded, or *)
(* has a row, or has no bytes.                                             *)
EvidenceInv ==
    /\ attempt <= faults + 1
    /\ \A q \in requests : q.output \in Files => q.size <= FileLimit
    /\ at = "uploading" /\ alone =>
        /\ \A i \in DOMAIN todo : todo[i] \in Files => file[todo[i]] # NoFile
        /\ \A q \in requests : q.output \in Files /\ q.size = 0 => file[q.output] = 0
    /\ /\ at \in {"uploading", "cleaning"} /\ verdict = "succeeded"
       /\ open /\ faults < MaxRetries /\ alone /\ RoomLeft
       => \A f \in Required \cap Files : file[f] # 0 =>
            (\E r \in rows : r.output = f) \/ (\E i \in DOMAIN todo : todo[i] = f)

-----------------------------------------------------------------------------
(* Limits, outputs and work lists.                                         *)

LEMMA LimitTypes ==
    /\ StreamLimit \in Nat /\ FileLimit \in Nat /\ MaxRetries \in Nat /\ MaxRetries >= 1
    /\ MaxArtifacts \in Nat /\ Quota \in Nat /\ DailyQuota \in Nat /\ StepLimit \in Nat
    /\ MaxBytes \in Nat /\ MaxFaults \in Nat /\ StreamLimit >= 1 /\ FileLimit >= 1
    /\ SecretSize \in Nat /\ SecretSize >= 1 /\ MaskSize \in Nat /\ MaskSize >= 1
BY OutputAssumption

LEMMA MinOfTwo ==
    ASSUME NEW a \in Int, NEW b \in Int
    PROVE  Min({a, b}) = IF a <= b THEN a ELSE b
<1> DEFINE m == IF a <= b THEN a ELSE b
<1>1. m \in {a, b} /\ \A y \in {a, b} : m <= y
  OBVIOUS
<1>2. \A x \in {a, b} : (\A y \in {a, b} : x <= y) => x = m
  OBVIOUS
<1> QED
  BY <1>1, <1>2 DEF Min

(* The two streams are uploaded first and are no files.                    *)
LEMMA StreamTypes ==
    /\ Range(Streams) = {"stdout", "stderr"} /\ Len(Streams) = 2
    /\ Streams \in Seq(Outputs) /\ Streams[1] = "stdout" /\ Streams[2] = "stderr"
    /\ "stdout" \notin Files /\ "stderr" \notin Files
<1>1. Range(Streams) = {"stdout", "stderr"}
  BY DEF Range, Streams
<1>2. Files \subseteq Range(Declared)
  BY DEF Files
<1> QED
  BY <1>1, <1>2, OutputAssumption DEF Streams, Outputs

LEMMA BoundedSequences ==
    ASSUME NEW S, NEW n \in Nat, NEW s
    PROVE  s \in BoundedSeq(S, n) <=> s \in Seq(S) /\ Len(s) <= n
<1>1. ASSUME s \in BoundedSeq(S, n) PROVE s \in Seq(S) /\ Len(s) <= n
  <2>1. PICK m \in 0 .. n : s \in [1 .. m -> S]
    BY <1>1 DEF BoundedSeq, SeqOf
  <2>2. m \in Nat /\ m <= n
    BY <2>1
  <2> QED
    BY <2>1, <2>2
<1>2. ASSUME s \in Seq(S), Len(s) <= n PROVE s \in BoundedSeq(S, n)
  <2>1. Len(s) \in 0 .. n /\ s \in [1 .. Len(s) -> S]
    BY <1>2, LenProperties
  <2> QED
    BY <2>1 DEF BoundedSeq, SeqOf
<1> QED
  BY <1>1, <1>2

(* What is known of the work list, of its head and of its tail.            *)
LEMMA WorkList ==
    ASSUME TypeOK
    PROVE  /\ todo \in Seq(Outputs) /\ Len(todo) \in Nat /\ Len(todo) <= Len(Streams) + Len(Declared)
           /\ DOMAIN todo = 1 .. Len(todo) /\ \A i \in DOMAIN todo : todo[i] \in Outputs
           /\ todo # <<>> =>
                /\ Head(todo) \in Outputs /\ Head(todo) = todo[1] /\ 1 \in DOMAIN todo
                /\ Tail(todo) \in Seq(Outputs) /\ Len(Tail(todo)) = Len(todo) - 1
                /\ DOMAIN Tail(todo) = 1 .. (Len(todo) - 1)
                /\ \A i \in DOMAIN Tail(todo) : i + 1 \in DOMAIN todo /\ Tail(todo)[i] = todo[i + 1]
                /\ \A i \in DOMAIN todo : i # 1 => i - 1 \in DOMAIN Tail(todo) /\ Tail(todo)[i - 1] = todo[i]
<1>1. Len(Streams) + Len(Declared) \in Nat
  BY StreamTypes, OutputAssumption, LenProperties
<1>2. todo \in Seq(Outputs) /\ Len(todo) <= Len(Streams) + Len(Declared)
  BY <1>1, BoundedSequences DEF TypeOK
<1>3. Len(todo) \in Nat /\ DOMAIN todo = 1 .. Len(todo) /\ \A i \in DOMAIN todo : todo[i] \in Outputs
  BY <1>2, LenProperties, ElementOfSeq
<1>4. ASSUME todo # <<>>
      PROVE  /\ Head(todo) \in Outputs /\ Head(todo) = todo[1] /\ 1 \in DOMAIN todo
             /\ Tail(todo) \in Seq(Outputs) /\ Len(Tail(todo)) = Len(todo) - 1
             /\ \A i \in 1 .. Len(Tail(todo)) : Tail(todo)[i] = todo[i + 1]
  <2>1. Len(todo) > 0 /\ Len(todo) # 0
    BY <1>2, <1>3, <1>4, EmptySeq
  <2> QED
    BY <1>2, <1>3, <1>4, <2>1, HeadTailProperties
<1>5. ASSUME todo # <<>> PROVE DOMAIN Tail(todo) = 1 .. (Len(todo) - 1)
  BY <1>4, <1>5, LenProperties
<1> QED
  BY <1>2, <1>3, <1>4, <1>5

(* What redaction leaves of a stream, and the bytes of an output that is   *)
(* there.                                                                  *)
LEMMA RedactedType ==
    ASSUME TypeOK, NEW s \in Range(Streams), NEW n \in Nat
    PROVE  Redacted(s, n) \in Nat
<1>1. hidden[s] = 0 \/ hidden[s] \in SecretSize .. MaxBytes
  BY DEF TypeOK
<1>2. SecretSize \in Nat /\ MaskSize \in Nat /\ SecretSize >= 1 /\ MaxBytes \in Nat
  BY LimitTypes
<1>3. CASE hidden[s] \in 1 .. n
  <2>1. hidden[s] \in Nat /\ SecretSize <= hidden[s] /\ hidden[s] <= n
    BY <1>1, <1>2, <1>3
  <2>2. n - SecretSize + MaskSize \in Nat
    BY <1>2, <2>1
  <2> QED
    BY <1>3, <2>2 DEF Redacted
<1> QED
  BY <1>3 DEF Redacted

LEMMA SizeTypes ==
    ASSUME TypeOK, NEW o \in Outputs, o \in Files => file[o] # NoFile
    PROVE  /\ SizeOf(o) \in Nat /\ Truncated(o) \in BOOLEAN
           /\ o \in Files => SizeOf(o) <= FileLimit /\ (SizeOf(o) = 0 => file[o] = 0)
<1>0. /\ StreamLimit \in Nat /\ FileLimit \in Nat /\ MaxBytes \in Nat /\ FileLimit >= 1
      /\ Files \cap Range(Streams) = {}
  BY LimitTypes, StreamTypes
<1>1. CASE o \in Files
  <2>1. file[o] \in 0 .. (FileLimit + 1)
    BY <1>1 DEF TypeOK, FileSizes
  <2>2. Min({file[o], FileLimit}) = IF file[o] <= FileLimit THEN file[o] ELSE FileLimit
    BY <1>0, <2>1, MinOfTwo
  <2>3. SizeOf(o) = IF file[o] <= FileLimit THEN file[o] ELSE FileLimit
    BY <1>1, <2>2 DEF SizeOf, Length, Limit
  <2> QED
    BY <1>0, <2>1, <2>3 DEF Truncated
<1>2. CASE o \notin Files
  <2>1. o \in Range(Streams)
    BY <1>2 DEF Outputs
  <2>2. captured[o] \in Nat
    <3>1. captured[o] \in 0 .. MaxBytes
      BY <2>1 DEF TypeOK
    <3> QED
      BY <1>0, <3>1
  <2>3. PICK r \in Nat : r = Redacted(o, captured[o])
    BY <2>1, <2>2, RedactedType
  <2>4. Min({r, StreamLimit}) = IF r <= StreamLimit THEN r ELSE StreamLimit
    BY <1>0, MinOfTwo
  <2>5. SizeOf(o) = IF r <= StreamLimit THEN r ELSE StreamLimit
    BY <1>2, <2>3, <2>4 DEF SizeOf, Length, Limit
  <2> QED
    BY <1>0, <1>2, <2>5 DEF Truncated
<1> QED
  BY <1>1, <1>2

LEMMA FirstRequest ==
    ASSUME TypeOK, NEW o \in Outputs, o \in Files => file[o] # NoFile
    PROVE  RequestOf(o, 1) \in Upload
<1>1. 1 \in 1 .. MaxRetries
  BY LimitTypes
<1> QED
  BY <1>1, SizeTypes DEF RequestOf, Upload

(* A later stage of an upload.                                             *)
LEMMA StagedRequest ==
    ASSUME NEW q \in Upload, NEW st \in {"sent", "checked", "saved"}, NEW p, p = [q EXCEPT !.stage = st]
    PROVE  /\ p \in Upload /\ p.output = q.output /\ p.size = q.size /\ p.attempt = q.attempt /\ p.stage = st
           /\ p.truncated = q.truncated
BY DEF Upload

-----------------------------------------------------------------------------
(* What a step can do.                                                     *)

(* The processes touch what is theirs, and only as long as the group lives.*)
LEMMA ProcessEffect ==
    ASSUME TypeOK, Processes
    PROVE  /\ UNCHANGED <<mode, handler, service, faults>> /\ GroupAlive
           /\ leader' = leader \/ (leader \in Alive /\ leader' \in {"zero", "nonzero"})
           /\ rest' \subseteq Kinds /\ alone' \in BOOLEAN
           /\ "running" \in rest' => "running" \in rest \/ stop = "" \/ at = "stopping"
           /\ alone' => alone /\ (leader \in Alive => leader' \in Alive \/ rest' = {})
           /\ written' \in [Range(Streams) -> 0 .. MaxBytes]
           /\ hidden' \in [Range(Streams) -> {0} \cup (SecretSize .. MaxBytes)]
           /\ \A s \in Range(Streams) :
                written[s] <= written'[s] /\ (hidden'[s] = hidden[s] \/ (hidden[s] = 0 /\ hidden'[s] > written[s]))
           /\ file' \in [Files -> FileSizes]
<1>0. /\ written \in [Range(Streams) -> 0 .. MaxBytes] /\ file \in [Files -> FileSizes]
      /\ hidden \in [Range(Streams) -> {0} \cup (SecretSize .. MaxBytes)]
      /\ MaxBytes \in Nat /\ NoisyStreams \subseteq Range(Streams) /\ SecretSize \in Nat
      /\ \A s \in Range(Streams) : written[s] \in Int
      /\ rest \subseteq Kinds /\ alone \in BOOLEAN
  <2>1. /\ written \in [Range(Streams) -> 0 .. MaxBytes] /\ file \in [Files -> FileSizes]
        /\ hidden \in [Range(Streams) -> {0} \cup (SecretSize .. MaxBytes)]
        /\ rest \subseteq Kinds /\ alone \in BOOLEAN
    BY DEF TypeOK
  <2> QED
    BY <2>1, LimitTypes, OutputAssumption
<1>1. ASSUME NEW s \in NoisyStreams, Writes(s)
      PROVE  /\ UNCHANGED <<mode, leader, rest, alone, file, handler, service, faults>> /\ GroupAlive
             /\ written' \in [Range(Streams) -> 0 .. MaxBytes]
             /\ hidden' \in [Range(Streams) -> {0} \cup (SecretSize .. MaxBytes)]
             /\ \A x \in Range(Streams) :
                written[x] <= written'[x] /\ (hidden'[x] = hidden[x] \/ (hidden[x] = 0 /\ hidden'[x] > written[x]))
  <2>1. /\ UNCHANGED <<mode, leader, rest, alone, file, handler, service, faults>> /\ GroupAlive
        /\ written[s] < MaxBytes /\ written' = [written EXCEPT ![s] = written[s] + 1]
        /\ \/ hidden' = hidden
           \/ hidden[s] = 0 /\ written'[s] >= SecretSize /\ hidden' = [hidden EXCEPT ![s] = written'[s]]
    BY <1>1 DEF Writes, group
  <2>2. s \in Range(Streams) /\ written[s] \in 0 .. MaxBytes
    BY <1>0
  <2>3. /\ written' \in [Range(Streams) -> 0 .. MaxBytes] /\ written'[s] = written[s] + 1
        /\ \A x \in Range(Streams) : x # s => written'[x] = written[x]
    BY <1>0, <2>1, <2>2
  <2>4. CASE hidden' = hidden
    BY <1>0, <2>1, <2>2, <2>3, <2>4
  <2>5. CASE hidden[s] = 0 /\ written'[s] >= SecretSize /\ hidden' = [hidden EXCEPT ![s] = written'[s]]
    <3>1. written'[s] \in SecretSize .. MaxBytes
      BY <1>0, <2>1, <2>2, <2>3, <2>5
    <3>2. /\ hidden' \in [Range(Streams) -> {0} \cup (SecretSize .. MaxBytes)] /\ hidden'[s] = written'[s]
          /\ \A x \in Range(Streams) : x # s => hidden'[x] = hidden[x]
      BY <1>0, <2>2, <2>5, <3>1
    <3> QED
      BY <1>0, <2>1, <2>2, <2>3, <2>5, <3>2
  <2> QED
    BY <2>1, <2>4, <2>5
<1>2. ASSUME NEW f \in Files, ChangesFile(f)
      PROVE  /\ UNCHANGED <<mode, leader, rest, alone, written, hidden, handler, service, faults>> /\ GroupAlive
             /\ file' \in [Files -> FileSizes]
  BY <1>0, <1>2 DEF ChangesFile, group, streams
<1>6. ASSUME UNCHANGED streams
      PROVE  \A s \in Range(Streams) :
                written[s] <= written'[s] /\ (hidden'[s] = hidden[s] \/ (hidden[s] = 0 /\ hidden'[s] > written[s]))
  <2>1. written' = written /\ hidden' = hidden
    BY <1>6 DEF streams
  <2>2. \A s \in Range(Streams) : written[s] <= written[s]
    BY <1>0
  <2> QED
    BY <2>1, <2>2
<1>3. CASE Forks
  <2>1. PICK kind \in IF stop = "" \/ at = "stopping" THEN {"running", "deaf"} ELSE {"late"} :
            rest' = rest \cup {kind}
    BY <1>3 DEF Forks
  <2>2. GroupAlive /\ UNCHANGED <<mode, leader, alone, streams, file, handler, service, faults>>
    BY <1>3 DEF Forks
  <2>3. rest' \subseteq Kinds /\ ("running" \in rest' => "running" \in rest \/ stop = "" \/ at = "stopping")
    BY <1>0, <2>1 DEF Kinds
  <2> QED
    BY <1>0, <1>6, <2>2, <2>3 DEF streams
<1>4. CASE LeaderExits
  <2>1. /\ leader \in Alive /\ leader' \in {"zero", "nonzero"} /\ rest' = rest
        /\ UNCHANGED <<mode, streams, file, handler, service, faults>>
        /\ alone' = (alone /\ (leader' \in Alive \/ rest' = {}))
    BY <1>4 DEF LeaderExits, NotesSurvivors
  <2>2. GroupAlive
    BY <2>1 DEF GroupAlive
  <2>3. alone' \in BOOLEAN /\ (alone' => alone /\ (leader' \in Alive \/ rest' = {}))
    BY <1>0, <2>1, Zenon
  <2> QED
    BY <1>0, <1>6, <2>1, <2>2, <2>3 DEF streams
<1>5. CASE OtherExits
  <2>1. \E kind \in rest : rest' = rest \ {kind}
    BY <1>5 DEF OtherExits
  <2>2. UNCHANGED <<mode, leader, alone, streams, file, handler, service, faults>>
    BY <1>5 DEF OtherExits
  <2>3. GroupAlive /\ rest' \subseteq rest
    BY <2>1 DEF GroupAlive
  <2> QED
    BY <1>0, <1>6, <2>2, <2>3 DEF streams
<1> QED
  <2>1. CASE \E s \in NoisyStreams : Writes(s)
    BY <1>0, <1>1, <2>1
  <2>2. CASE \E f \in Files : ChangesFile(f)
    BY <1>0, <1>2, <1>6, <2>2 DEF streams
  <2> QED
    BY <1>3, <1>4, <1>5, <2>1, <2>2 DEF Processes

(* What becomes of the work list, of the attempt and of the upload q.      *)
Moves(q) ==
    /\ \E st \in {"checked", "saved"} : requests' = (requests \ {q}) \cup {[q EXCEPT !.stage = st]}
    /\ UNCHANGED <<todo, attempt>>

Ends(q) == ~Awaits(q) /\ requests' = requests \ {q} /\ UNCHANGED <<todo, attempt>>

Closes(q, others) == Awaits(q) /\ Finished /\ requests' = others

Retries(q, others) ==
    /\ Awaits(q) /\ attempt < MaxRetries /\ faults' = faults + 1 /\ attempt' = attempt + 1
    /\ requests' = others \cup {[q EXCEPT !.attempt = @ + 1, !.stage = "sent"]}
    /\ UNCHANGED todo

Serves(q) == Service(q) \/ UploadTimesOut(q) \/ SaveFails(q) \/ RowFails(q)

LEMMA RetryEffect ==
    ASSUME NEW q, NEW others, Awaits(q), RetryOrGiveUp(q, others), faults' = faults + 1
    PROVE  (Closes(q, others) /\ ~(attempt < MaxRetries)) \/ Retries(q, others)
BY DEF RetryOrGiveUp, Closes, Retries

LEMMA ServerErrorEffect ==
    ASSUME NEW q, ServerError(q), faults' = faults + 1
    PROVE  \/ Ends(q)
           \/ Closes(q, requests \ {q}) /\ ~(attempt < MaxRetries)
           \/ Retries(q, requests \ {q})
<1>1. CASE Awaits(q)
  BY <1>1, RetryEffect DEF ServerError
<1>2. CASE ~Awaits(q)
  BY <1>2 DEF ServerError, Ends
<1> QED
  BY <1>1, <1>2

LEMMA AcceptedEffect ==
    ASSUME NEW q, Accepted(q), requests' = requests \ {q}
    PROVE  Ends(q) \/ Closes(q, requests \ {q})
BY DEF Accepted, Ends, Closes

(* What no upload step touches.                                            *)
LEMMA UploadFrame ==
    ASSUME UploadNext \/ \E q \in requests : Serves(q)
    PROVE  UNCHANGED <<mode, processes, at, stop, verdict, captured, open>>
BY DEF UploadNext, Serves, Service, UploadChecked, UploadSaved, UploadRecorded, UploadTimesOut, SaveFails, RowFails, handler

RowOf(q) == [output |-> q.output, attempt |-> q.attempt, size |-> q.size, truncated |-> q.truncated]

(* The steps of one upload, with what each of them needs and does.         *)
LEMMA ServeEffect ==
    ASSUME NEW q \in requests, Serves(q)
    PROVE  \/ /\ Moves(q) /\ q.stage = "sent" /\ open /\ WithinLimits(q)
              /\ requests' = (requests \ {q}) \cup {[q EXCEPT !.stage = "checked"]}
              /\ UNCHANGED <<rows, total, stored, counted, given, faults>>
           \/ /\ Moves(q) /\ q.stage = "checked" /\ stored' = stored \cup {Key(q)}
              /\ requests' = (requests \ {q}) \cup {[q EXCEPT !.stage = "saved"]}
              /\ UNCHANGED <<rows, total, counted, given, faults>>
           \/ /\ Ends(q) \/ Closes(q, requests \ {q})
              /\ ~(q.size > 0 /\ open /\ WithinLimits(q))
              /\ UNCHANGED <<rows, total, stored, counted, given, faults>>
           \/ /\ q.stage = "saved" /\ rows' = rows \cup {RowOf(q)}
              /\ total' = total + q.size /\ counted' = counted + q.size
              /\ \/ (Ends(q) \/ Closes(q, requests \ {q})) /\ faults' = faults
                 \/ /\ faults < MaxFaults /\ faults' = faults + 1
                    /\ Closes(q, requests \ {q}) \/ Retries(q, requests \ {q})
              /\ UNCHANGED <<stored, given>>
           \/ /\ faults < MaxFaults /\ faults' = faults + 1 /\ given' = TRUE
              /\ (Closes(q, requests) /\ ~(attempt < MaxRetries)) \/ Retries(q, requests)
              /\ UNCHANGED <<rows, total, stored, counted>>
           \/ /\ faults < MaxFaults /\ faults' = faults + 1 /\ UNCHANGED given
              /\ \/ Ends(q)
                 \/ Closes(q, requests \ {q}) /\ ~(attempt < MaxRetries)
                 \/ Retries(q, requests \ {q})
              /\ UNCHANGED <<rows, total, counted>>
              /\ stored' \in {stored, stored \cup {Key(q)}, stored \ {Key(q)}}
<1>1. CASE UploadChecked(q)
  <2>1. CASE q.size > 0 /\ open /\ WithinLimits(q)
    BY <1>1, <2>1 DEF UploadChecked, Moves
  <2>2. CASE ~(q.size > 0 /\ open /\ WithinLimits(q))
    <3>1. /\ requests' = requests \ {q} /\ Accepted(q)
          /\ UNCHANGED <<rows, total, stored, counted, given, faults>>
      BY <1>1, <2>2 DEF UploadChecked
    <3> QED
      BY <2>2, <3>1, AcceptedEffect
  <2> QED
    BY <2>1, <2>2
<1>2. CASE UploadSaved(q)
  BY <1>2 DEF UploadSaved, Moves, handler
<1>3. CASE UploadRecorded(q)
  <2>1. /\ q.stage = "saved" /\ rows' = rows \cup {RowOf(q)}
        /\ total' = total + q.size /\ counted' = counted + q.size
        /\ UNCHANGED <<stored, given>>
    BY <1>3 DEF UploadRecorded, RowOf
  <2>2. CASE requests' = requests \ {q} /\ Accepted(q) /\ UNCHANGED <<given, faults>>
    BY <2>1, <2>2, AcceptedEffect
  <2>3. CASE Awaits(q) /\ faults < MaxFaults /\ faults' = faults + 1 /\ RetryOrGiveUp(q, requests \ {q})
    BY <2>1, <2>3, RetryEffect
  <2> QED
    BY <1>3, <2>2, <2>3 DEF UploadRecorded
<1>4. CASE UploadTimesOut(q)
  <2>1. /\ Awaits(q) /\ faults < MaxFaults /\ faults' = faults + 1 /\ given' = TRUE
        /\ RetryOrGiveUp(q, requests) /\ UNCHANGED <<rows, total, stored, counted>>
    BY <1>4 DEF UploadTimesOut
  <2> QED
    BY <2>1, RetryEffect
<1>5. CASE SaveFails(q) \/ RowFails(q)
  <2>1. /\ faults < MaxFaults /\ faults' = faults + 1 /\ UNCHANGED <<rows, total, counted, given>>
        /\ stored' \in {stored, stored \cup {Key(q)}, stored \ {Key(q)}} /\ ServerError(q)
    BY <1>5 DEF SaveFails, RowFails
  <2> QED
    BY <2>1, ServerErrorEffect
<1> QED
  BY <1>1, <1>2, <1>3, <1>4, <1>5 DEF Serves, Service

-----------------------------------------------------------------------------
(* Typing.                                                                 *)

LEMMA UnchangedType ==
    ASSUME TypeOK, UNCHANGED vars
    PROVE  TypeOK'
BY DEF TypeOK, vars

LEMMA InitialType ==
    ASSUME Init
    PROVE  TypeOK
<1>1. Len(Streams) + Len(Declared) \in Nat /\ <<>> \in Seq(Outputs) /\ Len(<<>>) = 0
  BY StreamTypes, OutputAssumption, LenProperties
<1>2. <<>> \in BoundedSeq(Outputs, Len(Streams) + Len(Declared))
  <2> DEFINE n == Len(Streams) + Len(Declared)
  <2>1. n \in Nat /\ Len(<<>>) <= n
    BY <1>1
  <2> HIDE DEF n
  <2>2. <<>> \in BoundedSeq(Outputs, n)
    BY <1>1, <2>1, BoundedSequences
  <2> QED
    BY <2>2 DEF n
<1>3. IsFiniteSet({})
  BY FS_EmptySet
<1>4. /\ written \in [Range(Streams) -> 0 .. MaxBytes] /\ captured \in [Range(Streams) -> 0 .. MaxBytes]
      /\ hidden \in [Range(Streams) -> {0} \cup (SecretSize .. MaxBytes)] /\ file \in [Files -> FileSizes]
  <2>1. MaxBytes \in Nat /\ 0 \in 0 .. MaxBytes
    BY LimitTypes
  <2>2. written = [s \in Range(Streams) |-> 0] /\ captured = [s \in Range(Streams) |-> 0]
        /\ hidden = [s \in Range(Streams) |-> 0]
    BY DEF Init
  <2>3. file = [f \in Files |-> NoFile] /\ NoFile \in FileSizes
    BY DEF Init, FileSizes
  <2> QED
    BY <2>1, <2>2, <2>3
<1>5. /\ mode \in {"live", "dry_run", "blocked"} /\ leader = "none" /\ rest = {} /\ alone = TRUE
      /\ at = "setup" /\ stop = "" /\ verdict = "" /\ todo = <<>> /\ attempt = 0 /\ requests = {}
      /\ rows = {} /\ stored = {} /\ total = 0 /\ counted = 0 /\ open = TRUE /\ given = FALSE /\ faults = 0
  BY DEF Init
<1> QED
  <2>1. /\ leader \in LeaderStates /\ rest \subseteq Kinds /\ alone \in BOOLEAN /\ at \in Places
        /\ verdict \in Verdicts
        /\ stop \in {"", "timeout", "cancelled"} /\ mode \in {"live", "dry_run", "blocked"}
    BY <1>5 DEF LeaderStates, Places, Verdicts
  <2>2. attempt \in 0 .. MaxRetries /\ faults \in 0 .. MaxFaults /\ {total, counted} \subseteq Nat
    <3>1. 0 \in 0 .. MaxRetries /\ 0 \in 0 .. MaxFaults
      BY LimitTypes
    <3>2. attempt \in 0 .. MaxRetries /\ faults \in 0 .. MaxFaults
      BY <1>5, <3>1
    <3>3. total \in Nat /\ counted \in Nat
      BY <1>5
    <3> QED
      BY <3>2, <3>3
  <2>3. requests \subseteq Upload /\ rows \subseteq Row /\ IsFiniteSet(rows) /\ stored \subseteq Keys
    BY <1>3, <1>5
  <2>4. {open, given} \subseteq BOOLEAN
    BY <1>5
  <2>5. todo \in BoundedSeq(Outputs, Len(Streams) + Len(Declared))
    BY <1>2, <1>5
  <2> QED
    BY <1>4, <2>1, <2>2, <2>3, <2>4, <2>5 DEF TypeOK

LEMMA ProcessType ==
    ASSUME TypeOK, Processes
    PROVE  TypeOK'
<1>1. /\ UNCHANGED <<mode, handler, service, faults>>
      /\ leader' \in LeaderStates /\ rest' \subseteq Kinds /\ alone' \in BOOLEAN
      /\ written' \in [Range(Streams) -> 0 .. MaxBytes]
      /\ hidden' \in [Range(Streams) -> {0} \cup (SecretSize .. MaxBytes)]
      /\ file' \in [Files -> FileSizes]
  BY ProcessEffect DEF TypeOK, LeaderStates
<1> QED
  BY <1>1 DEF TypeOK, handler, service

(* What the sandbox can find, and what it hands to the uploader.           *)
LEMMA OutcomeType ==
    ASSUME TypeOK
    PROVE  Outcome \in Verdicts \ {"", "sandbox_setup_failed"}
<1>1. Defect \in {"", "required_artifact_missing", "action_input_invalid"}
  BY DEF Defect
<1>2. stop \in {"", "timeout", "cancelled"}
  BY DEF TypeOK
<1> QED
  BY <1>1, <1>2 DEF Outcome, Verdicts

LEMMA CollectedType ==
    ASSUME NEW s, s \in Collected \/ s = <<>>
    PROVE  s \in Seq(Files) /\ Len(s) <= Len(Declared) /\ Len(s) \in Nat
<1>0. Len(Declared) \in Nat
  BY OutputAssumption, LenProperties
<1>1. CASE s \in Collected
  <2>1. s \in BoundedSeq(Files, Len(Declared))
    BY <1>1 DEF Collected
  <2> QED
    BY <1>0, <2>1, BoundedSequences, LenProperties
<1>2. CASE s = <<>>
  BY <1>0, <1>2
<1> QED
  BY <1>1, <1>2

LEMMA CollectedWork ==
    ASSUME NEW s \in Seq(Files), Len(s) <= Len(Declared), Len(s) \in Nat
    PROVE  /\ Streams \o s \in BoundedSeq(Outputs, Len(Streams) + Len(Declared))
           /\ Len(Streams \o s) = Len(s) + 2
           /\ DOMAIN (Streams \o s) = 1 .. (Len(s) + 2)
           /\ (Streams \o s)[1] = "stdout" /\ (Streams \o s)[2] = "stderr"
           /\ \A i \in 1 .. Len(s) : (Streams \o s)[i + 2] = s[i] /\ s[i] \in Files
           /\ \A i \in 3 .. (Len(s) + 2) : (Streams \o s)[i] = s[i - 2] /\ s[i - 2] \in Files
<1>1. Streams \in Seq(Outputs) /\ Len(Streams) = 2 /\ Streams[1] = "stdout" /\ Streams[2] = "stderr"
  BY StreamTypes
<1>2. s \in Seq(Outputs) /\ \A i \in 1 .. Len(s) : s[i] \in Files
  <2>1. \A i \in 1 .. Len(s) : s[i] \in Files
    BY ElementOfSeq
  <2>2. Files \subseteq Outputs
    BY DEF Outputs
  <2> QED
    BY <2>1, <2>2, SeqMonotonic
<1>3. /\ Streams \o s \in Seq(Outputs) /\ Len(Streams \o s) = Len(Streams) + Len(s)
      /\ \A i \in 1 .. Len(Streams) + Len(s) :
            (Streams \o s)[i] = IF i <= Len(Streams) THEN Streams[i] ELSE s[i - Len(Streams)]
  BY <1>1, <1>2, ConcatProperties
<1>4. Len(Declared) \in Nat
  BY OutputAssumption, LenProperties
<1>5. Streams \o s \in BoundedSeq(Outputs, Len(Streams) + Len(Declared))
  <2>1. Len(Streams \o s) <= Len(Streams) + Len(Declared) /\ Len(Streams) + Len(Declared) \in Nat
    BY <1>1, <1>3, <1>4
  <2> QED
    BY <1>3, <2>1, BoundedSequences
<1>6. DOMAIN (Streams \o s) = 1 .. (Len(s) + 2) /\ Len(Streams \o s) = Len(s) + 2
  BY <1>1, <1>3, LenProperties
<1>7. \A i \in 1 .. (Len(s) + 2) : (Streams \o s)[i] = IF i <= 2 THEN Streams[i] ELSE s[i - 2]
  BY <1>1, <1>3
<1> DEFINE w == Streams \o s
<1> HIDE DEF w
<1>8. ASSUME NEW i \in 1 .. Len(s) PROVE w[i + 2] = s[i]
  <2>1. i + 2 \in 1 .. (Len(s) + 2) /\ ~(i + 2 <= 2) /\ (i + 2) - 2 = i
    OBVIOUS
  <2> QED
    BY <1>7, <2>1 DEF w
<1>9. ASSUME NEW i \in 3 .. (Len(s) + 2) PROVE w[i] = s[i - 2] /\ i - 2 \in 1 .. Len(s)
  <2>1. i \in 1 .. (Len(s) + 2) /\ ~(i <= 2) /\ i - 2 \in 1 .. Len(s)
    OBVIOUS
  <2> QED
    BY <1>7, <2>1 DEF w
<1>10. w[1] = "stdout" /\ w[2] = "stderr"
  <2>1. 1 \in 1 .. (Len(s) + 2) /\ 1 <= 2 /\ 2 \in 1 .. (Len(s) + 2) /\ 2 <= 2
    OBVIOUS
  <2>2. w[1] = Streams[1] /\ w[2] = Streams[2]
    BY <1>7, <2>1 DEF w
  <2> QED
    BY <1>1, <2>2
<1> QED
  BY <1>2, <1>5, <1>6, <1>8, <1>9, <1>10 DEF w

(* What Collect does.                                                      *)
LEMMA CollectEffect ==
    ASSUME TypeOK, Collect
    PROVE  /\ at = "draining" /\ at' = "uploading" /\ verdict' = Outcome
           /\ captured' \in [Range(Streams) -> 0 .. MaxBytes]
           /\ \A s \in Range(Streams) : captured'[s] \in Capturable(s)
           /\ \E s \in Seq(Files) :
                /\ Len(s) <= Len(Declared) /\ Len(s) \in Nat /\ todo' = Streams \o s
                /\ s \in Uploadable
           /\ UNCHANGED <<mode, processes, stop, attempt, given, service, faults>>
<1>1. PICK s \in Uploadable : todo' = Streams \o s
  BY DEF Collect
<1>2. s \in Collected \/ s = <<>>
  BY <1>1 DEF Uploadable
<1>3. s \in Seq(Files) /\ Len(s) <= Len(Declared) /\ Len(s) \in Nat
  BY <1>2, CollectedType
<1>4. /\ at = "draining" /\ at' = "uploading" /\ verdict' = Outcome
      /\ UNCHANGED <<mode, processes, stop, attempt, given, service, faults>>
  BY DEF Collect
<1>5. /\ captured' \in [Range(Streams) -> 0 .. MaxBytes]
      /\ \A x \in Range(Streams) : captured'[x] \in Capturable(x)
  BY DEF Collect
<1> QED
  BY <1>1, <1>3, <1>4, <1>5

(* The handler's own steps, apart from Collect, the uploads and a crash.   *)
HandlerStep ==
    \/ ExecutionEnds \/ Refuse \/ SetupFails \/ Start \/ WaitReturns
    \/ \E reason \in {"timeout", "cancelled"} : WaitStops(reason)
    \/ Terminate \/ GraceReturns \/ GraceEnds \/ CollectRaises \/ UploadsEnd \/ Clean

LEMMA StepKinds ==
    ASSUME Next
    PROVE  \/ ~Returned /\ Processes
           \/ HandlerStep \/ RunnerCrashes \/ Collect \/ UploadNext
           \/ \E q \in requests : Serves(q)
BY DEF Next, RunnerStep, HandlerStep, Serves

(* Its steps leave uploads, rows and limits alone; the work list changes   *)
(* only when the shell could not be started.                               *)
LEMMA HandlerEffect ==
    ASSUME TypeOK, HandlerStep
    PROVE  /\ UNCHANGED <<mode, streams, captured, attempt, requests, rows, total, stored, counted>>
           /\ todo' = todo \/ (SetupFails /\ todo' = Streams /\ verdict' = "sandbox_setup_failed")
           /\ leader' \in LeaderStates /\ rest' \subseteq rest
           /\ alone' \in BOOLEAN /\ (alone' => alone)
           /\ file' = file \/ (at = "cleaning" /\ at' = "done" /\ file' = [f \in Files |-> NoFile])
           /\ at' \in Places /\ stop' \in {stop, "timeout", "cancelled"}
           /\ verdict' \in {verdict, "succeeded", "policy_blocked", "sandbox_setup_failed"}
           /\ open' \in {open, FALSE} /\ given' = given
           /\ faults' = faults \/ (faults < MaxFaults /\ faults' = faults + 1)
<1>0. leader \in LeaderStates /\ alone \in BOOLEAN /\ at \in Places
  BY DEF TypeOK
<1> USE DEF processes, group, streams
<1>1. CASE ExecutionEnds
  BY <1>0, <1>1 DEF ExecutionEnds, handler
<1>2. CASE Refuse
  BY <1>0, <1>2 DEF Refuse, Return, service, Places
<1>3. CASE SetupFails
  BY <1>0, <1>3 DEF SetupFails, Return, service, Places
<1>4. CASE Start
  BY <1>0, <1>4 DEF Start, service, Places, LeaderStates
<1>5. CASE WaitReturns
  BY <1>0, <1>5 DEF WaitReturns, service, Places
<1>6. ASSUME NEW reason \in {"timeout", "cancelled"}, WaitStops(reason)
      PROVE  /\ UNCHANGED <<mode, processes, verdict, captured, todo, attempt, given, service, faults>>
             /\ at' = "stopping" /\ stop' \in {"timeout", "cancelled"}
  BY <1>6 DEF WaitStops
<1>7. CASE Terminate
  BY <1>0, <1>7 DEF Terminate, NotesSurvivors, service, Places, LeaderStates
<1>8. CASE GraceReturns
  BY <1>0, <1>8 DEF GraceReturns, service, Places
<1>9. CASE GraceEnds
  BY <1>0, <1>9 DEF GraceEnds, NotesSurvivors, service, Places, LeaderStates
<1>10. CASE CollectRaises
  BY <1>0, <1>10 DEF CollectRaises, service, Places
<1>11. CASE UploadsEnd
  BY <1>0, <1>11 DEF UploadsEnd, service, Places
<1>12. CASE Clean
  BY <1>0, <1>12 DEF Clean, service, Places
<1>13. CASE \E reason \in {"timeout", "cancelled"} : WaitStops(reason)
  BY <1>0, <1>6, <1>13 DEF service, Places
<1> QED
  BY <1>1, <1>2, <1>3, <1>4, <1>5, <1>7, <1>8, <1>9, <1>10, <1>11, <1>12, <1>13 DEF HandlerStep

LEMMA EmptyWork == <<>> \in BoundedSeq(Outputs, Len(Streams) + Len(Declared))
<1> DEFINE n == Len(Streams) + Len(Declared)
<1>1. n \in Nat /\ <<>> \in Seq(Outputs) /\ Len(<<>>) <= n
  BY StreamTypes, OutputAssumption, LenProperties
<1> HIDE DEF n
<1>2. <<>> \in BoundedSeq(Outputs, n)
  BY <1>1, BoundedSequences
<1> QED
  BY <1>2 DEF n

(* A crash leaves the processes, the API and its rows alone.               *)
LEMMA CrashType ==
    ASSUME TypeOK, RunnerCrashes
    PROVE  TypeOK'
<1>1. /\ UNCHANGED <<mode, processes, stop, verdict, captured, given, service>>
      /\ at' = "crashed" /\ todo' = <<>> /\ attempt' = 0
      /\ faults < MaxFaults /\ faults' = faults + 1
  BY DEF RunnerCrashes
<1>2. faults' \in 0 .. MaxFaults
  <2>1. faults \in 0 .. MaxFaults /\ MaxFaults \in Nat
    BY LimitTypes DEF TypeOK
  <2> QED
    BY <1>1, <2>1
<1>3. attempt' \in 0 .. MaxRetries
  BY <1>1, LimitTypes
<1>4. todo' \in BoundedSeq(Outputs, Len(Streams) + Len(Declared))
  BY <1>1, EmptyWork
<1>5. at' \in Places
  BY <1>1 DEF Places
<1> QED
  BY <1>1, <1>2, <1>3, <1>4, <1>5 DEF TypeOK, processes, group, streams, service

LEMMA HandlerType ==
    ASSUME TypeOK, HandlerStep
    PROVE  TypeOK'
<1>1. todo' \in BoundedSeq(Outputs, Len(Streams) + Len(Declared))
  <2>1. Streams \o <<>> = Streams
    BY StreamTypes, ConcatEmptySeq
  <2>2. <<>> \in Seq(Files) /\ Len(<<>>) = 0 /\ 0 \in Nat /\ 0 <= Len(Declared)
    BY OutputAssumption, LenProperties
  <2>3. Streams \in BoundedSeq(Outputs, Len(Streams) + Len(Declared))
    BY <2>1, <2>2, CollectedWork
  <2> QED
    BY <2>3, HandlerEffect DEF TypeOK
<1>2. /\ leader' \in LeaderStates /\ rest' \subseteq Kinds /\ alone' \in BOOLEAN
      /\ at' \in Places /\ verdict' \in Verdicts
      /\ stop' \in {"", "timeout", "cancelled"} /\ {open, given}' \subseteq BOOLEAN
  BY HandlerEffect DEF TypeOK, Verdicts
<1>3. faults' \in 0 .. MaxFaults
  <2>1. faults \in 0 .. MaxFaults /\ MaxFaults \in Nat
    BY LimitTypes DEF TypeOK
  <2>2. faults' = faults \/ (faults < MaxFaults /\ faults' = faults + 1)
    BY HandlerEffect
  <2> QED
    BY <2>1, <2>2
<1>4. file' \in [Files -> FileSizes]
  BY HandlerEffect DEF TypeOK, FileSizes
<1>5. UNCHANGED <<mode, streams, captured, attempt, requests, rows, total, stored, counted>>
  BY HandlerEffect
<1> QED
  BY <1>1, <1>2, <1>3, <1>4, <1>5 DEF TypeOK, streams

LEMMA CollectType ==
    ASSUME TypeOK, Collect
    PROVE  TypeOK'
<1>1. PICK s \in Seq(Files) : Len(s) <= Len(Declared) /\ Len(s) \in Nat /\ todo' = Streams \o s
  BY CollectEffect
<1>2. todo' \in BoundedSeq(Outputs, Len(Streams) + Len(Declared))
  BY <1>1, CollectedWork
<1>3. verdict' \in Verdicts /\ at' \in Places
  BY CollectEffect, OutcomeType DEF Places
<1>4. /\ captured' \in [Range(Streams) -> 0 .. MaxBytes]
      /\ UNCHANGED <<mode, processes, stop, attempt, given, service, faults>>
  BY CollectEffect
<1> QED
  BY <1>2, <1>3, <1>4 DEF TypeOK, service, processes, group, streams

(* The uploader's and the service's variables.                             *)
WorkType ==
    /\ todo \in BoundedSeq(Outputs, Len(Streams) + Len(Declared)) /\ attempt \in 0 .. MaxRetries
    /\ requests \subseteq Upload

LEMMA FinishedType ==
    ASSUME TypeOK, todo # <<>>, Finished
    PROVE  todo' \in BoundedSeq(Outputs, Len(Streams) + Len(Declared)) /\ attempt' \in 0 .. MaxRetries
<1> DEFINE n == Len(Streams) + Len(Declared)
<1>1. n \in Nat
  BY StreamTypes, OutputAssumption, LenProperties
<1>2. Tail(todo) \in Seq(Outputs) /\ Len(Tail(todo)) <= n
  BY <1>1, WorkList
<1> HIDE DEF n
<1>3. Tail(todo) \in BoundedSeq(Outputs, n)
  BY <1>1, <1>2, BoundedSequences
<1>4. attempt' \in 0 .. MaxRetries
  BY LimitTypes DEF Finished
<1> QED
  BY <1>3, <1>4 DEF Finished, n

LEMMA UploadWorkType ==
    ASSUME TypeOK, NEW q \in requests, NEW others \in {requests, requests \ {q}},
           Moves(q) \/ Ends(q) \/ Closes(q, others) \/ Retries(q, others)
    PROVE  WorkType'
<1>0. q \in Upload /\ requests \subseteq Upload /\ others \subseteq Upload /\ attempt \in 0 .. MaxRetries
  BY DEF TypeOK
<1>1. CASE Moves(q)
  <2>1. PICK st \in {"checked", "saved"} : requests' = (requests \ {q}) \cup {[q EXCEPT !.stage = st]}
    BY <1>1 DEF Moves
  <2>2. [q EXCEPT !.stage = st] \in Upload
    BY <1>0, StagedRequest
  <2> QED
    BY <1>0, <1>1, <2>1, <2>2 DEF Moves, WorkType, TypeOK
<1>2. CASE Ends(q)
  BY <1>0, <1>2 DEF Ends, WorkType, TypeOK
<1>3. CASE Closes(q, others)
  <2>1. todo # <<>> /\ Finished /\ requests' = others
    BY <1>3 DEF Closes, Awaits
  <2> QED
    BY <1>0, <2>1, FinishedType DEF WorkType
<1>4. CASE Retries(q, others)
  <2>1. /\ attempt < MaxRetries /\ attempt' = attempt + 1 /\ todo' = todo /\ q.attempt = attempt
        /\ requests' = others \cup {[q EXCEPT !.attempt = @ + 1, !.stage = "sent"]}
    BY <1>4 DEF Retries, Awaits
  <2>2. PICK n \in 1 .. MaxRetries : n = attempt + 1
    BY <1>0, <2>1, LimitTypes
  <2>3. PICK p : p = [q EXCEPT !.attempt = @ + 1, !.stage = "sent"]
    OBVIOUS
  <2>4. p = [q EXCEPT !.attempt = n, !.stage = "sent"]
    BY <2>1, <2>2, <2>3
  <2>5. p \in Upload
    BY <1>0, <2>4 DEF Upload
  <2>6. requests' \subseteq Upload
    BY <1>0, <2>1, <2>3, <2>5
  <2>7. attempt' \in 0 .. MaxRetries
    BY <2>1, <2>2
  <2> QED
    BY <2>1, <2>6, <2>7 DEF WorkType, TypeOK
<1> QED
  BY <1>1, <1>2, <1>3, <1>4

LEMMA UploadType ==
    ASSUME TypeOK, UploadNext \/ \E q \in requests : Serves(q)
    PROVE  TypeOK'
<1>0. /\ UNCHANGED <<mode, processes, at, stop, verdict, captured, open>>
      /\ rows \subseteq Row /\ IsFiniteSet(rows) /\ stored \subseteq Keys /\ requests \subseteq Upload
      /\ total \in Nat /\ counted \in Nat /\ faults \in 0 .. MaxFaults /\ MaxFaults \in Nat
      /\ given \in BOOLEAN
  BY UploadFrame, LimitTypes DEF TypeOK
<1>1. ASSUME WorkType', rows' \subseteq Row, IsFiniteSet(rows'), stored' \subseteq Keys, total' \in Nat,
             counted' \in Nat, faults' \in 0 .. MaxFaults, given' \in BOOLEAN
      PROVE  TypeOK'
  BY <1>0, <1>1 DEF TypeOK, WorkType, processes, group, streams
<1>2. CASE UploadNext
  <2>1. /\ at = "uploading" /\ todo # <<>> /\ attempt = 0
        /\ UNCHANGED <<given, rows, total, stored, counted, faults>>
    BY <1>2 DEF UploadNext
  <2>2. CASE Head(todo) \in Files /\ file[Head(todo)] = NoFile
    <3>1. Finished /\ UNCHANGED requests
      BY <1>2, <2>1, <2>2 DEF UploadNext, Finished
    <3>2. WorkType'
      BY <1>0, <2>1, <3>1, FinishedType DEF WorkType
    <3> QED
      BY <1>0, <1>1, <2>1, <3>2
  <2>3. CASE ~(Head(todo) \in Files /\ file[Head(todo)] = NoFile)
    <3>1. /\ attempt' = 1 /\ requests' = requests \cup {RequestOf(Head(todo), 1)} /\ todo' = todo
      BY <1>2, <2>3 DEF UploadNext
    <3>2. RequestOf(Head(todo), 1) \in Upload
      BY <2>1, <2>3, WorkList, FirstRequest
    <3>3. attempt' \in 0 .. MaxRetries
      BY <3>1, LimitTypes
    <3>4. WorkType'
      BY <1>0, <3>1, <3>2, <3>3 DEF WorkType, TypeOK
    <3> QED
      BY <1>0, <1>1, <2>1, <3>4
  <2> QED
    BY <2>2, <2>3
<1>3. ASSUME NEW q \in requests, Serves(q) PROVE TypeOK'
  <2>0. q \in Upload
    BY <1>0
  <2>1. WorkType'
    <3>1. \E others \in {requests, requests \ {q}} : Moves(q) \/ Ends(q) \/ Closes(q, others) \/ Retries(q, others)
      BY <1>3, ServeEffect
    <3> QED
      BY <3>1, UploadWorkType
  <2>2. /\ rows' \in {rows, rows \cup {RowOf(q)}} /\ total' \in {total, total + q.size}
        /\ counted' \in {counted, counted + q.size} /\ stored' \in {stored, stored \cup {Key(q)}, stored \ {Key(q)}}
    BY <1>3, ServeEffect
  <2>3. given' \in {given, TRUE} /\ (faults' = faults \/ (faults < MaxFaults /\ faults' = faults + 1))
    BY <1>3, ServeEffect
  <2>4. RowOf(q) \in Row /\ Key(q) \in Keys /\ q.size \in Nat
    BY <2>0, LimitTypes DEF Upload, RowOf, Row, Key, Keys
  <2>5. rows' \subseteq Row /\ IsFiniteSet(rows')
    BY <1>0, <2>2, <2>4, FS_AddElement
  <2>6. stored' \subseteq Keys
    BY <1>0, <2>2, <2>4
  <2>7. total' \in Nat /\ counted' \in Nat
    BY <1>0, <2>2, <2>4
  <2>8. faults' \in 0 .. MaxFaults
    BY <1>0, <2>3
  <2>9. given' \in BOOLEAN
    BY <1>0, <2>3
  <2> QED
    BY <1>1, <2>1, <2>5, <2>6, <2>7, <2>8, <2>9
<1> QED
  BY <1>2, <1>3

LEMMA StepType ==
    ASSUME TypeOK, [Next]_vars
    PROVE  TypeOK'
BY StepKinds, ProcessType, HandlerType, CrashType, CollectType, UploadType, UnchangedType

(* The parts of the state keep their kinds of values: a size is the size   *)
(* of a stream or file that was there, attempts end with _MAX_RETRIES.     *)
THEOREM TypeCorrect == Spec => []TypeOK
<1>1. Init => TypeOK
  BY InitialType
<1>2. TypeOK /\ [Next]_vars => TypeOK'
  BY StepType
<1> QED
  BY <1>1, <1>2, PTL DEF Spec

-----------------------------------------------------------------------------
(* Phases of the handler.                                                  *)

LEMMA InitialPhase ==
    ASSUME Init
    PROVE  PhaseInv
<1>1. \A s \in Range(Streams) : written[s] = 0 /\ captured[s] = 0
  BY DEF Init
<1> QED
  BY <1>1 DEF Init, PhaseInv, Alive

LEMMA ProcessPhase ==
    ASSUME TypeOK, PhaseInv, ~Returned, Processes
    PROVE  PhaseInv'
<1>0. /\ UNCHANGED <<mode, handler, service, faults>> /\ GroupAlive
      /\ leader' = leader \/ (leader \in Alive /\ leader' \in {"zero", "nonzero"})
      /\ "running" \in rest' => "running" \in rest \/ stop = "" \/ at = "stopping"
      /\ alone' => alone /\ (leader \in Alive => leader' \in Alive \/ rest' = {})
  BY ProcessEffect
<1>1. /\ UNCHANGED <<at, stop, verdict, captured, todo, attempt, given, requests, rows>>
  BY <1>0 DEF handler, service
<1>2. at # "setup"
  BY <1>0 DEF PhaseInv, GroupAlive, Alive
<1>3. at = "draining" \/ verdict # "" => leader' \notin Alive
  BY <1>0 DEF PhaseInv, Alive
<1>4. stop # "" /\ at \notin {"stopping", "crashed"} => "running" \notin rest'
  BY <1>0 DEF PhaseInv
<1>5. leader # "killed" /\ leader' # "killed"
  BY <1>0 DEF PhaseInv, GroupAlive, Alive
<1>6. alone' /\ leader' \notin Alive => rest' = {}
  <2>1. ASSUME alone', leader' \notin Alive, leader \notin Alive PROVE FALSE
    BY <1>0, <2>1 DEF PhaseInv, GroupAlive
  <2> QED
    BY <1>0, <2>1
<1> QED
  BY <1>1, <1>2, <1>3, <1>4, <1>5, <1>6 DEF PhaseInv

LEMMA HandlerPhase ==
    ASSUME TypeOK, PhaseInv, HandlerStep
    PROVE  PhaseInv'
<1> USE DEF PhaseInv, Early, Alive, processes, group, streams
<1>1. CASE ExecutionEnds
  BY <1>1 DEF ExecutionEnds, handler
<1>2. CASE Refuse
  BY <1>2 DEF Refuse, Return, service
<1>3. CASE SetupFails
  BY <1>3 DEF SetupFails, Return, service
<1>4. CASE Start
  BY <1>4 DEF Start, service
<1>5. CASE WaitReturns
  BY <1>5 DEF WaitReturns, service
<1>6. ASSUME NEW reason \in {"timeout", "cancelled"}, WaitStops(reason) PROVE PhaseInv'
  BY <1>6 DEF WaitStops, service
<1>7. CASE Terminate
  BY <1>7 DEF Terminate, NotesSurvivors, service
<1>8. CASE GraceReturns
  BY <1>8 DEF GraceReturns, service
<1>9. CASE GraceEnds
  BY <1>9 DEF GraceEnds, NotesSurvivors, service
<1>10. CASE CollectRaises
  BY <1>10 DEF CollectRaises, service
<1>11. CASE UploadsEnd
  BY <1>11 DEF UploadsEnd, service
<1>12. CASE Clean
  BY <1>12 DEF Clean, service
<1> QED
  BY <1>1, <1>2, <1>3, <1>4, <1>5, <1>6, <1>7, <1>8, <1>9, <1>10, <1>11, <1>12 DEF HandlerStep

LEMMA CrashPhase ==
    ASSUME PhaseInv, RunnerCrashes
    PROVE  PhaseInv'
<1>1. /\ UNCHANGED <<mode, processes, stop, verdict, captured, given, service>>
      /\ at' = "crashed" /\ todo' = <<>> /\ attempt' = 0
  BY DEF RunnerCrashes
<1> QED
  BY <1>1 DEF PhaseInv, Early, processes, group, streams, service

LEMMA CollectPhase ==
    ASSUME TypeOK, PhaseInv, Collect
    PROVE  PhaseInv'
<1>1. /\ at = "draining" /\ at' = "uploading" /\ verdict' = Outcome
      /\ UNCHANGED <<mode, processes, stop, attempt, given, service, faults>>
  BY CollectEffect
<1>2. verdict' # ""
  BY <1>1, OutcomeType
<1> QED
  BY <1>1, <1>2 DEF PhaseInv, Early, processes, group, streams

LEMMA UploadPhase ==
    ASSUME TypeOK, PhaseInv, UploadNext \/ \E q \in requests : Serves(q)
    PROVE  PhaseInv'
<1>1. UNCHANGED <<mode, group, streams, file, at, stop, verdict, captured>>
  BY UploadFrame DEF processes
<1>2. verdict # ""
  <2>1. CASE UploadNext
    BY <2>1 DEF UploadNext, PhaseInv
  <2>2. CASE \E q \in requests : Serves(q)
    BY <2>2 DEF PhaseInv
  <2> QED
    BY <2>1, <2>2
<1>3. at \in {"cleaning", "done"} => todo' = <<>>
  <2>1. CASE UploadNext
    BY <2>1 DEF UploadNext
  <2>2. ASSUME NEW q \in requests, Serves(q) PROVE todo' = todo \/ at = "uploading"
    BY <2>2, ServeEffect DEF Moves, Ends, Closes, Retries, Awaits
  <2> QED
    BY <2>1, <2>2 DEF PhaseInv
<1> QED
  BY <1>1, <1>2, <1>3 DEF PhaseInv, Early, group, streams

LEMMA PhaseInvariant == Spec => []PhaseInv
<1>1. Init => PhaseInv
  BY InitialPhase
<1>2. TypeOK /\ PhaseInv /\ [Next]_vars => PhaseInv'
  <2>1. ASSUME TypeOK, PhaseInv, UNCHANGED vars PROVE PhaseInv'
    BY <2>1 DEF PhaseInv, vars
  <2>2. ASSUME TypeOK, PhaseInv, Next PROVE PhaseInv'
    BY <2>2, StepKinds, ProcessPhase, HandlerPhase, CrashPhase, CollectPhase, UploadPhase
  <2> QED
    BY <2>1, <2>2
<1> QED
  BY <1>1, <1>2, TypeCorrect, PTL DEF Spec

(* Once the sandbox has stopped a command for its deadline or a            *)
(* cancellation, no step of a process it left, of the runner or of the API *)
(* brings a process back that SIGTERM would have ended: the shell is gone, *)
(* a group that had to be killed is gone, and what is left of another one  *)
(* handles the signal or was started after it.                             *)
THEOREM GroupStoppedHolds == Spec => []GroupStopped
<1>1. TypeOK /\ PhaseInv => GroupStopped
  BY DEF TypeOK, PhaseInv, GroupStopped, Places, Early
<1> QED
  BY <1>1, TypeCorrect, PhaseInvariant, PTL

-----------------------------------------------------------------------------
(* What the readers kept.                                                  *)

(* What is kept of a stream that has n bytes.                              *)
Kept(n) == Min({n, StreamLimit})

LEMMA KeptGrows ==
    ASSUME NEW m \in Nat, NEW n \in Nat, m <= n
    PROVE  Kept(m) <= Kept(n) /\ Kept(m) \in Nat
<1>1. /\ Kept(m) = (IF m <= StreamLimit THEN m ELSE StreamLimit) /\ StreamLimit \in Nat
      /\ Kept(n) = (IF n <= StreamLimit THEN n ELSE StreamLimit)
  BY MinOfTwo, LimitTypes DEF Kept
<1> QED
  BY <1>1

LEMMA KeptLess ==
    ASSUME NEW n \in Nat
    PROVE  Kept(n) <= n
<1>1. Kept(n) = (IF n <= StreamLimit THEN n ELSE StreamLimit) /\ StreamLimit \in Nat
  BY MinOfTwo, LimitTypes DEF Kept
<1> QED
  BY <1>1

LEMMA KeptOfNothing == Kept(0) = 0
<1>1. Kept(0) = (IF 0 <= StreamLimit THEN 0 ELSE StreamLimit) /\ StreamLimit \in Nat
  BY MinOfTwo, LimitTypes DEF Kept
<1> QED
  BY <1>1

(* The two halves of StreamInv.                                            *)
AsCaptured ==
    \A x \in requests \cup rows : x.output \in Range(Streams) =>
        x.size = SizeOf(x.output) /\ x.truncated = Truncated(x.output)

AsWritten ==
    verdict # "" => \A s \in Range(Streams) :
        /\ captured[s] <= Kept(written[s])
        /\ alone => captured[s] = Kept(written[s])

LEMMA StreamHalves == StreamInv <=> AsCaptured /\ AsWritten
BY DEF StreamInv, AsCaptured, AsWritten, Kept

LEMMA StreamCounts ==
    ASSUME TypeOK, NEW s \in Range(Streams)
    PROVE  written[s] \in Nat /\ captured[s] \in Nat
<1>1. written[s] \in 0 .. MaxBytes /\ captured[s] \in 0 .. MaxBytes
  BY DEF TypeOK
<1> QED
  BY <1>1

(* The sizes of the streams depend on what was captured alone.             *)
LEMMA SameSizes ==
    ASSUME NEW s \in Range(Streams), Redacted(s, captured[s])' = Redacted(s, captured[s])
    PROVE  SizeOf(s)' = SizeOf(s) /\ Truncated(s)' = Truncated(s)
<1>1. s \notin Files
  BY StreamTypes
<1> QED
  BY <1>1 DEF SizeOf, Truncated, Length, Limit

LEMMA ProcessStream ==
    ASSUME TypeOK, TypeOK', PhaseInv, StreamInv, Processes
    PROVE  StreamInv'
<1>0. /\ UNCHANGED <<captured, requests, rows, verdict>> /\ GroupAlive
      /\ \A s \in Range(Streams) :
            written[s] <= written'[s] /\ (hidden'[s] = hidden[s] \/ (hidden[s] = 0 /\ hidden'[s] > written[s]))
      /\ alone' => alone
      /\ hidden' \in [Range(Streams) -> {0} \cup (SecretSize .. MaxBytes)]
  BY ProcessEffect DEF handler, service
<1>1. ASSUME verdict # "", NEW s \in Range(Streams)
      PROVE  /\ captured[s] <= Kept(written'[s]) /\ ~alone'
             /\ captured[s] \in Nat /\ written[s] \in Nat /\ captured[s] <= written[s]
  <2>1. ~alone
    BY <1>0, <1>1 DEF PhaseInv, GroupAlive
  <2>2. written[s] \in Nat /\ written'[s] \in Nat /\ captured[s] \in Nat /\ written[s] <= written'[s]
    <3>1. written'[s] \in 0 .. MaxBytes
      BY DEF TypeOK
    <3> QED
      BY <1>0, <3>1, StreamCounts
  <2>3. captured[s] <= Kept(written[s])
    BY <1>1, StreamHalves DEF AsWritten
  <2>4. Kept(written[s]) <= Kept(written'[s]) /\ Kept(written[s]) \in Nat /\ Kept(written'[s]) \in Nat
    BY <2>2, KeptGrows
  <2>5. Kept(written[s]) <= written[s]
    BY <2>2, KeptLess
  <2> QED
    BY <1>0, <2>1, <2>2, <2>3, <2>4, <2>5
<1>2. ASSUME verdict # "", NEW s \in Range(Streams)
      PROVE  SizeOf(s)' = SizeOf(s) /\ Truncated(s)' = Truncated(s)
  <2>1. PICK n \in Nat : n = captured[s] /\ n <= written[s] /\ written[s] \in Nat
    BY <1>1, <1>2
  <2>2. hidden'[s] \in 1 .. n <=> hidden[s] \in 1 .. n
    <3>1. hidden'[s] = hidden[s] \/ (hidden[s] = 0 /\ hidden'[s] > written[s])
      BY <1>0
    <3>2. ASSUME hidden'[s] > written[s] PROVE hidden'[s] \notin 1 .. n
      <4>1. hidden'[s] \in Int
        BY <1>0, LimitTypes
      <4> QED
        BY <2>1, <3>2, <4>1
    <3> QED
      BY <3>1, <3>2
  <2>3. CASE hidden'[s] = hidden[s]
    BY <1>0, <2>3, SameSizes DEF Redacted
  <2>4. CASE hidden'[s] # hidden[s]
    <3>1. hidden[s] \notin 1 .. n /\ hidden'[s] \notin 1 .. n
      BY <1>0, <2>2, <2>4
    <3> QED
      BY <1>0, <2>1, <3>1, SameSizes DEF Redacted
  <2> QED
    BY <2>3, <2>4
<1>3. AsCaptured'
  <2>1. ASSUME verdict = "" PROVE AsCaptured'
    BY <1>0, <2>1 DEF PhaseInv, AsCaptured
  <2>2. ASSUME verdict # "" PROVE AsCaptured'
    BY <1>0, <1>2, <2>2, StreamHalves DEF AsCaptured
  <2> QED
    BY <2>1, <2>2
<1>4. AsWritten'
  BY <1>0, <1>1 DEF AsWritten
<1> QED
  BY <1>3, <1>4, StreamHalves, PTL

LEMMA QuietStream ==
    ASSUME StreamInv, UNCHANGED <<written, hidden, captured>>, alone' => alone,
           \A x \in (requests \cup rows)' : x.output \in Range(Streams) =>
                x.size = SizeOf(x.output) /\ x.truncated = Truncated(x.output),
           verdict' # "" => verdict # ""
    PROVE  StreamInv'
<1>1. \A s \in Range(Streams) : SizeOf(s)' = SizeOf(s) /\ Truncated(s)' = Truncated(s)
  BY SameSizes DEF Redacted
<1>2. AsCaptured'
  BY <1>1 DEF AsCaptured
<1>3. AsWritten'
  BY StreamHalves DEF AsWritten
<1> QED
  BY <1>2, <1>3, StreamHalves, PTL

LEMMA HandlerStream ==
    ASSUME TypeOK, PhaseInv, StreamInv, HandlerStep
    PROVE  StreamInv'
<1>0. /\ UNCHANGED <<written, hidden, captured, requests, rows>> /\ (alone' => alone)
  BY HandlerEffect DEF streams
<1>1. CASE verdict' # "" => verdict # ""
  <2>1. \A x \in requests \cup rows : x.output \in Range(Streams) =>
            x.size = SizeOf(x.output) /\ x.truncated = Truncated(x.output)
    BY StreamHalves DEF AsCaptured
  <2> QED
    BY <1>0, <1>1, <2>1, QuietStream
<1>2. CASE verdict = "" /\ verdict' # ""
  <2>1. at = "setup"
    BY <1>2 DEF HandlerStep, ExecutionEnds, Refuse, SetupFails, Start, WaitReturns, WaitStops, Terminate,
                GraceReturns, GraceEnds, CollectRaises, UploadsEnd, Clean, Return, handler
  <2>2. ASSUME NEW s \in Range(Streams) PROVE captured[s] = Kept(written[s]) /\ captured[s] <= Kept(written[s])
    <3>1. written[s] = 0 /\ captured[s] = 0
      BY <2>1 DEF PhaseInv
    <3>2. Kept(written[s]) = 0
      BY <3>1, KeptOfNothing
    <3> QED
      BY <3>1, <3>2
  <2>3. AsWritten'
    BY <1>0, <2>2 DEF AsWritten
  <2>4. requests' = {} /\ rows' = {}
    BY <1>0, <1>2 DEF PhaseInv
  <2>5. AsCaptured'
    BY <2>4 DEF AsCaptured
  <2> QED
    BY <2>3, <2>5, StreamHalves, PTL
<1> QED
  BY <1>1, <1>2

LEMMA CrashStream ==
    ASSUME StreamInv, RunnerCrashes
    PROVE  StreamInv'
<1>1. UNCHANGED <<written, hidden, captured, requests, rows, alone, verdict>>
  BY DEF RunnerCrashes, processes, group, streams, service
<1>2. \A x \in requests \cup rows : x.output \in Range(Streams) =>
            x.size = SizeOf(x.output) /\ x.truncated = Truncated(x.output)
  BY StreamHalves DEF AsCaptured
<1> QED
  BY <1>1, <1>2, QuietStream

LEMMA CollectStream ==
    ASSUME TypeOK, PhaseInv, Collect
    PROVE  StreamInv'
<1>0. /\ at = "draining" /\ requests' = requests /\ rows' = rows /\ alone' = alone /\ written' = written
      /\ \A s \in Range(Streams) : captured'[s] \in Capturable(s)
  BY CollectEffect DEF service, processes, group, streams
<1>1. requests = {} /\ rows = {} /\ leader \notin Alive /\ (alone => rest = {})
  BY <1>0 DEF PhaseInv, Early
<1>2. AsCaptured'
  BY <1>0, <1>1 DEF AsCaptured
<1>3. ASSUME NEW s \in Range(Streams)
      PROVE  captured'[s] <= Kept(written[s]) /\ (alone => captured'[s] = Kept(written[s]))
  <2>1. Kept(written[s]) \in Nat
    BY StreamCounts, KeptGrows
  <2>2. captured'[s] \in IF GroupAlive THEN 0 .. Kept(written[s]) ELSE {Kept(written[s])}
    BY <1>0 DEF Capturable, Kept
  <2>3. alone => ~GroupAlive
    BY <1>1 DEF GroupAlive
  <2> QED
    BY <2>1, <2>2, <2>3
<1>4. AsWritten'
  BY <1>0, <1>3 DEF AsWritten
<1> QED
  BY <1>2, <1>4, StreamHalves, PTL

LEMMA UploadStream ==
    ASSUME TypeOK, StreamInv, UploadNext \/ \E q \in requests : Serves(q)
    PROVE  StreamInv'
<1>0. UNCHANGED <<written, hidden, captured, alone, verdict>>
  BY UploadFrame DEF processes, group, streams
<1>1. \A x \in requests \cup rows : x.output \in Range(Streams) =>
            x.size = SizeOf(x.output) /\ x.truncated = Truncated(x.output)
  BY StreamHalves DEF AsCaptured
<1>2. CASE UploadNext
  <2>1. ASSUME NEW x \in (requests \cup rows)', x.output \in Range(Streams)
        PROVE  x.size = SizeOf(x.output) /\ x.truncated = Truncated(x.output)
    <3>1. x \in requests \cup rows \/ x = RequestOf(Head(todo), 1)
      BY <1>2 DEF UploadNext
    <3>2. ASSUME x = RequestOf(Head(todo), 1)
          PROVE  x.output = Head(todo) /\ x.size = SizeOf(Head(todo)) /\ x.truncated = Truncated(Head(todo))
      BY <3>2 DEF RequestOf
    <3> QED
      BY <1>1, <2>1, <3>1, <3>2
  <2> QED
    BY <1>0, <2>1, QuietStream
<1>3. ASSUME NEW q \in requests, Serves(q) PROVE StreamInv'
  <2>0. q \in Upload
    BY DEF TypeOK
  <2>1. ASSUME NEW x \in (requests \cup rows)'
        PROVE  \/ x \in requests \cup rows
               \/ x.output = q.output /\ x.size = q.size /\ x.truncated = q.truncated
    <3>1. ASSUME x \in rows' PROVE x \in rows \/ x = RowOf(q)
      BY <1>3, <3>1, ServeEffect
    <3>2. ASSUME x \in requests'
          PROVE  \/ x \in requests
                 \/ \E st \in {"checked", "saved"} : x = [q EXCEPT !.stage = st]
                 \/ x = [q EXCEPT !.attempt = @ + 1, !.stage = "sent"]
      BY <1>3, <3>2, ServeEffect DEF Moves, Ends, Closes, Retries
    <3>3. RowOf(q).output = q.output /\ RowOf(q).size = q.size /\ RowOf(q).truncated = q.truncated
      BY DEF RowOf
    <3>4. \A st : /\ [q EXCEPT !.stage = st].output = q.output /\ [q EXCEPT !.stage = st].size = q.size
                  /\ [q EXCEPT !.stage = st].truncated = q.truncated
      BY <2>0 DEF Upload
    <3>5. ASSUME x = [q EXCEPT !.attempt = @ + 1, !.stage = "sent"]
          PROVE  x.output = q.output /\ x.size = q.size /\ x.truncated = q.truncated
      BY <2>0, <3>5 DEF Upload
    <3> QED
      BY <3>1, <3>2, <3>3, <3>4, <3>5
  <2>2. ASSUME NEW x \in (requests \cup rows)', x.output \in Range(Streams)
        PROVE  x.size = SizeOf(x.output) /\ x.truncated = Truncated(x.output)
    <3>1. q.output \in Range(Streams) => q.size = SizeOf(q.output) /\ q.truncated = Truncated(q.output)
      BY <1>1
    <3> QED
      BY <1>1, <2>1, <2>2, <3>1
  <2> QED
    BY <1>0, <2>2, QuietStream
<1> QED
  BY <1>2, <1>3

LEMMA StreamInvariant == Spec => []StreamInv
<1>1. Init => StreamInv
  <2>1. ASSUME Init PROVE AsCaptured /\ AsWritten
    BY <2>1 DEF Init, AsCaptured, AsWritten
  <2> QED
    BY <2>1, StreamHalves
<1>2. TypeOK /\ TypeOK' /\ PhaseInv /\ StreamInv /\ [Next]_vars => StreamInv'
  <2>1. ASSUME StreamInv, UNCHANGED vars PROVE StreamInv'
    <3>1. UNCHANGED <<written, hidden, captured, requests, rows, alone, verdict>>
      BY <2>1 DEF vars
    <3>2. \A x \in requests \cup rows : x.output \in Range(Streams) =>
            x.size = SizeOf(x.output) /\ x.truncated = Truncated(x.output)
      BY <2>1, StreamHalves DEF AsCaptured
    <3> QED
      BY <2>1, <3>1, <3>2, QuietStream
  <2> QED
    BY <2>1, StepKinds, ProcessStream, HandlerStream, CrashStream, CollectStream, UploadStream
<1> QED
  BY <1>1, <1>2, TypeCorrect, PhaseInvariant, PTL DEF Spec

(* What is recorded of a stream is a beginning of what the command wrote,  *)
(* redacted and cut, and all of it up to the limit when no process outlived*)
(* the shell: what was captured is never read again, a secret that         *)
(* appears behind it changes nothing, and every attempt sends the same.    *)
THEOREM StreamAsWrittenHolds == Spec => []StreamAsWritten
<1>1. TypeOK /\ PhaseInv /\ StreamInv => StreamAsWritten
  <2> SUFFICES ASSUME TypeOK, PhaseInv, StreamInv, NEW r \in rows, r.output \in Range(Streams)
               PROVE  \E n \in 0 .. Kept(written[r.output]) :
                        /\ r.size = Min({Redacted(r.output, n), StreamLimit})
                        /\ r.truncated = (Redacted(r.output, n) > StreamLimit)
                        /\ alone => n = Kept(written[r.output])
    BY DEF StreamAsWritten, Kept
  <2>1. verdict # "" /\ r.output \notin Files
    BY StreamTypes DEF PhaseInv
  <2>2. PICK n : n = captured[r.output]
    OBVIOUS
  <2>3. n \in Nat /\ n <= Kept(written[r.output]) /\ (alone => n = Kept(written[r.output]))
    BY <2>1, <2>2, StreamCounts, StreamHalves DEF AsWritten
  <2>4. Kept(written[r.output]) \in Nat
    BY StreamCounts, KeptGrows
  <2>5. n \in 0 .. Kept(written[r.output])
    BY <2>3, <2>4
  <2>6. r.size = SizeOf(r.output) /\ r.truncated = Truncated(r.output)
    BY StreamHalves DEF AsCaptured
  <2>7. /\ r.size = Min({Redacted(r.output, n), StreamLimit})
        /\ r.truncated = (Redacted(r.output, n) > StreamLimit)
    BY <2>1, <2>2, <2>6 DEF SizeOf, Truncated, Length, Limit
  <2> QED
    BY <2>3, <2>5, <2>7
<1> QED
  BY <1>1, TypeCorrect, PhaseInvariant, StreamInvariant, PTL

-----------------------------------------------------------------------------
(* Every upload is one of a kind.                                          *)

(* The parts of KeyInv.                                                    *)
DistinctWork == \A i, j \in DOMAIN todo : todo[i] = todo[j] => i = j

Attempted ==
    \A x \in requests \cup rows : \A i \in DOMAIN todo :
        todo[i] = x.output => i = 1 /\ x.attempt <= attempt

OneOfAKind ==
    /\ \A p, q \in requests : Key(p) = Key(q) => p = q
    /\ \A q \in requests, r \in rows : Key(q) # Key(r)

Backed ==
    /\ \A q \in requests : q.stage = "saved" => Key(q) \in stored
    /\ \A r \in rows : Key(r) \in stored

LEMMA KeyParts == KeyInv <=> DistinctWork /\ Attempted /\ OneOfAKind /\ Backed
BY DEF KeyInv, DistinctWork, Attempted, OneOfAKind, Backed

LEMMA CollectedDistinct ==
    ASSUME NEW s, s \in Collected \/ s = <<>>, NEW i \in 1 .. Len(s), NEW j \in 1 .. Len(s), s[i] = s[j]
    PROVE  i = j
<1>0. s \in Seq(Files) /\ DOMAIN s = 1 .. Len(s) /\ Len(s) \in Nat
  BY CollectedType, LenProperties
<1>1. CASE s = <<>>
  BY <1>0, <1>1
<1>2. ASSUME s \in Collected, NEW k \in DOMAIN s, NEW l \in DOMAIN s, s[k] = s[l], k < l PROVE FALSE
  <2>1. PICK m \in Present(DOMAIN Declared) : s[k] = Declared[m]
    BY <1>2 DEF Collected
  <2>2. m \in DOMAIN Declared /\ DOMAIN Declared = 1 .. Len(Declared)
    BY <2>1, OutputAssumption, LenProperties DEF Present
  <2>3. k < l /\ s[k] = Declared[m] /\ s[l] = Declared[m] => m < m
    BY <1>2, <2>2 DEF Collected
  <2>4. m \in Int
    BY <2>2
  <2> QED
    BY <1>2, <2>1, <2>3, <2>4
<1> QED
  BY <1>0, <1>1, <1>2

LEMMA WorkIsDistinct ==
    ASSUME NEW s, s \in Collected \/ s = <<>>, todo' = Streams \o s
    PROVE  DistinctWork'
<1>0. s \in Seq(Files) /\ Len(s) <= Len(Declared) /\ Len(s) \in Nat
  BY CollectedType
<1> DEFINE w == Streams \o s
<1>1. /\ DOMAIN w = 1 .. (Len(s) + 2) /\ w[1] = "stdout" /\ w[2] = "stderr"
      /\ \A i \in 3 .. (Len(s) + 2) : w[i] = s[i - 2] /\ s[i - 2] \in Files
  BY <1>0, CollectedWork
<1>2. "stdout" \notin Files /\ "stderr" \notin Files
  BY StreamTypes
<1> HIDE DEF w
<1>3. ASSUME NEW i \in DOMAIN w, NEW j \in DOMAIN w, w[i] = w[j] PROVE i = j
  <2>1. CASE i \in 3 .. (Len(s) + 2) /\ j \in 3 .. (Len(s) + 2)
    <3>1. i - 2 \in 1 .. Len(s) /\ j - 2 \in 1 .. Len(s)
      BY <1>0, <2>1
    <3>2. s[i - 2] = s[j - 2]
      BY <1>1, <1>3, <2>1
    <3>3. i - 2 = j - 2
      BY <3>1, <3>2, CollectedDistinct
    <3> QED
      BY <2>1, <3>3
  <2>2. CASE i \in 3 .. (Len(s) + 2) /\ j \notin 3 .. (Len(s) + 2)
    <3>1. j = 1 \/ j = 2
      BY <1>0, <1>1, <2>2
    <3> QED
      BY <1>1, <1>2, <1>3, <2>2, <3>1
  <2>3. CASE i \notin 3 .. (Len(s) + 2) /\ j \in 3 .. (Len(s) + 2)
    <3>1. i = 1 \/ i = 2
      BY <1>0, <1>1, <2>3
    <3> QED
      BY <1>1, <1>2, <1>3, <2>3, <3>1
  <2>4. CASE i \notin 3 .. (Len(s) + 2) /\ j \notin 3 .. (Len(s) + 2)
    <3>1. (i = 1 \/ i = 2) /\ (j = 1 \/ j = 2)
      BY <1>0, <1>1, <2>4
    <3> QED
      BY <1>1, <1>3, <3>1
  <2> QED
    BY <2>1, <2>2, <2>3, <2>4
<1> QED
  BY <1>3 DEF DistinctWork, w

LEMMA AttemptTypes ==
    ASSUME TypeOK
    PROVE  /\ attempt \in 0 .. MaxRetries /\ attempt \in Nat
           /\ \A x \in requests \cup rows : x.attempt \in 1 .. MaxRetries /\ x.attempt \in Nat
<1>1. attempt \in 0 .. MaxRetries /\ \A x \in requests \cup rows : x.attempt \in 1 .. MaxRetries
  BY DEF TypeOK, Upload, Row
<1> QED
  BY <1>1

(* No upload has the next attempt of the output at the head.               *)
LEMMA NextKeyIsNew ==
    ASSUME TypeOK, KeyInv, todo # <<>>, NEW x \in requests \cup rows, x.output = Head(todo)
    PROVE  x.attempt <= attempt /\ x.attempt \in Nat /\ attempt \in Nat /\ x.attempt # attempt + 1
<1>1. x.attempt \in 1 .. MaxRetries /\ attempt \in 0 .. MaxRetries
  BY DEF TypeOK, Upload, Row
<1>2. x.attempt <= attempt
  BY WorkList, KeyParts DEF Attempted
<1> QED
  BY <1>1, <1>2

(* The head is done with: nothing is under way.                            *)
LEMMA FinishedKeys ==
    ASSUME TypeOK, KeyInv, todo # <<>>, Finished,
           \A x \in (requests \cup rows)' : \E y \in requests \cup rows : x.output = y.output
    PROVE  DistinctWork' /\ Attempted'
<1>1. todo' = Tail(todo)
  BY DEF Finished
<1>2. /\ \A i \in DOMAIN Tail(todo) : i + 1 \in DOMAIN todo /\ Tail(todo)[i] = todo[i + 1]
      /\ \A i \in DOMAIN Tail(todo) : i \in Nat /\ i >= 1
  BY WorkList
<1>3. ASSUME NEW i \in DOMAIN Tail(todo), NEW j \in DOMAIN Tail(todo), Tail(todo)[i] = Tail(todo)[j] PROVE i = j
  <2>1. i + 1 = j + 1
    BY <1>2, <1>3, KeyParts DEF DistinctWork
  <2> QED
    BY <1>2, <2>1
<1>4. ASSUME NEW x \in (requests \cup rows)', NEW i \in DOMAIN Tail(todo), Tail(todo)[i] = x.output PROVE FALSE
  <2>1. PICK y \in requests \cup rows : x.output = y.output
    OBVIOUS
  <2>2. i + 1 \in DOMAIN todo /\ todo[i + 1] = y.output
    BY <1>2, <1>4, <2>1
  <2>3. i + 1 = 1
    BY <2>2, KeyParts DEF Attempted
  <2> QED
    BY <1>2, <2>3
<1> QED
  BY <1>1, <1>3, <1>4 DEF DistinctWork, Attempted

(* Nothing but stages changes.                                             *)
LEMMA SameAttempts ==
    ASSUME KeyInv, UNCHANGED <<todo, attempt>>,
           \A x \in (requests \cup rows)' : \E y \in requests \cup rows :
                x.output = y.output /\ x.attempt = y.attempt
    PROVE  DistinctWork' /\ Attempted'
<1>1. DistinctWork /\ Attempted
  BY KeyParts
<1>2. DistinctWork'
  BY <1>1 DEF DistinctWork
<1>3. Attempted'
  BY <1>1 DEF Attempted
<1> QED
  BY <1>2, <1>3

(* The next attempt is under way.                                          *)
LEMMA NextAttempt ==
    ASSUME TypeOK, KeyInv, todo # <<>>, todo' = todo, attempt' = attempt + 1,
           \A x \in (requests \cup rows)' :
                \/ \E y \in requests \cup rows : x.output = y.output /\ x.attempt = y.attempt
                \/ x.output = Head(todo) /\ x.attempt = attempt + 1
    PROVE  DistinctWork' /\ Attempted'
<1>0. DistinctWork /\ Attempted
  BY KeyParts
<1>1. DistinctWork'
  BY <1>0 DEF DistinctWork
<1>2. ASSUME NEW x \in (requests \cup rows)', NEW i \in DOMAIN todo, todo[i] = x.output
      PROVE  i = 1 /\ x.attempt <= attempt + 1
  <2>0. attempt \in Nat /\ 1 \in DOMAIN todo /\ Head(todo) = todo[1]
    BY WorkList, AttemptTypes
  <2>1. ASSUME NEW y \in requests \cup rows, x.output = y.output, x.attempt = y.attempt
        PROVE  i = 1 /\ x.attempt <= attempt + 1
    <3>1. i = 1 /\ y.attempt <= attempt
      BY <1>0, <1>2, <2>1 DEF Attempted
    <3>2. y.attempt \in Nat
      BY AttemptTypes
    <3> QED
      BY <2>0, <2>1, <3>1, <3>2
  <2>2. ASSUME x.output = Head(todo), x.attempt = attempt + 1
        PROVE  i = 1 /\ x.attempt <= attempt + 1
    BY <1>0, <1>2, <2>0, <2>2 DEF DistinctWork
  <2> QED
    BY <2>1, <2>2
<1>3. Attempted'
  BY <1>2 DEF Attempted
<1> QED
  BY <1>1, <1>3

(* What the uploads at work and the rows can have become.                  *)
LEMMA StillOneOfAKind ==
    ASSUME KeyInv, requests' \subseteq requests, rows' = rows
    PROVE  OneOfAKind'
BY KeyParts DEF OneOfAKind, Key

LEMMA RecordedOneOfAKind ==
    ASSUME KeyInv, NEW q \in requests, requests' \subseteq requests \ {q}, rows' = rows \cup {RowOf(q)}
    PROVE  OneOfAKind'
<1>1. Key(RowOf(q)) = Key(q)
  BY DEF Key, RowOf
<1> QED
  BY <1>1, KeyParts DEF OneOfAKind, Key

LEMMA MovedOneOfAKind ==
    ASSUME TypeOK, KeyInv, NEW q \in requests, Moves(q), rows' = rows
    PROVE  OneOfAKind'
<1>1. PICK st \in {"checked", "saved"} : requests' = (requests \ {q}) \cup {[q EXCEPT !.stage = st]}
  BY DEF Moves
<1>2. PICK p : p = [q EXCEPT !.stage = st]
  OBVIOUS
<1>3. p.output = q.output /\ p.attempt = q.attempt
  <2>1. q \in Upload /\ st \in {"sent", "checked", "saved"}
    BY DEF TypeOK
  <2> QED
    BY <1>2, <2>1, StagedRequest
<1>4. Key(p) = Key(q)
  BY <1>3 DEF Key
<1>5. requests' = (requests \ {q}) \cup {p}
  BY <1>1, <1>2
<1> QED
  BY <1>4, <1>5, KeyParts DEF OneOfAKind, Key

(* A new upload, of the attempt that is now under way.                     *)
LEMMA AnotherOneOfAKind ==
    ASSUME TypeOK, KeyInv, todo # <<>>, NEW others, others \subseteq requests, NEW p,
           requests' = others \cup {p}, p.output = Head(todo), p.attempt = attempt + 1,
           \/ rows' = rows
           \/ \E q \in requests : others = requests \ {q} /\ rows' = rows \cup {RowOf(q)}
    PROVE  OneOfAKind'
<1>1. ASSUME NEW x \in requests \cup rows PROVE Key(x) # Key(p)
  <2>1. Key(x) = Key(p) => x.output = p.output /\ x.attempt = p.attempt
    BY DEF Key
  <2> QED
    BY <2>1, NextKeyIsNew
<1>2. CASE rows' = rows
  BY <1>1, <1>2, KeyParts DEF OneOfAKind, Key
<1>3. ASSUME NEW q \in requests, others = requests \ {q}, rows' = rows \cup {RowOf(q)} PROVE OneOfAKind'
  <2>1. Key(RowOf(q)) = Key(q)
    BY DEF Key, RowOf
  <2> QED
    BY <1>1, <1>3, <2>1, KeyParts DEF OneOfAKind, Key
<1> QED
  BY <1>2, <1>3

LEMMA NextRequest ==
    ASSUME TypeOK, NEW q \in requests, NEW others, Retries(q, others)
    PROVE  \E p : /\ requests' = others \cup {p} /\ p.output = q.output /\ p.size = q.size /\ p.stage = "sent"
                  /\ p.attempt = attempt + 1 /\ p.output = Head(todo)
<1>1. q \in Upload /\ q.attempt = attempt /\ Head(todo) = q.output
  BY DEF TypeOK, Retries, Awaits
<1>2. PICK p : p = [q EXCEPT !.attempt = @ + 1, !.stage = "sent"]
  OBVIOUS
<1>3. p.output = q.output /\ p.size = q.size /\ p.stage = "sent" /\ p.attempt = attempt + 1
  BY <1>1, <1>2 DEF Upload
<1> QED
  BY <1>1, <1>2, <1>3 DEF Retries

(* Every upload and row there is after a step was there before, up to its  *)
(* stage, or is the attempt that is now under way.                         *)
LEMMA WorkKeys ==
    ASSUME TypeOK, KeyInv, NEW q \in requests, NEW others \in {requests, requests \ {q}},
           Moves(q) \/ Ends(q) \/ Closes(q, others) \/ Retries(q, others),
           rows' \in {rows, rows \cup {RowOf(q)}}
    PROVE  DistinctWork' /\ Attempted'
<1>0. \A x \in rows' : \E y \in requests \cup rows : x.output = y.output /\ x.attempt = y.attempt
  <2>1. RowOf(q).output = q.output /\ RowOf(q).attempt = q.attempt
    BY DEF RowOf
  <2> QED
    BY <2>1
<1>1. CASE Moves(q)
  <2>1. PICK st \in {"checked", "saved"} : requests' = (requests \ {q}) \cup {[q EXCEPT !.stage = st]}
    BY <1>1 DEF Moves
  <2>2. PICK p : p = [q EXCEPT !.stage = st]
    OBVIOUS
  <2>4. q \in Upload /\ st \in {"sent", "checked", "saved"}
    BY DEF TypeOK
  <2>5. p.output = q.output /\ p.attempt = q.attempt
    BY <2>2, <2>4, StagedRequest
  <2>3. \A x \in requests' : \E y \in requests \cup rows : x.output = y.output /\ x.attempt = y.attempt
    BY <2>1, <2>2, <2>5
  <2> QED
    BY <1>0, <1>1, <2>3, SameAttempts DEF Moves
<1>2. CASE Ends(q)
  <2>1. \A x \in requests' : \E y \in requests \cup rows : x.output = y.output /\ x.attempt = y.attempt
    BY <1>2 DEF Ends
  <2> QED
    BY <1>0, <1>2, <2>1, SameAttempts DEF Ends
<1>3. CASE Closes(q, others)
  <2>1. \A x \in (requests \cup rows)' : \E y \in requests \cup rows : x.output = y.output
    BY <1>0, <1>3 DEF Closes
  <2> QED
    BY <1>3, <2>1, FinishedKeys DEF Closes, Awaits
<1>4. CASE Retries(q, others)
  <2>1. PICK p : requests' = others \cup {p} /\ p.attempt = attempt + 1 /\ p.output = Head(todo)
    BY <1>4, NextRequest
  <2>2. \A x \in (requests \cup rows)' :
                \/ \E y \in requests \cup rows : x.output = y.output /\ x.attempt = y.attempt
                \/ x.output = Head(todo) /\ x.attempt = attempt + 1
    BY <1>0, <2>1
  <2> QED
    BY <1>4, <2>2, NextAttempt DEF Retries, Awaits
<1> QED
  BY <1>1, <1>2, <1>3, <1>4

LEMMA ServeKeys ==
    ASSUME TypeOK, KeyInv, NEW q \in requests, Serves(q)
    PROVE  KeyInv'
<1>0. OneOfAKind /\ Backed /\ q \in Upload
  BY KeyParts DEF TypeOK
<1>1. DistinctWork' /\ Attempted'
  <2>1. \E others \in {requests, requests \ {q}} : Moves(q) \/ Ends(q) \/ Closes(q, others) \/ Retries(q, others)
    BY ServeEffect
  <2>2. rows' \in {rows, rows \cup {RowOf(q)}}
    BY ServeEffect
  <2> QED
    BY <2>1, <2>2, WorkKeys
<1>2. ASSUME OneOfAKind', Backed' PROVE KeyInv'
  BY <1>1, <1>2, KeyParts, PTL
<1>3. ASSUME NEW st \in {"checked", "saved"}, requests' = (requests \ {q}) \cup {[q EXCEPT !.stage = st]},
             rows' = rows, stored' = IF st = "saved" THEN stored \cup {Key(q)} ELSE stored, Moves(q)
      PROVE  KeyInv'
  <2>1. PICK p : p = [q EXCEPT !.stage = st]
    OBVIOUS
  <2>2. p.output = q.output /\ p.attempt = q.attempt /\ p.stage = st
    BY <1>0, <2>1, StagedRequest
  <2>3. Key(p) = Key(q) /\ requests' = (requests \ {q}) \cup {p}
    BY <1>3, <2>1, <2>2 DEF Key
  <2>4. Backed'
    BY <1>0, <1>3, <2>2, <2>3 DEF Backed, Key
  <2> QED
    BY <1>2, <1>3, <2>4, MovedOneOfAKind
<1>4. ASSUME NEW others \in {requests, requests \ {q}}, Ends(q) \/ Closes(q, others), rows' = rows,
             others = requests \ {q} \/ stored' = stored,
             stored' \in {stored, stored \cup {Key(q)}, stored \ {Key(q)}}
      PROVE  KeyInv'
  <2>1. requests' \subseteq requests /\ (q \notin requests' \/ stored' = stored)
    BY <1>4 DEF Ends, Closes
  <2>2. Backed'
    BY <1>0, <1>4, <2>1 DEF Backed, OneOfAKind, Key
  <2> QED
    BY <1>2, <1>4, <2>1, <2>2, StillOneOfAKind
<1>5. ASSUME Ends(q) \/ Closes(q, requests \ {q}), rows' = rows \cup {RowOf(q)}, q.stage = "saved", stored' = stored
      PROVE  KeyInv'
  <2>1. requests' = requests \ {q} /\ Key(RowOf(q)) = Key(q)
    BY <1>5 DEF Ends, Closes, Key, RowOf
  <2>2. Backed'
    BY <1>0, <1>5, <2>1 DEF Backed, Key
  <2> QED
    BY <1>2, <1>5, <2>1, <2>2, RecordedOneOfAKind
<1>6. ASSUME NEW others \in {requests, requests \ {q}}, Retries(q, others),
             others = requests \ {q} \/ (stored' = stored /\ rows' = rows),
             \/ rows' = rows /\ stored' \in {stored, stored \cup {Key(q)}, stored \ {Key(q)}}
             \/ rows' = rows \cup {RowOf(q)} /\ stored' = stored /\ q.stage = "saved"
      PROVE  KeyInv'
  <2>1. PICK p : /\ requests' = others \cup {p} /\ p.output = q.output /\ p.size = q.size /\ p.stage = "sent"
                 /\ p.attempt = attempt + 1 /\ p.output = Head(todo)
    BY <1>6, NextRequest
  <2>2. Key(RowOf(q)) = Key(q)
    BY DEF Key, RowOf
  <2>3. Backed'
    BY <1>0, <1>6, <2>1, <2>2 DEF Backed, OneOfAKind, Key
  <2>4. OneOfAKind'
    <3>1. todo # <<>> /\ others \subseteq requests
      BY <1>6 DEF Retries, Awaits
    <3>2. rows' = rows \/ \E x \in requests : others = requests \ {x} /\ rows' = rows \cup {RowOf(x)}
      BY <1>6
    <3> QED
      BY <2>1, <3>1, <3>2, AnotherOneOfAKind
  <2> QED
    BY <1>2, <2>3, <2>4
<1> QED
  BY <1>3, <1>4, <1>5, <1>6, ServeEffect

LEMMA NextKeys ==
    ASSUME TypeOK, KeyInv, UploadNext
    PROVE  KeyInv'
<1>0. /\ todo # <<>> /\ attempt = 0 /\ rows' = rows /\ stored' = stored
      /\ OneOfAKind /\ Backed
  BY KeyParts DEF UploadNext
<1>1. CASE Head(todo) \in Files /\ file[Head(todo)] = NoFile
  <2>1. Finished /\ requests' = requests
    BY <1>0, <1>1 DEF UploadNext, Finished
  <2>2. DistinctWork' /\ Attempted'
    BY <1>0, <2>1, FinishedKeys
  <2>3. OneOfAKind' /\ Backed'
    BY <1>0, <2>1 DEF OneOfAKind, Backed, Key
  <2> QED
    BY <2>2, <2>3, KeyParts, PTL
<1>2. CASE ~(Head(todo) \in Files /\ file[Head(todo)] = NoFile)
  <2>1. todo' = todo /\ attempt' = attempt + 1 /\ requests' = requests \cup {RequestOf(Head(todo), 1)}
    BY <1>0, <1>2 DEF UploadNext
  <2>2. PICK p : p = RequestOf(Head(todo), 1)
    OBVIOUS
  <2>3. p.output = Head(todo) /\ p.attempt = attempt + 1 /\ p.stage = "sent"
    BY <1>0, <2>2 DEF RequestOf
  <2>4. OneOfAKind'
    BY <1>0, <2>1, <2>2, <2>3, AnotherOneOfAKind
  <2>5. Backed'
    BY <1>0, <2>1, <2>2, <2>3 DEF Backed, Key
  <2>6. DistinctWork' /\ Attempted'
    BY <1>0, <2>1, <2>2, <2>3, NextAttempt
  <2> QED
    BY <2>4, <2>5, <2>6, KeyParts, PTL
<1> QED
  BY <1>1, <1>2

(* Before anything is uploaded there is nothing to compare with.           *)
LEMMA FirstKeys ==
    ASSUME PhaseInv, verdict = "", NEW s, s \in Collected \/ s = <<>>, todo' = Streams \o s,
           UNCHANGED <<requests, rows>>
    PROVE  KeyInv'
<1>1. DistinctWork'
  BY WorkIsDistinct
<1>2. requests' = {} /\ rows' = {}
  BY DEF PhaseInv
<1>3. Attempted' /\ OneOfAKind' /\ Backed'
  BY <1>2 DEF Attempted, OneOfAKind, Backed
<1> QED
  BY <1>1, <1>3, KeyParts, PTL

LEMMA KeyInvariant == Spec => []KeyInv
<1>1. Init => KeyInv
  <2>1. \A i \in DOMAIN <<>> : FALSE
    BY EmptySeq
  <2>2. Init => todo = <<>> /\ requests = {} /\ rows = {}
    BY DEF Init
  <2> QED
    BY <2>1, <2>2 DEF KeyInv
<1>2. TypeOK /\ PhaseInv /\ KeyInv /\ [Next]_vars => KeyInv'
  <2> SUFFICES ASSUME TypeOK, PhaseInv, KeyInv, [Next]_vars PROVE KeyInv'
    OBVIOUS
  <2>1. ASSUME UNCHANGED <<todo, attempt, requests, rows, stored>> PROVE KeyInv'
    BY <2>1 DEF KeyInv, Key
  <2>2. CASE UNCHANGED vars
    BY <2>1, <2>2 DEF vars
  <2>3. CASE Processes
    BY <2>1, <2>3, ProcessEffect DEF handler, service
  <2>4. CASE HandlerStep
    <3>1. CASE SetupFails /\ todo' = Streams
      <4>1. verdict = "" /\ UNCHANGED <<requests, rows>>
        BY <3>1 DEF SetupFails, PhaseInv, Early, service
      <4>2. Streams \o <<>> = Streams
        BY StreamTypes, ConcatEmptySeq
      <4> QED
        BY <3>1, <4>1, <4>2, FirstKeys
    <3> QED
      BY <2>1, <2>4, <3>1, HandlerEffect
  <2>6. CASE RunnerCrashes
    <3>1. todo' = <<>> /\ UNCHANGED <<requests, rows, stored>>
      BY <2>6 DEF RunnerCrashes, service
    <3>2. \A i \in DOMAIN <<>> : FALSE
      BY EmptySeq
    <3> QED
      BY <3>1, <3>2 DEF KeyInv, Key
  <2>5. CASE Collect
    <3>1. PICK s \in Uploadable : todo' = Streams \o s
      BY <2>5 DEF Collect
    <3>2. verdict = "" /\ UNCHANGED <<requests, rows>>
      BY <2>5 DEF Collect, PhaseInv, Early, service
    <3> QED
      BY <3>1, <3>2, FirstKeys DEF Uploadable
  <2> QED
    BY <2>2, <2>3, <2>4, <2>5, <2>6, StepKinds, NextKeys, ServeKeys
<1> QED
  BY <1>1, <1>2, TypeCorrect, PhaseInvariant, PTL DEF Spec

-----------------------------------------------------------------------------
(* The limits.                                                             *)

(* What holds of the upload at work, when nothing was given up.            *)
Orderly ==
    /\ total <= Quota /\ Cardinality(rows) <= StepLimit
    /\ \A p, q \in requests : p = q
    /\ at = "uploading" => \A q \in requests : todo # <<>> /\ Head(todo) = q.output /\ attempt = q.attempt
    /\ \A q \in requests : q.stage \in {"checked", "saved"} =>
        total + q.size <= Quota /\ Cardinality(rows) < StepLimit

LEMMA LimitsAreOrderly == LimitInv <=> (given \/ Orderly)
BY DEF LimitInv, Orderly

LEMMA CountTypes ==
    ASSUME TypeOK
    PROVE  /\ IsFiniteSet(rows) /\ Cardinality(rows) \in Nat /\ total \in Nat /\ counted \in Nat
           /\ \A q \in requests : q.size \in Nat
<1>1. IsFiniteSet(rows) /\ total \in Nat /\ counted \in Nat /\ \A q \in requests : q.size \in Nat
  BY DEF TypeOK, Upload
<1>2. Cardinality(rows) \in Nat
  BY <1>1, FS_CardinalityType
<1> QED
  BY <1>1, <1>2

(* One more row.                                                           *)
LEMMA RowsGrow ==
    ASSUME TypeOK, NEW r
    PROVE  /\ Cardinality(rows) <= Cardinality(rows \cup {r})
           /\ Cardinality(rows \cup {r}) <= Cardinality(rows) + 1
           /\ Cardinality(rows \cup {r}) \in Nat
<1>1. IsFiniteSet(rows) /\ Cardinality(rows) \in Nat
  BY CountTypes
<1>2. Cardinality(rows \cup {r}) = IF r \in rows THEN Cardinality(rows) ELSE Cardinality(rows) + 1
  BY <1>1, FS_AddElement
<1> QED
  BY <1>1, <1>2

LEMMA NextLimits ==
    ASSUME TypeOK, Orderly, UploadNext
    PROVE  Orderly'
<1>0. /\ todo # <<>> /\ attempt = 0 /\ UNCHANGED <<rows, total>> /\ at = "uploading"
  BY DEF UploadNext
<1>1. requests = {}
  <2>1. ASSUME NEW q \in requests PROVE FALSE
    <3>1. q.attempt \in 1 .. MaxRetries
      BY AttemptTypes
    <3>2. attempt = q.attempt
      BY <1>0 DEF Orderly
    <3> QED
      BY <1>0, <3>1, <3>2
  <2> QED
    BY <2>1
<1>2. CASE requests' = {}
  BY <1>0, <1>2 DEF Orderly
<1>3. CASE requests' = {RequestOf(Head(todo), 1)} /\ todo' = todo /\ attempt' = 1
  <2>1. PICK p : p = RequestOf(Head(todo), 1)
    OBVIOUS
  <2>2. p.output = Head(todo) /\ p.attempt = 1 /\ p.stage = "sent"
    BY <2>1 DEF RequestOf
  <2> QED
    BY <1>0, <1>3, <2>1, <2>2 DEF Orderly
<1> QED
  BY <1>0, <1>1, <1>2, <1>3 DEF UploadNext

LEMMA ServeLimits ==
    ASSUME TypeOK, Orderly, ~given', NEW q \in requests, Serves(q)
    PROVE  Orderly'
<1>0. /\ requests \ {q} = {} /\ q \in Upload /\ q.size \in Nat
      /\ at = "uploading" => todo # <<>> /\ Head(todo) = q.output /\ attempt = q.attempt
      /\ total <= Quota /\ Cardinality(rows) <= StepLimit
      /\ q.stage \in {"checked", "saved"} => total + q.size <= Quota /\ Cardinality(rows) < StepLimit
  BY CountTypes DEF Orderly, TypeOK
<1>7. at' = at
  BY UploadFrame
<1>1. ASSUME NEW st \in {"checked", "saved"}, requests' = (requests \ {q}) \cup {[q EXCEPT !.stage = st]},
             Moves(q), UNCHANGED <<rows, total>>,
             total + q.size <= Quota /\ Cardinality(rows) < StepLimit
      PROVE  Orderly'
  <2>1. PICK p : p = [q EXCEPT !.stage = st]
    OBVIOUS
  <2>2. p.output = q.output /\ p.attempt = q.attempt /\ p.stage = st /\ p.size = q.size
    BY <1>0, <2>1, StagedRequest
  <2>3. requests' = {p} /\ todo' = todo /\ attempt' = attempt
    BY <1>0, <1>1, <2>1 DEF Moves
  <2> QED
    BY <1>0, <1>1, <1>7, <2>2, <2>3 DEF Orderly
<1>2. ASSUME Ends(q) \/ Closes(q, requests \ {q}) \/ Retries(q, requests \ {q}),
             total' <= Quota, Cardinality(rows') <= StepLimit
      PROVE  Orderly'
  <2>1. CASE requests' = {}
    BY <1>2, <2>1 DEF Orderly
  <2>2. CASE Retries(q, requests \ {q})
    <3>1. PICK p : /\ requests' = (requests \ {q}) \cup {p} /\ p.output = q.output /\ p.stage = "sent"
                   /\ p.attempt = attempt + 1 /\ p.output = Head(todo)
      BY <2>2, NextRequest
    <3>2. requests' = {p} /\ todo' = todo /\ attempt' = attempt + 1
      BY <1>0, <2>2, <3>1 DEF Retries
    <3>3. todo # <<>>
      BY <2>2 DEF Retries, Awaits
    <3> QED
      BY <1>0, <1>2, <3>1, <3>2, <3>3 DEF Orderly
  <2> QED
    BY <1>0, <1>2, <2>1, <2>2 DEF Ends, Closes
<1>3. ASSUME q.stage = "saved", rows' = rows \cup {RowOf(q)}, total' = total + q.size
      PROVE  total' <= Quota /\ Cardinality(rows') <= StepLimit
  <2>1. total + q.size <= Quota /\ Cardinality(rows) < StepLimit
    BY <1>0, <1>3
  <2>2. /\ Cardinality(rows') <= Cardinality(rows) + 1 /\ Cardinality(rows') \in Nat
        /\ Cardinality(rows) \in Nat /\ StepLimit \in Nat
    BY <1>3, RowsGrow, CountTypes, LimitTypes
  <2> QED
    BY <1>3, <2>1, <2>2
<1>4. given' # TRUE
  OBVIOUS
<1>5. ASSUME rows' = rows, total' = total PROVE total' <= Quota /\ Cardinality(rows') <= StepLimit
  BY <1>0, <1>5
<1>6. WithinLimits(q) => total + q.size <= Quota /\ Cardinality(rows) < StepLimit
  BY DEF WithinLimits
<1> QED
  BY <1>0, <1>1, <1>2, <1>3, <1>4, <1>5, <1>6, ServeEffect

LEMMA LimitInvariant == Spec => []LimitInv
<1>1. Init => LimitInv
  <2>1. ASSUME Init PROVE Orderly
    <3>1. total = 0 /\ rows = {} /\ requests = {}
      BY <2>1 DEF Init
    <3>2. Cardinality(rows) = 0
      BY <3>1, FS_EmptySet
    <3> QED
      BY <3>1, <3>2, LimitTypes DEF Orderly
  <2> QED
    BY <2>1, LimitsAreOrderly
<1>2. TypeOK /\ PhaseInv /\ LimitInv /\ [Next]_vars => LimitInv'
  <2> SUFFICES ASSUME TypeOK, PhaseInv, LimitInv, [Next]_vars, ~given' PROVE Orderly'
    BY LimitsAreOrderly, PTL
  <2>1. given' = given \/ given' = TRUE
    <3>1. CASE UNCHANGED vars
      BY <3>1 DEF vars
    <3>2. CASE Processes
      BY <3>2, ProcessEffect DEF handler
    <3>3. CASE HandlerStep
      BY <3>3, HandlerEffect
    <3>7. CASE RunnerCrashes
      BY <3>7 DEF RunnerCrashes
    <3>4. CASE Collect
      BY <3>4, CollectEffect
    <3>5. CASE UploadNext
      BY <3>5 DEF UploadNext
    <3>6. CASE \E q \in requests : Serves(q)
      BY <3>6, ServeEffect
    <3> QED
      BY <3>1, <3>2, <3>3, <3>4, <3>5, <3>6, <3>7, StepKinds
  <2>2. Orderly
    BY <2>1, LimitsAreOrderly
  <2>3. ASSUME UNCHANGED <<todo, attempt, requests, rows, total>>, at' = "uploading" => at = "uploading"
        PROVE  Orderly'
    BY <2>2, <2>3 DEF Orderly
  <2>4. ASSUME verdict = "", UNCHANGED <<requests, rows, total>> PROVE Orderly'
    BY <2>2, <2>4 DEF Orderly, PhaseInv
  <2>5. CASE UNCHANGED vars
    BY <2>3, <2>5 DEF vars
  <2>6. CASE Processes
    BY <2>3, <2>6, ProcessEffect DEF handler, service
  <2>7. CASE HandlerStep
    <3>1. at' = "uploading" => at = "uploading" \/ verdict = ""
      BY <2>7 DEF HandlerStep, ExecutionEnds, Refuse, SetupFails, Start, WaitReturns, WaitStops, Terminate,
                  GraceReturns, GraceEnds, CollectRaises, UploadsEnd, Clean, Return, handler, PhaseInv, Early
    <3>2. SetupFails => verdict = ""
      BY DEF SetupFails, PhaseInv, Early
    <3>3. UNCHANGED <<attempt, requests, rows, total>> /\ (todo' = todo \/ SetupFails)
      BY <2>7, HandlerEffect
    <3> QED
      BY <2>3, <2>4, <3>1, <3>2, <3>3
  <2>9. CASE RunnerCrashes
    <3>1. at' = "crashed" /\ UNCHANGED <<requests, rows, total>>
      BY <2>9 DEF RunnerCrashes, service
    <3> QED
      BY <2>2, <3>1 DEF Orderly
  <2>8. CASE Collect
    <3>1. verdict = "" /\ UNCHANGED <<requests, rows, total>>
      BY <2>8 DEF Collect, PhaseInv, Early, service
    <3> QED
      BY <2>4, <3>1
  <2> QED
    BY <2>2, <2>5, <2>6, <2>7, <2>8, <2>9, StepKinds, NextLimits, ServeLimits
<1> QED
  BY <1>1, <1>2, TypeCorrect, PhaseInvariant, PTL DEF Spec

(* A row always has its stored file: the clean-up of an attempt that       *)
(* failed takes the file of that attempt alone, however many attempts of   *)
(* the same output are still at work.  And although the limits are checked *)
(* before the file is written and counted after, they hold as long as no   *)
(* upload was given up at work, since one upload waits for the other.      *)
THEOREM RowsBackedHolds == Spec => []RowsBacked
<1>1. KeyInv /\ LimitInv => RowsBacked
  BY DEF KeyInv, LimitInv, RowsBacked
<1> QED
  BY <1>1, KeyInvariant, LimitInvariant, PTL

-----------------------------------------------------------------------------
(* Evidence.                                                               *)

(* The parts of EvidenceInv.                                               *)
RetriesCost == attempt <= faults + 1

FilesFit == \A q \in requests : q.output \in Files => q.size <= FileLimit

Quiet == at = "uploading" /\ alone

FilesStay == Quiet => \A i \in DOMAIN todo : todo[i] \in Files => file[todo[i]] # NoFile

EmptySent == Quiet => \A q \in requests : q.output \in Files /\ q.size = 0 => file[q.output] = 0

Promising ==
    /\ at \in {"uploading", "cleaning"} /\ verdict = "succeeded"
    /\ open /\ faults < MaxRetries /\ alone /\ RoomLeft

Accounted(f) == file[f] # 0 => (\E r \in rows : r.output = f) \/ (\E i \in DOMAIN todo : todo[i] = f)

RequiredAccounted == Promising => \A f \in Required \cap Files : Accounted(f)

LEMMA EvidenceParts == EvidenceInv <=> RetriesCost /\ FilesFit /\ FilesStay /\ EmptySent /\ RequiredAccounted
BY DEF EvidenceInv, RetriesCost, FilesFit, FilesStay, EmptySent, Quiet, RequiredAccounted, Promising, Accounted

LEMMA CostTypes ==
    ASSUME TypeOK
    PROVE  attempt \in Nat /\ faults \in Nat
<1>1. faults \in 0 .. MaxFaults
  BY DEF TypeOK
<1> QED
  BY <1>1, AttemptTypes

(* When the shell is gone no process is left to change the workspace,      *)
(* unless one has outlived it.                                             *)
LEMMA ProcessEvidence ==
    ASSUME TypeOK, PhaseInv, EvidenceInv, Processes
    PROVE  EvidenceInv'
<1>0. /\ UNCHANGED <<mode, handler, service, faults>> /\ GroupAlive /\ (alone' => alone)
  BY ProcessEffect
<1>1. UNCHANGED <<at, verdict, todo, attempt, requests, faults>>
  BY <1>0 DEF handler, service
<1>2. at \in {"uploading", "cleaning"} => ~alone'
  BY <1>0 DEF PhaseInv, GroupAlive
<1>3. RetriesCost' /\ FilesFit'
  BY <1>1, EvidenceParts DEF RetriesCost, FilesFit
<1>4. ~Quiet' /\ ~Promising'
  BY <1>1, <1>2 DEF Quiet, Promising
<1>5. FilesStay' /\ EmptySent' /\ RequiredAccounted'
  BY <1>4 DEF FilesStay, EmptySent, RequiredAccounted
<1> QED
  BY <1>3, <1>5, EvidenceParts, PTL

LEMMA HandlerEvidence ==
    ASSUME TypeOK, PhaseInv, EvidenceInv, HandlerStep
    PROVE  EvidenceInv'
<1>0. /\ UNCHANGED <<mode, attempt, requests, rows, total, counted>>
      /\ alone' => alone
      /\ open' \in {open, FALSE}
      /\ faults' = faults \/ faults' = faults + 1
  BY HandlerEffect
<1>1. RetriesCost' /\ FilesFit'
  <2>1. attempt \in Nat /\ faults \in Nat /\ attempt <= faults + 1
    BY CostTypes, EvidenceParts DEF RetriesCost
  <2>2. attempt' <= faults' + 1
    BY <1>0, <2>1
  <2> QED
    BY <1>0, <2>2, EvidenceParts DEF RetriesCost, FilesFit
<1>2. ASSUME at' \in {"uploading", "cleaning"}
      PROVE  \/ /\ at \in {"uploading", "cleaning"} /\ (at' = "uploading" => at = "uploading")
                /\ UNCHANGED <<verdict, todo, file>>
             \/ verdict' = "sandbox_setup_failed" /\ todo' = Streams /\ requests = {}
  <2>1. CASE ExecutionEnds
    BY <1>2, <2>1 DEF ExecutionEnds, processes, handler
  <2>2. CASE SetupFails
    BY <1>2, <2>2 DEF SetupFails, Return, PhaseInv, Early
  <2>3. CASE UploadsEnd
    BY <1>2, <2>3 DEF UploadsEnd, processes
  <2> QED
    BY <1>2, <2>1, <2>2, <2>3
       DEF HandlerStep, Refuse, Start, WaitReturns, WaitStops, Terminate, GraceReturns, GraceEnds, CollectRaises,
           Clean, Return
<1>3. FilesStay' /\ EmptySent'
  <2> SUFFICES ASSUME Quiet' PROVE FilesStay' /\ EmptySent'
    BY DEF FilesStay, EmptySent
  <2>1. at' = "uploading" /\ alone
    BY <1>0 DEF Quiet
  <2>2. CASE at = "uploading" /\ UNCHANGED <<todo, file>>
    BY <1>0, <2>1, <2>2, EvidenceParts DEF FilesStay, EmptySent, Quiet
  <2>3. CASE todo' = Streams /\ requests = {}
    <3>1. \A i \in DOMAIN Streams : Streams[i] \notin Files
      BY StreamTypes DEF Streams
    <3> QED
      BY <1>0, <2>3, <3>1 DEF FilesStay, EmptySent
  <2> QED
    BY <1>2, <2>1, <2>2, <2>3
<1>4. RequiredAccounted'
  <2>1. ASSUME Promising' PROVE Promising /\ UNCHANGED <<todo, file>>
    <3>1. at \in {"uploading", "cleaning"} /\ UNCHANGED <<verdict, todo, file>>
      BY <1>2, <2>1 DEF Promising
    <3>2. alone /\ open
      BY <1>0, <2>1 DEF Promising
    <3>3. faults < MaxRetries
      <4>1. faults \in Nat /\ MaxRetries \in Nat /\ faults' < MaxRetries
        BY <2>1, CostTypes, LimitTypes DEF Promising
      <4> QED
        BY <1>0, <4>1
    <3>4. RoomLeft
      BY <1>0, <2>1 DEF Promising, RoomLeft
    <3> QED
      BY <2>1, <3>1, <3>2, <3>3, <3>4 DEF Promising
  <2> QED
    BY <1>0, <2>1, EvidenceParts DEF RequiredAccounted, Accounted
<1> QED
  BY <1>1, <1>3, <1>4, EvidenceParts, PTL

LEMMA CrashEvidence ==
    ASSUME TypeOK, EvidenceInv, RunnerCrashes
    PROVE  EvidenceInv'
<1>1. at' = "crashed" /\ attempt' = 0 /\ requests' = requests /\ faults' = faults + 1
  BY DEF RunnerCrashes, service
<1>2. RetriesCost'
  <2>1. faults \in Nat
    BY CostTypes
  <2>2. attempt' <= faults' + 1
    BY <1>1, <2>1
  <2> QED
    BY <2>2 DEF RetriesCost
<1>3. FilesFit' /\ FilesStay' /\ EmptySent' /\ RequiredAccounted'
  BY <1>1, EvidenceParts DEF FilesFit, FilesStay, EmptySent, Quiet, RequiredAccounted, Promising
<1> QED
  BY <1>2, <1>3, EvidenceParts, PTL

(* Every required file was there, or something was wrong.                  *)
LEMMA CollectEvidence ==
    ASSUME TypeOK, PhaseInv, EvidenceInv, Collect
    PROVE  EvidenceInv'
<1>0. verdict' = Outcome /\ UNCHANGED <<file, attempt, requests, faults>> /\ requests = {}
  <2>1. verdict' = Outcome /\ at = "draining" /\ UNCHANGED <<processes, attempt, service, faults>>
    BY CollectEffect
  <2> QED
    BY <2>1 DEF processes, service, PhaseInv, Early
<1>1. PICK s \in Seq(Files) :
        Len(s) <= Len(Declared) /\ Len(s) \in Nat /\ todo' = Streams \o s /\ s \in Uploadable
  BY CollectEffect
<1>2. RetriesCost' /\ FilesFit'
  BY <1>0, EvidenceParts DEF RetriesCost, FilesFit
<1> DEFINE w == Streams \o s
<1>3. /\ DOMAIN w = 1 .. (Len(s) + 2) /\ w[1] = "stdout" /\ w[2] = "stderr"
      /\ \A i \in 1 .. Len(s) : w[i + 2] = s[i]
      /\ \A i \in 3 .. (Len(s) + 2) : w[i] = s[i - 2]
  BY <1>1, CollectedWork
<1>4. DOMAIN s = 1 .. Len(s)
  BY <1>1, LenProperties
<1>5. todo' = w
  BY <1>1
<1> HIDE DEF w
<1>6. ASSUME NEW i \in DOMAIN w, w[i] \in Files PROVE file[w[i]] # NoFile
  <2>1. i \in 3 .. (Len(s) + 2) /\ i - 2 \in DOMAIN s /\ w[i] = s[i - 2]
    <3>1. i # 1 /\ i # 2
      BY <1>3, <1>6, StreamTypes
    <3> QED
      BY <1>1, <1>3, <1>4, <3>1
  <2>2. s \in Collected
    <3>1. s # <<>>
      BY <2>1, EmptySeq
    <3> QED
      BY <1>1, <3>1 DEF Uploadable
  <2>3. PICK m \in Present(DOMAIN Declared) : s[i - 2] = Declared[m]
    BY <2>1, <2>2 DEF Collected
  <2> QED
    BY <2>1, <2>3 DEF Present
<1>7. FilesStay' /\ EmptySent'
  BY <1>0, <1>5, <1>6 DEF FilesStay, EmptySent
<1>8. ASSUME Outcome = "succeeded", NEW f \in Required \cap Files PROVE \E i \in DOMAIN w : w[i] = f
  <2>1. stop = "" /\ Defect = ""
    <3>1. stop = ""
      <4>1. stop \in {"", "timeout", "cancelled"}
        BY DEF TypeOK
      <4>2. stop # "" => Outcome = stop
        BY DEF Outcome
      <4> QED
        BY <1>8, <4>1, <4>2
    <3>2. Defect \in {"", "required_artifact_missing", "action_input_invalid"}
      BY DEF Defect
    <3>3. CASE Defect # ""
      BY <1>8, <3>1, <3>2, <3>3 DEF Outcome
    <3> QED
      BY <3>1, <3>3
  <2>2. PICK m \in DOMAIN Declared : Declared[m] = f
    BY OutputAssumption DEF Files, Range
  <2>3. file[f] # NoFile
    <3>1. {i \in DOMAIN Declared : Missing(i) \/ Refused(i)} = {}
      BY <2>1 DEF Defect
    <3>2. ~Missing(m)
      BY <3>1
    <3> QED
      BY <2>2, <3>2 DEF Missing
  <2>4. m \in Present(DOMAIN Declared)
    BY <2>2, <2>3 DEF Present
  <2>5. s \in Collected
    BY <1>1, <2>1 DEF Uploadable
  <2>6. PICK i \in DOMAIN s : s[i] = f
    BY <2>2, <2>4, <2>5 DEF Collected
  <2>7. i + 2 \in DOMAIN w /\ w[i + 2] = f
    BY <1>1, <1>3, <1>4, <2>6
  <2> QED
    BY <2>7
<1>9. RequiredAccounted'
  BY <1>0, <1>5, <1>8 DEF RequiredAccounted, Promising, Accounted
<1> QED
  BY <1>2, <1>7, <1>9, EvidenceParts, PTL

LEMMA NextEvidence ==
    ASSUME TypeOK, EvidenceInv, UploadNext
    PROVE  EvidenceInv'
<1>0. /\ at = "uploading" /\ todo # <<>> /\ attempt = 0
      /\ UNCHANGED <<at, alone, file, verdict, open, rows, total, counted, faults>>
      /\ RetriesCost /\ FilesFit /\ FilesStay /\ EmptySent /\ RequiredAccounted /\ faults \in Nat
  BY EvidenceParts, CostTypes DEF UploadNext, processes, group
<1>1. CASE Head(todo) \in Files /\ file[Head(todo)] = NoFile
  <2>1. todo' = Tail(todo) /\ UNCHANGED <<attempt, requests>>
    BY <1>1 DEF UploadNext
  <2>2. ~Quiet
    BY <1>0, <1>1, WorkList DEF FilesStay
  <2>3. RetriesCost' /\ FilesFit'
    BY <1>0, <2>1 DEF RetriesCost, FilesFit
  <2>4. FilesStay' /\ EmptySent' /\ RequiredAccounted'
    BY <1>0, <2>2 DEF FilesStay, EmptySent, Quiet, RequiredAccounted, Promising
  <2> QED
    BY <2>3, <2>4, EvidenceParts, PTL
<1>2. CASE ~(Head(todo) \in Files /\ file[Head(todo)] = NoFile)
  <2>1. todo' = todo /\ attempt' = 1 /\ requests' = requests \cup {RequestOf(Head(todo), 1)}
    BY <1>2 DEF UploadNext
  <2>2. PICK p : p = RequestOf(Head(todo), 1)
    OBVIOUS
  <2>3. p.output \in Files => p.size <= FileLimit /\ (p.size = 0 => file[p.output] = 0)
    BY <1>0, <1>2, <2>2, WorkList, SizeTypes DEF RequestOf
  <2>4. FilesFit'
    BY <1>0, <2>1, <2>2, <2>3 DEF FilesFit
  <2>5. RetriesCost'
    BY <1>0, <2>1 DEF RetriesCost
  <2>6. FilesStay' /\ RequiredAccounted'
    BY <1>0, <2>1 DEF FilesStay, Quiet, RequiredAccounted, Promising, Accounted, RoomLeft
  <2>7. EmptySent'
    BY <1>0, <2>1, <2>2, <2>3 DEF EmptySent, Quiet
  <2> QED
    BY <2>4, <2>5, <2>6, <2>7, EvidenceParts, PTL
<1> QED
  BY <1>1, <1>2

LEMMA LessBefore ==
    ASSUME NEW a \in Nat, NEW b \in Nat, NEW c \in Nat, NEW d \in Nat, a <= b, b + c <= d
    PROVE  a + c <= d
OBVIOUS

(* Rows and counters only grow, so room that is left was left before.      *)
LEMMA RoomWasLeft ==
    ASSUME TypeOK, RoomLeft', NEW q \in requests,
           rows' \in {rows, rows \cup {RowOf(q)}}, total' \in {total, total + q.size},
           counted' \in {counted, counted + q.size}
    PROVE  RoomLeft
<1>1. /\ Quota \in Nat /\ DailyQuota \in Nat /\ StepLimit \in Nat /\ FileLimit \in Nat
      /\ total \in Nat /\ counted \in Nat /\ q.size \in Nat /\ Cardinality(rows) \in Nat
  BY LimitTypes, CountTypes
<1>2. Cardinality(rows) <= Cardinality(rows') /\ Cardinality(rows') \in Nat
  <2>1. CASE rows' = rows
    BY <1>1, <2>1
  <2>2. CASE rows' = rows \cup {RowOf(q)}
    BY <2>2, RowsGrow
  <2> QED
    BY <2>1, <2>2
<1>3. total <= total' /\ counted <= counted' /\ total' \in Nat /\ counted' \in Nat
  BY <1>1
<1>4. total' + FileLimit <= Quota /\ counted' + FileLimit <= DailyQuota /\ Cardinality(rows') < StepLimit
  BY DEF RoomLeft
<1> QED
  <2>1. total + FileLimit <= Quota
    BY <1>1, <1>3, <1>4, LessBefore
  <2>2. counted + FileLimit <= DailyQuota
    BY <1>1, <1>3, <1>4, LessBefore
  <2>3. Cardinality(rows) < StepLimit
    BY <1>1, <1>2, <1>4
  <2> QED
    BY <2>1, <2>2, <2>3 DEF RoomLeft

LEMMA ServeEvidence ==
    ASSUME TypeOK, EvidenceInv, NEW q \in requests, Serves(q)
    PROVE  EvidenceInv'
<1>0. /\ UNCHANGED <<at, alone, file, verdict, open>>
      /\ RetriesCost /\ FilesFit /\ FilesStay /\ EmptySent /\ RequiredAccounted /\ q \in Upload
      /\ attempt \in Nat /\ faults \in Nat /\ MaxRetries \in Nat
  BY UploadFrame, EvidenceParts, CostTypes, LimitTypes DEF processes, group, TypeOK
<1>1. /\ \E others \in {requests, requests \ {q}} : Moves(q) \/ Ends(q) \/ Closes(q, others) \/ Retries(q, others)
      /\ rows' \in {rows, rows \cup {RowOf(q)}} /\ total' \in {total, total + q.size}
      /\ counted' \in {counted, counted + q.size} /\ (faults' = faults \/ faults' = faults + 1)
  BY ServeEffect
<1>2. PICK others \in {requests, requests \ {q}} : Moves(q) \/ Ends(q) \/ Closes(q, others) \/ Retries(q, others)
  BY <1>1
<1>3. RetriesCost'
  <2>1. \/ attempt' = attempt \/ attempt' = 0
        \/ attempt' = attempt + 1 /\ faults' = faults + 1
    BY <1>2 DEF Moves, Ends, Closes, Finished, Retries
  <2>2. attempt' <= faults' + 1
    BY <1>0, <1>1, <2>1 DEF RetriesCost
  <2> QED
    BY <2>2 DEF RetriesCost
<1>4. FilesFit' /\ EmptySent'
  <2>1. \A st : [q EXCEPT !.stage = st].output = q.output /\ [q EXCEPT !.stage = st].size = q.size
    BY <1>0 DEF Upload
  <2>2. \A x \in requests' : x \in requests \/ (x.output = q.output /\ x.size = q.size)
    <3>1. CASE Retries(q, others)
      <4>1. PICK p : requests' = others \cup {p} /\ p.output = q.output /\ p.size = q.size
        BY <3>1, NextRequest
      <4> QED
        BY <4>1
    <3> QED
      BY <1>2, <2>1, <3>1 DEF Moves, Ends, Closes
  <2> QED
    BY <1>0, <2>2 DEF FilesFit, EmptySent, Quiet
<1>5. todo' = todo \/ (todo # <<>> /\ todo' = Tail(todo) /\ Head(todo) = q.output /\ Closes(q, others))
  BY <1>2 DEF Moves, Ends, Closes, Finished, Retries, Awaits
<1>6. ASSUME NEW i \in DOMAIN todo' PROVE \E j \in DOMAIN todo : todo[j] = todo'[i]
  BY <1>5, WorkList
<1>7. FilesStay'
  BY <1>0, <1>6 DEF FilesStay, Quiet
<1>8. ASSUME Promising' PROVE Promising
  <2>1. RoomLeft
    BY <1>1, <1>8, RoomWasLeft DEF Promising
  <2>2. faults < MaxRetries
    <3>1. faults' < MaxRetries
      BY <1>8 DEF Promising
    <3> QED
      BY <1>0, <1>1, <3>1
  <2> QED
    BY <1>0, <1>8, <2>1, <2>2 DEF Promising
<1>9. ASSUME Promising', NEW f \in Required \cap Files PROVE Accounted(f)'
  <2>0. CASE file[f] = 0
    BY <1>0, <2>0 DEF Accounted
  <2>1. CASE \E r \in rows : r.output = f
    BY <1>1, <2>1 DEF Accounted
  <2>2. ASSUME NEW i \in DOMAIN todo, todo[i] = f, file[f] # 0 PROVE Accounted(f)'
    <3>1. CASE todo' = todo
      BY <2>2, <3>1 DEF Accounted
    <3>2. CASE todo # <<>> /\ todo' = Tail(todo) /\ Head(todo) = q.output /\ Closes(q, others)
      <4>1. CASE i # 1
        BY <2>2, <3>2, <4>1, WorkList DEF Accounted
      <4>2. CASE i = 1
        <5>1. q.output = f /\ f \in Files
          BY <2>2, <3>2, <4>2, WorkList
        <5>2. q.size <= FileLimit /\ q.size \in Nat
          BY <1>0, <5>1, CountTypes DEF FilesFit
        <5>9. q.size > 0
          <6>1. Quiet
            BY <1>8, <1>9, <3>2 DEF Quiet, Promising, Closes, Awaits
          <6>2. q.size # 0
            BY <1>0, <2>2, <5>1, <6>1 DEF EmptySent
          <6> QED
            BY <5>2, <6>2
        <5>3. WithinLimits(q) /\ open
          <6>1. RoomLeft /\ open
            BY <1>8, <1>9 DEF Promising
          <6>2. total \in Nat /\ counted \in Nat /\ FileLimit \in Nat /\ Quota \in Nat /\ DailyQuota \in Nat
            BY CountTypes, LimitTypes
          <6> QED
            BY <5>2, <6>1, <6>2 DEF RoomLeft, WithinLimits
        <5>4. attempt <= faults + 1 /\ faults' < MaxRetries
          BY <1>0, <1>9 DEF RetriesCost, Promising
        <5>5. ~(faults' = faults + 1 /\ ~(attempt < MaxRetries))
          BY <1>0, <5>4
        <5>6. ~Moves(q) /\ ~Ends(q) /\ \A o : ~Retries(q, o)
          <6>1. todo' # todo
            <7>1. Len(Tail(todo)) = Len(todo) - 1 /\ Len(todo) \in Nat
              BY <3>2, WorkList
            <7>2. Len(Tail(todo)) # Len(todo)
              BY <7>1
            <7> QED
              BY <3>2, <7>2
          <6> QED
            BY <6>1 DEF Moves, Ends, Retries
        <5>7. rows' = rows \cup {RowOf(q)}
          BY <5>3, <5>5, <5>6, <5>9, ServeEffect
        <5>8. RowOf(q) \in rows' /\ RowOf(q).output = f
          BY <5>1, <5>7 DEF RowOf
        <5> QED
          BY <5>8 DEF Accounted
      <4> QED
        BY <4>1, <4>2
    <3> QED
      BY <1>5, <3>1, <3>2
  <2> QED
    BY <1>0, <1>8, <1>9, <2>0, <2>1, <2>2 DEF RequiredAccounted, Accounted
<1>10. RequiredAccounted'
  BY <1>9 DEF RequiredAccounted
<1> QED
  BY <1>3, <1>4, <1>7, <1>10, EvidenceParts, PTL

LEMMA EvidenceInvariant == Spec => []EvidenceInv
<1>1. Init => EvidenceInv
  <2> SUFFICES ASSUME Init PROVE EvidenceInv
    OBVIOUS
  <2>1. at = "setup" /\ attempt = 0 /\ faults = 0 /\ requests = {}
    BY DEF Init
  <2>2. 0 <= 0 + 1
    OBVIOUS
  <2>3. RetriesCost
    BY <2>1, <2>2, Zenon DEF RetriesCost
  <2>4. FilesFit /\ FilesStay /\ EmptySent /\ RequiredAccounted
    BY <2>1 DEF FilesFit, FilesStay, EmptySent, Quiet, RequiredAccounted, Promising
  <2> QED
    BY <2>3, <2>4, EvidenceParts
<1>2. TypeOK /\ PhaseInv /\ EvidenceInv /\ [Next]_vars => EvidenceInv'
  <2>1. ASSUME EvidenceInv, UNCHANGED vars PROVE EvidenceInv'
    BY <2>1 DEF EvidenceInv, RoomLeft, vars
  <2> QED
    BY <2>1, StepKinds, ProcessEvidence, HandlerEvidence, CrashEvidence, CollectEvidence, NextEvidence, ServeEvidence
<1> QED
  BY <1>1, <1>2, TypeCorrect, PhaseInvariant, PTL DEF Spec

(* When the uploads of a command that succeeded are over, every required   *)
(* file with bytes in it has a row, unless the execution ended, the limits *)
(* leave no room for it, a process that outlived the shell may have        *)
(* changed it, or as many things failed as the uploader makes attempts: a  *)
(* failure costs an attempt, not the file.                                 *)
THEOREM EvidenceCompleteHolds == Spec => []EvidenceComplete
<1>1. PhaseInv /\ EvidenceInv => EvidenceComplete
  <2> SUFFICES ASSUME PhaseInv, EvidenceInv, at = "cleaning", Promising, NEW f \in Required \cap Files, file[f] # 0
               PROVE  \E r \in rows : r.output = f
    BY DEF EvidenceComplete, Promising
  <2>1. todo = <<>> /\ \A i \in DOMAIN <<>> : FALSE
    <3>1. \A i \in DOMAIN <<>> : FALSE
      BY EmptySeq
    <3> QED
      BY <3>1 DEF PhaseInv
  <2> QED
    BY <2>1, EvidenceParts DEF RequiredAccounted, Accounted
<1> QED
  BY <1>1, PhaseInvariant, EvidenceInvariant, PTL
=============================================================================
