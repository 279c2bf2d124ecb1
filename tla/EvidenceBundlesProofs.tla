----------------------- MODULE EvidenceBundlesProofs -----------------------
(***************************************************************************)
(* Machine-checked proofs about EvidenceBundles, for any numbers of        *)
(* workers, bundle versions, exports, holds, artifacts, redaction policies *)
(* and faults.                                                             *)
(***************************************************************************)
EXTENDS EvidenceBundles, FiniteSetTheorems, TLAPS

-----------------------------------------------------------------------------
(* Rows, files and tasks.                                                  *)

(* The contents that have all the sections which are always there.         *)
Listed == {c \in Contents : Always \subseteq DOMAIN c}

BundleRow == [status : BundleStatus, completeness : Completeness, items : Listed,
              package : Package \cup {NoPackage}, erased : BOOLEAN]

ExportRow == [status : ExportStatus, of : Bundles \cup {0}, policy : Seq(Rules), done : Nat,
              package : Package \cup {NoPackage}, view : [Paths -> Entry], erased : BOOLEAN]

HoldRow == [status : HoldStatus, on : Bundles \cup {0}]

Sealing == {"sealing", "written"}
Sealed == {"emitting", "unwinding", "defect"}
Exporting == {"exporting", "exported"}
Cleaning == {"cleaning", "erasing"}
Stages == {"idle"} \cup Sealing \cup Sealed \cup Exporting \cup Cleaning

TaskRow == [at : Stages, row : Stored \cup {0}, package : Package \cup {NoPackage}]

(* The types of the rows, and the rows that a worker's stage works on.     *)
RowTypes ==
    /\ edits \in 0 .. MaxEdits /\ refers \in BOOLEAN
    /\ bundle \in [Bundles -> BundleRow]
    /\ export \in [Exports -> ExportRow]
    /\ hold \in [Holds -> HoldRow]
    /\ due \subseteq Stored
    /\ files \in [Stored -> Package \cup {NoFile, Garbage}]
    /\ task \in [Workers -> TaskRow]
    /\ \A b \in Bundles : bundle[b].status = "sealed" => bundle[b].package \in Package
    /\ \A x \in Exports : export[x].done <= Len(export[x].policy)
    /\ \A w \in Workers :
          /\ task[w].at \in Sealing => task[w].row \in Bundles /\ task[w].package \in Package
          /\ task[w].at \in Sealed => task[w].row \in Bundles
          /\ task[w].at \in Exporting => task[w].row \in Exports /\ task[w].package \in Package
          /\ task[w].at \in Cleaning => task[w].row \in Stored

LEMMA NoPackageIsNone == NoPackage \notin Package
<1>1. ASSUME NEW p \in Package, p = NoPackage PROVE FALSE
  <2>1. DOMAIN p = {"by", "entries"}
    BY DEF Package
  <2>2. DOMAIN p = {"by"}
    BY <1>1 DEF NoPackage
  <2> QED
    BY <2>1, <2>2
<1> QED
  BY <1>1

LEMMA InitialRows ==
    /\ NoBundle \in BundleRow /\ NoExport \in ExportRow
    /\ [status |-> "none", on |-> 0] \in HoldRow /\ Idle \in TaskRow
    /\ Idle.at = "idle"
<1>1. 0 \in 0 .. MaxEdits
  BY EvidenceAssumption
<1>2. NoBundle \in BundleRow
  <2>1. [s \in Always |-> 0] \in [Always -> 0 .. MaxEdits] /\ Always \in SUBSET Sections
    BY <1>1 DEF Sections
  <2>2. [s \in Always |-> 0] \in Listed
    BY <2>1 DEF Listed, Contents
  <2> QED
    BY <2>2 DEF NoBundle, BundleRow, BundleStatus, Completeness
<1>3. NoExport \in ExportRow
  <2>1. SourceView \in [Paths -> Entry]
    BY DEF SourceView, Entry
  <2> QED
    BY <2>1 DEF NoExport, ExportRow, ExportStatus, Rules
<1> QED
  BY <1>2, <1>3 DEF HoldRow, HoldStatus, Idle, TaskRow, Stages

(* The sections of the sources, and the items after a sealing.             *)
LEMMA SectionsTyped ==
    ASSUME edits \in 0 .. MaxEdits, NEW cutoff \in 0 .. MaxEdits
    PROVE  SourceSections(cutoff) \in Listed /\ DOMAIN SourceSections(cutoff) = Present
<1>1. Present \in SUBSET Sections /\ Always \subseteq Present
  BY DEF Present, Sections
<1>2. SourceSections(cutoff) \in [Present -> 0 .. MaxEdits]
  BY DEF SourceSections
<1>3. DOMAIN SourceSections(cutoff) = Present
  BY DEF SourceSections
<1> QED
  BY <1>1, <1>2, <1>3 DEF Listed, Contents

LEMMA SyncedTyped ==
    ASSUME NEW items \in Listed, NEW entries \in Contents
    PROVE  /\ SyncedItems(items, entries) \in Listed
           /\ DOMAIN SyncedItems(items, entries) = DOMAIN items
<1>1. PICK D \in SUBSET Sections : items \in [D -> 0 .. MaxEdits]
  BY DEF Listed, Contents
<1>2. PICK E \in SUBSET Sections : entries \in [E -> 0 .. MaxEdits]
  BY DEF Contents
<1>3. DOMAIN items = D /\ DOMAIN entries = E /\ Always \subseteq D
  BY <1>1, <1>2 DEF Listed
<1>4. SyncedItems(items, entries) = [s \in D |-> IF s \in E THEN entries[s] ELSE items[s]]
  BY <1>3 DEF SyncedItems
<1>5. SyncedItems(items, entries) \in [D -> 0 .. MaxEdits]
  BY <1>1, <1>2, <1>4
<1> QED
  BY <1>3, <1>4, <1>5 DEF Listed, Contents

(* What a rule makes of a view, and what the export adds, is a view.       *)
LEMMA ViewsTyped ==
    ASSUME NEW view \in [Paths -> Entry]
    PROVE  /\ \A rule \in Rules : ApplyRule(view, rule) \in [Paths -> Entry]
           /\ ExportEntries(view) \in [Paths -> Entry]
<1>1. ASSUME NEW rule \in Rules, NEW q \in Paths
      PROVE  Treated(view[q], rule, q) \in Entry
  <2>1. view[q] \in Entry
    OBVIOUS
  <2> DEFINE left == view[q].shown \ Hidden(rule, q)
  <2>2. left \in SUBSET Values
    BY <2>1 DEF Entry
  <2>3. [view[q] EXCEPT !.shown = left] \in Entry
    <3> HIDE DEF left
    <3> QED
      BY <2>1, <2>2 DEF Entry
  <2>4. [form |-> "withheld", shown |-> {}] \in Entry /\ [form |-> "notice", shown |-> {}] \in Entry
    BY DEF Entry
  <2> QED
    BY <2>3, <2>4 DEF Treated
<1>2. [form |-> "export", shown |-> {}] \in Entry
  BY DEF Entry
<1> QED
  BY <1>1, <1>2 DEF ApplyRule, ExportEntries

(* Which handlers write which columns.                                     *)
LEMMA ColumnSteps ==
    ASSUME [Next]_vars
    PROVE  /\ UNCHANGED <<edits, refers>> \/ SourcesChange
           /\ \/ UNCHANGED bundle
              \/ \E b \in Bundles : CreateBundle(b) \/ InvalidateBundle(b)
              \/ \E w \in Workers : SealCommit(w) \/ InvalidateDefect(w) \/ CleanCommit(w)
           /\ \/ UNCHANGED export
              \/ \E w \in Workers, x \in Exports, b \in Bundles, policy \in Policies :
                    ExportBegin(w, x, b, policy)
              \/ \E w \in Workers : \/ ExportRule(w) \/ ExportWrite(w)
                                    \/ ExportReady(w) \/ ExportFails(w) \/ CleanCommit(w)
           /\ \/ UNCHANGED hold
              \/ \E h \in Holds, b \in Bundles : CreateHold(h, b)
              \/ \E h \in Holds : ReleaseHold(h)
           /\ UNCHANGED due \/ \E r \in Stored : Lapse(r)
           /\ \/ UNCHANGED files
              \/ \E w \in Workers : \/ SealWrite(w) \/ SealWriteFails(w) \/ SealUnwind(w)
                                    \/ ExportWrite(w) \/ ExportFails(w) \/ CleanErase(w)
           /\ UNCHANGED unwound \/ \E w \in Workers : SealUnwind(w) \/ ExportFails(w)
           /\ UNCHANGED task \/ \E w \in Workers : WorkerStep(w)
<1> USE DEF sources
<1>1. CASE UNCHANGED vars
  BY <1>1 DEF vars
<1>2. CASE ChangeCloses \/ SourcesChange \/ \E a \in Artifacts : LoseArtifact(a)
  BY <1>2 DEF ChangeCloses, SourcesChange, LoseArtifact
<1>3. ASSUME NEW b \in Bundles, CreateBundle(b) \/ InvalidateBundle(b)
      PROVE  UNCHANGED <<edits, refers, export, hold, due, files, task, unwound>>
  BY <1>3 DEF CreateBundle, InvalidateBundle
<1>4. ASSUME \/ \E h \in Holds, b \in Bundles : CreateHold(h, b)
             \/ \E h \in Holds : ReleaseHold(h)
      PROVE  UNCHANGED <<edits, refers, bundle, export, due, files, task, unwound>>
  BY <1>4 DEF CreateHold, ReleaseHold
<1>5. ASSUME NEW r \in Stored, Lapse(r)
      PROVE  UNCHANGED <<edits, refers, bundle, export, hold, files, task, unwound>>
  BY <1>5 DEF Lapse
<1>6. ASSUME NEW w \in Workers, WorkerStep(w)
      PROVE  /\ UNCHANGED <<edits, refers, hold, due>>
             /\ UNCHANGED bundle \/ SealCommit(w) \/ InvalidateDefect(w) \/ CleanCommit(w)
             /\ \/ UNCHANGED export
                \/ \E x \in Exports, b \in Bundles, policy \in Policies :
                      ExportBegin(w, x, b, policy)
                \/ ExportRule(w) \/ ExportWrite(w)
                \/ ExportReady(w) \/ ExportFails(w) \/ CleanCommit(w)
             /\ \/ UNCHANGED files
                \/ SealWrite(w) \/ SealWriteFails(w) \/ SealUnwind(w)
                \/ ExportWrite(w) \/ ExportFails(w) \/ CleanErase(w)
             /\ UNCHANGED unwound \/ SealUnwind(w) \/ ExportFails(w)
  <2>1. CASE \/ \E b \in Bundles : SealBegin(w, b)
             \/ \E r \in Stored : CleanBegin(w, r)
             \/ SealEmit(w) \/ SealFails(w) \/ Crash(w)
    BY <2>1 DEF SealBegin, CleanBegin, SealEmit, SealFails, Crash
  <2>2. CASE SealWrite(w) \/ SealCommit(w) \/ SealWriteFails(w) \/ SealUnwind(w)
    BY <2>2 DEF SealWrite, SealCommit, SealWriteFails, SealUnwind
  <2>3. CASE InvalidateDefect(w) \/ CleanErase(w) \/ CleanCommit(w)
    BY <2>3 DEF InvalidateDefect, CleanErase, CleanCommit
  <2>4. CASE \/ \E x \in Exports, b \in Bundles, policy \in Policies :
                   ExportBegin(w, x, b, policy)
             \/ ExportRule(w) \/ ExportWrite(w) \/ ExportReady(w) \/ ExportFails(w)
    BY <2>4 DEF ExportBegin, ExportRule, ExportWrite, ExportReady, ExportFails
  <2> QED
    BY <1>6, <2>1, <2>2, <2>3, <2>4 DEF WorkerStep
<1> QED
  BY <1>1, <1>2, <1>3, <1>4, <1>5, <1>6 DEF Next

LEMMA Referring ==
    ASSUME [Next]_vars
    PROVE  refers' = refers \/ refers' = TRUE
<1>1. SourcesChange => refers' = refers \/ refers' = TRUE
  BY Zenon DEF SourcesChange
<1> QED
  BY <1>1, ColumnSteps, Zenon

LEMMA OneTask ==
    ASSUME NEW w \in Workers, WorkerStep(w)
    PROVE  UNCHANGED task \/ \E t : task' = [task EXCEPT ![w] = t]
BY DEF WorkerStep, SealBegin, SealWrite, SealCommit, SealEmit, SealWriteFails,
   SealFails, SealUnwind, InvalidateDefect, ExportBegin, ExportRule, ExportWrite, ExportReady,
   ExportFails, CleanBegin, CleanErase, CleanCommit, Crash, Begin, End

(* The stages a worker goes through, and the step that takes it there.     *)
LEMMA TaskSteps ==
    ASSUME RowTypes, [Next]_vars, NEW v \in Workers, task'[v] # task[v]
    PROVE  /\ \A w \in Workers \ {v} : task'[w] = task[w]
           /\ \/ task'[v] = Idle
              \/ \E b \in Bundles : SealBegin(v, b)
              \/ SealWrite(v) \/ SealCommit(v) \/ SealFails(v)
              \/ \E x \in Exports, b \in Bundles, policy \in Policies :
                    ExportBegin(v, x, b, policy)
              \/ ExportWrite(v)
              \/ \E r \in Stored : CleanBegin(v, r)
              \/ CleanErase(v)
<1>0. task \in [Workers -> TaskRow]
  BY DEF RowTypes
<1>1. PICK w \in Workers : WorkerStep(w)
  BY ColumnSteps
<1>2. \E t : task' = [task EXCEPT ![w] = t]
  BY <1>1, OneTask
<1>3. v = w /\ \A u \in Workers \ {v} : task'[u] = task[u]
  BY <1>0, <1>2
<1>4. End(v) => task'[v] = Idle
  BY <1>0 DEF End
<1> QED
  BY <1>1, <1>3, <1>4 DEF WorkerStep, SealEmit, SealWriteFails, SealUnwind,
     InvalidateDefect, ExportRule, ExportReady, ExportFails, CleanCommit, Crash

(* What a step may do to the row of a bundle.                              *)
SealedBy(w, b) ==
    /\ SealCommit(w) /\ task[w].row = b
    /\ bundle'[b].status = "sealed" /\ bundle'[b].package = task[w].package
    /\ bundle'[b].items = SyncedItems(bundle[b].items, task[w].package.entries)
    /\ bundle'[b].erased = bundle[b].erased

Invalidates(b) ==
    /\ Unlocked(b) /\ UNCHANGED export
    /\ bundle[b].status # "none" \/ \E w \in Workers : task[w].at = "defect" /\ task[w].row = b
    /\ bundle'[b].status = "invalidated" /\ bundle'[b].package = bundle[b].package
    /\ bundle'[b].items = bundle[b].items /\ bundle'[b].erased = bundle[b].erased
    /\ HasSealedContent(b) => bundle'[b].completeness = bundle[b].completeness

Erases(w, b) ==
    /\ CleanCommit(w) /\ task[w].row = b
    /\ bundle'[b].status = bundle[b].status /\ bundle'[b].package = bundle[b].package
    /\ bundle'[b].items = bundle[b].items /\ bundle'[b].completeness = bundle[b].completeness
    /\ bundle'[b].erased

LEMMA BundleSteps ==
    ASSUME RowTypes, [Next]_vars, NEW b \in Bundles
    PROVE  \/ bundle'[b] = bundle[b]
           \/ /\ CreateBundle(b) /\ bundle'[b].status = "compiling"
              /\ bundle'[b].package = NoPackage /\ bundle'[b].erased = FALSE
              /\ bundle'[b].items = MaterializeItems
           \/ Invalidates(b)
           \/ \E w \in Workers : SealedBy(w, b) \/ Erases(w, b)
<1>0. bundle \in [Bundles -> BundleRow]
  BY DEF RowTypes
<1>1. ASSUME NEW c \in Bundles, CreateBundle(c)
      PROVE  \/ bundle'[b] = bundle[b]
             \/ /\ c = b /\ bundle'[b].status = "compiling"
                /\ bundle'[b].package = NoPackage /\ bundle'[b].erased = FALSE
                /\ bundle'[b].items = MaterializeItems
  BY <1>0, <1>1 DEF CreateBundle, NoBundle
<1>2. ASSUME NEW c \in Bundles, InvalidateBundle(c)
      PROVE  bundle'[b] = bundle[b] \/ Invalidates(b)
  BY <1>0, <1>2 DEF InvalidateBundle, Invalidated, Invalidates, BundleRow
<1>3. ASSUME NEW w \in Workers, InvalidateDefect(w)
      PROVE  bundle'[b] = bundle[b] \/ Invalidates(b)
  <2>1. task[w].row \in Bundles /\ task[w].at = "defect" /\ Unlocked(task[w].row)
    BY <1>3 DEF InvalidateDefect, RowTypes, Sealed
  <2>2. CASE HasSealedContent(task[w].row)
    BY <1>0, <1>3, <2>1, <2>2 DEF InvalidateDefect, Invalidated, Invalidates, BundleRow
  <2>3. CASE ~HasSealedContent(task[w].row)
    BY <1>0, <1>3, <2>1, <2>3 DEF InvalidateDefect, Invalidated, Invalidates, BundleRow
  <2> QED
    BY <2>2, <2>3
<1>4. ASSUME NEW w \in Workers, SealCommit(w)
      PROVE  bundle'[b] = bundle[b] \/ SealedBy(w, b)
  <2>1. task[w].row \in Bundles
    BY <1>4 DEF SealCommit, RowTypes, Sealing
  <2> QED
    BY <1>0, <1>4, <2>1 DEF SealCommit, SealedBy, BundleRow
<1>5. ASSUME NEW w \in Workers, CleanCommit(w)
      PROVE  bundle'[b] = bundle[b] \/ Erases(w, b)
  <2>1. CASE task[w].row = b
    BY <1>0, <1>5, <2>1 DEF CleanCommit, Erases, BundleRow
  <2>2. CASE task[w].row # b
    BY <1>0, <1>5, <2>2 DEF CleanCommit, BundleRow
  <2> QED
    BY <2>1, <2>2
<1> QED
  BY <1>1, <1>2, <1>3, <1>4, <1>5, ColumnSteps

(* What a step may do to the row of an export.                             *)
Begins(x) ==
    /\ export[x].status = "none" /\ export'[x].status = "creating"
    /\ export'[x].of \in Bundles /\ HasSealedContent(export'[x].of)
    /\ export'[x].package = bundle[export'[x].of].package
    /\ export'[x].policy \in Seq(Rules) /\ export'[x].done = 0
    /\ export'[x].view = SourceView

SameSource(x) ==
    /\ export'[x].of = export[x].of /\ export'[x].package = export[x].package
    /\ export'[x].policy = export[x].policy

SameExport(x) ==
    /\ SameSource(x)
    /\ export'[x].done = export[x].done /\ export'[x].view = export[x].view

Ruled(w, x) ==
    /\ SameSource(x) /\ ExportRule(w) /\ task[w].row = x
    /\ export'[x].status = export[x].status /\ export'[x].erased = export[x].erased
    /\ export[x].done < Len(export[x].policy) /\ export'[x].done = export[x].done + 1
    /\ export'[x].view = ApplyRule(export[x].view, export[x].policy[export[x].done + 1])

Packed(w, x) ==
    /\ SameSource(x) /\ ExportWrite(w) /\ task[w].row = x
    /\ export'[x].status = export[x].status /\ export'[x].erased = export[x].erased
    /\ export[x].done = Len(export[x].policy) /\ export'[x].done = export[x].done
    /\ export'[x].view = ExportEntries(export[x].view)

LEMMA ExportSteps ==
    ASSUME RowTypes, [Next]_vars, NEW x \in Exports
    PROVE  \/ export'[x] = export[x]
           \/ Begins(x)
           \/ \E w \in Workers : Ruled(w, x) \/ Packed(w, x)
           \/ /\ SameExport(x) /\ export'[x].erased = export[x].erased
              /\ \E w \in Workers :
                    /\ task[w].row = x
                    /\ \/ ExportReady(w) /\ export'[x].status = "ready"
                       \/ ExportFails(w) /\ export'[x].status \in {"failed", "ready"}
           \/ SameExport(x) /\ export'[x].erased /\ export'[x].status = export[x].status
<1>0. export \in [Exports -> ExportRow]
  BY DEF RowTypes
<1>1. ASSUME NEW w \in Workers, NEW y \in Exports, NEW b \in Bundles, NEW policy \in Policies,
             ExportBegin(w, y, b, policy)
      PROVE  export'[x] = export[x] \/ Begins(x)
  <2>1. HasSealedContent(b)
    BY <1>1, NoPackageIsNone DEF ExportBegin, Available, RowTypes, HasSealedContent
  <2>2. policy \in Seq(Rules)
    BY PolicyAssumption
  <2> QED
    BY <1>0, <1>1, <2>1, <2>2 DEF ExportBegin, NoExport, Begins
<1>2. ASSUME NEW w \in Workers, ExportReady(w)
      PROVE  \/ export'[x] = export[x]
             \/ /\ SameExport(x) /\ export'[x].erased = export[x].erased
                /\ task[w].row = x /\ export'[x].status = "ready"
  <2>1. CASE task[w].row = x
    BY <1>0, <1>2, <2>1 DEF ExportReady, SameExport, SameSource, ExportRow
  <2>2. CASE task[w].row # x
    BY <1>0, <1>2, <2>2 DEF ExportReady
  <2> QED
    BY <2>1, <2>2
<1>3. ASSUME NEW w \in Workers, ExportFails(w)
      PROVE  \/ export'[x] = export[x]
             \/ /\ SameExport(x) /\ export'[x].erased = export[x].erased
                /\ task[w].row = x /\ export'[x].status \in {"failed", "ready"}
  <2>1. PICK status \in {"failed", "ready"} :
           export' = [export EXCEPT ![task[w].row].status = status]
    BY <1>3 DEF ExportFails
  <2>2. CASE task[w].row = x
    BY <1>0, <2>1, <2>2 DEF SameExport, SameSource, ExportRow
  <2>3. CASE task[w].row # x
    BY <1>0, <2>1, <2>3
  <2> QED
    BY <2>2, <2>3
<1>4. ASSUME NEW w \in Workers, CleanCommit(w)
      PROVE  \/ export'[x] = export[x]
             \/ SameExport(x) /\ export'[x].erased /\ export'[x].status = export[x].status
  <2>1. CASE task[w].row \in Bundles
    BY <1>4, <2>1 DEF CleanCommit
  <2>2. CASE task[w].row \notin Bundles
    <3>1. export' = [export EXCEPT ![task[w].row].erased = TRUE]
      BY <1>4, <2>2 DEF CleanCommit
    <3>2. CASE task[w].row = x
      BY <1>0, <3>1, <3>2 DEF SameExport, SameSource, ExportRow
    <3>3. CASE task[w].row # x
      BY <1>0, <3>1, <3>3
    <3> QED
      BY <3>2, <3>3
  <2> QED
    BY <2>1, <2>2
<1>5. ASSUME NEW w \in Workers, ExportRule(w)
      PROVE  export'[x] = export[x] \/ Ruled(w, x)
  <2>1. CASE task[w].row = x
    BY <1>0, <1>5, <2>1 DEF ExportRule, Ruled, SameSource, ExportRow
  <2>2. CASE task[w].row # x
    BY <1>0, <1>5, <2>2 DEF ExportRule
  <2> QED
    BY <2>1, <2>2
<1>6. ASSUME NEW w \in Workers, ExportWrite(w)
      PROVE  export'[x] = export[x] \/ Packed(w, x)
  <2>1. CASE task[w].row = x
    BY <1>0, <1>6, <2>1 DEF ExportWrite, Packed, SameSource, ExportRow
  <2>2. CASE task[w].row # x
    BY <1>0, <1>6, <2>2 DEF ExportWrite
  <2> QED
    BY <2>1, <2>2
<1> QED
  BY <1>1, <1>2, <1>3, <1>4, <1>5, <1>6, ColumnSteps

LEMMA TypesInductive ==
    ASSUME RowTypes, [Next]_vars
    PROVE  RowTypes'
<1>0. /\ edits \in 0 .. MaxEdits /\ MaxEdits \in Nat /\ refers \in BOOLEAN
      /\ bundle \in [Bundles -> BundleRow]
      /\ export \in [Exports -> ExportRow]
      /\ hold \in [Holds -> HoldRow]
      /\ due \subseteq Stored
      /\ files \in [Stored -> Package \cup {NoFile, Garbage}]
      /\ task \in [Workers -> TaskRow]
  BY EvidenceAssumption DEF RowTypes
<1>w. ASSUME NEW w \in Workers
      PROVE  /\ task[w].at \in Sealing => task[w].row \in Bundles /\ task[w].package \in Package
             /\ task[w].at \in Sealed => task[w].row \in Bundles
             /\ task[w].at \in Exporting => task[w].row \in Exports /\ task[w].package \in Package
             /\ task[w].at \in Cleaning => task[w].row \in Stored
  BY DEF RowTypes
<1>1. edits' \in 0 .. MaxEdits /\ refers' \in BOOLEAN
  <2>1. edits' \in 0 .. MaxEdits
    <3>1. edits' = edits \/ (edits < MaxEdits /\ edits' = edits + 1)
      BY ColumnSteps, Zenon DEF SourcesChange
    <3> QED
      BY <1>0, <3>1
  <2>2. refers' \in BOOLEAN
    BY <1>0, Referring
  <2> QED
    BY <2>1, <2>2
<1>2. hold' \in [Holds -> HoldRow]
  <2>1. ASSUME NEW h \in Holds, NEW b \in Bundles, CreateHold(h, b)
        PROVE  hold' \in [Holds -> HoldRow]
    BY <1>0, <2>1 DEF CreateHold, HoldRow, HoldStatus
  <2>2. ASSUME NEW h \in Holds, ReleaseHold(h)
        PROVE  hold' \in [Holds -> HoldRow]
    BY <1>0, <2>2 DEF ReleaseHold, HoldRow, HoldStatus
  <2> QED
    BY <1>0, <2>1, <2>2, ColumnSteps
<1>3. due' \subseteq Stored
  BY <1>0, ColumnSteps DEF Lapse
<1>4. bundle' \in [Bundles -> BundleRow]
  <2>1. ASSUME NEW b \in Bundles, CreateBundle(b) PROVE bundle' \in [Bundles -> BundleRow]
    <3>1. MaterializeItems \in Listed
      BY <1>0, SectionsTyped DEF MaterializeItems
    <3>2. CompletenessFromItems \in Completeness
      BY DEF CompletenessFromItems, Completeness
    <3> QED
      BY <1>0, <2>1, <3>1, <3>2, InitialRows DEF CreateBundle, BundleRow, BundleStatus
  <2>2. ASSUME NEW b \in Bundles PROVE Invalidated(b) \in [Bundles -> BundleRow]
    BY <1>0 DEF Invalidated, BundleRow, BundleStatus
  <2>3. ASSUME NEW w \in Workers, SealCommit(w) PROVE bundle' \in [Bundles -> BundleRow]
    <3>1. task[w].row \in Bundles /\ task[w].package \in Package
      BY <1>w, <2>3 DEF SealCommit, Sealing
    <3>2. SyncedItems(bundle[task[w].row].items, task[w].package.entries) \in Listed
      BY <1>0, <3>1, SyncedTyped DEF Package, BundleRow
    <3> QED
      BY <1>0, <2>3, <3>1, <3>2 DEF SealCommit, BundleRow, BundleStatus
  <2>4. ASSUME NEW w \in Workers, InvalidateDefect(w) PROVE bundle' \in [Bundles -> BundleRow]
    <3>1. task[w].row \in Bundles
      BY <1>w, <2>4 DEF InvalidateDefect, Sealed
    <3> QED
      <4>1. ASSUME NEW g \in [Bundles -> BundleRow], NEW b \in Bundles
            PROVE  [g EXCEPT ![b].completeness = "invalid"] \in [Bundles -> BundleRow]
        BY <4>1 DEF BundleRow, Completeness
      <4> QED
        BY <2>2, <2>4, <3>1, <4>1 DEF InvalidateDefect
  <2>5. ASSUME NEW w \in Workers, CleanCommit(w) PROVE bundle' \in [Bundles -> BundleRow]
    <3>1. CASE task[w].row \in Bundles
      <4>1. bundle' = [bundle EXCEPT ![task[w].row].erased = TRUE]
        BY <2>5, <3>1 DEF CleanCommit
      <4> QED
        BY <1>0, <3>1, <4>1 DEF BundleRow
    <3>2. CASE task[w].row \notin Bundles
      BY <1>0, <2>5, <3>2 DEF CleanCommit
    <3> QED
      BY <3>1, <3>2
  <2> QED
    BY <1>0, <2>1, <2>2, <2>3, <2>4, <2>5, ColumnSteps DEF InvalidateBundle
<1>5. export' \in [Exports -> ExportRow]
  <2>1. ASSUME NEW w \in Workers, NEW x \in Exports, NEW b \in Bundles, NEW policy \in Policies,
               ExportBegin(w, x, b, policy)
        PROVE  export' \in [Exports -> ExportRow]
    <3>1. policy \in Seq(Rules)
      BY PolicyAssumption
    <3>2. bundle[b].package \in Package \cup {NoPackage}
      BY <1>0 DEF BundleRow
    <3> QED
      BY <1>0, <2>1, <3>1, <3>2, InitialRows DEF ExportBegin, ExportRow, ExportStatus
  <2>s. ASSUME NEW x \in Exports, NEW status \in ExportStatus
        PROVE  [export EXCEPT ![x].status = status] \in [Exports -> ExportRow]
    <3>1. export \in [Exports -> ExportRow] /\ export[x] \in ExportRow
      BY <1>0
    <3>2. [export[x] EXCEPT !.status = status] \in ExportRow
      BY <3>1 DEF ExportRow
    <3> QED
      BY <3>1, <3>2
  <2>2. ASSUME NEW w \in Workers, ExportReady(w) PROVE export' \in [Exports -> ExportRow]
    <3>1. task[w].row \in Exports /\ "ready" \in ExportStatus
      BY <1>w, <2>2 DEF ExportReady, Exporting, ExportStatus
    <3>2. export' = [export EXCEPT ![task[w].row].status = "ready"]
      BY <2>2 DEF ExportReady
    <3> QED
      BY <2>s, <3>1, <3>2
  <2>3. ASSUME NEW w \in Workers, ExportFails(w) PROVE export' \in [Exports -> ExportRow]
    <3>1. task[w].row \in Exports
      BY <1>w, <2>3 DEF ExportFails, Exporting
    <3>2. PICK status \in {"failed", "ready"} : export' = [export EXCEPT ![task[w].row].status = status]
      BY <2>3 DEF ExportFails
    <3>3. status \in ExportStatus
      BY <3>2 DEF ExportStatus
    <3> QED
      BY <2>s, <3>1, <3>2, <3>3
  <2>4. ASSUME NEW w \in Workers, CleanCommit(w) PROVE export' \in [Exports -> ExportRow]
    <3>1. CASE task[w].row \in Bundles
      BY <1>0, <2>4, <3>1 DEF CleanCommit
    <3>2. CASE task[w].row \notin Bundles
      <4>1. export' = [export EXCEPT ![task[w].row].erased = TRUE] /\ task[w].row \in Exports
        BY <1>w, <2>4, <3>2 DEF CleanCommit, Cleaning, Stored
      <4> QED
        BY <1>0, <4>1 DEF ExportRow
    <3> QED
      BY <3>1, <3>2
  <2>5. ASSUME NEW w \in Workers, ExportRule(w) PROVE export' \in [Exports -> ExportRow]
    <3> DEFINE x == task[w].row
               view == ApplyRule(export[x].view, export[x].policy[export[x].done + 1])
               row == [export[x] EXCEPT !.view = view, !.done = export[x].done + 1]
    <3>1. x \in Exports /\ export[x] \in ExportRow
      BY <1>0, <1>w, <2>5 DEF ExportRule, Exporting
    <3>2. export[x].policy[export[x].done + 1] \in Rules
      BY <2>5, <3>1 DEF ExportRule, ExportRow
    <3>3. view \in [Paths -> Entry] /\ export[x].done + 1 \in Nat
      <4>1. export[x].view \in [Paths -> Entry] /\ export[x].done \in Nat
        BY <3>1 DEF ExportRow
      <4> QED
        BY <3>2, <4>1, ViewsTyped
    <3>4. export' = [export EXCEPT ![x] = row]
      BY <1>0, <2>5, <3>1 DEF ExportRule, ExportRow
    <3>5. row \in ExportRow
      <4> HIDE DEF view
      <4> QED
        BY <3>1, <3>3 DEF ExportRow
    <3> QED
      BY <1>0, <3>1, <3>4, <3>5
  <2>6. ASSUME NEW w \in Workers, ExportWrite(w) PROVE export' \in [Exports -> ExportRow]
    <3> DEFINE x == task[w].row
               view == ExportEntries(export[x].view)
    <3>1. x \in Exports /\ export[x] \in ExportRow
      BY <1>0, <1>w, <2>6 DEF ExportWrite, Exporting
    <3>2. view \in [Paths -> Entry]
      <4>1. export[x].view \in [Paths -> Entry]
        BY <3>1 DEF ExportRow
      <4> QED
        BY <4>1, ViewsTyped
    <3>3. export' = [export EXCEPT ![x].view = view]
      BY <2>6 DEF ExportWrite
    <3>4. [export[x] EXCEPT !.view = view] \in ExportRow
      <4> HIDE DEF view
      <4> QED
        BY <3>1, <3>2 DEF ExportRow
    <3> QED
      BY <1>0, <3>1, <3>3, <3>4
  <2> QED
    BY <1>0, <2>1, <2>2, <2>3, <2>4, <2>5, <2>6, ColumnSteps
<1>r. ASSUME NEW x \in Exports PROVE export'[x].done <= Len(export'[x].policy)
  <2>1. export[x] \in ExportRow /\ export[x].done <= Len(export[x].policy)
    BY <1>0 DEF RowTypes
  <2>2. Len(export[x].policy) \in Nat /\ export[x].done \in Nat
    BY <2>1 DEF ExportRow
  <2>3. CASE Begins(x)
    <3>1. Len(export'[x].policy) \in Nat /\ Len(export'[x].policy) >= 0 /\ export'[x].done = 0
      BY <2>3 DEF Begins
    <3> QED
      BY <3>1
  <2>4. ASSUME NEW w \in Workers, Ruled(w, x) \/ Packed(w, x)
        PROVE  export'[x].done <= Len(export'[x].policy)
    <3>1. Ruled(w, x) => export'[x].done = export[x].done + 1 /\ export[x].done < Len(export[x].policy)
      BY DEF Ruled
    <3>2. Packed(w, x) => export'[x].done = export[x].done
      BY DEF Packed
    <3>3. export'[x].policy = export[x].policy
      BY <2>4 DEF Ruled, Packed, SameSource
    <3> QED
      BY <2>1, <2>2, <2>4, <3>1, <3>2, <3>3
  <2>5. SameExport(x) \/ export'[x] = export[x] => export'[x].done <= Len(export'[x].policy)
    BY <2>1 DEF SameExport, SameSource
  <2> QED
    BY <2>3, <2>4, <2>5, ExportSteps
<1>6. files' \in [Stored -> Package \cup {NoFile, Garbage}]
  <2>1. ASSUME NEW w \in Workers, SealWrite(w) \/ ExportWrite(w)
        PROVE  files' \in [Stored -> Package \cup {NoFile, Garbage}]
    BY <1>0, <1>w, <2>1 DEF SealWrite, ExportWrite, Sealing, Exporting
  <2> QED
    BY <1>0, <2>1, ColumnSteps DEF SealWriteFails, SealUnwind, ExportFails, CleanErase
<1>7. ASSUME NEW v \in Workers
      PROVE  /\ task'[v] \in TaskRow
             /\ task'[v].at \in Sealing => task'[v].row \in Bundles /\ task'[v].package \in Package
             /\ task'[v].at \in Sealed => task'[v].row \in Bundles
             /\ task'[v].at \in Exporting => task'[v].row \in Exports /\ task'[v].package \in Package
             /\ task'[v].at \in Cleaning => task'[v].row \in Stored
  <2> DEFINE Fits(t) ==
        /\ t \in TaskRow
        /\ t.at \in Sealing => t.row \in Bundles /\ t.package \in Package
        /\ t.at \in Sealed => t.row \in Bundles
        /\ t.at \in Exporting => t.row \in Exports /\ t.package \in Package
        /\ t.at \in Cleaning => t.row \in Stored
  <2>0. Fits(task[v])
    BY <1>0, <1>w
  <2>1. Fits(Idle)
    BY InitialRows DEF Sealing, Sealed, Exporting, Cleaning
  <2>2. ASSUME NEW b \in Bundles, SealBegin(v, b) PROVE Fits(task'[v])
    <3>1. BuildPackage(v, b) \in Package
      <4>1. bundle[b].items \in Listed
        BY <1>0 DEF BundleRow
      <4>2. bundle[b].items["audit"] \in 0 .. MaxEdits
        BY <4>1 DEF Listed, Contents, Always
      <4>3. SourceSections(bundle[b].items["audit"]) \in Contents
        BY <1>0, <4>2, SectionsTyped DEF Listed
      <4> QED
        BY <4>3 DEF BuildPackage, Package
    <3> QED
      BY <1>0, <2>2, <3>1 DEF SealBegin, Begin, TaskRow, Stages, Stored, Sealing, Sealed,
                              Exporting, Cleaning
  <2>3. ASSUME SealWrite(v) \/ SealCommit(v) \/ SealFails(v) PROVE Fits(task'[v])
    <3>1. \E at \in {"written", "emitting", "unwinding"} : task'[v] = [task[v] EXCEPT !.at = at]
      BY <1>0, <2>3 DEF SealWrite, SealCommit, SealFails
    <3>2. task[v].row \in Bundles /\ (task[v].at = "sealing" => task[v].package \in Package)
      BY <2>0, <2>3 DEF SealWrite, SealCommit, SealFails, Sealing, Sealed
    <3> QED
      BY <2>0, <2>3, <3>2, <1>0 DEF SealWrite, SealCommit, SealFails, TaskRow, Stages, Sealing, Sealed,
                              Exporting, Cleaning
  <2>4. ASSUME NEW x \in Exports, NEW b \in Bundles, NEW policy \in Policies,
               ExportBegin(v, x, b, policy)
        PROVE  Fits(task'[v])
    <3>1. bundle[b].package \in Package
      BY <2>4 DEF ExportBegin, Available, RowTypes
    <3> QED
      BY <1>0, <2>4, <3>1 DEF ExportBegin, Begin, TaskRow, Stages, Stored, Sealing, Sealed,
                              Exporting, Cleaning
  <2>5. ASSUME ExportWrite(v) PROVE Fits(task'[v])
    BY <1>0, <2>0, <2>5 DEF ExportWrite, TaskRow, Stages, Sealing, Sealed, Exporting, Cleaning
  <2>6. ASSUME NEW r \in Stored, CleanBegin(v, r) PROVE Fits(task'[v])
    BY <1>0, <2>6 DEF CleanBegin, Begin, TaskRow, Stages, Sealing, Sealed, Exporting, Cleaning
  <2>7. ASSUME CleanErase(v) PROVE Fits(task'[v])
    BY <1>0, <2>0, <2>7 DEF CleanErase, TaskRow, Stages, Sealing, Sealed, Exporting, Cleaning
  <2> QED
    BY <2>0, <2>1, <2>2, <2>3, <2>4, <2>5, <2>6, <2>7, TaskSteps
<1>8. task' \in [Workers -> TaskRow]
  <2>1. ASSUME NEW w \in Workers, NEW t, task' = [task EXCEPT ![w] = t]
        PROVE  task' \in [Workers -> TaskRow]
    BY <1>0, <1>7, <2>1
  <2> QED
    BY <1>0, <2>1, ColumnSteps, OneTask
<1>9. ASSUME NEW b \in Bundles, bundle'[b].status = "sealed"
      PROVE  bundle'[b].package \in Package
  <2>1. \/ bundle[b].status = "sealed" /\ bundle'[b].package = bundle[b].package
        \/ \E w \in Workers : SealCommit(w) /\ bundle'[b].package = task[w].package
    BY <1>9, BundleSteps DEF SealedBy, Invalidates, Erases
  <2> QED
    BY <1>w, <2>1 DEF RowTypes, SealCommit, Sealing
<1> QED
  BY <1>1, <1>2, <1>3, <1>4, <1>5, <1>6, <1>7, <1>8, <1>9, <1>r DEF RowTypes

-----------------------------------------------------------------------------
(* Versions are numbered without gaps, and a new one takes a fresh number. *)

VersionInv ==
    \A b \in Bundles : bundle[b].status # "none" =>
        \A c \in 1 .. b : bundle[c].status # "none"

LEMMA Interval ==
    ASSUME NEW n \in Nat
    PROVE  IsFiniteSet(1 .. n) /\ Cardinality(1 .. n) = n
<1>1. 1 \in Int /\ n \in Int
  OBVIOUS
<1>2. IsFiniteSet(1 .. n) /\ Cardinality(1 .. n) = IF 1 > n THEN 0 ELSE n - 1 + 1
  BY <1>1, FS_Interval
<1> QED
  BY <1>2

LEMMA NextVersion ==
    ASSUME RowTypes, VersionInv, NEW b \in Bundles, CreateBundle(b)
    PROVE  /\ bundle[b].status = "none"
           /\ \A c \in 1 .. b : c # b => bundle[c].status # "none"
<1> DEFINE n == Cardinality(Versions)
<1>0. MaxVersion \in Nat /\ b \in Nat /\ b # 0
  BY EvidenceAssumption DEF Bundles
<1>1. Versions \subseteq 1 .. MaxVersion
  BY DEF Versions, Bundles
<1>2. IsFiniteSet(Versions) /\ n \in Nat
  BY <1>0, <1>1, Interval, FS_Subset, FS_CardinalityType
<1>3. b = n + 1
  BY DEF CreateBundle
<1> HIDE DEF n
<1>4. bundle[b].status = "none"
  <2> SUFFICES ASSUME bundle[b].status # "none" PROVE FALSE
    OBVIOUS
  <2>1. 1 .. b \subseteq Versions
    BY <1>0 DEF VersionInv, Versions, Bundles
  <2>2. Cardinality(1 .. b) <= n
    BY <1>2, <2>1, FS_Subset DEF n
  <2> QED
    BY <1>0, <1>2, <1>3, <2>2, Interval
<1>5. ASSUME NEW c \in 1 .. b, c # b, bundle[c].status = "none"
      PROVE  FALSE
  <2>1. c \in Nat /\ c - 1 \in Nat /\ c <= n
    BY <1>0, <1>2, <1>3, <1>5
  <2>2. Versions \subseteq 1 .. (c - 1)
    <3>1. ASSUME NEW d \in Versions PROVE d \in 1 .. (c - 1)
      <4>1. d \in 1 .. MaxVersion /\ bundle[d].status # "none"
        BY DEF Versions, Bundles
      <4>2. c \notin 1 .. d
        BY <1>5, <4>1 DEF VersionInv, Bundles
      <4> QED
        BY <1>0, <1>5, <2>1, <4>1, <4>2
    <3> QED
      BY <3>1
  <2>3. n <= Cardinality(1 .. (c - 1)) /\ Cardinality(1 .. (c - 1)) = c - 1
    BY <2>1, <2>2, Interval, FS_Subset DEF n
  <2> QED
    BY <1>2, <2>1, <2>3
<1> QED
  BY <1>4, <1>5

-----------------------------------------------------------------------------
(* Sealing.  A row lock has one holder; a sealer that holds one finds its  *)
(* bundle compiling until it commits, so nothing was ever sealed there; the *)
(* cleanup holds a row whose retention has ended.                          *)

LockInv ==
    \A v, w \in Workers :
        v # w /\ task[v].at \in InTransaction /\ task[w].at \in InTransaction
            => task[v].row # task[w].row

StageInv ==
    \A w \in Workers :
        /\ task[w].at \in Sealing => bundle[task[w].row].status = "compiling"
        /\ task[w].at \in Sealed => bundle[task[w].row].status # "none"
        /\ task[w].at \in Cleaning => task[w].row \in due

UnsealedInv ==
    \A b \in Bundles : bundle[b].status \in {"none", "compiling"} => ~HasSealedContent(b)

SealInv == VersionInv /\ LockInv /\ StageInv /\ UnsealedInv

(* A worker takes a row lock only when no other worker holds it.           *)
LEMMA LockTaken ==
    ASSUME RowTypes, [Next]_vars, NEW v \in Workers, task'[v] # task[v],
           task'[v].at \in InTransaction
    PROVE  \/ task[v].at \in InTransaction /\ task'[v].row = task[v].row
           \/ Unlocked(task'[v].row)
<1>0. task \in [Workers -> TaskRow]
  BY DEF RowTypes
<1>1. task'[v] # Idle
  BY DEF Idle, InTransaction
<1>2. ASSUME NEW b \in Bundles, SealBegin(v, b)
      PROVE  Unlocked(task'[v].row)
  BY <1>0, <1>2 DEF SealBegin, Begin
<1>3. ASSUME SealWrite(v) \/ SealCommit(v) \/ SealFails(v) \/ CleanErase(v) \/ ExportWrite(v)
      PROVE  task[v].at \in InTransaction /\ task'[v].row = task[v].row
  BY <1>0, <1>3 DEF SealWrite, SealCommit, SealFails, CleanErase, ExportWrite, TaskRow, InTransaction
<1>4. ASSUME NEW x \in Exports, NEW b \in Bundles, NEW policy \in Policies,
             ExportBegin(v, x, b, policy)
      PROVE  FALSE
  BY <1>0, <1>4 DEF ExportBegin, Begin, InTransaction
<1>5. ASSUME NEW r \in Stored, CleanBegin(v, r)
      PROVE  Unlocked(task'[v].row)
  BY <1>0, <1>5 DEF CleanBegin, Begin
<1> QED
  BY <1>1, <1>2, <1>3, <1>4, <1>5, TaskSteps

LEMMA LockInductive ==
    ASSUME RowTypes, LockInv, [Next]_vars
    PROVE  LockInv'
<1>1. ASSUME NEW v \in Workers, NEW w \in Workers, v # w, task'[v].at \in InTransaction,
             task'[w].at \in InTransaction, task'[v] # task[v]
      PROVE  task'[v].row # task'[w].row
  <2>1. task'[w] = task[w]
    BY <1>1, TaskSteps
  <2> QED
    BY <1>1, <2>1, LockTaken DEF LockInv, Unlocked
<1>2. ASSUME NEW v \in Workers, NEW w \in Workers, v # w, task'[v].at \in InTransaction,
             task'[w].at \in InTransaction
      PROVE  task'[v].row # task'[w].row
  BY <1>1, <1>2 DEF LockInv
<1> QED
  BY <1>2 DEF LockInv, InTransaction

(* What a step does to the status of a bundle, given the invariant.        *)
LEMMA StatusSteps ==
    ASSUME RowTypes, SealInv, [Next]_vars, NEW b \in Bundles
    PROVE  /\ bundle[b].status # "none" => bundle'[b].status # "none"
           /\ HasSealedContent(b) => /\ bundle'[b].package = bundle[b].package
                                     /\ bundle'[b].items = bundle[b].items
                                     /\ bundle'[b].completeness = bundle[b].completeness
                                     /\ bundle'[b].status \in {bundle[b].status, "invalidated"}
           /\ bundle'[b].status \in {"none", "compiling"} /\ bundle[b].status # bundle'[b].status
                => CreateBundle(b) /\ bundle'[b].package = NoPackage
<1>1. CreateBundle(b) => bundle[b].status = "none" /\ ~HasSealedContent(b)
  BY NextVersion DEF SealInv, UnsealedInv
<1>2. ASSUME NEW w \in Workers, SealedBy(w, b)
      PROVE  ~HasSealedContent(b)
  BY <1>2 DEF SealedBy, SealCommit, SealInv, StageInv, UnsealedInv, Sealing
<1> QED
  BY <1>1, <1>2, BundleSteps DEF Invalidates, SealedBy, Erases

LEMMA SealInductive ==
    ASSUME RowTypes, SealInv, [Next]_vars
    PROVE  SealInv'
<1>0. /\ MaxVersion \in Nat /\ task \in [Workers -> TaskRow]
      /\ bundle \in [Bundles -> BundleRow]
  BY EvidenceAssumption DEF RowTypes
<1>1. LockInv'
  BY LockInductive DEF SealInv
<1>2. VersionInv'
  <2>1. ASSUME NEW b \in Bundles, bundle'[b].status # "none"
        PROVE  \A c \in 1 .. b : c = b \/ bundle[c].status # "none"
    <3>1. CASE CreateBundle(b)
      BY <3>1, NextVersion DEF SealInv
    <3>2. CASE bundle[b].status # "none"
      BY <3>2 DEF SealInv, VersionInv
    <3>3. \/ CreateBundle(b) \/ bundle[b].status # "none"
      BY <2>1, BundleSteps DEF Invalidates, SealedBy, Erases, SealCommit, SealInv, StageInv,
                               Sealing, Sealed
    <3> QED
      BY <3>1, <3>2, <3>3
  <2>2. ASSUME NEW b \in Bundles, NEW c \in 1 .. b PROVE c \in Bundles
    BY <1>0, <2>2 DEF Bundles
  <2> QED
    BY <2>1, <2>2, StatusSteps DEF VersionInv
<1>3. UnsealedInv'
  <2>1. ASSUME NEW b \in Bundles, bundle'[b].status \in {"none", "compiling"}
        PROVE  bundle'[b].package = NoPackage
    <3>1. CASE bundle'[b].status # bundle[b].status
      BY <2>1, <3>1, StatusSteps
    <3>2. CASE bundle'[b].status = bundle[b].status
      <4>1. bundle[b].package = NoPackage
        BY <2>1, <3>2 DEF SealInv, UnsealedInv, HasSealedContent
      <4> QED
        BY <2>1, <4>1, BundleSteps DEF Invalidates, SealedBy, Erases
    <3> QED
      BY <3>1, <3>2
  <2> QED
    BY <2>1 DEF UnsealedInv, HasSealedContent
<1>4. ASSUME NEW v \in Workers
      PROVE  /\ task'[v].at \in Sealing => bundle'[task'[v].row].status = "compiling"
             /\ task'[v].at \in Sealed => bundle'[task'[v].row].status # "none"
             /\ task'[v].at \in Cleaning => task'[v].row \in due'
  <2>0. due \subseteq due'
    BY ColumnSteps DEF Lapse
  <2>1. CASE task'[v] = task[v]
    <3>1. task[v].at \in Sealing \cup Sealed => task[v].row \in Bundles
      BY DEF RowTypes
    <3>2. ASSUME task[v].at \in Sealing PROVE bundle'[task[v].row].status = "compiling"
      <4> DEFINE b == task[v].row
      <4>1. b \in Bundles /\ bundle[b].status = "compiling" /\ ~Unlocked(b)
        BY <3>1, <3>2 DEF SealInv, StageInv, Unlocked, InTransaction, Sealing
      <4>2. ~CreateBundle(b)
        BY <4>1, NextVersion DEF SealInv
      <4>3. ASSUME NEW w \in Workers, SealedBy(w, b) PROVE FALSE
        <5>1. v # w
          BY <1>0, <2>1, <3>2, <4>3 DEF SealedBy, SealCommit, Sealing, TaskRow
        <5>2. task[w].at \in InTransaction /\ task[v].at \in InTransaction
          BY <3>2, <4>3 DEF SealedBy, SealCommit, InTransaction, Sealing
        <5> QED
          BY <4>3, <5>1, <5>2 DEF SealedBy, SealInv, LockInv
      <4> QED
        BY <4>1, <4>2, <4>3, BundleSteps DEF Invalidates, Erases
    <3> QED
      BY <2>0, <2>1, <3>1, <3>2, StatusSteps DEF SealInv, StageInv
  <2>2. CASE task'[v] = Idle
    BY <2>2 DEF Idle, Sealing, Sealed, Cleaning
  <2>3. ASSUME NEW b \in Bundles, SealBegin(v, b)
        PROVE  task'[v].row = b /\ bundle'[b].status = "compiling" /\ task'[v].at \notin Cleaning
    BY <1>0, <2>3 DEF SealBegin, Begin, Sealable, Cleaning
  <2>4. ASSUME SealWrite(v)
        PROVE  task'[v].row = task[v].row /\ bundle'[task[v].row].status = "compiling"
               /\ task'[v].at = "written"
    BY <1>0, <2>4 DEF SealWrite, SealInv, StageInv, Sealing, TaskRow
  <2>5. ASSUME SealCommit(v) \/ SealFails(v)
        PROVE  /\ task'[v].row = task[v].row /\ bundle'[task[v].row].status # "none"
               /\ task'[v].at \in Sealed
    <3>1. task[v].row \in Bundles /\ bundle[task[v].row].status # "none"
      BY <2>5 DEF SealCommit, SealFails, RowTypes, SealInv, StageInv, Sealing, Sealed
    <3>2. task'[v].row = task[v].row /\ task'[v].at \in Sealed
      BY <1>0, <2>5 DEF SealCommit, SealFails, TaskRow, Sealed
    <3> QED
      BY <3>1, <3>2, StatusSteps
  <2>6. ASSUME NEW x \in Exports, NEW b \in Bundles, NEW policy \in Policies,
               ExportBegin(v, x, b, policy)
        PROVE  task'[v].at = "exporting"
    BY <1>0, <2>6 DEF ExportBegin, Begin
  <2>7. ASSUME ExportWrite(v) PROVE task'[v].at = "exported"
    BY <1>0, <2>7 DEF ExportWrite, TaskRow
  <2>8. ASSUME NEW r \in Stored, CleanBegin(v, r)
        PROVE  task'[v].at = "cleaning" /\ task'[v].row \in due'
    BY <1>0, <2>8 DEF CleanBegin, Begin, Erasable
  <2>9. ASSUME CleanErase(v) PROVE task'[v].at = "erasing" /\ task'[v].row \in due'
    BY <1>0, <2>0, <2>9 DEF CleanErase, SealInv, StageInv, Cleaning, TaskRow
  <2>10. /\ {"exporting", "exported"} \cap (Sealing \cup Sealed \cup Cleaning) = {}
         /\ Sealed \cap (Sealing \cup Cleaning) = {} /\ Sealing \cap Cleaning = {}
         /\ "written" \in Sealing /\ {"cleaning", "erasing"} \subseteq Cleaning
    BY DEF Sealing, Sealed, Cleaning
  <2> QED
    BY <2>1, <2>2, <2>3, <2>4, <2>5, <2>6, <2>7, <2>8, <2>9, <2>10, TaskSteps
<1>5. StageInv'
  BY <1>4 DEF StageInv
<1> QED
  BY <1>1, <1>2, <1>3, <1>5 DEF SealInv

LEMMA SealInvariant == Spec => [](RowTypes /\ SealInv)
<1>1. ASSUME Init PROVE RowTypes /\ SealInv
  <2>1. /\ \A b \in Bundles : bundle[b] = NoBundle
        /\ \A w \in Workers : task[w] = Idle
    BY <1>1 DEF Init
  <2>2. RowTypes
    <3>1. edits \in 0 .. MaxEdits /\ refers \in BOOLEAN
      BY <1>1, EvidenceAssumption DEF Init
    <3>2. /\ bundle \in [Bundles -> BundleRow] /\ export \in [Exports -> ExportRow]
          /\ hold \in [Holds -> HoldRow] /\ task \in [Workers -> TaskRow]
      BY <1>1, InitialRows DEF Init, NoHold
    <3>3. due \subseteq Stored /\ files \in [Stored -> Package \cup {NoFile, Garbage}]
      BY <1>1 DEF Init
    <3>4. \A b \in Bundles : bundle[b].status # "sealed"
      BY <2>1 DEF NoBundle
    <3>5. \A w \in Workers : task[w].at \notin Sealing \cup Sealed \cup Exporting \cup Cleaning
      BY <2>1 DEF Idle, Sealing, Sealed, Exporting, Cleaning
    <3>6. \A x \in Exports : export[x].done <= Len(export[x].policy)
      BY <1>1 DEF Init, NoExport
    <3> QED
      BY <3>1, <3>2, <3>3, <3>4, <3>5, <3>6 DEF RowTypes
  <2>3. VersionInv /\ UnsealedInv
    BY <2>1 DEF VersionInv, UnsealedInv, HasSealedContent, NoBundle
  <2>4. LockInv /\ StageInv
    BY <2>1 DEF LockInv, StageInv, Idle, InTransaction, Sealing, Sealed, Cleaning
  <2> QED
    BY <2>2, <2>3, <2>4 DEF SealInv
<1>2. ASSUME RowTypes, SealInv, [Next]_vars PROVE RowTypes' /\ SealInv'
  BY <1>2, TypesInductive, SealInductive
<1> QED
  BY <1>1, <1>2, PTL DEF Spec

(* Once sealed, the record of a bundle never changes: a second sealer, the *)
(* invalidation of a bundle found defective (services.seal_evidence_bundle *)
(* and invalidate_evidence_bundle) and the cleanup leave its package, its  *)
(* items and its completeness alone, and an invalidated bundle stays so.   *)
THEOREM SealedNeverRewrittenHolds == Spec => SealedNeverRewritten
<1>1. ASSUME RowTypes, SealInv, [Next]_vars
      PROVE  \A b \in Bundles : HasSealedContent(b) =>
                /\ bundle'[b].package = bundle[b].package
                /\ bundle'[b].items = bundle[b].items
                /\ bundle'[b].completeness = bundle[b].completeness
                /\ bundle[b].status = "invalidated" => bundle'[b].status = "invalidated"
  BY <1>1, StatusSteps
<1> QED
  BY <1>1, SealInvariant, PTL DEF Spec, SealedNeverRewritten

-----------------------------------------------------------------------------
(* Stored packages.                                                        *)

(* What a step may do to a stored file.                                    *)
LEMMA FileSteps ==
    ASSUME RowTypes, [Next]_vars, NEW f \in Stored
    PROVE  \/ files'[f] = files[f]
           \/ \E w \in Workers :
                 /\ task[w].row = f
                 /\ \/ SealWrite(w) \/ SealWriteFails(w) \/ ExportWrite(w)
                    \/ /\ SealUnwind(w) \/ ExportFails(w) \/ CleanErase(w)
                       /\ files'[f] = NoFile
<1>0. files \in [Stored -> Package \cup {NoFile, Garbage}]
  BY DEF RowTypes
<1>1. ASSUME NEW w \in Workers, SealWrite(w) \/ SealWriteFails(w) \/ ExportWrite(w)
      PROVE  files'[f] = files[f] \/ task[w].row = f
  BY <1>0, <1>1 DEF SealWrite, SealWriteFails, ExportWrite
<1>2. ASSUME NEW w \in Workers, SealUnwind(w) \/ ExportFails(w) \/ CleanErase(w)
      PROVE  files'[f] = files[f] \/ (task[w].row = f /\ files'[f] = NoFile)
  BY <1>0, <1>2 DEF SealUnwind, ExportFails, CleanErase
<1> QED
  BY <1>1, <1>2, ColumnSteps

(* The file of a bundle holds p, or it is gone for a reason on record.     *)
Kept(f, p) == files[f] = p \/ (files[f] = NoFile /\ (f \in due \/ f \in unwound))

(* A sealer that has written its package finds it when it commits, unless  *)
(* a sealer that failed before it removed it.                              *)
WrittenInv ==
    \A w \in Workers : task[w].at = "written" => Kept(task[w].row, task[w].package)

LEMMA Unwinding ==
    ASSUME RowTypes, [Next]_vars
    PROVE  /\ due \subseteq due' /\ unwound \subseteq unwound'
           /\ \A w \in Workers : SealUnwind(w) /\ Recorded(task[w].row) => task[w].row \in unwound'
<1>1. due \subseteq due'
  BY ColumnSteps DEF Lapse
<1>2. unwound \subseteq unwound'
  BY ColumnSteps DEF SealUnwind, ExportFails
<1> QED
  BY <1>1, <1>2 DEF SealUnwind

(* No other handler overwrites the file of a bundle that is sealed, or     *)
(* about to be: the lock, the states and the disjoint names keep them out. *)
LEMMA BytesKept ==
    ASSUME RowTypes, SealInv, [Next]_vars, NEW b \in Bundles, NEW p, Kept(b, p), Recorded(b),
           \A w \in Workers : task[w].row = b => ~SealWrite(w) /\ ~SealWriteFails(w)
    PROVE  files'[b] = p \/ (files'[b] = NoFile /\ (b \in due' \/ b \in unwound'))
<1>1. b \in Stored /\ b \notin Exports
  BY EvidenceAssumption DEF Stored, Bundles
<1>2. ASSUME NEW w \in Workers, task[w].row = b, ExportWrite(w) \/ ExportFails(w) PROVE FALSE
  BY <1>1, <1>2 DEF ExportWrite, ExportFails, RowTypes, Exporting
<1>3. ASSUME NEW w \in Workers, task[w].row = b, SealUnwind(w) PROVE b \in unwound'
  BY <1>3, Unwinding
<1>4. ASSUME NEW w \in Workers, task[w].row = b, CleanErase(w) PROVE b \in due'
  BY <1>4, Unwinding DEF CleanErase, SealInv, StageInv, Cleaning
<1> QED
  BY <1>1, <1>2, <1>3, <1>4, FileSteps, Unwinding DEF Kept

LEMMA WrittenInductive ==
    ASSUME RowTypes, SealInv, WrittenInv, [Next]_vars
    PROVE  WrittenInv'
<1>0. /\ task \in [Workers -> TaskRow]
      /\ files \in [Stored -> Package \cup {NoFile, Garbage}]
  BY DEF RowTypes
<1>1. ASSUME NEW v \in Workers, task'[v].at = "written"
      PROVE  LET f == task'[v].row IN
             \/ files'[f] = task'[v].package
             \/ files'[f] = NoFile /\ (f \in due' \/ f \in unwound')
  <2>1. CASE task'[v] = task[v]
    <3>1. task[v].row \in Bundles /\ Kept(task[v].row, task[v].package) /\ Recorded(task[v].row)
      BY <1>1, <2>1 DEF RowTypes, Sealing, WrittenInv, Recorded
    <3>2. ASSUME NEW w \in Workers, task[w].row = task[v].row, SealWrite(w) \/ SealWriteFails(w)
          PROVE  FALSE
      <4>1. v # w
        BY <1>1, <2>1, <3>2 DEF SealWrite, SealWriteFails
      <4>2. task[v].at \in InTransaction /\ task[w].at \in InTransaction
        BY <1>1, <2>1, <3>2 DEF SealWrite, SealWriteFails, InTransaction
      <4> QED
        BY <3>2, <4>1, <4>2 DEF SealInv, LockInv
    <3> QED
      BY <2>1, <3>1, <3>2, BytesKept
  <2>2. CASE SealWrite(v)
    <3>1. task[v].row \in Stored
      BY <2>2 DEF SealWrite, RowTypes, Sealing, Stored
    <3> QED
      BY <1>0, <2>2, <3>1 DEF SealWrite, TaskRow
  <2>3. task'[v] # Idle
    BY <1>1 DEF Idle
  <2>4. ASSUME NEW b \in Bundles, SealBegin(v, b) PROVE FALSE
    BY <1>0, <1>1, <2>4 DEF SealBegin, Begin
  <2>5. ASSUME SealCommit(v) \/ SealFails(v) \/ ExportWrite(v) \/ CleanErase(v) PROVE FALSE
    BY <1>0, <1>1, <2>5 DEF SealCommit, SealFails, ExportWrite, CleanErase, TaskRow
  <2>6. ASSUME NEW x \in Exports, NEW b \in Bundles, NEW policy \in Policies,
               ExportBegin(v, x, b, policy)
        PROVE  FALSE
    BY <1>0, <1>1, <2>6 DEF ExportBegin, Begin
  <2>7. ASSUME NEW r \in Stored, CleanBegin(v, r) PROVE FALSE
    BY <1>0, <1>1, <2>7 DEF CleanBegin, Begin
  <2> QED
    BY <2>1, <2>2, <2>3, <2>4, <2>5, <2>6, <2>7, TaskSteps
<1> QED
  BY <1>1 DEF WrittenInv, Kept

(* Sections come and do not go, so a package has every section that the   *)
(* items of its bundle have.                                               *)
ListedInv ==
    /\ \A b \in Bundles : DOMAIN bundle[b].items \subseteq Present
    /\ \A w \in Workers : task[w].at \in Sealing =>
          DOMAIN bundle[task[w].row].items \subseteq DOMAIN task[w].package.entries

(* The sections that a bundle has items for change only when it is created. *)
LEMMA ListedSteps ==
    ASSUME RowTypes, [Next]_vars, NEW b \in Bundles
    PROVE  \/ DOMAIN bundle'[b].items = DOMAIN bundle[b].items
           \/ CreateBundle(b) /\ DOMAIN bundle'[b].items = Present
<1>0. edits \in 0 .. MaxEdits /\ bundle[b].items \in Listed
  BY DEF RowTypes, BundleRow
<1>1. DOMAIN MaterializeItems = Present
  BY <1>0, SectionsTyped DEF MaterializeItems
<1>2. ASSUME NEW w \in Workers, SealedBy(w, b)
      PROVE  DOMAIN bundle'[b].items = DOMAIN bundle[b].items
  <2>1. task[w].package.entries \in Contents
    BY <1>2 DEF SealedBy, SealCommit, RowTypes, Sealing, Package
  <2> QED
    BY <1>0, <1>2, <2>1, SyncedTyped DEF SealedBy
<1> QED
  BY <1>1, <1>2, BundleSteps DEF Invalidates, Erases

LEMMA ListedInductive ==
    ASSUME RowTypes, SealInv, SealInv', ListedInv, [Next]_vars
    PROVE  ListedInv'
<1>0. task \in [Workers -> TaskRow] /\ edits \in 0 .. MaxEdits
  BY DEF RowTypes
<1>1. Present \subseteq Present'
  <2>1. CASE refers' = refers
    BY <2>1, Zenon DEF Present
  <2>2. CASE refers' = TRUE
    BY <2>2, Zenon DEF Present
  <2> QED
    BY <2>1, <2>2, Referring
<1>2. ASSUME NEW b \in Bundles PROVE DOMAIN bundle'[b].items \subseteq Present'
  BY <1>1, ListedSteps DEF ListedInv
<1>3. ASSUME NEW v \in Workers, task'[v].at \in Sealing
      PROVE  DOMAIN bundle'[task'[v].row].items \subseteq DOMAIN task'[v].package.entries
  <2>1. ASSUME task[v].at \in Sealing, task'[v].row = task[v].row, task'[v].package = task[v].package
        PROVE  DOMAIN bundle'[task'[v].row].items \subseteq DOMAIN task'[v].package.entries
    <3>1. task[v].row \in Bundles /\ bundle[task[v].row].status = "compiling"
      BY <2>1 DEF RowTypes, SealInv, StageInv
    <3>2. ~CreateBundle(task[v].row)
      BY <3>1, NextVersion DEF SealInv
    <3>3. DOMAIN bundle[task[v].row].items \subseteq DOMAIN task[v].package.entries
      BY <2>1 DEF ListedInv
    <3>4. DOMAIN bundle'[task[v].row].items = DOMAIN bundle[task[v].row].items
      BY <3>1, <3>2, ListedSteps
    <3> QED
      BY <2>1, <3>3, <3>4
  <2>2. ASSUME NEW b \in Bundles, SealBegin(v, b)
        PROVE  DOMAIN bundle'[task'[v].row].items \subseteq DOMAIN task'[v].package.entries
    <3>1. /\ task'[v].row = b /\ UNCHANGED bundle
          /\ task'[v].package = BuildPackage(v, b) \/ task'[v].at = "defect"
      BY <1>0, <2>2 DEF SealBegin, Begin
    <3>2. task'[v].package.entries = SourceSections(bundle[b].items["audit"])
      BY <1>3, <3>1 DEF BuildPackage, Sealing
    <3>3. bundle[b].items["audit"] \in 0 .. MaxEdits
      BY DEF RowTypes, BundleRow, Listed, Contents, Always
    <3>4. DOMAIN task'[v].package.entries = Present
      BY <1>0, <3>2, <3>3, SectionsTyped
    <3> QED
      BY <3>1, <3>4 DEF ListedInv
  <2>3. SealWrite(v) => /\ task[v].at \in Sealing /\ task'[v].row = task[v].row
                        /\ task'[v].package = task[v].package
    BY <1>0 DEF SealWrite, Sealing, TaskRow
  <2>4. task'[v] # Idle
    BY <1>3 DEF Idle, Sealing
  <2>5. ~(SealCommit(v) \/ SealFails(v) \/ ExportWrite(v) \/ CleanErase(v))
    BY <1>0, <1>3 DEF SealCommit, SealFails, ExportWrite, CleanErase, TaskRow, Sealing
  <2>6. ASSUME NEW x \in Exports, NEW b \in Bundles, NEW policy \in Policies,
               ExportBegin(v, x, b, policy)
        PROVE  FALSE
    BY <1>0, <1>3, <2>6 DEF ExportBegin, Begin, Sealing
  <2>7. ASSUME NEW r \in Stored, CleanBegin(v, r) PROVE FALSE
    BY <1>0, <1>3, <2>7 DEF CleanBegin, Begin, Sealing
  <2> QED
    BY <1>3, <2>1, <2>2, <2>3, <2>4, <2>5, <2>6, <2>7, TaskSteps
<1> QED
  BY <1>2, <1>3 DEF ListedInv

(* The items of a bundle agree with a package.                             *)
Agree(items, packed) ==
    /\ \A s \in DOMAIN items : s \in DOMAIN packed /\ packed[s] = items[s]
    /\ DOMAIN packed \ DOMAIN items \subseteq {"references"}

LEMMA SyncedAgree ==
    ASSUME NEW items \in Listed, NEW packed \in Contents, DOMAIN items \subseteq DOMAIN packed
    PROVE  Agree(SyncedItems(items, packed), packed)
<1>1. DOMAIN packed \subseteq Always \cup {"references"}
  BY DEF Contents, Sections
<1>2. Always \subseteq DOMAIN items
  BY DEF Listed
<1>3. SyncedItems(items, packed) = [s \in DOMAIN items |-> packed[s]]
  BY DEF SyncedItems
<1>4. /\ DOMAIN SyncedItems(items, packed) = DOMAIN items
      /\ \A s \in DOMAIN items : SyncedItems(items, packed)[s] = packed[s]
  BY <1>3
<1> QED
  BY <1>1, <1>2, <1>4 DEF Agree

(* The items of a bundle that was ever sealed are packed as recorded, and  *)
(* only the optional section of services._payload_entries_for_bundle may   *)
(* be packed without an item; the package stays in storage until its       *)
(* retention has ended, or a sealer that failed has removed it: whatever   *)
(* sealers, exports, cleanups, crashes and failing writes interleave, and  *)
(* whenever the first reference outside appears.                           *)
THEOREM SealedAsRecordedHolds == Spec => []SealedAsRecorded
<1>1. ASSUME Init PROVE WrittenInv /\ ListedInv /\ SealedAsRecorded
  <2>1. /\ \A b \in Bundles : bundle[b] = NoBundle
        /\ \A w \in Workers : task[w] = Idle
    BY <1>1 DEF Init
  <2>2. WrittenInv /\ SealedAsRecorded
    BY <2>1 DEF WrittenInv, Idle, SealedAsRecorded, HasSealedContent, NoBundle
  <2>3. DOMAIN NoBundle.items \subseteq Present
    BY DEF NoBundle, Present
  <2> QED
    BY <2>1, <2>2, <2>3 DEF ListedInv, Idle, Sealing
<1>2. ASSUME RowTypes, SealInv, WrittenInv, ListedInv, SealedAsRecorded, [Next]_vars
      PROVE  SealedAsRecorded'
  <2>1. ASSUME NEW b \in Bundles, bundle'[b].package # NoPackage
        PROVE  /\ Agree(bundle'[b].items, bundle'[b].package.entries)
               /\ ~bundle'[b].erased =>
                     \/ files'[b] = bundle'[b].package
                     \/ files'[b] = NoFile /\ (b \in due' \/ b \in unwound')
    <3>1. CASE HasSealedContent(b)
      <4>1. bundle'[b].package = bundle[b].package /\ bundle'[b].items = bundle[b].items
        BY <1>2, <3>1, StatusSteps
      <4>2. Agree(bundle[b].items, bundle[b].package.entries)
        BY <1>2, <3>1 DEF SealedAsRecorded, Agree
      <4>3. ~bundle'[b].erased => ~bundle[b].erased
        BY <1>2, <3>1, BundleSteps, NextVersion DEF SealedBy, Invalidates, Erases, SealInv, UnsealedInv
      <4>4. ASSUME ~bundle[b].erased
            PROVE  \/ files'[b] = bundle[b].package
                   \/ files'[b] = NoFile /\ (b \in due' \/ b \in unwound')
        <5>1. Kept(b, bundle[b].package) /\ Recorded(b)
          BY <1>2, <3>1, <4>4 DEF SealedAsRecorded, Kept, Recorded
        <5>2. ASSUME NEW w \in Workers, task[w].row = b, SealWrite(w) \/ SealWriteFails(w)
              PROVE  FALSE
          BY <1>2, <3>1, <5>2 DEF SealWrite, SealWriteFails, SealInv, StageInv, UnsealedInv, Sealing
        <5> QED
          BY <1>2, <5>1, <5>2, BytesKept
      <4> QED
        BY <4>1, <4>2, <4>3, <4>4
    <3>2. ASSUME NEW w \in Workers, SealedBy(w, b)
          PROVE  /\ Agree(bundle'[b].items, bundle'[b].package.entries)
                 /\ \/ files'[b] = bundle'[b].package
                    \/ files'[b] = NoFile /\ (b \in due' \/ b \in unwound')
      <4>1. task[w].at \in Sealing /\ task[w].row = b
        BY <3>2 DEF SealedBy, SealCommit, Sealing
      <4>2. bundle[b].items \in Listed /\ task[w].package.entries \in Contents
        BY <1>2, <4>1 DEF RowTypes, BundleRow, Package
      <4>3. DOMAIN bundle[b].items \subseteq DOMAIN task[w].package.entries
        BY <1>2, <4>1 DEF ListedInv
      <4>4. Agree(bundle'[b].items, bundle'[b].package.entries)
        BY <3>2, <4>2, <4>3, SyncedAgree DEF SealedBy
      <4> QED
        BY <1>2, <3>2, <4>4 DEF SealedBy, SealCommit, WrittenInv, Kept
    <3>3. HasSealedContent(b) \/ \E w \in Workers : SealedBy(w, b)
      BY <1>2, <2>1, BundleSteps DEF HasSealedContent, Invalidates, Erases
    <3> QED
      BY <3>1, <3>2, <3>3
  <2> QED
    BY <2>1 DEF SealedAsRecorded, HasSealedContent, Agree
<1>3. ASSUME RowTypes, SealInv, SealInv', WrittenInv, ListedInv, [Next]_vars
      PROVE  WrittenInv' /\ ListedInv'
  BY <1>3, WrittenInductive, ListedInductive
<1> QED
  BY <1>1, <1>2, <1>3, SealInvariant, PTL DEF Spec

-----------------------------------------------------------------------------
(* Holds.                                                                  *)

(* A cleanup under way has no hold on the row it erases.                   *)
HoldInv ==
    \A w \in Workers : task[w].at \in Cleaning =>
        \A h \in ActiveHolds : hold[h].on # task[w].row

LEMMA HoldInductive ==
    ASSUME RowTypes, HoldInv, [Next]_vars
    PROVE  HoldInv'
<1>0. task \in [Workers -> TaskRow] /\ hold \in [Holds -> HoldRow]
  BY DEF RowTypes
<1>1. ASSUME NEW v \in Workers, task'[v].at \in Cleaning, NEW h \in Holds,
             hold'[h].status = "active"
      PROVE  hold'[h].on # task'[v].row
  <2>1. CASE task'[v] = task[v]
    <3>1. ASSUME NEW b \in Bundles, CreateHold(h, b) PROVE hold'[h].on # task'[v].row
      <4>1. hold'[h].on = b /\ Unlocked(b)
        BY <1>0, <3>1 DEF CreateHold
      <4>2. task[v].at \in InTransaction
        BY <1>1, <2>1 DEF Cleaning, InTransaction
      <4> QED
        BY <2>1, <4>1, <4>2 DEF Unlocked
    <3>2. ASSUME NEW g \in Holds, NEW b \in Bundles, CreateHold(g, b), g # h
          PROVE  hold'[h] = hold[h]
      BY <1>0, <3>2 DEF CreateHold
    <3>3. ASSUME NEW g \in Holds, ReleaseHold(g) PROVE hold'[h] = hold[h]
      BY <1>0, <1>1, <3>3 DEF ReleaseHold, HoldRow
    <3>4. hold'[h] = hold[h] \/ \E b \in Bundles : CreateHold(h, b)
      BY <3>2, <3>3, ColumnSteps
    <3> QED
      BY <1>1, <2>1, <3>1, <3>4 DEF HoldInv, ActiveHolds
  <2>2. CASE \E r \in Stored : CleanBegin(v, r)
    BY <1>1, <2>2 DEF CleanBegin, NoActiveHold, ActiveHolds
  <2>3. CASE CleanErase(v)
    BY <1>0, <1>1, <2>3 DEF CleanErase, HoldInv, ActiveHolds, Cleaning, TaskRow
  <2>4. task'[v] # Idle
    BY <1>1 DEF Idle, Cleaning
  <2>5. ASSUME NEW b \in Bundles, SealBegin(v, b) PROVE FALSE
    BY <1>0, <1>1, <2>5 DEF SealBegin, Begin, Cleaning
  <2>6. ASSUME SealWrite(v) \/ SealCommit(v) \/ SealFails(v) \/ ExportWrite(v) PROVE FALSE
    BY <1>0, <1>1, <2>6 DEF SealWrite, SealCommit, SealFails, ExportWrite, TaskRow, Cleaning
  <2>7. ASSUME NEW x \in Exports, NEW b \in Bundles, NEW policy \in Policies,
               ExportBegin(v, x, b, policy)
        PROVE  FALSE
    BY <1>0, <1>1, <2>7 DEF ExportBegin, Begin, Cleaning
  <2> QED
    BY <2>1, <2>2, <2>3, <2>4, <2>5, <2>6, <2>7, TaskSteps
<1> QED
  BY <1>1 DEF HoldInv, ActiveHolds

(* The cleanup never erases, nor marks erased, a bundle under an active    *)
(* hold: a hold placed while the cleanup is at work waits for its row.     *)
THEOREM HeldBundleKeptHolds == Spec => HeldBundleKept
<1>1. Init => HoldInv
  BY DEF Init, HoldInv, Idle, Cleaning
<1>2. ASSUME RowTypes, HoldInv, [Next]_vars PROVE HoldInv'
  BY <1>2, HoldInductive
<1>3. ASSUME HoldInv
      PROVE  \A w \in Workers : task[w].at \in {"cleaning", "erasing"} /\ task'[w] # task[w] =>
                \A h \in ActiveHolds : hold[h].on # task[w].row
  BY <1>3 DEF HoldInv, Cleaning
<1> QED
  BY <1>1, <1>2, <1>3, SealInvariant, PTL DEF Spec, HeldBundleKept

-----------------------------------------------------------------------------
(* Exports.                                                                *)

(* What n rules leave of a view is what they promise.                      *)
Redacted(policy, n, view) == \A p \in Paths \ Rewritten : Promised(policy, n, view[p], p)

(* The manifest and the receipt are the export's own.                      *)
Anew(view) == \A p \in Rewritten : view[p].form = "export"

(* An export that was not refused shows a sealed bundle's package as far   *)
(* as its policy has been applied, has one worker while it is being        *)
(* created, and is due only once it is ready.                              *)
ExportInv ==
    /\ \A x \in Exports : export[x].status \in {"creating", "ready"} =>
          /\ export[x].of \in Bundles /\ HasSealedContent(export[x].of)
          /\ export[x].package = bundle[export[x].of].package
          /\ Redacted(export[x].policy, export[x].done, export[x].view)
    /\ \A x \in Exports : x \in due => export[x].status = "ready"
    /\ \A w \in Workers : task[w].at \in Exporting =>
          /\ export[task[w].row].status = "creating"
          /\ task[w].package = export[task[w].row].package
          /\ task[w].at = "exported" =>
                /\ files[task[w].row] = task[w].package
                /\ export[task[w].row].done = Len(export[task[w].row].policy)
                /\ Anew(export[task[w].row].view)
    /\ \A v, w \in Workers :
          v # w /\ task[v].at \in Exporting /\ task[w].at \in Exporting
              => task[v].row # task[w].row

(* Before any rule nothing is changed; a rule keeps what those before it   *)
(* promise, because it leaves what is withheld alone and cannot show again *)
(* what is hidden; and the export rewrites only its own entries.           *)
LEMMA NothingRedacted ==
    ASSUME NEW policy
    PROVE  Redacted(policy, 0, SourceView)
BY DEF Redacted, Promised, SourceView

LEMMA RuleKeepsPromises ==
    ASSUME NEW policy \in Seq(Rules), NEW n \in Nat, NEW view \in [Paths -> Entry],
           Redacted(policy, n, view)
    PROVE  Redacted(policy, n + 1, ApplyRule(view, policy[n + 1]))
<1> DEFINE rule == policy[n + 1]
<1>1. \A i : i \in 1 .. (n + 1) <=> i \in 1 .. n \/ i = n + 1
  OBVIOUS
<1> HIDE DEF rule
<1>2. ASSUME NEW p \in Paths \ Rewritten
      PROVE  Promised(policy, n + 1, ApplyRule(view, rule)[p], p)
  <2> DEFINE old == view[p]
             new == ApplyRule(view, rule)[p]
  <2>1. old \in Entry /\ Promised(policy, n, old, p)
    BY DEF Redacted
  <2>2. new = IF old.form = "withheld" THEN old ELSE Treated(old, rule, p)
    BY DEF ApplyRule
  <2> HIDE DEF old, new
  <2>3. CASE old.form = "withheld"
    <3>1. new = old /\ old.shown = {}
      BY <2>1, <2>2, <2>3 DEF Promised
    <3> QED
      BY <1>1, <2>1, <2>3, <3>1 DEF Promised, rule, new
  <2>4. CASE old.form # "withheld" /\ Omits(rule, p)
    <3>1. new.form = "withheld" /\ new.shown = {}
      BY <2>2, <2>4 DEF Treated
    <3>2. n + 1 \in 1 .. (n + 1) /\ Omits(policy[n + 1], p)
      BY <2>4 DEF rule
    <3> QED
      BY <3>1, <3>2 DEF Promised, new
  <2>5. CASE old.form # "withheld" /\ ~Omits(rule, p) /\ Replaces(rule, p)
    <3>1. new.form = "notice" /\ new.shown = {}
      BY <2>2, <2>5 DEF Treated
    <3>2. \A i \in 1 .. (n + 1) : ~Omits(policy[i], p)
      BY <1>1, <2>1, <2>5 DEF Promised, rule
    <3>3. n + 1 \in 1 .. (n + 1) /\ Replaces(policy[n + 1], p)
      BY <2>5 DEF rule
    <3> QED
      BY <3>1, <3>2, <3>3 DEF Promised, new
  <2>6. CASE old.form # "withheld" /\ ~Omits(rule, p) /\ ~Replaces(rule, p)
    <3>1. new = [old EXCEPT !.shown = old.shown \ Hidden(rule, p)]
      BY <2>2, <2>6 DEF Treated
    <3>2. new.form = old.form /\ new.shown = old.shown \ Hidden(rule, p)
      BY <2>1, <3>1 DEF Entry
    <3>3. \A i \in 1 .. (n + 1) :
             /\ Omits(policy[i], p) => new.form = "withheld"
             /\ Replaces(policy[i], p) => new.form \in {"withheld", "notice"}
             /\ new.shown \cap Hidden(policy[i], p) = {}
      BY <1>1, <2>1, <2>6, <3>2 DEF Promised, rule
    <3>4. /\ new.form \in {"sealed", "withheld", "notice"}
          /\ new.form # "sealed" => new.shown = {}
          /\ new.form = "withheld" => \E i \in 1 .. (n + 1) : Omits(policy[i], p)
          /\ new.form = "notice" => \E i \in 1 .. (n + 1) : Replaces(policy[i], p)
      BY <1>1, <2>1, <2>6, <3>2 DEF Promised
    <3>5. ASSUME new.form = "sealed", NEW v \in Values \ new.shown
          PROVE  \E i \in 1 .. (n + 1) : v \in Hidden(policy[i], p)
      <4>1. v \notin old.shown \/ v \in Hidden(policy[n + 1], p)
        BY <3>2, <3>5 DEF rule
      <4>2. n + 1 \in 1 .. (n + 1)
        OBVIOUS
      <4> QED
        BY <1>1, <2>1, <3>2, <3>5, <4>1, <4>2 DEF Promised
    <3> QED
      BY <3>3, <3>4, <3>5 DEF Promised, new
  <2> QED
    BY <2>3, <2>4, <2>5, <2>6 DEF new
<1> QED
  BY <1>2 DEF Redacted, rule

LEMMA PackingKeepsPromises ==
    ASSUME NEW policy, NEW n, NEW view \in [Paths -> Entry], Redacted(policy, n, view)
    PROVE  Redacted(policy, n, ExportEntries(view)) /\ Anew(ExportEntries(view))
<1>1. \A p \in Paths \ Rewritten : ExportEntries(view)[p] = view[p]
  BY DEF ExportEntries
<1>2. \A p \in Rewritten : p \in Paths /\ ExportEntries(view)[p].form = "export"
  BY DEF ExportEntries, Paths, Rewritten
<1> QED
  BY <1>1, <1>2 DEF Redacted, Anew

(* The bytes of a ready export are those of the package its bundle was     *)
(* sealed with, until it lapses or its announcement fails, and it shows    *)
(* what its redaction policy promises.                                     *)
ExportKept ==
    \A x \in Exports : export[x].status = "ready" =>
        /\ export[x].package = bundle[export[x].of].package
        /\ ~export[x].erased => Kept(x, export[x].package)
        /\ Redacted(export[x].policy, Len(export[x].policy), export[x].view)
        /\ Anew(export[x].view)

LEMMA ExportInductive ==
    ASSUME RowTypes, SealInv, ExportInv, [Next]_vars
    PROVE  ExportInv'
<1>0. /\ task \in [Workers -> TaskRow] /\ export \in [Exports -> ExportRow]
      /\ files \in [Stored -> Package \cup {NoFile, Garbage}]
  BY DEF RowTypes
<1>v. \A x \in Exports : /\ export[x].policy \in Seq(Rules) /\ export[x].done \in Nat
                           /\ export[x].view \in [Paths -> Entry]
  BY <1>0 DEF ExportRow
<1>1. ASSUME NEW x \in Exports, export'[x].status \in {"creating", "ready"}
      PROVE  /\ export'[x].of \in Bundles /\ bundle'[export'[x].of].package # NoPackage
             /\ export'[x].package = bundle'[export'[x].of].package
             /\ Redacted(export'[x].policy, export'[x].done, export'[x].view)
  <2>1. \A b \in Bundles : HasSealedContent(b) => bundle'[b].package = bundle[b].package
    BY StatusSteps
  <2>2. CASE Begins(x)
    BY <2>1, <2>2, NothingRedacted DEF Begins, HasSealedContent
  <2>3. CASE SameExport(x) /\ export[x].status \in {"creating", "ready"}
    BY <2>1, <2>3 DEF SameExport, SameSource, ExportInv, HasSealedContent
  <2>4. ASSUME NEW w \in Workers, task[w].row = x, ExportReady(w) \/ ExportFails(w)
        PROVE  export[x].status = "creating"
    BY <2>4 DEF ExportReady, ExportFails, ExportInv, Exporting
  <2>5. ASSUME NEW w \in Workers, Ruled(w, x) \/ Packed(w, x)
        PROVE  Redacted(export'[x].policy, export'[x].done, export'[x].view)
               /\ SameSource(x) /\ export[x].status \in {"creating", "ready"}
    <3>1. export[x].status \in {"creating", "ready"} /\ SameSource(x)
      BY <1>1, <2>5 DEF Ruled, Packed
    <3>2. Redacted(export[x].policy, export[x].done, export[x].view)
      BY <3>1 DEF ExportInv
    <3> DEFINE policy == export[x].policy
               n == export[x].done
               view == export[x].view
    <3>v. policy \in Seq(Rules) /\ n \in Nat /\ view \in [Paths -> Entry]
      BY <1>v
    <3>3. CASE Ruled(w, x)
      <4>1. /\ export'[x].policy = policy /\ export'[x].done = n + 1
            /\ export'[x].view = ApplyRule(view, policy[n + 1])
        BY <3>3 DEF Ruled, SameSource
      <4> HIDE DEF policy, n, view
      <4>2. Redacted(policy, n + 1, ApplyRule(view, policy[n + 1]))
        BY <3>v, <3>2, RuleKeepsPromises DEF policy, n, view
      <4> QED
        BY <3>1, <4>1, <4>2
    <3>4. CASE Packed(w, x)
      <4>1. /\ export'[x].policy = policy /\ export'[x].done = n
            /\ export'[x].view = ExportEntries(view)
        BY <3>4 DEF Packed, SameSource
      <4>2. Redacted(policy, n, ExportEntries(view))
        BY <3>v, <3>2, PackingKeepsPromises
      <4> QED
        BY <3>1, <4>1, <4>2
    <3> QED
      BY <2>5, <3>1, <3>3, <3>4
  <2>6. ASSUME NEW w \in Workers, Ruled(w, x) \/ Packed(w, x)
        PROVE  /\ export'[x].of \in Bundles /\ bundle'[export'[x].of].package # NoPackage
               /\ export'[x].package = bundle'[export'[x].of].package
    BY <2>1, <2>5, <2>6 DEF SameSource, ExportInv, HasSealedContent
  <2>7. CASE export'[x] = export[x]
    BY <1>1, <2>3, <2>7 DEF SameExport, SameSource
  <2> QED
    BY <1>1, <2>2, <2>3, <2>4, <2>5, <2>6, <2>7, ExportSteps
<1>2. ASSUME NEW x \in Exports, x \in due'
      PROVE  export'[x].status = "ready"
  <2>1. x \in due \/ Lapse(x)
    BY <1>2, ColumnSteps DEF Lapse
  <2>2. x \notin Bundles
    BY EvidenceAssumption DEF Bundles
  <2>3. export[x].status = "ready"
    BY <2>1, <2>2 DEF ExportInv, Lapse
  <2>4. ASSUME NEW w \in Workers, task[w].row = x, ExportReady(w) \/ ExportFails(w)
        PROVE  export[x].status = "creating"
    BY <2>4 DEF ExportReady, ExportFails, ExportInv, Exporting
  <2> QED
    BY <2>3, <2>4, ExportSteps DEF Begins, Ruled, Packed
<1>3. ASSUME NEW v \in Workers, task'[v].at \in Exporting
      PROVE  /\ export'[task'[v].row].status = "creating"
             /\ task'[v].package = export'[task'[v].row].package
             /\ task'[v].at = "exported" =>
                   /\ files'[task'[v].row] = task'[v].package
                   /\ export'[task'[v].row].done = Len(export'[task'[v].row].policy)
                   /\ Anew(export'[task'[v].row].view)
             /\ \A w \in Workers \ {v} : task'[w].at \in Exporting /\ task'[v] # task[v]
                   => task'[w].row # task'[v].row
  <2>1. CASE task'[v] = task[v]
    <3> DEFINE x == task[v].row
    <3>0. x \in Exports /\ x \in Stored /\ x \notin Bundles
      BY <1>3, <2>1, EvidenceAssumption DEF RowTypes, Stored, Bundles
    <3>1. /\ export[x].status = "creating" /\ task[v].package = export[x].package
          /\ task[v].at = "exported" => /\ files[x] = task[v].package
                                         /\ export[x].done = Len(export[x].policy)
                                         /\ Anew(export[x].view)
          /\ x \notin due
      BY <1>3, <2>1, <3>0 DEF ExportInv
    <3>2. ASSUME NEW w \in Workers, task[w].row = x,
                 ExportReady(w) \/ ExportFails(w) \/ ExportWrite(w)
          PROVE  FALSE
      <4>1. v # w
        BY <1>0, <1>3, <2>1, <3>2 DEF ExportReady, ExportFails, ExportWrite, End, Idle, Exporting, TaskRow
      <4>2. task[w].at \in Exporting
        BY <3>2 DEF ExportReady, ExportFails, ExportWrite, Exporting
      <4> QED
        BY <1>3, <2>1, <3>2, <4>1, <4>2 DEF ExportInv
    <3>r. ASSUME NEW w \in Workers, Ruled(w, x)
          PROVE  task[v].at = "exporting"
      <4>1. task[w].row = x /\ task[w].at = "exporting" /\ UNCHANGED task
        BY <3>r DEF Ruled, ExportRule
      <4>2. v = w
        BY <1>3, <2>1, <4>1 DEF ExportInv, Exporting
      <4> QED
        BY <4>1, <4>2
    <3>3. /\ export'[x].status = "creating" /\ export'[x].package = export[x].package
          /\ task[v].at = "exported" => SameExport(x)
      BY <3>0, <3>1, <3>2, <3>r, ExportSteps DEF Begins, SameExport, SameSource, Ruled, Packed
    <3>4. ASSUME NEW w \in Workers, task[w].row = x,
                 SealWrite(w) \/ SealWriteFails(w) \/ SealUnwind(w) \/ CleanErase(w)
          PROVE  FALSE
      BY <3>0, <3>1, <3>4 DEF SealWrite, SealWriteFails, SealUnwind, CleanErase, RowTypes,
                              Sealing, Sealed, SealInv, StageInv, Cleaning
    <3>5. files'[x] = files[x]
      BY <3>0, <3>2, <3>4, FileSteps
    <3> QED
      BY <2>1, <3>1, <3>3, <3>5 DEF SameExport, SameSource
  <2>2. ASSUME NEW x \in Exports, NEW b \in Bundles, NEW policy \in Policies,
               ExportBegin(v, x, b, policy)
        PROVE  /\ export'[task'[v].row].status = "creating"
               /\ task'[v].package = export'[task'[v].row].package
               /\ task'[v].at = "exporting"
               /\ \A w \in Workers \ {v} : task'[w].at \in Exporting => task'[w].row # task'[v].row
    <3>1. /\ task'[v].row = x /\ task'[v].package = bundle[b].package /\ task'[v].at = "exporting"
          /\ export[x].status = "none" /\ export'[x].status = "creating"
          /\ export'[x].package = bundle[b].package
      BY <1>0, <2>2 DEF ExportBegin, Begin, NoExport
    <3>2. ASSUME NEW w \in Workers \ {v} PROVE task'[w] = task[w]
      BY <1>0, <2>2 DEF ExportBegin, Begin
    <3> QED
      BY <3>1, <3>2 DEF ExportInv
  <2>3. CASE ExportWrite(v)
    <3>1. task[v].row \in Exports /\ task[v].row \in Stored
      BY <2>3 DEF ExportWrite, RowTypes, Exporting, Stored
    <3>2. /\ task'[v] = [task[v] EXCEPT !.at = "exported"]
          /\ files'[task[v].row] = task[v].package
          /\ \A w \in Workers \ {v} : task'[w] = task[w]
      BY <1>0, <2>3, <3>1 DEF ExportWrite
    <3>3. task'[v].row = task[v].row /\ task'[v].package = task[v].package
      BY <1>0, <3>2 DEF TaskRow
    <3>4. task[v].at \in Exporting
      BY <2>3 DEF ExportWrite, Exporting
    <3> DEFINE x == task[v].row
    <3>5. /\ export'[x].status = export[x].status /\ export'[x].package = export[x].package
          /\ export'[x].done = Len(export'[x].policy)
          /\ export'[x].view = ExportEntries(export[x].view)
      BY <1>0, <2>3, <3>1 DEF ExportWrite, ExportRow
    <3>6. export[x].status = "creating" /\ task[v].package = export[x].package
      BY <3>4 DEF ExportInv
    <3>7. Redacted(export[x].policy, export[x].done, export[x].view)
      BY <3>1, <3>6 DEF ExportInv
    <3>8. Anew(export'[x].view)
      BY <1>v, <3>1, <3>5, <3>7, PackingKeepsPromises
    <3>9. ASSUME NEW w \in Workers \ {v}, task'[w].at \in Exporting PROVE task'[w].row # x
      BY <3>2, <3>4, <3>9 DEF ExportInv
    <3> QED
      BY <3>2, <3>3, <3>5, <3>6, <3>8, <3>9
  <2>4. task'[v] # Idle
    BY <1>3 DEF Idle, Exporting
  <2>5. ASSUME NEW b \in Bundles, SealBegin(v, b) PROVE FALSE
    BY <1>0, <1>3, <2>5 DEF SealBegin, Begin, Exporting
  <2>6. ASSUME SealWrite(v) \/ SealCommit(v) \/ SealFails(v) \/ CleanErase(v) PROVE FALSE
    BY <1>0, <1>3, <2>6 DEF SealWrite, SealCommit, SealFails, CleanErase, TaskRow, Exporting
  <2>7. ASSUME NEW r \in Stored, CleanBegin(v, r) PROVE FALSE
    BY <1>0, <1>3, <2>7 DEF CleanBegin, Begin, Exporting
  <2>8. "exporting" # "exported"
    OBVIOUS
  <2> QED
    BY <2>1, <2>2, <2>3, <2>4, <2>5, <2>6, <2>7, <2>8, TaskSteps
<1>4. ASSUME NEW v \in Workers, NEW w \in Workers, v # w, task'[v].at \in Exporting,
             task'[w].at \in Exporting
      PROVE  task'[v].row # task'[w].row
  BY <1>3, <1>4 DEF ExportInv
<1> QED
  BY <1>1, <1>2, <1>3, <1>4 DEF ExportInv, HasSealedContent

(* An export that is ready carries the bytes of the package its bundle was *)
(* sealed with, in the form its redaction policy gives them, from          *)
(* its creation (services.create_evidence_export) until it is erased or    *)
(* its announcement fails.                                                 *)
THEOREM ExportBytesKept == Spec => []ExportKept
<1>1. Init => ExportInv /\ ExportKept
  BY DEF Init, ExportInv, ExportKept, NoExport, Idle, Exporting
<1>2. ASSUME RowTypes, SealInv, ExportInv, ExportInv', ExportKept, [Next]_vars
      PROVE  ExportKept'
  <2>1. ASSUME NEW x \in Exports, export'[x].status = "ready", ~export'[x].erased
        PROVE  \/ files'[x] = export'[x].package
               \/ files'[x] = NoFile /\ (x \in due' \/ x \in unwound')
    <3>0. x \in Stored /\ x \notin Bundles
      BY EvidenceAssumption DEF Stored, Bundles
    <3>1. ASSUME NEW w \in Workers, task[w].row = x, ExportReady(w) \/ ExportFails(w)
          PROVE  /\ export[x].status = "creating" /\ files[x] = export[x].package
                 /\ ExportReady(w) => files'[x] = files[x]
                 /\ ExportFails(w) => files'[x] = NoFile /\ x \in unwound'
      <4>1. task[w].at = "exported" /\ task[w].at \in Exporting
        BY <3>1 DEF ExportReady, ExportFails, Exporting
      <4>2. export[x].status = "creating" /\ files[x] = export[x].package
        BY <1>2, <3>1, <4>1 DEF ExportInv
      <4>3. ExportReady(w) => files'[x] = files[x]
        BY DEF ExportReady
      <4>4. ASSUME ExportFails(w) PROVE files'[x] = NoFile /\ x \in unwound'
        <5>1. files'[x] = NoFile
          BY <1>2, <3>0, <3>1, <4>4 DEF ExportFails, RowTypes
        <5>2. PICK status \in {"failed", "ready"} :
                 /\ export' = [export EXCEPT ![x].status = status]
                 /\ unwound' = IF status = "ready" THEN unwound \cup {x} ELSE unwound
          BY <3>1, <4>4 DEF ExportFails
        <5>3. export'[x].status = status
          BY <1>2, <5>2 DEF RowTypes, ExportRow
        <5> QED
          BY <2>1, <5>1, <5>2, <5>3
      <4> QED
        BY <4>2, <4>3, <4>4
    <3>2. CASE export[x].status = "ready" /\ ~export[x].erased /\ export'[x].package = export[x].package
      <4>1. Kept(x, export[x].package)
        BY <1>2, <3>2 DEF ExportKept
      <4>2. ASSUME NEW w \in Workers, task[w].row = x,
                   SealWrite(w) \/ SealWriteFails(w) \/ SealUnwind(w) \/ ExportWrite(w)
            PROVE  FALSE
        BY <1>2, <3>0, <3>2, <4>2 DEF SealWrite, SealWriteFails, SealUnwind, ExportWrite, RowTypes,
                                Sealing, Sealed, ExportInv, Exporting
      <4>3. ASSUME NEW w \in Workers, task[w].row = x, CleanErase(w) PROVE x \in due'
        BY <1>2, <4>3, Unwinding DEF CleanErase, SealInv, StageInv, Cleaning
      <4>4. ASSUME NEW w \in Workers, task[w].row = x, ExportFails(w) PROVE FALSE
        BY <3>1, <3>2, <4>4
      <4> QED
        BY <1>2, <3>0, <3>2, <4>1, <4>2, <4>3, <4>4, FileSteps, Unwinding DEF Kept
    <3>3. ASSUME NEW w \in Workers, Ruled(w, x) \/ Packed(w, x)
          PROVE  FALSE
      <4>1. task[w].row = x /\ task[w].at \in Exporting /\ export[x].status = "ready"
        BY <2>1, <3>3 DEF Ruled, Packed, ExportRule, ExportWrite, Exporting
      <4> QED
        BY <1>2, <4>1 DEF ExportInv
    <3> QED
      BY <1>2, <2>1, <3>1, <3>2, <3>3, ExportSteps DEF Begins, SameExport, SameSource
  <2>2. ASSUME NEW x \in Exports, export'[x].status = "ready"
        PROVE  /\ export'[x].package = bundle'[export'[x].of].package
               /\ Redacted(export'[x].policy, Len(export'[x].policy), export'[x].view)
               /\ Anew(export'[x].view)
    <3>1. /\ export'[x].package = bundle'[export'[x].of].package
          /\ Redacted(export'[x].policy, export'[x].done, export'[x].view)
      BY <1>2, <2>2 DEF ExportInv
    <3>2. CASE SameExport(x) /\ export[x].status = "ready"
      BY <1>2, <3>1, <3>2 DEF SameExport, SameSource, ExportKept
    <3>3. ASSUME NEW w \in Workers, task[w].row = x, ExportReady(w) \/ ExportFails(w), SameExport(x)
          PROVE  export[x].done = Len(export[x].policy) /\ Anew(export[x].view)
      BY <1>2, <3>3 DEF ExportReady, ExportFails, ExportInv, Exporting
    <3>4. ASSUME NEW w \in Workers, Ruled(w, x) \/ Packed(w, x)
          PROVE  FALSE
      <4>1. task[w].row = x /\ task[w].at \in Exporting /\ export[x].status = "ready"
        BY <2>2, <3>4 DEF Ruled, Packed, ExportRule, ExportWrite, Exporting
      <4> QED
        BY <1>2, <4>1 DEF ExportInv
    <3>5. export'[x] = export[x] => SameExport(x) /\ export[x].status = "ready"
      BY <2>2 DEF SameExport, SameSource
    <3>6. \/ SameExport(x) /\ export[x].status = "ready"
          \/ \E w \in Workers : task[w].row = x /\ (ExportReady(w) \/ ExportFails(w)) /\ SameExport(x)
      BY <1>2, <2>2, <3>4, <3>5, ExportSteps DEF Begins
    <3> QED
      BY <3>1, <3>2, <3>3, <3>6 DEF SameExport, SameSource
  <2> QED
    BY <2>1, <2>2 DEF ExportKept, Kept
<1>3. ASSUME RowTypes, SealInv, ExportInv, [Next]_vars PROVE ExportInv'
  BY <1>3, ExportInductive
<1> QED
  BY <1>1, <1>2, <1>3, SealInvariant, PTL DEF Spec

(* An export that is ready carries the bytes of the package its bundle was *)
(* sealed with, from its creation (services.create_evidence_export) until  *)
(* it is erased or its announcement fails; in whatever order the rules of  *)
(* its policy are applied (services._apply_redaction_policy), what one     *)
(* omits stays out, what one replaces or covers is not shown, and nothing  *)
(* else is withheld or hidden.                                             *)
THEOREM ExportAsPromisedHolds == Spec => []ExportAsPromised
<1>1. ASSUME ExportKept PROVE ExportAsPromised
  BY <1>1 DEF ExportKept, ExportAsPromised, Kept, Redacted, Anew
<1> QED
  BY <1>1, ExportBytesKept, PTL

-----------------------------------------------------------------------------
(* Type correctness.  RowTypes covers the rows, the files and the tasks;   *)
(* the sources, the fault count and the record of unwound files remain.    *)
SourceTypes ==
    /\ closed \in BOOLEAN /\ absent \subseteq RequiredParts /\ lost \subseteq Artifacts
    /\ faults \in 0 .. MaxFaults
    /\ unwound \subseteq Stored

LEMMA SourceSteps ==
    ASSUME [Next]_vars
    PROVE  /\ UNCHANGED absent
           /\ UNCHANGED closed \/ closed' = TRUE
           /\ UNCHANGED lost \/ \E a \in Artifacts : lost' = lost \cup {a}
           /\ UNCHANGED faults \/ (faults < MaxFaults /\ faults' = faults + 1)
<1> USE DEF sources
<1>1. CASE UNCHANGED vars
  BY <1>1 DEF vars
<1>2. CASE ChangeCloses \/ SourcesChange \/ \E a \in Artifacts : LoseArtifact(a)
  BY <1>2 DEF ChangeCloses, SourcesChange, LoseArtifact
<1>3. ASSUME NEW b \in Bundles, CreateBundle(b) \/ InvalidateBundle(b)
      PROVE  UNCHANGED <<closed, absent, lost, faults>>
  BY <1>3 DEF CreateBundle, InvalidateBundle
<1>4. ASSUME \/ \E h \in Holds, b \in Bundles : CreateHold(h, b)
             \/ \E h \in Holds : ReleaseHold(h)
             \/ \E r \in Stored : Lapse(r)
      PROVE  UNCHANGED <<closed, absent, lost, faults>>
  BY <1>4 DEF CreateHold, ReleaseHold, Lapse
<1>5. ASSUME NEW w \in Workers, WorkerStep(w)
      PROVE  /\ UNCHANGED <<closed, absent, lost>>
             /\ UNCHANGED faults \/ (faults < MaxFaults /\ faults' = faults + 1)
  <2>1. CASE \/ \E b \in Bundles : SealBegin(w, b)
             \/ \E r \in Stored : CleanBegin(w, r)
             \/ SealEmit(w) \/ SealFails(w) \/ Crash(w)
    BY <2>1 DEF SealBegin, CleanBegin, SealEmit, SealFails, Crash
  <2>2. CASE SealWrite(w) \/ SealCommit(w) \/ SealWriteFails(w) \/ SealUnwind(w)
    BY <2>2 DEF SealWrite, SealCommit, SealWriteFails, SealUnwind
  <2>3. CASE InvalidateDefect(w) \/ CleanErase(w) \/ CleanCommit(w)
    BY <2>3 DEF InvalidateDefect, CleanErase, CleanCommit
  <2>4. CASE \/ \E x \in Exports, b \in Bundles, policy \in Policies :
                   ExportBegin(w, x, b, policy)
             \/ ExportRule(w) \/ ExportWrite(w) \/ ExportReady(w) \/ ExportFails(w)
    BY <2>4 DEF ExportBegin, ExportRule, ExportWrite, ExportReady, ExportFails
  <2> QED
    BY <1>5, <2>1, <2>2, <2>3, <2>4 DEF WorkerStep
<1> QED
  BY <1>1, <1>2, <1>3, <1>4, <1>5 DEF Next

LEMMA SourceTypesInductive ==
    ASSUME RowTypes, SourceTypes, [Next]_vars
    PROVE  SourceTypes'
<1>1. faults' \in 0 .. MaxFaults
  <2>1. MaxFaults \in Nat /\ faults \in Nat
    BY EvidenceAssumption DEF SourceTypes
  <2>2. UNCHANGED faults \/ (faults < MaxFaults /\ faults' = faults + 1)
    BY SourceSteps
  <2>3. faults <= MaxFaults
    BY <2>1 DEF SourceTypes
  <2> QED
    BY <2>1, <2>2, <2>3
<1>2. unwound' \subseteq Stored
  <2>1. ASSUME NEW w \in Workers, SealUnwind(w) PROVE unwound' \subseteq Stored
    BY <2>1 DEF SealUnwind, RowTypes, SourceTypes, Sealed, Stored
  <2>2. ASSUME NEW w \in Workers, ExportFails(w) PROVE unwound' \subseteq Stored
    BY <2>2 DEF ExportFails, RowTypes, SourceTypes, Exporting, Stored
  <2> QED
    BY <2>1, <2>2, ColumnSteps DEF SourceTypes
<1> QED
  BY <1>1, <1>2, SourceSteps DEF SourceTypes

(* Every row, file and task has one of the forms the handlers of           *)
(* evidence/services.py write.                                             *)
THEOREM TypeCorrect == Spec => []TypeOK
<1>1. Init => SourceTypes
  <2>1. ASSUME Init PROVE faults \in 0 .. MaxFaults
    BY <2>1, EvidenceAssumption DEF Init
  <2> QED
    BY <2>1 DEF Init, SourceTypes, RequiredParts
<1>2. ASSUME RowTypes, SourceTypes PROVE TypeOK
  <2>1. ASSUME NEW b \in Bundles
        PROVE  /\ bundle[b].status \in BundleStatus /\ bundle[b].completeness \in Completeness
               /\ bundle[b].items \in Contents /\ bundle[b].package \in Package \cup {NoPackage}
               /\ bundle[b].status = "sealed" => bundle[b].package # NoPackage
    BY <1>2, NoPackageIsNone DEF RowTypes, BundleRow, Listed
  <2>2. ASSUME NEW x \in Exports
        PROVE  /\ export[x].status \in ExportStatus /\ export[x].view \in [Paths -> Entry]
               /\ export[x].done \in 0 .. Len(export[x].policy)
    <3>1. export[x] \in ExportRow /\ export[x].done <= Len(export[x].policy)
      BY <1>2 DEF RowTypes
    <3>2. Len(export[x].policy) \in Nat /\ export[x].done \in Nat
      BY <3>1 DEF ExportRow
    <3> QED
      BY <3>1, <3>2 DEF ExportRow
  <2>3. \A h \in Holds : hold[h].status \in HoldStatus /\ hold[h].on \in Bundles \cup {0}
    BY <1>2 DEF RowTypes, HoldRow
  <2>4. /\ edits \in 0 .. MaxEdits /\ refers \in BOOLEAN /\ due \subseteq Stored
        /\ \A f \in Stored : files[f] \in Package \cup {NoFile, Garbage}
    BY <1>2 DEF RowTypes
  <2> QED
    BY <1>2, <2>1, <2>2, <2>3, <2>4 DEF TypeOK, SourceTypes
<1>3. ASSUME RowTypes, SourceTypes, [Next]_vars PROVE SourceTypes'
  BY <1>3, SourceTypesInductive
<1> QED
  BY <1>1, <1>2, <1>3, SealInvariant, PTL DEF Spec
=============================================================================
