--------------------------- MODULE EvidenceBundles ---------------------------
(***************************************************************************)
(* Evidence of one closed change: bundle versions are materialized, sealed *)
(* into a stored package, exported with redactions, held and erased when   *)
(* their retention ends.                                                   *)
(*                                                                         *)
(* A handler that seals, exports or erases works on two stores that do not *)
(* commit together: the rows (a transaction, with a lock on one row) and   *)
(* the files.  Each handler is cut where the other store, another handler  *)
(* or a fault can come between.                                            *)
(***************************************************************************)
EXTENDS Naturals, Sequences, FiniteSets

CONSTANTS Workers,      \* API workers and cleanup commands at work
          MaxVersion,   \* bound on bundle versions of the change
          Exports,      \* rows of EvidenceExport that may come to exist
          Holds,        \* rows of LegalHold that may come to exist
          Artifacts,    \* artifacts of the change's execution
          Policies,     \* redaction policies: sequences of rules
          Values,       \* values that an entry of a package shows
          Retained,     \* the organization has a default retention policy
          MaxEdits,     \* bound on changes of the sources after the closure
          MaxFaults,    \* bound on faults in a behaviour
          NoFile, Garbage

ASSUME EvidenceAssumption ==
    /\ MaxVersion \in Nat /\ MaxEdits \in Nat /\ MaxFaults \in Nat
    /\ Retained \in BOOLEAN
    /\ Exports \cap (1 .. MaxVersion) = {}

VARIABLES closed,   \* ChangeRecord.status is closed
          absent,   \* the required parts the change does not have
          edits,    \* how often the sources of the sections have changed
          refers,   \* a result, check or review refers to something outside
          lost,     \* artifacts whose stored bytes are gone or altered
          bundle,   \* the bundle versions
          export,   \* the exports
          hold,     \* the legal holds
          due,      \* bundles and exports past their retention
          files,    \* the stored packages
          task,     \* what each worker is in the middle of
          faults,   \* faults so far
          unwound   \* sealed bundles whose file a failing sealer removed

vars == <<closed, absent, edits, refers, lost, bundle, export, hold, due, files, task, faults, unwound>>

sources == <<closed, absent, edits, refers, lost>>

Bundles == 1 .. MaxVersion

Stored == Bundles \cup Exports

(* The parts without which a bundle is incomplete. *)
RequiredParts == {"execution", "verification_plan", "closure", "verification_result"}

(* Sections of a package.  The references outside are a section only when  *)
(* there are some.                                                         *)
Always == {"record", "audit"}

Sections == Always \cup {"references"}

(* The sections of a package, or of the items of a bundle, each with the   *)
(* edit of the sources that it shows.                                      *)
Contents == UNION {[D -> 0 .. MaxEdits] : D \in SUBSET Sections}

(* What is packed: the sections as they are when the package is built, the *)
(* audit trail up to the materialization, and who sealed.                  *)
Package == [by : Workers, entries : Contents]

NoPackage == [by |-> "none"]

(* Entries of a package that redaction rules name.  "manifest" stands for  *)
(* the manifest and the checksums; they and the receipt are written anew   *)
(* for each export.  "section" is a JSON entry, "trail" an NDJSON one and  *)
(* "artifact" a file that is neither, or does not decode.                  *)
Paths == {"manifest", "receipt", "section", "trail", "artifact"}

Rewritten == {"manifest", "receipt"}

RuleActions == {"omit_path", "redact_json_pointer", "redact_ndjson_field", "artifact_metadata_only",
                "replace_file_with_notice"}

(* A rule covers the values below its pointer, or in its field: none when  *)
(* that is missing, empty or, a pointer, not absolute.  It may have an     *)
(* action that nobody knows and a path that no entry has.                  *)
Rules == [action : RuleActions \cup {"unknown"}, path : Paths \cup {"elsewhere"}, covers : SUBSET Values]

ASSUME PolicyAssumption == Policies \subseteq Seq(Rules)

(* What an export makes of an entry, and the values it still shows.        *)
Entry == [form : {"sealed", "withheld", "notice", "export"}, shown : SUBSET Values]

SourceView == [p \in Paths |-> [form |-> "sealed", shown |-> Values]]

BundleStatus == {"none", "compiling", "sealed", "invalidated"}

Completeness == {"complete", "incomplete", "invalid"}

ExportStatus == {"none", "creating", "ready", "failed"}

HoldStatus == {"none", "active", "released"}

Idle == [at |-> "idle", row |-> 0, package |-> NoPackage]

NoBundle == [status |-> "none", completeness |-> "incomplete",
             items |-> [s \in Always |-> 0], package |-> NoPackage, erased |-> FALSE]

NoExport == [status |-> "none", of |-> 0, policy |-> <<>>, done |-> 0, package |-> NoPackage,
             view |-> SourceView, erased |-> FALSE]

NoHold == [status |-> "none", on |-> 0]

Init ==
    /\ closed = FALSE
    /\ absent \in {{}, {"closure", "verification_plan"}}
    /\ edits = 0 /\ refers \in BOOLEAN /\ lost = {}
    /\ bundle = [b \in Bundles |-> NoBundle]
    /\ export = [x \in Exports |-> NoExport]
    /\ hold = [h \in Holds |-> NoHold]
    /\ due = {}
    /\ files = [f \in Stored |-> NoFile]
    /\ task = [w \in Workers |-> Idle]
    /\ faults = 0
    /\ unwound = {}

(***************************************************************************)
(* Rows and locks.  A worker inside a transaction holds one row.           *)
(***************************************************************************)
InTransaction == {"sealing", "written", "cleaning", "erasing"}

Unlocked(r) == \A w \in Workers : task[w].at \in InTransaction => task[w].row # r

HasSealedContent(b) == bundle[b].package # NoPackage

Versions == {b \in Bundles : bundle[b].status # "none"}

ActiveHolds == {h \in Holds : hold[h].status = "active"}

Begin(w, at, r, package) == task' = [task EXCEPT ![w] = [at |-> at, row |-> r, package |-> package]]

End(w) == task' = [task EXCEPT ![w] = Idle]

(***************************************************************************)
(* The sources.  Requests and reviews of exceptions are accepted on closed *)
(* changes, so sections go on changing, and a review may bring the first   *)
(* reference to something outside; artifact bytes can be lost.             *)
(***************************************************************************)
ChangeCloses ==
    /\ ~closed /\ closed' = TRUE
    /\ UNCHANGED <<absent, edits, refers, lost, bundle, export, hold, due, files, task, faults, unwound>>

SourcesChange ==
    /\ closed /\ edits < MaxEdits
    /\ edits' = edits + 1 /\ refers' \in {refers, TRUE}
    /\ UNCHANGED <<closed, absent, lost, bundle, export, hold, due, files, task, faults, unwound>>

LoseArtifact(a) ==
    /\ a \notin lost /\ faults < MaxFaults
    /\ lost' = lost \cup {a} /\ faults' = faults + 1
    /\ UNCHANGED <<closed, absent, edits, refers, bundle, export, hold, due, files, task, unwound>>

(***************************************************************************)
(* Materialization: the next version, under the lock of the change.        *)
(***************************************************************************)
(* Uploads always leave a valid checksum, the execution's organization and *)
(* an available artifact, so materialization finds no invalid item.        *)
CompletenessFromItems == IF absent = {} THEN "complete" ELSE "incomplete"

Present == Always \cup (IF refers THEN {"references"} ELSE {})

(* The sections, rebuilt from the sources as they are now; the audit trail *)
(* ends at the cutoff.                                                     *)
SourceSections(cutoff) == [s \in Present |-> IF s = "audit" THEN cutoff ELSE edits]

MaterializeItems == SourceSections(edits)

CreateBundle(b) ==
    /\ closed
    /\ b = Cardinality(Versions) + 1
    /\ bundle' = [bundle EXCEPT ![b] = [NoBundle EXCEPT !.status = "compiling",
                                                        !.completeness = CompletenessFromItems,
                                                        !.items = MaterializeItems]]
    /\ UNCHANGED <<sources, export, hold, due, files, task, faults, unwound>>

(***************************************************************************)
(* Sealing.  The package is built from the sources as they are now, the    *)
(* items there are follow it; a missing or altered artifact aborts the     *)
(* transaction and invalidates the bundle afterwards.                      *)
(***************************************************************************)
Sealable(b) ==
    /\ bundle[b].status = "compiling"
    /\ bundle[b].completeness = "complete"

BuildPackage(w, b) == [by |-> w, entries |-> SourceSections(bundle[b].items["audit"])]

SealBegin(w, b) ==
    /\ task[w] = Idle /\ Unlocked(b) /\ Sealable(b)
    /\ IF lost = {} THEN Begin(w, "sealing", b, BuildPackage(w, b))
                    ELSE Begin(w, "defect", b, NoPackage)
    /\ UNCHANGED <<sources, bundle, export, hold, due, files, faults, unwound>>

SealWrite(w) ==
    /\ task[w].at = "sealing"
    /\ files' = [files EXCEPT ![task[w].row] = task[w].package]
    /\ task' = [task EXCEPT ![w].at = "written"]
    /\ UNCHANGED <<sources, bundle, export, hold, due, faults, unwound>>

(* Only items that exist are updated: a section that is new since the      *)
(* materialization is packed without one.                                  *)
SyncedItems(items, entries) ==
    [s \in DOMAIN items |-> IF s \in DOMAIN entries THEN entries[s] ELSE items[s]]

(* A slip: the items stay as they were materialized. *)
SealKeepsItems(w) ==
    /\ task[w].at = "written"
    /\ bundle' = [bundle EXCEPT ![task[w].row].status = "sealed",
                                ![task[w].row].package = task[w].package]
    /\ task' = [task EXCEPT ![w].at = "emitting"]
    /\ UNCHANGED <<sources, export, hold, due, files, faults, unwound>>

SealCommit(w) ==
    /\ task[w].at = "written"
    /\ bundle' = [bundle EXCEPT ![task[w].row].status = "sealed",
                                ![task[w].row].package = task[w].package,
                                ![task[w].row].items = SyncedItems(@, task[w].package.entries)]
    /\ task' = [task EXCEPT ![w].at = "emitting"]
    /\ UNCHANGED <<sources, export, hold, due, files, faults, unwound>>

SealEmit(w) ==
    /\ task[w].at = "emitting"
    /\ End(w)
    /\ UNCHANGED <<sources, bundle, export, hold, due, files, faults, unwound>>

(* The write fails half way: what it left is not removed. *)
SealWriteFails(w) ==
    /\ task[w].at = "sealing" /\ faults < MaxFaults
    /\ files' = [files EXCEPT ![task[w].row] = Garbage]
    /\ End(w) /\ faults' = faults + 1
    /\ UNCHANGED <<sources, bundle, export, hold, due, unwound>>

(* The transaction fails after the write, or the audit event after the     *)
(* commit: both end in the handler's except clause.                        *)
SealFails(w) ==
    /\ task[w].at \in {"written", "emitting"} /\ faults < MaxFaults
    /\ task' = [task EXCEPT ![w].at = "unwinding"]
    /\ faults' = faults + 1
    /\ UNCHANGED <<sources, bundle, export, hold, due, files, unwound>>

(* Whether the bytes of a row are some other sealer's, committed or about to be. *)
Recorded(r) == HasSealedContent(r) \/ \E v \in Workers : task[v].at = "written" /\ task[v].row = r

SealUnwind(w) ==
    /\ task[w].at = "unwinding"
    /\ files' = [files EXCEPT ![task[w].row] = NoFile]
    /\ unwound' = IF Recorded(task[w].row) THEN unwound \cup {task[w].row} ELSE unwound
    /\ End(w)
    /\ UNCHANGED <<sources, bundle, export, hold, due, faults>>

(***************************************************************************)
(* Invalidation, asked for or forced by an artifact defect; the latter     *)
(* also marks the bundle invalid, which a sealed one refuses.              *)
(***************************************************************************)
(* A slip: the record of the package goes with the status. *)
InvalidatedDropsPackage(b) ==
    [bundle EXCEPT ![b].status = "invalidated", ![b].package = NoPackage]

Invalidated(b) == [bundle EXCEPT ![b].status = "invalidated"]

InvalidateBundle(b) ==
    /\ Unlocked(b) /\ bundle[b].status \in {"compiling", "sealed"}
    /\ bundle' = Invalidated(b)
    /\ UNCHANGED <<sources, export, hold, due, files, task, faults, unwound>>

InvalidateDefect(w) ==
    LET b == task[w].row IN
    /\ task[w].at = "defect" /\ Unlocked(b)
    /\ bundle' = IF HasSealedContent(b) THEN Invalidated(b)
                 ELSE [Invalidated(b) EXCEPT ![b].completeness = "invalid"]
    /\ End(w)
    /\ UNCHANGED <<sources, export, hold, due, files, faults, unwound>>

(***************************************************************************)
(* Exports.  Redaction works on a copy of the entries, rule by rule.       *)
(***************************************************************************)
Omits(rule, p) ==
    \/ rule.action = "omit_path" /\ rule.path = p /\ p # "manifest"
    \/ rule.action = "artifact_metadata_only" /\ p = "artifact"

Replaces(rule, p) ==
    rule.action = "replace_file_with_notice" /\ rule.path = p /\ p # "manifest"

(* The format an action reads: it leaves entries of any other alone. *)
Reads(action) ==
    CASE action = "redact_json_pointer" -> {"manifest", "receipt", "section"}
      [] action = "redact_ndjson_field" -> {"trail"}
      [] OTHER -> {}

Hidden(rule, p) == IF rule.path = p /\ p \in Reads(rule.action) THEN rule.covers ELSE {}

(* What a rule does to an entry that is there. *)
Treated(entry, rule, p) ==
    IF Omits(rule, p) THEN [form |-> "withheld", shown |-> {}]
    ELSE IF Replaces(rule, p) THEN [form |-> "notice", shown |-> {}]
    ELSE [entry EXCEPT !.shown = @ \ Hidden(rule, p)]

(* A slip: a rule does not look whether its entry is still there. *)
RuleRevives(view, rule) == [p \in Paths |-> Treated(view[p], rule, p)]

ApplyRule(view, rule) ==
    [p \in Paths |-> IF view[p].form = "withheld" THEN view[p] ELSE Treated(view[p], rule, p)]

(* The receipt and the manifest of the export replace what redaction left. *)
ExportEntries(view) ==
    [p \in Paths |-> IF p \in Rewritten THEN [form |-> "export", shown |-> {}] ELSE view[p]]

Available(b) ==
    /\ bundle[b].status = "sealed" /\ ~bundle[b].erased
    /\ files[b] = bundle[b].package

ExportBegin(w, x, b, policy) ==
    /\ task[w] = Idle /\ export[x].status = "none" /\ Available(b)
    /\ export' = [export EXCEPT ![x] = [NoExport EXCEPT !.status = "creating", !.of = b, !.policy = policy,
                                                        !.package = bundle[b].package]]
    /\ Begin(w, "exporting", x, bundle[b].package)
    /\ UNCHANGED <<sources, bundle, hold, due, files, faults, unwound>>

ExportRule(w) ==
    LET x == task[w].row IN
    /\ task[w].at = "exporting" /\ export[x].done < Len(export[x].policy)
    /\ export' = [export EXCEPT ![x].view = ApplyRule(@, export[x].policy[export[x].done + 1]),
                                ![x].done = @ + 1]
    /\ UNCHANGED <<sources, bundle, hold, due, files, task, faults, unwound>>

ExportWrite(w) ==
    LET x == task[w].row IN
    /\ task[w].at = "exporting" /\ export[x].done = Len(export[x].policy)
    /\ export' = [export EXCEPT ![x].view = ExportEntries(@)]
    /\ files' = [files EXCEPT ![x] = task[w].package]
    /\ task' = [task EXCEPT ![w].at = "exported"]
    /\ UNCHANGED <<sources, bundle, hold, due, faults, unwound>>

ExportReady(w) ==
    /\ task[w].at = "exported"
    /\ export' = [export EXCEPT ![task[w].row].status = "ready"]
    /\ End(w)
    /\ UNCHANGED <<sources, bundle, hold, due, files, faults, unwound>>

(* A failure before the row is ready removes the file and marks the row;   *)
(* one of the audit event after it removes the file of a ready export.     *)
ExportFails(w) ==
    LET x == task[w].row IN
    /\ task[w].at = "exported" /\ faults < MaxFaults
    /\ faults' = faults + 1
    /\ files' = [files EXCEPT ![x] = NoFile]
    /\ \E status \in {"failed", "ready"} :
           /\ export' = [export EXCEPT ![x].status = status]
           /\ unwound' = IF status = "ready" THEN unwound \cup {x} ELSE unwound
    /\ End(w)
    /\ UNCHANGED <<sources, bundle, hold, due>>

(***************************************************************************)
(* Legal holds.  A hold locks the bundle it is placed on and covers the    *)
(* whole change.                                                           *)
(***************************************************************************)
(* A slip: the hold is recorded without locking the bundle it is on. *)
HoldWithoutLock(h, b) ==
    /\ hold[h].status = "none" /\ b \in Versions
    /\ \A g \in ActiveHolds : hold[g].on # b
    /\ hold' = [hold EXCEPT ![h] = [status |-> "active", on |-> b]]
    /\ UNCHANGED <<sources, bundle, export, due, files, task, faults, unwound>>

CreateHold(h, b) ==
    /\ hold[h].status = "none" /\ b \in Versions /\ Unlocked(b)
    /\ \A g \in ActiveHolds : hold[g].on # b
    /\ hold' = [hold EXCEPT ![h] = [status |-> "active", on |-> b]]
    /\ UNCHANGED <<sources, bundle, export, due, files, task, faults, unwound>>

ReleaseHold(h) ==
    /\ hold[h].status = "active"
    /\ hold' = [hold EXCEPT ![h].status = "released"]
    /\ UNCHANGED <<sources, bundle, export, due, files, task, faults, unwound>>

(***************************************************************************)
(* Retention.  The cleanup locks the bundle or export it erases, looks for *)
(* an active hold of the change, deletes the file and then marks the row.  *)
(***************************************************************************)
Lapse(r) ==
    /\ r \notin due
    /\ \/ r \in Bundles /\ HasSealedContent(r) /\ Retained
       \/ r \in Exports /\ export[r].status = "ready"
    /\ due' = due \cup {r}
    /\ UNCHANGED <<sources, bundle, export, hold, files, task, faults, unwound>>

Erasable(r) ==
    /\ r \in due
    /\ IF r \in Bundles THEN ~bundle[r].erased ELSE ~export[r].erased

NoActiveHold == ActiveHolds = {}

CleanBegin(w, r) ==
    /\ task[w] = Idle /\ Unlocked(r) /\ Erasable(r) /\ NoActiveHold
    /\ Begin(w, "cleaning", r, NoPackage)
    /\ UNCHANGED <<sources, bundle, export, hold, due, files, faults, unwound>>

CleanErase(w) ==
    /\ task[w].at = "cleaning"
    /\ files' = [files EXCEPT ![task[w].row] = NoFile]
    /\ task' = [task EXCEPT ![w].at = "erasing"]
    /\ UNCHANGED <<sources, bundle, export, hold, due, faults, unwound>>

CleanCommit(w) ==
    LET r == task[w].row IN
    /\ task[w].at = "erasing"
    /\ IF r \in Bundles
       THEN bundle' = [bundle EXCEPT ![r].erased = TRUE] /\ UNCHANGED export
       ELSE export' = [export EXCEPT ![r].erased = TRUE] /\ UNCHANGED bundle
    /\ End(w)
    /\ UNCHANGED <<sources, hold, due, files, faults, unwound>>

(* A worker dies, or its transaction is lost: its row lock goes, its files stay. *)
Crash(w) ==
    /\ task[w] # Idle /\ faults < MaxFaults
    /\ End(w) /\ faults' = faults + 1
    /\ UNCHANGED <<sources, bundle, export, hold, due, files, unwound>>

WorkerStep(w) ==
    \/ \E b \in Bundles : SealBegin(w, b)
    \/ SealWrite(w) \/ SealCommit(w) \/ SealEmit(w)
    \/ SealWriteFails(w) \/ SealFails(w) \/ SealUnwind(w)
    \/ InvalidateDefect(w)
    \/ \E x \in Exports, b \in Bundles, policy \in Policies : ExportBegin(w, x, b, policy)
    \/ ExportRule(w) \/ ExportWrite(w) \/ ExportReady(w) \/ ExportFails(w)
    \/ \E r \in Stored : CleanBegin(w, r)
    \/ CleanErase(w) \/ CleanCommit(w)
    \/ Crash(w)

Next ==
    \/ ChangeCloses \/ SourcesChange
    \/ \E a \in Artifacts : LoseArtifact(a)
    \/ \E b \in Bundles : CreateBundle(b) \/ InvalidateBundle(b)
    \/ \E h \in Holds, b \in Bundles : CreateHold(h, b)
    \/ \E h \in Holds : ReleaseHold(h)
    \/ \E r \in Stored : Lapse(r)
    \/ \E w \in Workers : WorkerStep(w)

Spec == Init /\ [][Next]_vars

(***************************************************************************)
(* Properties.                                                             *)
(***************************************************************************)
(* Every row, file and task has one of the forms the code writes. *)
TypeOK ==
    /\ closed \in BOOLEAN /\ absent \subseteq RequiredParts
    /\ edits \in 0 .. MaxEdits /\ refers \in BOOLEAN /\ faults \in 0 .. MaxFaults
    /\ lost \subseteq Artifacts /\ due \subseteq Stored /\ unwound \subseteq Stored
    /\ \A b \in Bundles :
          /\ bundle[b].status \in BundleStatus /\ bundle[b].completeness \in Completeness
          /\ bundle[b].items \in Contents /\ bundle[b].package \in Package \cup {NoPackage}
          /\ bundle[b].status = "sealed" => bundle[b].package # NoPackage
    /\ \A x \in Exports :
          /\ export[x].status \in ExportStatus /\ export[x].view \in [Paths -> Entry]
          /\ export[x].done \in 0 .. Len(export[x].policy)
    /\ \A h \in Holds : hold[h].status \in HoldStatus /\ hold[h].on \in Bundles \cup {0}
    /\ \A f \in Stored : files[f] \in Package \cup {NoFile, Garbage}

(* The items of a bundle that was ever sealed agree with the package its   *)
(* hashes describe: every item is packed as it is recorded, and the only   *)
(* section that may be packed without an item is the optional one.         *)
(* Exactly those bytes stay in storage until the retention ends, whatever  *)
(* sealers crashed, failed or wrote before it; only a sealer unwinding a   *)
(* failure can have removed them.                                          *)
SealedAsRecorded ==
    \A b \in Bundles : HasSealedContent(b) =>
        LET packed == bundle[b].package.entries
            items == bundle[b].items
        IN  /\ \A s \in DOMAIN items : s \in DOMAIN packed /\ packed[s] = items[s]
            /\ DOMAIN packed \ DOMAIN items \subseteq {"references"}
            /\ ~bundle[b].erased =>
                  \/ files[b] = bundle[b].package
                  \/ files[b] = NoFile /\ (b \in due \/ b \in unwound)

(* What n rules of a policy promise of an entry: what one omits is not     *)
(* there, what one replaces is at most a notice, no value one covers is    *)
(* shown; and nothing is withheld, replaced or hidden without such a rule. *)
Promised(policy, n, entry, p) ==
    /\ \A i \in 1 .. n :
          /\ Omits(policy[i], p) => entry.form = "withheld"
          /\ Replaces(policy[i], p) => entry.form \in {"withheld", "notice"}
          /\ entry.shown \cap Hidden(policy[i], p) = {}
    /\ entry.form \in {"sealed", "withheld", "notice"}
    /\ entry.form # "sealed" => entry.shown = {}
    /\ entry.form = "withheld" => \E i \in 1 .. n : Omits(policy[i], p)
    /\ entry.form = "notice" => \E i \in 1 .. n : Replaces(policy[i], p)
    /\ entry.form = "sealed" =>
          \A v \in Values \ entry.shown : \E i \in 1 .. n : v \in Hidden(policy[i], p)

(* A ready export has the bytes made of the package its bundle was sealed  *)
(* with, until it lapses or its announcement fails, and every entry it     *)
(* does not write itself is as the rules of its policy promise, in         *)
(* whatever order they are.  A rule promises what it covers: one for the   *)
(* wrong format, or with no pointer or field, leaves its entry as it was.  *)
ExportAsPromised ==
    \A x \in Exports : export[x].status = "ready" =>
        /\ export[x].package = bundle[export[x].of].package
        /\ ~export[x].erased =>
              \/ files[x] = export[x].package
              \/ files[x] = NoFile /\ (x \in due \/ x \in unwound)
        /\ \A p \in Paths :
              IF p \in Rewritten THEN export[x].view[p].form = "export"
              ELSE Promised(export[x].policy, Len(export[x].policy), export[x].view[p], p)

(* No handler rewrites what was sealed: neither a second sealer, nor the   *)
(* invalidation of a defective bundle, nor the cleanup.                    *)
SealedNeverRewritten ==
    [][\A b \in Bundles : HasSealedContent(b) =>
          /\ bundle'[b].package = bundle[b].package
          /\ bundle'[b].items = bundle[b].items
          /\ bundle'[b].completeness = bundle[b].completeness
          /\ bundle[b].status = "invalidated" => bundle'[b].status = "invalidated"]_vars

(* The bytes of a bundle are not erased, nor marked erased, while a hold   *)
(* on that bundle is active: placing the hold and erasing lock its row.    *)
HeldBundleKept ==
    [][\A w \in Workers : task[w].at \in {"cleaning", "erasing"} /\ task'[w] # task[w] =>
          \A h \in ActiveHolds : hold[h].on # task[w].row]_vars
=============================================================================
