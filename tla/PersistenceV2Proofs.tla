------------------------- MODULE PersistenceV2Proofs -------------------------
(***************************************************************************)
(* Proofs about PersistenceV2, for any runs, processes, targets and        *)
(* artifacts and any bounds: type correctness, that a receipt proves the   *)
(* commit, and that every program step is a compare-and-swap, but for the  *)
(* edits that fall between a hash check and its rename.                    *)
(*                                                                         *)
(* ReceiptProvesCommit is a fact about the disk, broken by a process that  *)
(* writes on the strength of what it remembers.  The invariant says what   *)
(* each process may rely on where it is: behind the marker its run has a   *)
(* marker, at the terminal registry entry `completed' its run has a        *)
(* receipt.  What it relies on only grows (Grows), so the steps of the     *)
(* others, the deaths included, do not disturb it.                         *)
(*                                                                         *)
(* The compare and the swap are two steps, and a reconciler may write the  *)
(* manifest without the lock between them.  The invariant SInv says that   *)
(* one process at most is in a locked section, that only the section       *)
(* decides about the marker (SwapOK), and that the manifest states which   *)
(* admit a commit are those of a run without marker (Fresh); Windows, that *)
(* what a process has checked still holds at its rename, or else the edit  *)
(* that fell in between is on record.                                      *)
(***************************************************************************)
EXTENDS PersistenceV2, TLAPS

Begun(d, r) == r \in Runs /\ d[r].before # <<>>

\* What the transaction root may hold of one run.
FileOK(f) ==
    /\ f \in FileRecords
    /\ f.before = <<>> => f.staging = "none" /\ f.manifest = "new" /\ f.registry = {}
    /\ f.receipt => f.marker /\ f.published = NumArtifacts
    /\ f.published > 0 => f.marker
    /\ "completed" \in f.registry => f.receipt

\* How the files of one run may change.
Grows(f, g) ==
    /\ f.before # <<>> => g.before # <<>>
    /\ f.marker => g.marker
    /\ f.receipt => g.receipt

PreparePCs == {"drafting", "prepare", "stage", "publishJournal", "registerPending", "returned", "raised"}
ScanPCs == {"discover", "discovering", "quarantine", "list", "entry", "take",
            "markManifest", "markRegistry", "markUnlink"}
FreePCs == {"idle", "discover", "discovering", "list", "entry", "returned", "raised", "gate", "generate"}
MarkedPCs == {"marked", "publish", "artifact"}

\* What a process that remembers rec may rely on.
Placed(rec, d) ==
    /\ \A r \in rec.todo : Begun(d, r)
    /\ rec.pc \notin FreePCs => Begun(d, rec.tx)
    /\ rec.handler # "raised" => Begun(d, rec.tx)
    /\ rec.pc \in {"idle", "discovering", "quarantine"} => rec.handler = "raised"
    /\ rec.site = "prepare" => rec.pc \in PreparePCs /\ rec.handler = "raised" /\ Begun(d, rec.tx)
    /\ rec.site = "commit" => rec.pc \notin ScanPCs /\ rec.handler # "markManifest" /\ Begun(d, rec.tx)
    /\ rec.pc \in MarkedPCs => d[rec.tx].marker
    /\ rec.pc = "complete" => d[rec.tx].receipt
    /\ rec.pc \in {"transition", "unlink"} =>
           /\ rec.goal \in Reports \ {"commit_marked"}
           /\ rec.goal = "completed" => d[rec.tx].receipt
    /\ rec.pc = "check" => rec.k > 0
    /\ rec.pc \in {"replace", "restore"} => rec.k \in Targets
    /\ rec.pc = "undo" => rec.k <= NumTargets

ActOK(rec, d) == rec \in ActRecords /\ Placed(rec, d)

IInv ==
    /\ file \in [Targets -> Contents]
    /\ disk \in [Runs -> FileRecords] /\ \A r \in Runs : FileOK(disk[r])
    /\ act \in [Actors -> ActRecords] /\ \A a \in Actors : ActOK(act[a], disk)
    /\ spent \in Spendings

-----------------------------------------------------------------------------
(* Records. *)

\* One field of a process's memory replaced by a value of its type.
LEMMA ActUpdate ==
  ASSUME NEW rec \in ActRecords
  PROVE  /\ \A x \in PCs : [rec EXCEPT !.pc = x] \in ActRecords
         /\ \A x \in Sites : [rec EXCEPT !.site = x] \in ActRecords
         /\ \A x \in Runs \cup {NoRun} : [rec EXCEPT !.tx = x] \in ActRecords
         /\ \A x \in SUBSET Runs : [rec EXCEPT !.todo = x] \in ActRecords
         /\ \A x \in [Runs -> SUBSET Reports] : [rec EXCEPT !.report = x] \in ActRecords
         /\ \A x \in 0 .. NumTargets + 1 : [rec EXCEPT !.k = x] \in ActRecords
         /\ \A x \in BOOLEAN : [rec EXCEPT !.failed = x] \in ActRecords
         /\ \A x \in RegistryStates : [rec EXCEPT !.goal = x] \in ActRecords
         /\ \A x \in Handlers : [rec EXCEPT !.handler = x] \in ActRecords
  BY DEF ActRecords

\* One field of a run's files replaced by a value of its type.
LEMMA FileUpdate ==
  ASSUME NEW f \in FileRecords
  PROVE  /\ \A x \in {"none", "partial", "complete"} : [f EXCEPT !.staging = x] \in FileRecords
         /\ \A x \in ManifestStates : [f EXCEPT !.manifest = x] \in FileRecords
         /\ \A x \in [Targets -> Contents] : [f EXCEPT !.before = x] \in FileRecords
         /\ [f EXCEPT !.marker = TRUE] \in FileRecords
         /\ \A x \in 0 .. NumArtifacts : [f EXCEPT !.published = x] \in FileRecords
         /\ [f EXCEPT !.receipt = TRUE] \in FileRecords
         /\ \A x \in SUBSET RegistryStates : [f EXCEPT !.registry = x] \in FileRecords
  BY DEF FileRecords

\* What is written of a run that has begun leaves its files in order.
LEMMA FileSteps ==
  ASSUME NEW f, FileOK(f), f.before # <<>>
  PROVE  /\ Grows(f, f)
         /\ \A x \in {"none", "partial", "complete"} :
                FileOK([f EXCEPT !.staging = x]) /\ Grows(f, [f EXCEPT !.staging = x])
         /\ \A x \in ManifestStates :
                FileOK([f EXCEPT !.manifest = x]) /\ Grows(f, [f EXCEPT !.manifest = x])
         /\ FileOK([f EXCEPT !.marker = TRUE]) /\ Grows(f, [f EXCEPT !.marker = TRUE])
         /\ f.marker /\ f.published < NumArtifacts =>
                /\ FileOK([f EXCEPT !.published = @ + 1])
                /\ Grows(f, [f EXCEPT !.published = @ + 1])
         /\ f.marker /\ f.published = NumArtifacts =>
                FileOK([f EXCEPT !.receipt = TRUE]) /\ Grows(f, [f EXCEPT !.receipt = TRUE])
         /\ \A x \in SUBSET RegistryStates :
                ("completed" \in x => f.receipt) =>
                    FileOK([f EXCEPT !.registry = x]) /\ Grows(f, [f EXCEPT !.registry = x])
<1> USE PersistenceAssumption
<1>1. f \in FileRecords
  BY DEF FileOK
<1>2. ASSUME NEW x \in {"none", "partial", "complete"}
      PROVE  FileOK([f EXCEPT !.staging = x]) /\ Grows(f, [f EXCEPT !.staging = x])
  <2>1. [f EXCEPT !.staging = x] \in FileRecords
    BY <1>1, FileUpdate
  <2> QED
    BY <1>1, <2>1 DEF FileOK, Grows, FileRecords
<1>3. ASSUME NEW x \in ManifestStates
      PROVE  FileOK([f EXCEPT !.manifest = x]) /\ Grows(f, [f EXCEPT !.manifest = x])
  <2>1. [f EXCEPT !.manifest = x] \in FileRecords
    BY <1>1, FileUpdate
  <2> QED
    BY <1>1, <2>1 DEF FileOK, Grows, FileRecords
<1>4. FileOK([f EXCEPT !.marker = TRUE]) /\ Grows(f, [f EXCEPT !.marker = TRUE])
  <2>1. [f EXCEPT !.marker = TRUE] \in FileRecords
    BY <1>1, FileUpdate
  <2> QED
    BY <1>1, <2>1 DEF FileOK, Grows, FileRecords
<1>5. ASSUME f.marker, f.published < NumArtifacts
      PROVE  FileOK([f EXCEPT !.published = @ + 1]) /\ Grows(f, [f EXCEPT !.published = @ + 1])
  <2>1. f.published + 1 \in 0 .. NumArtifacts
    BY <1>1, <1>5 DEF FileRecords
  <2>2. [f EXCEPT !.published = f.published + 1] \in FileRecords
    BY <1>1, <2>1, FileUpdate
  <2> QED
    BY <1>1, <1>5, <2>1, <2>2 DEF FileOK, Grows, FileRecords
<1>6. ASSUME f.marker, f.published = NumArtifacts
      PROVE  FileOK([f EXCEPT !.receipt = TRUE]) /\ Grows(f, [f EXCEPT !.receipt = TRUE])
  <2>1. [f EXCEPT !.receipt = TRUE] \in FileRecords
    BY <1>1, FileUpdate
  <2> QED
    BY <1>1, <1>6, <2>1 DEF FileOK, Grows, FileRecords
<1>7. ASSUME NEW x \in SUBSET RegistryStates, "completed" \in x => f.receipt
      PROVE  FileOK([f EXCEPT !.registry = x]) /\ Grows(f, [f EXCEPT !.registry = x])
  <2>1. [f EXCEPT !.registry = x] \in FileRecords
    BY <1>1, FileUpdate
  <2> QED
    BY <1>1, <1>7, <2>1 DEF FileOK, Grows, FileRecords
<1> QED
  BY <1>2, <1>3, <1>4, <1>5, <1>6, <1>7 DEF Grows

-----------------------------------------------------------------------------
(* Processes. *)

\* What a process relies on survives whatever happens to the files.
LEMMA Kept ==
  ASSUME NEW d, NEW e, NEW rec, ActOK(rec, d), \A r \in Runs : Grows(d[r], e[r])
  PROVE  ActOK(rec, e)
<1>1. \A r : Begun(d, r) => Begun(e, r)
  BY DEF Begun, Grows
<1>2. rec.pc \in MarkedPCs \cup {"complete", "transition", "unlink"} => rec.tx \in Runs
  BY DEF ActOK, Placed, MarkedPCs, FreePCs, Begun
<1> QED
  BY <1>1, <1>2 DEF ActOK, Placed, Grows, MarkedPCs

\* A process that has done nothing, and one that ended a section.
LEMMA IdleOK ==
  ASSUME NEW d PROVE ActOK(Idle, d)
<1>1. Idle \in ActRecords
  BY PersistenceAssumption
     DEF Idle, ActRecords, PCs, Unlocked, Sites, NoReport, Handlers, RegistryStates
<1> QED
  BY <1>1 DEF ActOK, Placed, Idle, FreePCs, MarkedPCs

\* An exception leads to a place the process may be in.
LEMMA CaughtOK ==
  ASSUME NEW a \in Actors, NEW d, ActOK(act[a], d)
  PROVE  ActOK(Caught(a), d)
<1> DEFINE rec == act[a]
<1>1. rec \in ActRecords /\ rec.handler \in Handlers
  BY DEF ActOK, ActRecords
<1>2. rec.handler \in PCs
  BY <1>1 DEF Handlers, PCs, Unlocked
<1>3. Caught(a) \in ActRecords
  BY <1>1, <1>2, ActUpdate DEF Caught
<1>4. /\ Caught(a).pc = rec.handler /\ Caught(a).handler = rec.handler
      /\ Caught(a).todo = rec.todo /\ Caught(a).tx = rec.tx /\ Caught(a).site = rec.site
  BY <1>1 DEF Caught, ActRecords
<1> QED
  BY <1>1, <1>3, <1>4 DEF ActOK, Placed, Handlers, FreePCs, PreparePCs, ScanPCs, MarkedPCs

LEMMA RaiseOK ==
  ASSUME NEW a \in Actors, NEW d, ActOK(act[a], d)
  PROVE  ActOK([Step(a, "raised") EXCEPT !.handler = "raised"], d)
<1>1. act[a] \in ActRecords
  BY DEF ActOK
<1>2. Step(a, "raised") \in ActRecords
  BY <1>1, ActUpdate DEF Step, PCs, Unlocked
<1>3. [Step(a, "raised") EXCEPT !.handler = "raised"] \in ActRecords
  BY <1>2, ActUpdate DEF Handlers
<1> QED
  BY <1>1, <1>3 DEF ActOK, Placed, Step, ActRecords, FreePCs, PreparePCs, ScanPCs, MarkedPCs

\* A section ends with a report.
LEMMA FinishOK ==
  ASSUME NEW a \in Actors, NEW d, ActOK(act[a], d), act[a].site # "prepare",
         act[a].tx \in Runs, NEW s \in Reports
  PROVE  ActOK(Finish(a, s), d)
<1> DEFINE rec == act[a]
           c == rec.site = "commit"
           rep == [rec.report EXCEPT ![rec.tx] = @ \cup {s}]
           r1 == [rec EXCEPT !.pc = IF c THEN "returned" ELSE "entry"]
           r2 == [r1 EXCEPT !.report = rep]
           r3 == [r2 EXCEPT !.tx = IF c THEN rec.tx ELSE NoRun]
           r4 == [r3 EXCEPT !.k = 0]
           r5 == [r4 EXCEPT !.failed = FALSE]
           r6 == [r5 EXCEPT !.goal = "pending"]
           r7 == [r6 EXCEPT !.handler = "raised"]
<1>1. rec \in ActRecords
  BY DEF ActOK
<1>2. rep \in [Runs -> SUBSET Reports]
  BY <1>1 DEF ActRecords
<1>3. r1 \in ActRecords
  BY <1>1, ActUpdate DEF PCs, Unlocked
<1>4. r3 \in ActRecords
  <2>1. r2 \in ActRecords
    BY <1>2, <1>3, ActUpdate
  <2> QED
    BY <2>1, ActUpdate
<1>5. r5 \in ActRecords
  <2>1. 0 \in 0 .. NumTargets + 1
    BY PersistenceAssumption
  <2>2. r4 \in ActRecords
    <3> HIDE DEF r3
    <3> QED
      BY <1>4, <2>1, ActUpdate
  <2> QED
    BY <2>2, ActUpdate
<1>6. r7 \in ActRecords
  <2>1. r6 \in ActRecords
    BY <1>5, ActUpdate DEF RegistryStates
  <2> QED
    BY <2>1, ActUpdate DEF Handlers
<1>7. Finish(a, s) = r7
  BY <1>1 DEF Finish, ActRecords
<1>8. Placed(r7, d)
  BY <1>1 DEF ActOK, Placed, ActRecords, FreePCs, PreparePCs, ScanPCs, MarkedPCs
<1> QED
  BY <1>6, <1>7, <1>8 DEF ActOK

-----------------------------------------------------------------------------
(* Steps. *)

LEMMA InitIInv == Init => IInv
<1> SUFFICES ASSUME Init PROVE IInv
  OBVIOUS
<1> USE PersistenceAssumption
<1>1. file \in [Targets -> Contents]
  BY DEF Init, Contents
<1>2. NoFiles \in FileRecords /\ FileOK(NoFiles)
  BY DEF NoFiles, FileOK, FileRecords, ManifestStates
<1>3. spent \in Spendings
  BY DEF Init, Spendings
<1>4. \A a \in Actors : act[a] = Idle /\ ActOK(Idle, disk)
  BY IdleOK DEF Init
<1> QED
  BY <1>1, <1>2, <1>3, <1>4 DEF Init, IInv, ActOK

\* The process that moves may change its memory if the others can rely on the
\* files they see.
LEMMA Moving ==
  ASSUME IInv, NEW a \in Actors, NEW rec, Become(a, rec), ActOK(rec, disk'),
         \A r \in Runs : Grows(disk[r], disk'[r])
  PROVE  act' \in [Actors -> ActRecords] /\ \A b \in Actors : ActOK(act'[b], disk')
<1>1. act \in [Actors -> ActRecords]
  BY DEF IInv
<1>2. act' = [act EXCEPT ![a] = rec] /\ rec \in ActRecords
  BY DEF Become, ActOK
<1>3. ASSUME NEW b \in Actors PROVE ActOK(act'[b], disk')
  <2>1. CASE b = a
    BY <1>1, <1>2, <2>1
  <2>2. CASE b # a
    <3>1. act'[b] = act[b] /\ ActOK(act[b], disk)
      BY <1>1, <1>2, <2>2 DEF IInv
    <3> QED
      BY <3>1, Kept
  <2> QED
    BY <2>1, <2>2
<1> QED
  BY <1>1, <1>2, <1>3

\* A step that only looks.
LEMMA Looking ==
  ASSUME IInv, NEW a \in Actors, NEW rec, ActOK(rec, disk), Look(a, rec)
  PROVE  IInv'
<1>1. Become(a, rec) /\ file' = file /\ disk' = disk /\ spent' = spent
  BY DEF Look
<1>2. \A r \in Runs : Grows(disk[r], disk'[r])
  BY <1>1 DEF Grows
<1>3. act' \in [Actors -> ActRecords] /\ \A b \in Actors : ActOK(act'[b], disk')
  BY <1>1, <1>2, Moving
<1> QED
  BY <1>1, <1>3 DEF IInv

\* The bound on errors is kept.
LEMMA Tallying ==
  ASSUME IInv, NEW o \in Outcomes, Tally(o)
  PROVE  spent' \in Spendings
  BY PersistenceAssumption DEF IInv, Tally, Raised, Outcomes, Spendings

\* The files of one run change and grow.
LEMMA Growing ==
  ASSUME IInv, NEW r \in Runs, NEW g, FileOK(g), Grows(disk[r], g),
         NEW d, d = disk \/ d = [disk EXCEPT ![r] = g]
  PROVE  /\ d \in [Runs -> FileRecords] /\ \A q \in Runs : FileOK(d[q])
         /\ \A q \in Runs : Grows(disk[q], d[q])
  BY DEF IInv, FileOK, Grows

\* A write of the files of the run of a.
LEMMA Writing ==
  ASSUME IInv, NEW a \in Actors, NEW g, NEW then, NEW caught, act[a].tx \in Runs,
         FileOK(g), Grows(Files(a), g),
         ActOK(caught, disk), ActOK(then, [disk EXCEPT ![act[a].tx] = g]),
         Write(a, g, then, caught)
  PROVE  IInv'
<1> DEFINE d == [disk EXCEPT ![act[a].tx] = g]
<1>1. PICK o \in Outcomes :
         /\ disk' = IF Took(o) THEN d ELSE disk
         /\ Become(a, IF Raised(o) THEN caught ELSE then)
         /\ Tally(o)
         /\ file' = file
  BY DEF Write
<1>2. disk' = disk \/ disk' = d
  BY <1>1
<1>3. Grows(disk[act[a].tx], g)
  BY DEF Files
<1>4. /\ disk' \in [Runs -> FileRecords] /\ \A q \in Runs : FileOK(disk'[q])
      /\ \A q \in Runs : Grows(disk[q], disk'[q])
  BY <1>2, <1>3, Growing
<1>5. spent' \in Spendings
  BY <1>1, Tallying
<1>6. ActOK(caught, disk')
  BY <1>4, Kept
<1>7. ~Raised(o) => ActOK(then, disk')
  BY <1>1 DEF Raised, Took
<1>8. act' \in [Actors -> ActRecords] /\ \A b \in Actors : ActOK(act'[b], disk')
  BY <1>1, <1>4, <1>6, <1>7, Moving
<1> QED
  BY <1>1, <1>4, <1>5, <1>8 DEF IInv

\* The same, where an exception changes nothing for the process.
LEMMA TryWriting ==
  ASSUME IInv, NEW a \in Actors, NEW g, NEW then, act[a].tx \in Runs,
         FileOK(g), Grows(Files(a), g), ActOK(then, disk), TryWrite(a, g, then)
  PROVE  IInv'
<1> DEFINE d == [disk EXCEPT ![act[a].tx] = g]
<1>1. \A q \in Runs : Grows(disk[q], d[q])
  BY DEF IInv, Files, Grows
<1>2. ActOK(then, d)
  BY <1>1, Kept
<1> QED
  BY <1>2, Writing DEF TryWrite

\* Where a process has a run, the run has begun.
LEMMA Acting ==
  ASSUME IInv, NEW a \in Actors
  PROVE  /\ ActOK(act[a], disk) /\ act[a] \in ActRecords
         /\ act[a].pc \notin FreePCs =>
                /\ act[a].tx \in Runs /\ Begun(disk, act[a].tx)
                /\ FileOK(Files(a)) /\ Files(a) \in FileRecords /\ Files(a).before # <<>>
  BY DEF IInv, ActOK, Placed, Begun, Files, FileOK

\* A write after which a process is where its new files allow it to be.
LEMMA WriteAndGo ==
  ASSUME IInv, NEW a \in Actors, act[a].pc \notin FreePCs, NEW g, NEW then,
         FileOK(g), Grows(Files(a), g),
         \A d : ActOK(act[a], d) /\ d[act[a].tx] = g => ActOK(then, d),
         Write(a, g, then, Caught(a))
  PROVE  IInv'
<1> DEFINE d == [disk EXCEPT ![act[a].tx] = g]
<1>1. ActOK(act[a], disk) /\ act[a].tx \in Runs
  BY Acting
<1>2. ActOK(Caught(a), disk)
  BY <1>1, CaughtOK
<1>3. \A r \in Runs : Grows(disk[r], d[r])
  BY DEF IInv, Files, Grows
<1>4. ActOK(act[a], d)
  BY <1>1, <1>3, Kept
<1>5. d[act[a].tx] = g
  BY <1>1 DEF IInv
<1>6. ActOK(then, d)
  BY <1>4, <1>5
<1> QED
  BY <1>1, <1>2, <1>6, Writing

\* A process of a section goes on to a place that asks no more of it than this.
LEMMA StepOK ==
  ASSUME NEW a \in Actors, NEW d, ActOK(act[a], d), act[a].pc \notin FreePCs, NEW pc \in PCs,
         act[a].site = "prepare" => pc \in PreparePCs,
         act[a].site = "commit" => pc \notin ScanPCs,
         pc \notin {"idle", "discovering", "quarantine", "transition", "unlink", "check", "replace",
                    "restore", "undo"},
         pc \in MarkedPCs => d[act[a].tx].marker,
         pc = "complete" => d[act[a].tx].receipt
  PROVE  ActOK(Step(a, pc), d)
<1>1. act[a] \in ActRecords
  BY DEF ActOK
<1>2. Step(a, pc) \in ActRecords
  BY <1>1, ActUpdate DEF Step
<1> QED
  BY <1>1, <1>2 DEF ActOK, Placed, Step, ActRecords

\* A process in a section belongs to prepare only in prepare's places.
LEMMA SiteOK ==
  ASSUME NEW d, NEW rec, ActOK(rec, d)
  PROVE  /\ rec.pc \notin PreparePCs => rec.site # "prepare"
         /\ rec.pc \in ScanPCs => rec.site # "commit"
  BY DEF ActOK, Placed

LEMMA RaiseInv ==
  ASSUME IInv, NEW a \in Actors, Raise(a)
  PROVE  IInv'
  BY Acting, RaiseOK, Looking DEF Raise

-----------------------------------------------------------------------------
(* prepare *)

LEMMA PrepareInv ==
  ASSUME IInv, NEW a \in Actors, Prepare(a)
  PROVE  IInv'
<1> DEFINE f == Files(a)
           g == [f EXCEPT !.staging = "partial"]
<1>1. At(a, "prepare") /\ (Raise(a) \/ Write(a, g, Step(a, "stage"), Caught(a)))
  BY DEF Prepare
<1>2. CASE Raise(a)
  BY <1>2, RaiseInv
<1>3. CASE Write(a, g, Step(a, "stage"), Caught(a))
  <2>1. act[a].pc \notin FreePCs /\ act[a].pc \notin ScanPCs
    BY <1>1 DEF At, FreePCs, ScanPCs
  <2>2. FileOK(g) /\ Grows(f, g)
    BY <2>1, Acting, FileSteps
  <2>3. \A d : ActOK(act[a], d) /\ d[act[a].tx] = g => ActOK(Step(a, "stage"), d)
    BY <2>1, StepOK DEF PreparePCs, ScanPCs, MarkedPCs, PCs
  <2> QED
    BY <1>3, <2>1, <2>2, <2>3, WriteAndGo
<1> QED
  BY <1>1, <1>2, <1>3

LEMMA StageInv ==
  ASSUME IInv, NEW a \in Actors, Stage(a)
  PROVE  IInv'
<1> DEFINE g == [Files(a) EXCEPT !.staging = "complete"]
<1>1. At(a, "stage") /\ Write(a, g, Step(a, "publishJournal"), Caught(a))
  BY DEF Stage
<1>2. act[a].pc \notin FreePCs
  BY <1>1 DEF At, FreePCs
<1>3. FileOK(g) /\ Grows(Files(a), g)
  BY <1>2, Acting, FileSteps
<1>4. \A d : ActOK(act[a], d) => ActOK(Step(a, "publishJournal"), d)
  BY <1>2, StepOK DEF PreparePCs, ScanPCs, MarkedPCs, PCs
<1> QED
  BY <1>1, <1>2, <1>3, <1>4, WriteAndGo

\* A staged journal becomes the journal.
LEMMA JournalledOK ==
  ASSUME NEW f, FileOK(f), f.before # <<>>
  PROVE  FileOK(Journalled(f)) /\ Grows(f, Journalled(f))
<1> DEFINE g == [f EXCEPT !.staging = "none"]
<1>1. FileOK(g) /\ Grows(f, g) /\ g.before # <<>>
  <2>1. FileOK(g) /\ Grows(f, g)
    <3> "none" \in {"none", "partial", "complete"}
      OBVIOUS
    <3> QED
      BY FileSteps
  <2>2. f \in FileRecords
    BY DEF FileOK
  <2>3. g.before # <<>>
    BY <2>2 DEF FileRecords
  <2> QED
    BY <2>1, <2>3
<1>2. FileOK([g EXCEPT !.manifest = "prepared"]) /\ Grows(g, [g EXCEPT !.manifest = "prepared"])
  <2> HIDE DEF g
  <2> QED
    BY <1>1, FileSteps DEF ManifestStates
<1>3. Journalled(f) = [g EXCEPT !.manifest = "prepared"]
  BY DEF Journalled, FileOK, FileRecords
<1> QED
  BY <1>1, <1>2, <1>3 DEF Grows

LEMMA PublishJournalInv ==
  ASSUME IInv, NEW a \in Actors, PublishJournal(a)
  PROVE  IInv'
<1> DEFINE g == Journalled(Files(a))
<1>1. At(a, "publishJournal") /\ Write(a, g, Step(a, "registerPending"), Caught(a))
  BY DEF PublishJournal
<1>2. act[a].pc \notin FreePCs
  BY <1>1 DEF At, FreePCs
<1>3. FileOK(g) /\ Grows(Files(a), g)
  BY <1>2, Acting, JournalledOK
<1>4. \A d : ActOK(act[a], d) => ActOK(Step(a, "registerPending"), d)
  BY <1>2, StepOK DEF PreparePCs, ScanPCs, MarkedPCs, PCs
<1> QED
  BY <1>1, <1>2, <1>3, <1>4, WriteAndGo

\* Registry entries come and go without touching the files, `completed' after the receipt.
LEMMA RegistryOK ==
  ASSUME NEW f, FileOK(f), f.before # <<>>, NEW s \in RegistryStates, s = "completed" => f.receipt
  PROVE  /\ FileOK([f EXCEPT !.registry = @ \cup {s}]) /\ Grows(f, [f EXCEPT !.registry = @ \cup {s}])
         /\ FileOK([f EXCEPT !.registry = @ \ {s}]) /\ Grows(f, [f EXCEPT !.registry = @ \ {s}])
<1>1. f.registry \in SUBSET RegistryStates /\ ("completed" \in f.registry => f.receipt)
  BY DEF FileOK, FileRecords
<1>2. f.registry \cup {s} \in SUBSET RegistryStates /\ f.registry \ {s} \in SUBSET RegistryStates
  BY <1>1
<1> QED
  BY <1>1, <1>2, FileSteps

LEMMA RegisterPendingInv ==
  ASSUME IInv, NEW a \in Actors, RegisterPending(a)
  PROVE  IInv'
<1> DEFINE g == [Files(a) EXCEPT !.registry = @ \cup {"pending"}]
<1>1. At(a, "registerPending") /\ Write(a, g, Step(a, "returned"), Caught(a))
  BY DEF RegisterPending
<1>2. act[a].pc \notin FreePCs
  BY <1>1 DEF At, FreePCs
<1>3. FileOK(g) /\ Grows(Files(a), g)
  BY <1>2, Acting, RegistryOK DEF RegistryStates
<1>4. \A d : ActOK(act[a], d) => ActOK(Step(a, "returned"), d)
  BY <1>2, StepOK DEF PreparePCs, ScanPCs, MarkedPCs, PCs, Unlocked
<1> QED
  BY <1>1, <1>2, <1>3, <1>4, WriteAndGo

-----------------------------------------------------------------------------
(* commit *)

LEMMA CommitInv ==
  ASSUME IInv, NEW a \in Actors, Commit(a)
  PROVE  IInv'
<1> DEFINE rec == [Step(a, "applying") EXCEPT !.handler = "commitFailed"]
<1>1. At(a, "commit") /\ (Look(a, rec) \/ Raise(a))
  BY DEF Commit
<1>2. CASE Look(a, rec)
  <2>1. act[a].pc = "commit" /\ act[a] \in ActRecords /\ ActOK(act[a], disk)
    BY <1>1, Acting DEF At
  <2>2. Step(a, "applying") \in ActRecords
    BY <2>1, ActUpdate DEF Step, PCs
  <2>3. rec \in ActRecords
    BY <2>2, ActUpdate DEF Handlers
  <2>4. ActOK(rec, disk)
    BY <2>1, <2>3 DEF ActOK, Placed, Step, ActRecords, FreePCs, PreparePCs, ScanPCs, MarkedPCs
  <2> QED
    BY <1>2, <2>4, Looking
<1> QED
  BY <1>1, <1>2, RaiseInv

LEMMA ApplyingInv ==
  ASSUME IInv, NEW a \in Actors, Applying(a)
  PROVE  IInv'
<1> DEFINE g == [Files(a) EXCEPT !.manifest = "applying"]
           rec == [Step(a, "check") EXCEPT !.k = 1]
<1>1. At(a, "applying") /\ (Write(a, g, rec, Caught(a)) \/ Look(a, Caught(a)))
  BY DEF Applying
<1>2. act[a].pc = "applying" /\ act[a].pc \notin FreePCs /\ act[a] \in ActRecords
  BY <1>1, Acting DEF At, FreePCs
<1>3. FileOK(g) /\ Grows(Files(a), g)
  BY <1>2, Acting, FileSteps DEF ManifestStates
<1>4. ASSUME NEW d, ActOK(act[a], d) PROVE ActOK(rec, d)
  <2>1. Step(a, "check") \in ActRecords /\ 1 \in 0 .. NumTargets + 1
    BY <1>2, ActUpdate, PersistenceAssumption DEF Step, PCs
  <2>2. rec \in ActRecords
    BY <2>1, ActUpdate
  <2> QED
    BY <1>2, <1>4, <2>2 DEF ActOK, Placed, Step, ActRecords, FreePCs, PreparePCs, ScanPCs, MarkedPCs
<1> QED
  BY <1>1, <1>2, <1>3, <1>4, WriteAndGo, Acting, CaughtOK, Looking

\* A step that changes at most the targets and the bounds.
LEMMA Touching ==
  ASSUME IInv, NEW a \in Actors, NEW rec, ActOK(rec, disk), Become(a, rec),
         file' \in [Targets -> Contents], spent' \in Spendings, disk' = disk
  PROVE  IInv'
<1>1. \A r \in Runs : Grows(disk[r], disk'[r])
  BY DEF Grows
<1>2. act' \in [Actors -> ActRecords] /\ \A b \in Actors : ActOK(act'[b], disk')
  BY <1>1, Moving
<1> QED
  BY <1>2 DEF IInv

LEMMA CheckTargetInv ==
  ASSUME IInv, NEW a \in Actors, CheckTarget(a)
  PROVE  IInv'
<1> DEFINE next == [act[a] EXCEPT !.k = @ + 1]
<1>1. /\ At(a, "check") /\ act[a].k <= NumTargets
      /\ Look(a, next) \/ Look(a, Step(a, "replace")) \/ Look(a, Caught(a))
  BY DEF CheckTarget
<1>2. /\ act[a].pc = "check" /\ act[a] \in ActRecords /\ ActOK(act[a], disk)
      /\ act[a].k \in Targets
  BY <1>1, Acting, PersistenceAssumption DEF At, ActOK, Placed, ActRecords, Targets
<1>3. ActOK(next, disk)
  <2>1. act[a].k + 1 \in 0 .. NumTargets + 1
    BY <1>2, PersistenceAssumption DEF Targets
  <2>2. next \in ActRecords
    BY <1>2, <2>1, ActUpdate
  <2> QED
    BY <1>2, <2>2 DEF ActOK, Placed, ActRecords, FreePCs, PreparePCs, ScanPCs, MarkedPCs, Targets
<1>4. ActOK(Step(a, "replace"), disk)
  <2>1. Step(a, "replace") \in ActRecords
    BY <1>2, ActUpdate DEF Step, PCs
  <2> QED
    BY <1>2, <2>1 DEF ActOK, Placed, Step, ActRecords, FreePCs, PreparePCs, ScanPCs, MarkedPCs
<1> QED
  BY <1>1, <1>2, <1>3, <1>4, CaughtOK, Looking

LEMMA ApplyTargetInv ==
  ASSUME IInv, NEW a \in Actors, ApplyTarget(a)
  PROVE  IInv'
<1> DEFINE rec == [Step(a, "check") EXCEPT !.k = @ + 1]
<1>1. PICK o \in Outcomes :
         /\ file' = IF Took(o) THEN [file EXCEPT ![act[a].k] = act[a].tx] ELSE file
         /\ Become(a, IF Raised(o) THEN Caught(a) ELSE rec)
         /\ Tally(o)
         /\ disk' = disk
  BY DEF ApplyTarget
<1>2. /\ act[a].pc = "replace" /\ act[a] \in ActRecords /\ ActOK(act[a], disk)
      /\ act[a].k \in Targets /\ act[a].tx \in Contents
  BY Acting, PersistenceAssumption
     DEF ApplyTarget, At, ActOK, Placed, FreePCs, Contents
<1>3. ActOK(rec, disk)
  <2>1. act[a].k + 1 \in 0 .. NumTargets + 1
    BY <1>2, PersistenceAssumption DEF Targets
  <2>2. Step(a, "check") \in ActRecords /\ Step(a, "check").k = act[a].k
    BY <1>2, ActUpdate DEF Step, PCs, ActRecords
  <2>3. rec \in ActRecords
    BY <2>1, <2>2, ActUpdate
  <2> QED
    BY <1>2, <2>3 DEF ActOK, Placed, Step, ActRecords, FreePCs, PreparePCs, ScanPCs, MarkedPCs, Targets
<1>4. ActOK(Caught(a), disk)
  BY <1>2, CaughtOK
<1>5. file' \in [Targets -> Contents]
  BY <1>1, <1>2 DEF IInv
<1>6. spent' \in Spendings
  BY <1>1, Tallying
<1> QED
  BY <1>1, <1>3, <1>4, <1>5, <1>6, Touching

LEMMA VerifyAppliedInv ==
  ASSUME IInv, NEW a \in Actors, VerifyApplied(a)
  PROVE  IInv'
<1>1. At(a, "check") /\ (Look(a, Step(a, "marker")) \/ Look(a, Caught(a)))
  BY DEF VerifyApplied
<1>2. act[a].pc = "check" /\ ActOK(act[a], disk)
  BY <1>1, Acting DEF At
<1>3. ActOK(Step(a, "marker"), disk)
  BY <1>2, StepOK, SiteOK DEF PreparePCs, ScanPCs, MarkedPCs, FreePCs, PCs
<1> QED
  BY <1>1, <1>2, <1>3, CaughtOK, Looking

LEMMA WriteMarkerInv ==
  ASSUME IInv, NEW a \in Actors, WriteMarker(a)
  PROVE  IInv'
<1> DEFINE g == [Files(a) EXCEPT !.marker = TRUE]
<1>1. At(a, "marker") /\ Write(a, g, Step(a, "marked"), Caught(a))
  BY DEF WriteMarker
<1>2. act[a].pc = "marker" /\ act[a].pc \notin FreePCs
  BY <1>1 DEF At, FreePCs
<1>3. FileOK(g) /\ Grows(Files(a), g) /\ g.marker
  BY <1>2, Acting, FileSteps DEF FileRecords
<1> HIDE DEF g
<1>4. \A d : ActOK(act[a], d) /\ d[act[a].tx] = g => ActOK(Step(a, "marked"), d)
  BY <1>2, <1>3, StepOK, SiteOK DEF PreparePCs, ScanPCs, MarkedPCs, PCs
<1> QED
  BY <1>1, <1>2, <1>3, <1>4, WriteAndGo

\* The handler of commit is left for the handler of the publication.
LEMMA HandleOK ==
  ASSUME NEW a \in Actors, NEW d, ActOK(act[a], d), act[a].pc \notin FreePCs,
         act[a].site # "prepare",
         NEW pc \in {"publish", "rollback"}, NEW h \in {"raised", "publishFailed"},
         pc = "publish" => d[act[a].tx].marker
  PROVE  ActOK([Step(a, pc) EXCEPT !.handler = h], d)
<1>1. act[a] \in ActRecords
  BY DEF ActOK
<1>2. Step(a, pc) \in ActRecords
  BY <1>1, ActUpdate DEF Step, PCs
<1>3. [Step(a, pc) EXCEPT !.handler = h] \in ActRecords
  BY <1>2, ActUpdate DEF Handlers
<1> QED
  BY <1>1, <1>3 DEF ActOK, Placed, Step, ActRecords, FreePCs, PreparePCs, ScanPCs, MarkedPCs

LEMMA MarkCommittedInv ==
  ASSUME IInv, NEW a \in Actors, MarkCommitted(a)
  PROVE  IInv'
<1> DEFINE g == [Files(a) EXCEPT !.manifest = "commit_marked"]
           rec == [Step(a, "publish") EXCEPT !.handler = "publishFailed"]
<1>1. At(a, "marked") /\ Write(a, g, rec, Caught(a))
  BY DEF MarkCommitted
<1>2. act[a].pc = "marked" /\ act[a].pc \notin FreePCs /\ Files(a).marker
  BY <1>1, Acting DEF At, FreePCs, Files, ActOK, Placed, MarkedPCs
<1>3. FileOK(g) /\ Grows(Files(a), g) /\ g.marker
  BY <1>2, Acting, FileSteps DEF FileRecords, ManifestStates
<1>4. \A d : ActOK(act[a], d) /\ d[act[a].tx] = g => ActOK(rec, d)
  BY <1>2, <1>3, HandleOK, SiteOK DEF PreparePCs
<1> QED
  BY <1>1, <1>2, <1>3, <1>4, WriteAndGo

LEMMA CommitFailedInv ==
  ASSUME IInv, NEW a \in Actors, CommitFailed(a)
  PROVE  IInv'
<1> DEFINE rec == [Step(a, "rollback") EXCEPT !.handler = "raised"]
<1>1. At(a, "commitFailed") /\ (Look(a, Step(a, "publishFailed")) \/ Look(a, rec))
  BY DEF CommitFailed
<1>2. act[a].pc = "commitFailed" /\ act[a].pc \notin FreePCs /\ ActOK(act[a], disk)
  BY <1>1, Acting DEF At, FreePCs
<1>3. ActOK(rec, disk)
  BY <1>2, HandleOK, SiteOK DEF PreparePCs
<1>4. ActOK(Step(a, "publishFailed"), disk)
  BY <1>2, StepOK, SiteOK DEF PreparePCs, ScanPCs, MarkedPCs, PCs
<1> QED
  BY <1>1, <1>3, <1>4, Looking

-----------------------------------------------------------------------------
(* Publication *)

LEMMA PublishInv ==
  ASSUME IInv, NEW a \in Actors, Publish(a)
  PROVE  IInv'
<1> DEFINE g == [Files(a) EXCEPT !.manifest = "publishing"]
<1>1. At(a, "publish") /\ (Write(a, g, Step(a, "artifact"), Caught(a)) \/ Look(a, Caught(a)))
  BY DEF Publish
<1>2. act[a].pc = "publish" /\ act[a].pc \notin FreePCs /\ Files(a).marker
  BY <1>1, Acting DEF At, FreePCs, Files, ActOK, Placed, MarkedPCs
<1>3. FileOK(g) /\ Grows(Files(a), g) /\ g.marker
  BY <1>2, Acting, FileSteps DEF FileRecords, ManifestStates
<1> HIDE DEF g
<1>4. \A d : ActOK(act[a], d) /\ d[act[a].tx] = g => ActOK(Step(a, "artifact"), d)
  BY <1>2, <1>3, StepOK, SiteOK DEF PreparePCs, ScanPCs, MarkedPCs, PCs
<1> QED
  BY <1>1, <1>2, <1>3, <1>4, WriteAndGo, Acting, CaughtOK, Looking

LEMMA PublishArtifactInv ==
  ASSUME IInv, NEW a \in Actors, PublishArtifact(a)
  PROVE  IInv'
<1> DEFINE g == [Files(a) EXCEPT !.published = @ + 1]
<1>1. /\ At(a, "artifact") /\ Files(a).published < NumArtifacts
      /\ Write(a, g, Step(a, "artifact"), Caught(a))
  BY DEF PublishArtifact
<1>2. act[a].pc = "artifact" /\ act[a].pc \notin FreePCs /\ Files(a).marker
  BY <1>1, Acting DEF At, FreePCs, Files, ActOK, Placed, MarkedPCs
<1>3. FileOK(g) /\ Grows(Files(a), g) /\ g.marker
  BY <1>1, <1>2, Acting, FileSteps DEF FileRecords
<1> HIDE DEF g
<1>4. \A d : ActOK(act[a], d) /\ d[act[a].tx] = g => ActOK(Step(a, "artifact"), d)
  BY <1>2, <1>3, StepOK, SiteOK DEF PreparePCs, ScanPCs, MarkedPCs, PCs
<1> QED
  BY <1>1, <1>2, <1>3, <1>4, WriteAndGo

LEMMA WriteReceiptInv ==
  ASSUME IInv, NEW a \in Actors, WriteReceipt(a)
  PROVE  IInv'
<1> DEFINE g == [Files(a) EXCEPT !.receipt = TRUE]
<1>1. /\ At(a, "artifact") /\ Files(a).published = NumArtifacts
      /\ Write(a, g, Step(a, "complete"), Caught(a))
  BY DEF WriteReceipt
<1>2. act[a].pc = "artifact" /\ act[a].pc \notin FreePCs /\ Files(a).marker
  BY <1>1, Acting DEF At, FreePCs, Files, ActOK, Placed, MarkedPCs
<1>3. FileOK(g) /\ Grows(Files(a), g) /\ g.receipt
  BY <1>1, <1>2, Acting, FileSteps DEF FileRecords
<1> HIDE DEF g
<1>4. \A d : ActOK(act[a], d) /\ d[act[a].tx] = g => ActOK(Step(a, "complete"), d)
  BY <1>2, <1>3, StepOK, SiteOK DEF PreparePCs, ScanPCs, MarkedPCs, PCs
<1> QED
  BY <1>1, <1>2, <1>3, <1>4, WriteAndGo

\* The terminal state a process is about to register, and what that state needs.
LEMMA GoalOK ==
  ASSUME NEW a \in Actors, NEW d, ActOK(act[a], d), act[a].pc \notin FreePCs,
         act[a].site # "prepare", NEW s \in Reports \ {"commit_marked"},
         s = "completed" => d[act[a].tx].receipt
  PROVE  ActOK([Step(a, "transition") EXCEPT !.goal = s], d)
<1>1. act[a] \in ActRecords
  BY DEF ActOK
<1>2. Step(a, "transition") \in ActRecords
  BY <1>1, ActUpdate DEF Step, PCs
<1>3. [Step(a, "transition") EXCEPT !.goal = s] \in ActRecords
  BY <1>2, ActUpdate DEF Reports, RegistryStates
<1> QED
  BY <1>1, <1>3 DEF ActOK, Placed, Step, ActRecords, FreePCs, PreparePCs, ScanPCs, MarkedPCs

LEMMA CompleteInv ==
  ASSUME IInv, NEW a \in Actors, Complete(a)
  PROVE  IInv'
<1> DEFINE g == [Files(a) EXCEPT !.manifest = "completed"]
           rec == [Step(a, "transition") EXCEPT !.goal = "completed"]
<1>1. At(a, "complete") /\ Write(a, g, rec, Caught(a))
  BY DEF Complete
<1>2. act[a].pc = "complete" /\ act[a].pc \notin FreePCs /\ Files(a).receipt
  BY <1>1, Acting DEF At, FreePCs, Files, ActOK, Placed
<1>3. FileOK(g) /\ Grows(Files(a), g) /\ g.receipt
  BY <1>2, Acting, FileSteps DEF FileRecords, ManifestStates
<1>4. \A d : ActOK(act[a], d) /\ d[act[a].tx] = g => ActOK(rec, d)
  BY <1>2, <1>3, GoalOK, SiteOK DEF PreparePCs, Reports
<1> QED
  BY <1>1, <1>2, <1>3, <1>4, WriteAndGo

LEMMA PublishFailedInv ==
  ASSUME IInv, NEW a \in Actors, PublishFailed(a)
  PROVE  IInv'
<1> DEFINE g == [Files(a) EXCEPT !.manifest = "commit_marked"]
<1>1. At(a, "publishFailed") /\ TryWrite(a, g, Finish(a, "commit_marked"))
  BY DEF PublishFailed
<1>2. act[a].pc = "publishFailed" /\ act[a].pc \notin FreePCs
  BY <1>1 DEF At, FreePCs
<1>3. FileOK(g) /\ Grows(Files(a), g)
  BY <1>2, Acting, FileSteps DEF ManifestStates
<1>4. ActOK(Finish(a, "commit_marked"), disk)
  BY <1>2, Acting, FinishOK, SiteOK DEF PreparePCs, Reports
<1> QED
  BY <1>1, <1>2, <1>3, <1>4, Acting, TryWriting

LEMMA TransitionInv ==
  ASSUME IInv, NEW a \in Actors, Transition(a)
  PROVE  IInv'
<1> DEFINE g == [Files(a) EXCEPT !.registry = @ \cup {act[a].goal}]
<1>1. At(a, "transition") /\ Write(a, g, Step(a, "unlink"), Caught(a))
  BY DEF Transition
<1>2. /\ act[a].pc = "transition" /\ act[a].pc \notin FreePCs /\ act[a] \in ActRecords
      /\ act[a].goal \in RegistryStates /\ (act[a].goal = "completed" => Files(a).receipt)
  BY <1>1, Acting DEF At, FreePCs, Files, ActOK, Placed, Reports, RegistryStates
<1>3. FileOK(g) /\ Grows(Files(a), g)
  BY <1>2, Acting, RegistryOK
<1>4. ASSUME NEW d, ActOK(act[a], d) PROVE ActOK(Step(a, "unlink"), d)
  <2>1. Step(a, "unlink") \in ActRecords
    BY <1>2, ActUpdate DEF Step, PCs
  <2> QED
    BY <1>2, <1>4, <2>1 DEF ActOK, Placed, Step, ActRecords, FreePCs, PreparePCs, ScanPCs, MarkedPCs
<1> QED
  BY <1>1, <1>2, <1>3, <1>4, WriteAndGo

LEMMA UnlinkInv ==
  ASSUME IInv, NEW a \in Actors, Unlink(a)
  PROVE  IInv'
<1> DEFINE g == [Files(a) EXCEPT !.registry = @ \ {"pending"}]
<1>1. At(a, "unlink") /\ Write(a, g, Finish(a, act[a].goal), Caught(a))
  BY DEF Unlink
<1>2. /\ act[a].pc = "unlink" /\ act[a].pc \notin FreePCs /\ act[a].goal \in Reports
      /\ act[a].tx \in Runs
  BY <1>1, Acting DEF At, FreePCs, ActOK, Placed
<1>3. FileOK(g) /\ Grows(Files(a), g)
  BY <1>2, Acting, RegistryOK DEF RegistryStates
<1>4. \A d : ActOK(act[a], d) => ActOK(Finish(a, act[a].goal), d)
  BY <1>2, FinishOK, SiteOK DEF PreparePCs
<1> QED
  BY <1>1, <1>2, <1>3, <1>4, WriteAndGo

-----------------------------------------------------------------------------
(* Rollback *)

LEMMA RollbackInv ==
  ASSUME IInv, NEW a \in Actors, Rollback(a)
  PROVE  IInv'
<1> DEFINE g == [Files(a) EXCEPT !.manifest = "rolling_back"]
           rec == [Step(a, "undo") EXCEPT !.k = NumTargets]
<1>1. At(a, "rollback") /\ TryWrite(a, g, rec)
  BY DEF Rollback
<1>2. act[a].pc = "rollback" /\ act[a].pc \notin FreePCs
  BY <1>1 DEF At, FreePCs
<1>3. FileOK(g) /\ Grows(Files(a), g)
  BY <1>2, Acting, FileSteps DEF ManifestStates
<1>4. ActOK(rec, disk)
  <2>1. Step(a, "undo") \in ActRecords
    BY Acting, ActUpdate DEF Step, PCs
  <2>2. NumTargets \in 0 .. NumTargets + 1
    BY PersistenceAssumption
  <2>3. rec \in ActRecords
    BY <2>1, <2>2, ActUpdate
  <2> QED
    BY <1>2, <2>3, Acting, PersistenceAssumption
       DEF ActOK, Placed, Step, ActRecords, FreePCs, PreparePCs, ScanPCs, MarkedPCs
<1> QED
  BY <1>1, <1>2, <1>3, <1>4, Acting, TryWriting

\* The next target to restore, whether this one failed or not.
LEMMA UndoOK ==
  ASSUME IInv, NEW a \in Actors, act[a].pc \in {"undo", "restore"}, act[a].k > 0,
         NEW b \in BOOLEAN
  PROVE  ActOK([Step(a, "undo") EXCEPT !.k = @ - 1, !.failed = b], disk)
<1> DEFINE r1 == Step(a, "undo")
           r2 == [r1 EXCEPT !.k = act[a].k - 1]
           r3 == [r2 EXCEPT !.failed = b]
<1>1. /\ act[a] \in ActRecords /\ ActOK(act[a], disk)
      /\ act[a].k - 1 \in 0 .. NumTargets + 1 /\ act[a].k - 1 <= NumTargets
  BY Acting, PersistenceAssumption DEF ActRecords, ActOK, Placed, Targets
<1>2. r1 \in ActRecords /\ r1.k = act[a].k
  BY <1>1, ActUpdate DEF Step, PCs, ActRecords
<1>3. r2 \in ActRecords
  <2> HIDE DEF r1
  <2> QED
    BY <1>1, <1>2, ActUpdate
<1>4. r3 \in ActRecords
  <2> HIDE DEF r2
  <2> QED
    BY <1>3, ActUpdate
<1>5. [Step(a, "undo") EXCEPT !.k = @ - 1, !.failed = b] = r3
  BY <1>2
<1>6. Placed(r3, disk)
  BY <1>1 DEF ActOK, Placed, Step, ActRecords, FreePCs, PreparePCs, ScanPCs, MarkedPCs
<1> QED
  BY <1>4, <1>5, <1>6 DEF ActOK

LEMMA UndoCheckInv ==
  ASSUME IInv, NEW a \in Actors, UndoCheck(a)
  PROVE  IInv'
<1> DEFINE b == act[a].failed \/ file[act[a].k] # Files(a).before[act[a].k]
           rec == [act[a] EXCEPT !.k = @ - 1, !.failed = b]
<1>1. act[a].pc = "undo" /\ act[a].k > 0 /\ (Look(a, Step(a, "restore")) \/ Look(a, rec))
  BY DEF UndoCheck, At
<1>2. act[a] \in ActRecords /\ ActOK(act[a], disk) /\ act[a].k \in Targets
  BY <1>1, Acting, PersistenceAssumption DEF ActOK, Placed, ActRecords, Targets
<1>3. ActOK(Step(a, "restore"), disk)
  <2>1. Step(a, "restore") \in ActRecords
    BY <1>2, ActUpdate DEF Step, PCs
  <2> QED
    BY <1>1, <1>2, <2>1
       DEF ActOK, Placed, Step, ActRecords, FreePCs, PreparePCs, ScanPCs, MarkedPCs
<1>4. ActOK(rec, disk)
  <2>1. b \in BOOLEAN
    BY <1>2 DEF ActRecords
  <2>2. act[a] = Step(a, "undo")
    BY <1>1, <1>2 DEF Step, ActRecords
  <2> HIDE DEF b
  <2>3. ActOK([Step(a, "undo") EXCEPT !.k = @ - 1, !.failed = b], disk)
    BY <1>1, <2>1, UndoOK
  <2> QED
    BY <2>2, <2>3
<1> QED
  BY <1>1, <1>3, <1>4, Looking

LEMMA RestoreInv ==
  ASSUME IInv, NEW a \in Actors, Restore(a)
  PROVE  IInv'
<1> DEFINE b(o) == act[a].failed \/ Raised(o)
           rec(o) == [Step(a, "undo") EXCEPT !.k = @ - 1, !.failed = @ \/ Raised(o)]
<1>1. PICK o \in Outcomes :
         /\ file' = IF Took(o) THEN [file EXCEPT ![act[a].k] = Files(a).before[act[a].k]] ELSE file
         /\ Become(a, rec(o))
         /\ Tally(o)
         /\ disk' = disk
  BY DEF Restore
<1>2. /\ act[a].pc = "restore" /\ act[a].pc \notin FreePCs /\ act[a] \in ActRecords
      /\ ActOK(act[a], disk) /\ act[a].k \in Targets /\ act[a].k > 0
  BY Acting, PersistenceAssumption DEF Restore, At, ActOK, Placed, FreePCs, Targets
<1>3. ActOK(rec(o), disk)
  <2>1. b(o) \in BOOLEAN
    BY <1>2 DEF ActRecords
  <2>2. Step(a, "undo").failed = act[a].failed
    BY <1>2 DEF Step, ActRecords
  <2>3. ActOK([Step(a, "undo") EXCEPT !.k = @ - 1, !.failed = b(o)], disk)
    <3> HIDE DEF b
    <3> QED
      BY <1>2, <2>1, UndoOK
  <2> QED
    BY <2>2, <2>3
<1>4. file' \in [Targets -> Contents]
  <2>1. Files(a).before \in [Targets -> Contents]
    BY <1>2, Acting DEF FileRecords
  <2> QED
    BY <1>1, <1>2, <2>1 DEF IInv
<1>5. spent' \in Spendings
  BY <1>1, Tallying
<1> HIDE DEF rec
<1> QED
  BY <1>1, <1>3, <1>4, <1>5, Touching

LEMMA RolledBackInv ==
  ASSUME IInv, NEW a \in Actors, RolledBack(a)
  PROVE  IInv'
<1> DEFINE g == [Files(a) EXCEPT !.manifest = "rolled_back"]
           rec == [Step(a, "transition") EXCEPT !.goal = "rolled_back"]
<1>1. At(a, "undo") /\ Write(a, g, rec, Caught(a))
  BY DEF RolledBack
<1>2. act[a].pc = "undo" /\ act[a].pc \notin FreePCs
  BY <1>1 DEF At, FreePCs
<1>3. FileOK(g) /\ Grows(Files(a), g)
  BY <1>2, Acting, FileSteps DEF ManifestStates
<1>4. \A d : ActOK(act[a], d) => ActOK(rec, d)
  BY <1>2, GoalOK, SiteOK DEF PreparePCs, Reports
<1> QED
  BY <1>1, <1>2, <1>3, <1>4, WriteAndGo

LEMMA RollbackFailedInv ==
  ASSUME IInv, NEW a \in Actors, RollbackFailed(a)
  PROVE  IInv'
<1> DEFINE g == [Files(a) EXCEPT !.manifest = "recovery_required"]
           rec == [Step(a, "transition") EXCEPT !.goal = "recovery_required"]
<1>1. At(a, "undo") /\ TryWrite(a, g, rec)
  BY DEF RollbackFailed
<1>2. act[a].pc = "undo" /\ act[a].pc \notin FreePCs
  BY <1>1 DEF At, FreePCs
<1>3. FileOK(g) /\ Grows(Files(a), g)
  BY <1>2, Acting, FileSteps DEF ManifestStates
<1>4. ActOK(rec, disk)
  BY <1>2, Acting, GoalOK, SiteOK DEF PreparePCs, Reports
<1> QED
  BY <1>1, <1>2, <1>3, <1>4, Acting, TryWriting

-----------------------------------------------------------------------------
(* Reconciliation *)

LEMMA DiscoverInv ==
  ASSUME IInv, NEW a \in Actors, Discover(a)
  PROVE  IInv'
<1> DEFINE T == {r \in Runs : disk[r].staging # "none"}
           r1 == Step(a, "discovering")
           r2 == [r1 EXCEPT !.todo = T]
           r3 == [r2 EXCEPT !.handler = "raised"]
<1>1. act[a].pc = "discover" /\ Look(a, r3)
  BY DEF Discover, At
<1>2. act[a] \in ActRecords /\ ActOK(act[a], disk)
  BY Acting
<1>3. T \subseteq Runs /\ \A r \in T : Begun(disk, r)
  BY DEF IInv, FileOK, Begun
<1>4. r3 \in ActRecords
  <2>1. r1 \in ActRecords
    BY <1>2, ActUpdate DEF Step, PCs
  <2>2. r2 \in ActRecords
    <3> HIDE DEF r1, T
    <3> QED
      BY <1>3, <2>1, ActUpdate
  <2> HIDE DEF r2
  <2> QED
    BY <2>2, ActUpdate DEF Handlers
<1>5. Placed(r3, disk)
  <2> HIDE DEF T
  <2> QED
    BY <1>1, <1>2, <1>3
       DEF ActOK, Placed, Step, ActRecords, FreePCs, PreparePCs, ScanPCs, MarkedPCs
<1> QED
  BY <1>1, <1>4, <1>5, Looking DEF ActOK

LEMMA DiscoverStagedInv ==
  ASSUME IInv, NEW a \in Actors, DiscoverStaged(a)
  PROVE  IInv'
<1> DEFINE found(r) == [act[a] EXCEPT !.tx = r, !.todo = @ \ {r}]
           bad(r) == [found(r) EXCEPT !.pc = "quarantine"]
           good(r) == [found(r) EXCEPT !.tx = NoRun]
<1>1. act[a].pc = "discovering" /\ act[a] \in ActRecords /\ ActOK(act[a], disk)
  BY Acting DEF DiscoverStaged, At
<1>2. PICK r \in act[a].todo :
         \/ Look(a, bad(r))
         \/ \E o \in Outcomes :
               /\ disk' = IF Took(o) THEN [disk EXCEPT ![r] = Journalled(@)] ELSE disk
               /\ Become(a, IF Raised(o) THEN bad(r) ELSE good(r))
               /\ Tally(o)
               /\ file' = file
  BY DEF DiscoverStaged
<1>3. r \in Runs /\ Begun(disk, r) /\ act[a].todo \ {r} \in SUBSET Runs
  BY <1>1 DEF ActOK, Placed, Begun, ActRecords
<1>4. found(r) \in ActRecords
  <2> DEFINE r1 == [act[a] EXCEPT !.tx = r]
  <2>1. r1 \in ActRecords
    BY <1>1, <1>3, ActUpdate
  <2>2. [r1 EXCEPT !.todo = act[a].todo \ {r}] \in ActRecords
    <3> HIDE DEF r1
    <3> QED
      BY <1>3, <2>1, ActUpdate
  <2> QED
    BY <2>2
<1>5. bad(r) \in ActRecords /\ good(r) \in ActRecords
  <2> HIDE DEF found
  <2> QED
    BY <1>4, ActUpdate DEF PCs
<1>6. ActOK(bad(r), disk) /\ ActOK(good(r), disk)
  BY <1>1, <1>3, <1>5 DEF ActOK, Placed, ActRecords, FreePCs, PreparePCs, ScanPCs, MarkedPCs
<1> HIDE DEF bad, good
<1>7. CASE Look(a, bad(r))
  BY <1>6, <1>7, Looking
<1>8. ASSUME NEW o \in Outcomes,
             disk' = IF Took(o) THEN [disk EXCEPT ![r] = Journalled(@)] ELSE disk,
             Become(a, IF Raised(o) THEN bad(r) ELSE good(r)),
             Tally(o), file' = file
      PROVE  IInv'
  <2> DEFINE g == Journalled(disk[r])
  <2>1. FileOK(g) /\ Grows(disk[r], g)
    BY <1>3, JournalledOK DEF IInv, Begun
  <2>2. disk' = disk \/ disk' = [disk EXCEPT ![r] = g]
    BY <1>8
  <2>3. /\ disk' \in [Runs -> FileRecords] /\ \A q \in Runs : FileOK(disk'[q])
        /\ \A q \in Runs : Grows(disk[q], disk'[q])
    BY <1>3, <2>1, <2>2, Growing
  <2>4. ActOK(bad(r), disk') /\ ActOK(good(r), disk')
    BY <1>6, <2>3, Kept
  <2>5. act' \in [Actors -> ActRecords] /\ \A b \in Actors : ActOK(act'[b], disk')
    BY <1>8, <2>3, <2>4, Moving
  <2>6. spent' \in Spendings
    BY <1>8, Tallying
  <2> QED
    BY <1>8, <2>3, <2>5, <2>6 DEF IInv
<1> QED
  BY <1>2, <1>7, <1>8

LEMMA QuarantineInv ==
  ASSUME IInv, NEW a \in Actors, Quarantine(a)
  PROVE  IInv'
<1> DEFINE g == [Files(a) EXCEPT !.staging = "none"]
           rep == [act[a].report EXCEPT ![act[a].tx] = @ \cup {"rolled_back"}]
           r1 == Step(a, "discovering")
           r2 == [r1 EXCEPT !.report = rep]
           r3 == [r2 EXCEPT !.tx = NoRun]
           rec == [Step(a, "discovering") EXCEPT
                       !.report[act[a].tx] = @ \cup {"rolled_back"}, !.tx = NoRun]
<1>1. act[a].pc = "quarantine" /\ act[a].pc \notin FreePCs /\ TryWrite(a, g, rec)
  BY DEF Quarantine, At, FreePCs
<1>2. act[a] \in ActRecords /\ ActOK(act[a], disk) /\ act[a].tx \in Runs
  BY <1>1, Acting
<1>3. FileOK(g) /\ Grows(Files(a), g)
  BY <1>1, Acting, FileSteps
<1>4. rep \in [Runs -> SUBSET Reports]
  BY <1>2 DEF ActRecords, Reports
<1>5. r1 \in ActRecords
  BY <1>2, ActUpdate DEF Step, PCs
<1>6. r2 \in ActRecords
  <2> HIDE DEF r1, rep
  <2> QED
    BY <1>4, <1>5, ActUpdate
<1>7. r3 \in ActRecords
  <2> HIDE DEF r2
  <2> QED
    BY <1>6, ActUpdate
<1>8. rec = r3
  BY <1>2 DEF Step, ActRecords
<1>9. Placed(r3, disk)
  BY <1>1, <1>2 DEF ActOK, Placed, Step, ActRecords, FreePCs, PreparePCs, ScanPCs, MarkedPCs
<1> HIDE DEF rec, r3
<1> QED
  BY <1>1, <1>2, <1>3, <1>7, <1>8, <1>9, TryWriting DEF ActOK

LEMMA RegisterDiscoveredInv ==
  ASSUME IInv, NEW a \in Actors, RegisterDiscovered(a)
  PROVE  IInv'
<1>1. PICK r \in Unregistered, o \in Outcomes :
         /\ disk' = IF Took(o) THEN [disk EXCEPT ![r].registry = {"pending"}] ELSE disk
         /\ Become(a, IF Raised(o) THEN Caught(a) ELSE act[a])
         /\ Tally(o)
         /\ file' = file
  BY DEF RegisterDiscovered
<1> DEFINE g == [disk[r] EXCEPT !.registry = {"pending"}]
<1>2. r \in Runs /\ FileOK(disk[r]) /\ disk[r].before # <<>>
  BY DEF Unregistered, IInv, FileOK
<1>3. FileOK(g) /\ Grows(disk[r], g)
  BY <1>2, FileSteps DEF RegistryStates
<1>4. disk' = disk \/ disk' = [disk EXCEPT ![r] = g]
  BY <1>1
<1>5. /\ disk' \in [Runs -> FileRecords] /\ \A q \in Runs : FileOK(disk'[q])
      /\ \A q \in Runs : Grows(disk[q], disk'[q])
  BY <1>2, <1>3, <1>4, Growing
<1>6. ActOK(act[a], disk') /\ ActOK(Caught(a), disk')
  BY <1>5, Acting, CaughtOK, Kept
<1>7. act' \in [Actors -> ActRecords] /\ \A b \in Actors : ActOK(act'[b], disk')
  BY <1>1, <1>5, <1>6, Moving
<1>8. spent' \in Spendings
  BY <1>1, Tallying
<1> QED
  BY <1>1, <1>5, <1>7, <1>8 DEF IInv

LEMMA DiscoveredInv ==
  ASSUME IInv, NEW a \in Actors, Discovered(a)
  PROVE  IInv'
<1>1. act[a].pc = "discovering" /\ Look(a, Step(a, "list"))
  BY DEF Discovered, At
<1>2. act[a] \in ActRecords /\ ActOK(act[a], disk)
  BY Acting
<1>3. Step(a, "list") \in ActRecords
  BY <1>2, ActUpdate DEF Step, PCs, Unlocked
<1>4. ActOK(Step(a, "list"), disk)
  BY <1>1, <1>2, <1>3 DEF ActOK, Placed, Step, ActRecords, FreePCs, PreparePCs, ScanPCs, MarkedPCs
<1> QED
  BY <1>1, <1>4, Looking

LEMMA ListPendingInv ==
  ASSUME IInv, NEW a \in Actors, ListPending(a)
  PROVE  IInv'
<1> DEFINE T == {r \in Runs : "pending" \in disk[r].registry}
           r1 == Step(a, "entry")
           r2 == [r1 EXCEPT !.todo = T]
<1>1. act[a].pc = "list" /\ Look(a, r2)
  BY DEF ListPending, At
<1>2. act[a] \in ActRecords /\ ActOK(act[a], disk)
  BY Acting
<1>3. T \in SUBSET Runs /\ \A r \in T : Begun(disk, r)
  BY DEF IInv, FileOK, Begun
<1>4. r1 \in ActRecords
  BY <1>2, ActUpdate DEF Step, PCs, Unlocked
<1>5. r2 \in ActRecords
  <2> HIDE DEF r1, T
  <2> QED
    BY <1>3, <1>4, ActUpdate
<1>6. Placed(r2, disk)
  <2> HIDE DEF T
  <2> QED
    BY <1>1, <1>2, <1>3
       DEF ActOK, Placed, Step, ActRecords, FreePCs, PreparePCs, ScanPCs, MarkedPCs
<1> QED
  BY <1>1, <1>5, <1>6, Looking DEF ActOK

LEMMA ReadEntryInv ==
  ASSUME IInv, NEW a \in Actors, ReadEntry(a)
  PROVE  IInv'
<1> DEFINE rec(pc, r) == [Step(a, pc) EXCEPT !.tx = r, !.todo = @ \ {r}, !.handler = "markManifest"]
<1>1. PICK r \in act[a].todo, pc \in {"take", "markManifest"} : Look(a, rec(pc, r))
  BY DEF ReadEntry
<1>2. act[a].pc = "entry" /\ act[a] \in ActRecords /\ ActOK(act[a], disk)
  BY Acting DEF ReadEntry, At
<1>3. r \in Runs /\ Begun(disk, r) /\ act[a].todo \ {r} \in SUBSET Runs
  BY <1>2 DEF ActOK, Placed, Begun, ActRecords
<1>4. rec(pc, r) \in ActRecords
  <2> DEFINE r1 == Step(a, pc)
             r2 == [r1 EXCEPT !.tx = r]
             r3 == [r2 EXCEPT !.todo = act[a].todo \ {r}]
             r4 == [r3 EXCEPT !.handler = "markManifest"]
  <2>1. r1 \in ActRecords /\ r1.todo = act[a].todo
    <3>1. pc \in PCs
      BY DEF PCs, Unlocked
    <3>2. r1 \in ActRecords
      BY <1>2, <3>1, ActUpdate DEF Step
    <3> QED
      BY <1>2, <3>2 DEF Step, ActRecords
  <2>2. r2 \in ActRecords
    <3> HIDE DEF r1
    <3> QED
      BY <1>3, <2>1, ActUpdate
  <2>3. r3 \in ActRecords
    <3> HIDE DEF r2
    <3> QED
      BY <1>3, <2>2, ActUpdate
  <2>4. r4 \in ActRecords
    <3> HIDE DEF r3
    <3> QED
      BY <2>3, ActUpdate DEF Handlers
  <2>5. rec(pc, r) = r4
    BY <2>1
  <2> QED
    BY <2>4, <2>5
<1>5. Placed(rec(pc, r), disk)
  BY <1>2, <1>3 DEF ActOK, Placed, Step, ActRecords, FreePCs, PreparePCs, ScanPCs, MarkedPCs
<1> HIDE DEF rec
<1> QED
  BY <1>1, <1>4, <1>5, Looking DEF ActOK

LEMMA ReconciledInv ==
  ASSUME IInv, NEW a \in Actors, Reconciled(a)
  PROVE  IInv'
<1>1. act[a].pc = "entry" /\ Look(a, Step(a, "returned"))
  BY DEF Reconciled, At
<1>2. act[a] \in ActRecords /\ ActOK(act[a], disk)
  BY Acting
<1>3. Step(a, "returned") \in ActRecords
  BY <1>2, ActUpdate DEF Step, PCs, Unlocked
<1>4. ActOK(Step(a, "returned"), disk)
  BY <1>1, <1>2, <1>3 DEF ActOK, Placed, Step, ActRecords, FreePCs, PreparePCs, ScanPCs, MarkedPCs
<1> QED
  BY <1>1, <1>4, Looking

LEMMA TakeEntryInv ==
  ASSUME IInv, NEW a \in Actors, TakeEntry(a)
  PROVE  IInv'
<1> DEFINE forward == [Step(a, "publish") EXCEPT !.handler = "publishFailed"]
<1>1. /\ act[a].pc = "take"
      /\ \/ Look(a, Caught(a))
         \/ Files(a).receipt /\ Look(a, Step(a, "complete"))
         \/ Look(a, Step(a, "rollback"))
         \/ Files(a).marker /\ Look(a, forward)
  BY DEF TakeEntry, At
<1>2. act[a].pc \notin FreePCs /\ ActOK(act[a], disk) /\ act[a].site \notin {"prepare", "commit"}
  BY <1>1, Acting, SiteOK DEF FreePCs, PreparePCs, ScanPCs
<1>3. Files(a).receipt => ActOK(Step(a, "complete"), disk)
  BY <1>2, StepOK DEF Files, MarkedPCs, PCs
<1>4. ActOK(Step(a, "rollback"), disk)
  BY <1>2, StepOK DEF MarkedPCs, PCs
<1>5. Files(a).marker => ActOK(forward, disk)
  BY <1>2, HandleOK DEF Files
<1> QED
  BY <1>1, <1>2, <1>3, <1>4, <1>5, CaughtOK, Looking

LEMMA MarkManifestInv ==
  ASSUME IInv, NEW a \in Actors, MarkManifest(a)
  PROVE  IInv'
<1> DEFINE g == IF Files(a).manifest = "new" THEN Files(a)
                ELSE [Files(a) EXCEPT !.manifest = "recovery_required"]
<1>1. act[a].pc = "markManifest" /\ TryWrite(a, g, Step(a, "markRegistry"))
  BY DEF MarkManifest, At
<1>2. /\ act[a].pc \notin FreePCs /\ ActOK(act[a], disk) /\ act[a].tx \in Runs
      /\ act[a].site \notin {"prepare", "commit"}
  BY <1>1, Acting, SiteOK DEF FreePCs, PreparePCs, ScanPCs
<1>3. FileOK(g) /\ Grows(Files(a), g)
  BY <1>2, Acting, FileSteps DEF ManifestStates
<1>4. ActOK(Step(a, "markRegistry"), disk)
  BY <1>2, StepOK DEF MarkedPCs, PCs, Unlocked
<1> QED
  BY <1>1, <1>2, <1>3, <1>4, TryWriting

LEMMA MarkRegistryInv ==
  ASSUME IInv, NEW a \in Actors, MarkRegistry(a)
  PROVE  IInv'
<1> DEFINE g == [Files(a) EXCEPT !.registry = @ \cup {"recovery_required"}]
           d == [disk EXCEPT ![act[a].tx] = g]
<1>1. /\ act[a].pc = "markRegistry"
      /\ Write(a, g, Step(a, "markUnlink"), Finish(a, "recovery_required"))
  BY DEF MarkRegistry, At
<1>2. /\ act[a].pc \notin FreePCs /\ ActOK(act[a], disk) /\ act[a].tx \in Runs
      /\ act[a].site \notin {"prepare", "commit"}
  BY <1>1, Acting, SiteOK DEF FreePCs, PreparePCs, ScanPCs
<1>3. FileOK(g) /\ Grows(Files(a), g)
  BY <1>2, Acting, RegistryOK DEF RegistryStates
<1>4. ActOK(Finish(a, "recovery_required"), disk)
  BY <1>2, FinishOK DEF Reports
<1> HIDE DEF g
<1>5. \A r \in Runs : Grows(disk[r], d[r])
  BY <1>3 DEF IInv, Files, Grows
<1>6. ActOK(act[a], d)
  BY <1>2, <1>5, Kept
<1>7. ActOK(Step(a, "markUnlink"), d)
  BY <1>2, <1>6, StepOK DEF MarkedPCs, PCs, Unlocked
<1> QED
  BY <1>1, <1>2, <1>3, <1>4, <1>7, Writing

LEMMA MarkUnlinkInv ==
  ASSUME IInv, NEW a \in Actors, MarkUnlink(a)
  PROVE  IInv'
<1> DEFINE g == [Files(a) EXCEPT !.registry = @ \ {"pending"}]
<1>1. act[a].pc = "markUnlink" /\ TryWrite(a, g, Finish(a, "recovery_required"))
  BY DEF MarkUnlink, At
<1>2. /\ act[a].pc \notin FreePCs /\ ActOK(act[a], disk) /\ act[a].tx \in Runs
      /\ act[a].site \notin {"prepare", "commit"}
  BY <1>1, Acting, SiteOK DEF FreePCs, PreparePCs, ScanPCs
<1>3. FileOK(g) /\ Grows(Files(a), g)
  BY <1>2, Acting, RegistryOK DEF RegistryStates
<1>4. ActOK(Finish(a, "recovery_required"), disk)
  BY <1>2, FinishOK DEF Reports
<1> QED
  BY <1>1, <1>2, <1>3, <1>4, TryWriting

-----------------------------------------------------------------------------
(* The environment and the callers. *)

LEMMA EditInv ==
  ASSUME IInv, NEW t \in Targets, Edit(t)
  PROVE  IInv'
<1>0. Between(t) \subseteq Runs
  BY DEF Between, IInv, ActOK, Placed, Begun, FreePCs
<1>1. spent.edits + 1 \in Contents /\ spent' \in Spendings
  <2>1. /\ spent \in Spendings /\ spent.edits < MaxEdits /\ spent.edits \in 0 .. MaxEdits
        /\ spent' = [spent EXCEPT !.edits = @ + 1, !.raced = @ \cup (Between(t) \X {spent.edits + 1})]
    BY DEF IInv, Edit, Spendings
  <2>2. spent.edits + 1 \in 1 .. MaxEdits
    BY <2>1, PersistenceAssumption
  <2>3. (Between(t) \X {spent.edits + 1}) \subseteq Runs \X (1 .. MaxEdits)
    BY <1>0, <2>2
  <2>4. spent.raced \cup (Between(t) \X {spent.edits + 1}) \in SUBSET (Runs \X (1 .. MaxEdits))
    BY <2>1, <2>3 DEF Spendings
  <2>5. ASSUME NEW s \in Spendings, NEW e \in 0 .. MaxEdits, NEW R \in SUBSET (Runs \X (1 .. MaxEdits))
        PROVE  [s EXCEPT !.edits = e, !.raced = R] \in Spendings
    BY DEF Spendings
  <2>6. spent.edits + 1 \in 0 .. MaxEdits
    BY <2>2
  <2> QED
    BY <2>1, <2>2, <2>4, <2>5, <2>6 DEF Contents
<1>2. file' \in [Targets -> Contents]
  BY <1>1 DEF IInv, Edit
<1> QED
  BY <1>1, <1>2 DEF IInv, Edit

LEMMA CrashInv ==
  ASSUME IInv, NEW a \in Actors, Crash(a)
  PROVE  IInv'
<1>1. spent' \in Spendings
  BY PersistenceAssumption DEF IInv, Crash, Spendings
<1>2. Become(a, Idle) /\ file' = file /\ disk' = disk
  BY DEF Crash
<1> QED
  BY <1>1, <1>2, IdleOK, Touching DEF IInv

\* A run that begins reads the books: only its before image changes.
LEMMA BeginInv ==
  ASSUME IInv, NEW a \in Actors, act[a].handler = "raised", NEW pc \in {"prepare", "drafting"},
         Begin(a, pc)
  PROVE  IInv'
<1>1. PICK r \in Runs :
         /\ disk[r].before = <<>>
         /\ disk' = [disk EXCEPT ![r].before = file]
         /\ Become(a, [Step(a, pc) EXCEPT !.site = "prepare", !.tx = r])
         /\ file' = file /\ spent' = spent
  BY DEF Begin
<1> DEFINE g == [disk[r] EXCEPT !.before = file]
           r1 == Step(a, pc)
           r2 == [r1 EXCEPT !.site = "prepare"]
           r3 == [r2 EXCEPT !.tx = r]
<1>2. file # <<>>
  <2>1. 1 \in DOMAIN file
    BY PersistenceAssumption DEF IInv, Targets
  <2> QED
    BY <2>1
<1>3. FileOK(g) /\ Grows(disk[r], g) /\ g.before = file
  <2>1. FileOK(disk[r]) /\ disk[r] \in FileRecords /\ file \in [Targets -> Contents]
    BY DEF IInv, FileOK
  <2>2. g \in FileRecords
    BY <2>1, FileUpdate
  <2> QED
    BY <1>1, <1>2, <2>1, <2>2 DEF FileOK, Grows, FileRecords
<1>4. disk' = [disk EXCEPT ![r] = g]
  BY <1>1
<1> HIDE DEF g
<1>5. /\ disk' \in [Runs -> FileRecords] /\ \A q \in Runs : FileOK(disk'[q])
      /\ \A q \in Runs : Grows(disk[q], disk'[q])
  BY <1>3, <1>4, Growing
<1>6. act[a] \in ActRecords /\ ActOK(act[a], disk')
  BY <1>5, Acting, Kept
<1>7. Begun(disk', r)
  BY <1>2, <1>3, <1>4 DEF IInv, Begun
<1>8. r3 \in ActRecords
  <2>1. r1 \in ActRecords
    BY <1>6, ActUpdate DEF Step, PCs, Unlocked
  <2>2. r2 \in ActRecords
    <3> HIDE DEF r1
    <3> QED
      BY <2>1, ActUpdate DEF Sites
  <2> HIDE DEF r2
  <2> QED
    BY <2>2, ActUpdate
<1>9. Placed(r3, disk') /\ Become(a, r3)
  BY <1>1, <1>6, <1>7
     DEF ActOK, Placed, Step, ActRecords, FreePCs, PreparePCs, ScanPCs, MarkedPCs
<1>10. act' \in [Actors -> ActRecords] /\ \A b \in Actors : ActOK(act'[b], disk')
  BY <1>5, <1>8, <1>9, Moving DEF ActOK
<1> QED
  BY <1>1, <1>5, <1>10 DEF IInv

LEMMA WriterStepInv ==
  ASSUME IInv, NEW a \in Actors, WriterStep(a)
  PROVE  IInv'
<1>1. CASE At(a, "idle") /\ Begin(a, "prepare")
  BY <1>1, Acting, BeginInv DEF At, ActOK, Placed
<1>2. CASE /\ At(a, "returned") /\ act[a].site = "prepare"
           /\ Look(a, [Step(a, "commit") EXCEPT !.site = "commit"])
  <2> DEFINE r1 == Step(a, "commit")
             r2 == [r1 EXCEPT !.site = "commit"]
  <2>1. act[a] \in ActRecords /\ ActOK(act[a], disk)
    BY Acting
  <2>2. r1 \in ActRecords
    BY <2>1, ActUpdate DEF Step, PCs, Unlocked
  <2>3. r2 \in ActRecords
    <3> HIDE DEF r1
    <3> QED
      BY <2>2, ActUpdate DEF Sites
  <2>4. ActOK(r2, disk)
    BY <1>2, <2>1, <2>3
       DEF At, ActOK, Placed, Step, ActRecords, FreePCs, PreparePCs, ScanPCs, MarkedPCs
  <2> QED
    BY <1>2, <2>4, Looking
<1>3. CASE Look(a, Idle)
  BY <1>3, IdleOK, Looking
<1> QED
  BY <1>1, <1>2, <1>3 DEF WriterStep

LEMMA ReconcilerStepInv ==
  ASSUME IInv, NEW a \in Actors, ReconcilerStep(a)
  PROVE  IInv'
<1>1. CASE /\ At(a, "idle") /\ spent.reconciles < MaxReconciles
           /\ Become(a, [Step(a, "discover") EXCEPT !.site = "reconcile"])
           /\ spent' = [spent EXCEPT !.reconciles = @ + 1]
           /\ UNCHANGED <<file, disk>>
  <2> DEFINE r1 == Step(a, "discover")
             r2 == [r1 EXCEPT !.site = "reconcile"]
  <2>1. act[a].pc = "idle" /\ act[a] \in ActRecords /\ ActOK(act[a], disk)
    BY <1>1, Acting DEF At
  <2>2. r1 \in ActRecords
    BY <2>1, ActUpdate DEF Step, PCs, Unlocked
  <2>3. r2 \in ActRecords
    <3> HIDE DEF r1
    <3> QED
      BY <2>2, ActUpdate DEF Sites
  <2>4. ActOK(r2, disk)
    BY <2>1, <2>3 DEF ActOK, Placed, Step, ActRecords, FreePCs, PreparePCs, ScanPCs, MarkedPCs
  <2>5. spent' \in Spendings
    BY <1>1, PersistenceAssumption DEF IInv, Spendings
  <2> QED
    BY <1>1, <2>4, <2>5, Touching DEF IInv
<1>2. CASE Look(a, Idle)
  BY <1>2, IdleOK, Looking
<1> QED
  BY <1>1, <1>2 DEF ReconcilerStep

LEMMA SectionInv ==
  ASSUME IInv, NEW a \in Actors, Section(a)
  PROVE  IInv'
<1>1. LockErrors(a) => IInv'
  BY RaiseInv DEF LockErrors, LockError
<1>2. Prepare(a) \/ Stage(a) \/ PublishJournal(a) \/ RegisterPending(a) => IInv'
  BY PrepareInv, StageInv, PublishJournalInv, RegisterPendingInv
<1>3. Commit(a) \/ Applying(a) \/ CheckTarget(a) \/ ApplyTarget(a) \/ VerifyApplied(a) => IInv'
  BY CommitInv, ApplyingInv, CheckTargetInv, ApplyTargetInv, VerifyAppliedInv
<1>4. WriteMarker(a) \/ MarkCommitted(a) \/ CommitFailed(a) => IInv'
  BY WriteMarkerInv, MarkCommittedInv, CommitFailedInv
<1>5. Publish(a) \/ PublishArtifact(a) \/ WriteReceipt(a) \/ Complete(a) \/ PublishFailed(a) => IInv'
  BY PublishInv, PublishArtifactInv, WriteReceiptInv, CompleteInv, PublishFailedInv
<1>6. Transition(a) \/ Unlink(a) => IInv'
  BY TransitionInv, UnlinkInv
<1>7. Rollback(a) \/ UndoCheck(a) \/ Restore(a) \/ RolledBack(a) \/ RollbackFailed(a) => IInv'
  BY RollbackInv, UndoCheckInv, RestoreInv, RolledBackInv, RollbackFailedInv
<1>8. Discover(a) \/ DiscoverStaged(a) \/ Quarantine(a) \/ RegisterDiscovered(a) => IInv'
  BY DiscoverInv, DiscoverStagedInv, QuarantineInv, RegisterDiscoveredInv
<1>9. Discovered(a) \/ ListPending(a) \/ ReadEntry(a) \/ Reconciled(a) \/ TakeEntry(a) => IInv'
  BY DiscoveredInv, ListPendingInv, ReadEntryInv, ReconciledInv, TakeEntryInv
<1>10. MarkManifest(a) \/ MarkRegistry(a) \/ MarkUnlink(a) => IInv'
  BY MarkManifestInv, MarkRegistryInv, MarkUnlinkInv
<1> QED
  BY <1>1, <1>2, <1>3, <1>4, <1>5, <1>6, <1>7, <1>8, <1>9, <1>10 DEF Section

LEMMA NextInv ==
  ASSUME IInv, [Next]_vars
  PROVE  IInv'
<1>1. CASE \E a \in Actors : Section(a) \/ Crash(a)
  BY <1>1, SectionInv, CrashInv
<1>2. CASE \E a \in Writers : WriterStep(a)
  BY <1>2, WriterStepInv DEF Actors
<1>3. CASE \E a \in Reconcilers : ReconcilerStep(a)
  BY <1>3, ReconcilerStepInv DEF Actors
<1>4. CASE \E t \in Targets : Edit(t)
  BY <1>4, EditInv
<1>5. CASE UNCHANGED vars
  BY <1>5 DEF vars, IInv
<1> QED
  BY <1>1, <1>2, <1>3, <1>4, <1>5 DEF Next

-----------------------------------------------------------------------------
(* Theorems *)

\* Every variable keeps its type: whatever raises, dies or is edited, the
\* transaction root never holds a state the schemas do not know.
THEOREM TypeCorrect == Spec => []TypeOK
<1>1. IInv => TypeOK
  BY DEF IInv, TypeOK
<1> QED
  BY <1>1, InitIInv, NextInv, PTL DEF Spec

\* A receipt stands on a marker and on all artifacts, and only a run with a
\* receipt is registered completed: for any number of processes, crashes and
\* failing writes (_write_receipt, _transition_registry).
THEOREM ReceiptIsProof == Spec => []ReceiptProvesCommit
<1>1. IInv => ReceiptProvesCommit
  BY DEF IInv, FileOK, ReceiptProvesCommit
<1> QED
  BY <1>1, InitIInv, NextInv, PTL DEF Spec

-----------------------------------------------------------------------------
(* The swap. *)

\* persistence_run_lock: no two processes are in locked sections at once.
OneSection == \A a, b \in Actors : act[a].pc \notin Unlocked /\ act[b].pc \notin Unlocked => a = b

\* What the manifest of a run says of its staging, marker and registry entries.
Fresh(f) ==
    /\ f.staging # "none" => f.manifest = "new"
    /\ f.manifest \in {"new", "prepared"} => ~f.marker
    /\ f.manifest = "new" => f.registry = {}

Drafting == {"stage", "publishJournal"}
PreMarker == {"applying", "check", "replace", "marker", "rollback", "undo", "restore"}
Started == {"check", "replace", "marker"}
Journalling == PreMarker \cup {"registerPending", "marked", "commitFailed", "publish", "artifact",
    "complete", "publishFailed", "transition", "unlink", "take", "markManifest", "markRegistry",
    "markUnlink"}

\* What a process that remembers rec knows of its run's journal.
SwapOK(rec, f, d) ==
    /\ rec.pc \in Journalling \/ rec.handler # "raised" => d[rec.tx].manifest # "new"
    /\ rec.pc \notin {"discovering", "quarantine"} => \A r \in rec.todo : d[r].manifest # "new"
    /\ rec.pc \in Drafting => d[rec.tx].manifest = "new"
    /\ rec.pc \in PreMarker => ~d[rec.tx].marker
    /\ rec.pc \in Started => d[rec.tx].manifest # "prepared"

SInv ==
    /\ IInv
    /\ OneSection
    /\ \A r \in Runs : Fresh(disk[r])
    /\ \A a \in Actors : SwapOK(act[a], file, disk)

\* A journal stays, whatever is written of its run.
Onward(f, g) == f.manifest # "new" => g.manifest # "new"

\* A change that no other process's section notices.
Calm(f, g) ==
    /\ g.marker = f.marker /\ Onward(f, g)
    /\ f.manifest = "new" => g.manifest = "new"
    /\ g.manifest = "prepared" => f.manifest = "prepared"
    /\ f.before # <<>> => g.before = f.before

-----------------------------------------------------------------------------

LEMMA InitSInv == Init => SInv
<1> SUFFICES ASSUME Init PROVE SInv
  OBVIOUS
<1>1. \A r \in Runs : Fresh(disk[r])
  BY DEF Init, Fresh, NoFiles
<1>2. \A a \in Actors : SwapOK(act[a], file, disk)
  BY DEF Init, SwapOK, Idle, Journalling, PreMarker, Drafting, Started
<1>3. OneSection
  BY DEF Init, OneSection, Idle, Unlocked
<1> QED
  BY <1>1, <1>2, <1>3, InitIInv DEF SInv

\* The section of a, or the one a enters: the others are outside.
LEMMA Alone ==
  ASSUME SInv, NEW a \in Actors, act[a].pc \notin Unlocked \/ ~Busy(a), NEW b \in Actors, b # a
  PROVE  act[b].pc \in Unlocked
  BY DEF SInv, OneSection, Busy

\* A step inside a section.
LEMMA Exclusive ==
  ASSUME SInv, IInv', NEW a \in Actors, act[a].pc \notin Unlocked \/ ~Busy(a),
         NEW rec, Become(a, rec), SwapOK(rec, file', disk'),
         \A r \in Runs : Fresh(disk'[r]) /\ Onward(disk[r], disk'[r])
  PROVE  SInv'
<1>1. act'[a] = rec /\ \A b \in Actors \ {a} : act'[b] = act[b] /\ act[b].pc \in Unlocked
  BY Alone DEF SInv, IInv, Become
<1>2. OneSection'
  BY <1>1 DEF OneSection
<1>3. ASSUME NEW b \in Actors PROVE SwapOK(act'[b], file', disk')
  <2>1. CASE b = a
    BY <1>1, <2>1
  <2>2. CASE b # a
    <3>1. act'[b] = act[b] /\ act[b].pc \in Unlocked /\ SwapOK(act[b], file, disk)
      BY <1>1, <2>2 DEF SInv
    <3>2. ActOK(act[b], disk)
      BY DEF SInv, IInv
    <3> QED
      BY <3>1, <3>2
         DEF ActOK, Placed, Begun, FreePCs, SwapOK, Onward, Unlocked, Journalling, PreMarker, Drafting, Started
  <2> QED
    BY <2>1, <2>2
<1> QED
  BY <1>2, <1>3 DEF SInv

\* A step outside any section.
LEMMA Outside ==
  ASSUME SInv, IInv', NEW a \in Actors, NEW rec, rec.pc \in Unlocked, Become(a, rec),
         SwapOK(rec, file', disk'), file' = file,
         \A r \in Runs : Fresh(disk'[r]) /\ Calm(disk[r], disk'[r])
  PROVE  SInv'
<1>1. act'[a] = rec /\ \A b \in Actors \ {a} : act'[b] = act[b]
  BY DEF SInv, IInv, Become
<1>2. OneSection'
  BY <1>1 DEF SInv, OneSection
<1>3. ASSUME NEW b \in Actors PROVE SwapOK(act'[b], file', disk')
  <2>1. CASE b = a
    BY <1>1, <2>1
  <2>2. CASE b # a
    <3>1. act'[b] = act[b] /\ SwapOK(act[b], file, disk) /\ ActOK(act[b], disk)
      BY <1>1, <2>2 DEF SInv, IInv
    <3> QED
      BY <3>1
         DEF ActOK, Placed, Begun, FreePCs, SwapOK, Calm, Onward, Unlocked, Journalling, PreMarker, Drafting, Started
  <2> QED
    BY <2>1, <2>2
<1> QED
  BY <1>2, <1>3 DEF SInv

\* A process goes on from old to rec, the files of its run being g; not to a
\* place where it knows the contents of a target.
Goes(rec, old, g) ==
    /\ rec.todo = old.todo /\ old.pc \notin {"discovering", "quarantine"}
    /\ rec.pc \notin {"replace", "restore"}
    /\ \/ rec.pc \notin Journalling \cup Drafting /\ rec.handler = "raised"
       \/ /\ rec.tx = old.tx
          /\ rec.pc \in Journalling \/ rec.handler # "raised" => g.manifest # "new"
          /\ rec.pc \in Drafting => g.manifest = "new"
          /\ rec.pc \in PreMarker => ~g.marker
          /\ rec.pc \in Started => g.manifest # "prepared"

LEMMA GoOK ==
  ASSUME SInv, NEW a \in Actors, NEW d, \A r \in Runs : Onward(disk[r], d[r]),
         NEW rec, Goes(rec, act[a], d[act[a].tx])
  PROVE  SwapOK(rec, file, d)
<1>1. SwapOK(act[a], file, disk) /\ ActOK(act[a], disk)
  BY DEF SInv, IInv
<1>2. \A r \in rec.todo : d[r].manifest # "new"
  BY <1>1 DEF Goes, SwapOK, Onward, ActOK, Placed, Begun
<1> QED
  BY <1>2 DEF Goes, SwapOK, Journalling, PreMarker, Drafting, Started

\* An exception does not take a process back to a decision.
LEMMA CaughtGoes ==
  ASSUME SInv, NEW a \in Actors, act[a].pc \notin {"discovering", "quarantine"}, NEW g,
         Onward(Files(a), g)
  PROVE  Goes(Caught(a), act[a], g)
<1>1. /\ SwapOK(act[a], file, disk) /\ act[a] \in ActRecords
      /\ act[a].handler \in Handlers
  BY DEF SInv, IInv, ActRecords
<1>2. Caught(a) = [act[a] EXCEPT !.pc = act[a].handler]
  BY DEF Caught
<1> QED
  BY <1>1, <1>2
     DEF Goes, SwapOK, Onward, Files, ActRecords, Handlers, Journalling, PreMarker, Drafting, Started

\* A look inside a section.
LEMMA LookInside ==
  ASSUME SInv, IInv', NEW a \in Actors, act[a].pc \notin Unlocked \/ ~Busy(a),
         NEW rec, Goes(rec, act[a], Files(a)), Look(a, rec)
  PROVE  SInv'
<1>1. Become(a, rec) /\ file' = file /\ disk' = disk
  BY DEF Look
<1>2. \A r \in Runs : Fresh(disk'[r]) /\ Onward(disk[r], disk'[r])
  BY <1>1 DEF SInv, Onward
<1>3. SwapOK(rec, file, disk)
  BY <1>2, <1>1, GoOK DEF Files
<1> QED
  BY <1>1, <1>2, <1>3, Exclusive

\* A write inside a section.
LEMMA WriteInside ==
  ASSUME SInv, IInv', NEW a \in Actors, act[a].pc \notin Unlocked \/ ~Busy(a),
         act[a].tx \in Runs, NEW g, Fresh(g), Onward(Files(a), g),
         NEW then, NEW caught, Goes(then, act[a], g),
         Goes(caught, act[a], g), Goes(caught, act[a], Files(a)),
         Write(a, g, then, caught)
  PROVE  SInv'
<1> DEFINE d == [disk EXCEPT ![act[a].tx] = g]
<1>1. PICK o \in Outcomes :
         /\ disk' = IF Took(o) THEN d ELSE disk
         /\ Become(a, IF Raised(o) THEN caught ELSE then)
         /\ file' = file
  BY DEF Write
<1>2. \A r \in Runs : Fresh(d[r]) /\ Onward(disk[r], d[r]) /\ Onward(disk[r], disk[r])
  BY DEF SInv, IInv, Files, Onward
<1>3. d[act[a].tx] = g /\ disk[act[a].tx] = Files(a)
  BY DEF SInv, IInv, Files
<1>4. SwapOK(then, file, d) /\ SwapOK(caught, file, d) /\ SwapOK(caught, file, disk)
  BY <1>2, <1>3, GoOK
<1> HIDE DEF d
<1>5. CASE Raised(o) /\ Took(o)
  BY <1>1, <1>2, <1>4, <1>5, Exclusive
<1>6. CASE ~Raised(o)
  <2>1. Took(o)
    BY <1>6 DEF Raised, Took
  <2> QED
    BY <1>1, <1>2, <1>4, <1>6, <2>1, Exclusive
<1>7. CASE Raised(o) /\ ~Took(o)
  <2>1. \A r \in Runs : Fresh(disk[r])
    BY DEF SInv
  <2> QED
    BY <1>1, <1>2, <1>4, <1>7, <2>1, Exclusive
<1> QED
  BY <1>5, <1>6, <1>7

\* Where a process has a run, what it knows of it.
LEMMA Knowing ==
  ASSUME SInv, NEW a \in Actors, act[a].pc \notin FreePCs
  PROVE  /\ act[a] \in ActRecords /\ SwapOK(act[a], file, disk)
         /\ act[a].tx \in Runs /\ Files(a) = disk[act[a].tx]
         /\ Files(a) \in FileRecords /\ Fresh(Files(a))
  BY Acting DEF SInv, Files

LEMMA WriteStep ==
  ASSUME SInv, IInv', NEW a \in Actors, act[a].pc \notin FreePCs \cup {"quarantine"},
         act[a].pc \notin Unlocked \/ ~Busy(a),
         NEW g, Fresh(g), Onward(Files(a), g), NEW then, Goes(then, act[a], g),
         Write(a, g, then, Caught(a))
  PROVE  SInv'
<1>1. act[a].tx \in Runs /\ act[a].pc \notin {"discovering", "quarantine"}
  BY Knowing DEF FreePCs
<1>2. Goes(Caught(a), act[a], g)
  BY <1>1, CaughtGoes
<1>3. Goes(Caught(a), act[a], Files(a))
  BY <1>1, CaughtGoes DEF Onward
<1> QED
  BY <1>1, <1>2, <1>3, WriteInside

LEMMA LookCaught ==
  ASSUME SInv, IInv', NEW a \in Actors, act[a].pc \notin Unlocked \/ ~Busy(a),
         act[a].pc \notin {"discovering", "quarantine"}, Look(a, Caught(a))
  PROVE  SInv'
<1>1. Goes(Caught(a), act[a], Files(a))
  BY CaughtGoes DEF Onward
<1> QED
  BY <1>1, LookInside

LEMMA RaiseSwap ==
  ASSUME SInv, IInv', NEW a \in Actors, act[a].pc \notin {"discovering", "quarantine"}, Raise(a)
  PROVE  SInv'
<1> DEFINE rec == [Step(a, "raised") EXCEPT !.handler = "raised"]
<1>1. Become(a, rec) /\ file' = file /\ disk' = disk
  BY DEF Raise, Look
<1>2. Goes(rec, act[a], Files(a)) /\ rec.pc \in Unlocked
  BY DEF SInv, IInv, ActRecords, Goes, Step, Unlocked, Journalling, PreMarker, Drafting
<1>3. \A r \in Runs : Fresh(disk'[r]) /\ Calm(disk[r], disk'[r]) /\ Onward(disk[r], disk'[r])
  BY <1>1 DEF SInv, Calm, Onward
<1>4. SwapOK(rec, file', disk')
  BY <1>1, <1>2, <1>3, GoOK DEF Files
<1> QED
  BY <1>1, <1>2, <1>3, <1>4, Outside

\* The end of a section, where its process knows nothing any more.
LEMMA FinishGoes ==
  ASSUME NEW a \in Actors, act[a] \in ActRecords, act[a].pc \notin {"discovering", "quarantine"},
         NEW s, NEW g
  PROVE  Goes(Finish(a, s), act[a], g) /\ Finish(a, s).pc \in Unlocked
<1>1. /\ Finish(a, s).pc \in {"returned", "entry"} /\ Finish(a, s).handler = "raised"
      /\ Finish(a, s).todo = act[a].todo
  BY DEF Finish, ActRecords
<1> QED
  BY <1>1 DEF Goes, Unlocked, Journalling, PreMarker, Drafting

-----------------------------------------------------------------------------
(* One lemma per action. *)

LEMMA PrepareSwap ==
  ASSUME SInv, IInv', NEW a \in Actors, Prepare(a)
  PROVE  SInv'
<1> DEFINE g == [Files(a) EXCEPT !.staging = "partial"]
<1>1. /\ act[a].pc = "prepare" /\ ~Busy(a)
      /\ Raise(a) \/ (Files(a).manifest = "new" /\ Write(a, g, Step(a, "stage"), Caught(a)))
  BY DEF Prepare, At
<1>2. CASE Raise(a)
  BY <1>1, <1>2, RaiseSwap
<1>3. CASE Files(a).manifest = "new" /\ Write(a, g, Step(a, "stage"), Caught(a))
  <2>1. act[a].pc \notin FreePCs \cup {"quarantine"}
    BY <1>1 DEF FreePCs
  <2>2. Fresh(g) /\ Onward(Files(a), g) /\ g.manifest = "new"
    BY <1>3, <2>1, Knowing DEF Fresh, Onward, FileRecords
  <2>3. Goes(Step(a, "stage"), act[a], g)
    BY <1>1, <2>1, <2>2, Knowing
       DEF SwapOK, ActRecords, Goes, Step, Journalling, PreMarker, Drafting, Started, Placed
  <2> QED
    BY <1>1, <1>3, <2>1, <2>2, <2>3, WriteStep
<1> QED
  BY <1>1, <1>2, <1>3

LEMMA StageSwap ==
  ASSUME SInv, IInv', NEW a \in Actors, Stage(a)
  PROVE  SInv'
<1> DEFINE g == [Files(a) EXCEPT !.staging = "complete"]
<1>1. act[a].pc = "stage" /\ Write(a, g, Step(a, "publishJournal"), Caught(a))
  BY DEF Stage, At
<1>2. act[a].pc \notin FreePCs \cup {"quarantine"} /\ act[a].pc \notin Unlocked
  BY <1>1 DEF FreePCs, Unlocked
<1>3. Fresh(g) /\ Onward(Files(a), g)
  BY <1>1, <1>2, Knowing
     DEF SwapOK, Fresh, Onward, FileRecords, Journalling, PreMarker, Drafting, Started
<1>4. Goes(Step(a, "publishJournal"), act[a], g)
  BY <1>1, <1>2, Knowing
     DEF SwapOK, Fresh, ActRecords, FileRecords, Goes, Step, Journalling, PreMarker, Drafting, Started
<1> QED
  BY <1>1, <1>2, <1>3, <1>4, WriteStep

LEMMA PublishJournalSwap ==
  ASSUME SInv, IInv', NEW a \in Actors, PublishJournal(a)
  PROVE  SInv'
<1> DEFINE g == Journalled(Files(a))
<1>1. act[a].pc = "publishJournal" /\ Write(a, g, Step(a, "registerPending"), Caught(a))
  BY DEF PublishJournal, At
<1>2. act[a].pc \notin FreePCs \cup {"quarantine"} /\ act[a].pc \notin Unlocked
  BY <1>1 DEF FreePCs, Unlocked
<1>3. Fresh(g) /\ Onward(Files(a), g)
  BY <1>1, <1>2, Knowing
     DEF SwapOK, Fresh, Onward, FileRecords, Journalled, Journalling, PreMarker, Drafting, Started
<1>4. Goes(Step(a, "registerPending"), act[a], g)
  BY <1>1, <1>2, Knowing
     DEF SwapOK, Fresh, ActRecords, FileRecords, Journalled, Goes, Step, Journalling, PreMarker, Drafting, Started
<1> QED
  BY <1>1, <1>2, <1>3, <1>4, WriteStep

LEMMA RegisterPendingSwap ==
  ASSUME SInv, IInv', NEW a \in Actors, RegisterPending(a)
  PROVE  SInv'
<1> DEFINE g == [Files(a) EXCEPT !.registry = @ \cup {"pending"}]
<1>1. act[a].pc = "registerPending" /\ Write(a, g, Step(a, "returned"), Caught(a))
  BY DEF RegisterPending, At
<1>2. act[a].pc \notin FreePCs \cup {"quarantine"} /\ act[a].pc \notin Unlocked
  BY <1>1 DEF FreePCs, Unlocked
<1>3. Fresh(g) /\ Onward(Files(a), g)
  BY <1>1, <1>2, Knowing
     DEF SwapOK, Fresh, Onward, FileRecords, Journalling, PreMarker, Drafting, Started
<1>4. Goes(Step(a, "returned"), act[a], g)
  BY <1>1, <1>2, Knowing
     DEF SwapOK, Fresh, ActRecords, FileRecords, Goes, Step, Journalling, PreMarker, Drafting, Started
<1> QED
  BY <1>1, <1>2, <1>3, <1>4, WriteStep

LEMMA ApplyingSwap ==
  ASSUME SInv, IInv', NEW a \in Actors, Applying(a)
  PROVE  SInv'
<1> DEFINE g == [Files(a) EXCEPT !.manifest = "applying"]
           rec == [Step(a, "check") EXCEPT !.k = 1]
<1>1. act[a].pc = "applying" /\ (Write(a, g, rec, Caught(a)) \/ Look(a, Caught(a)))
  BY DEF Applying, At
<1>2. act[a].pc \notin FreePCs \cup {"quarantine"} /\ act[a].pc \notin Unlocked
  BY <1>1 DEF FreePCs, Unlocked
<1>3. Fresh(g) /\ Onward(Files(a), g)
  BY <1>1, <1>2, Knowing
     DEF SwapOK, Fresh, Onward, FileRecords, Journalling, PreMarker, Drafting, Started
<1>4. Goes(rec, act[a], g)
  BY <1>1, <1>2, Knowing
     DEF SwapOK, Fresh, ActRecords, FileRecords, Goes, Step, Journalling, PreMarker, Drafting, Started
<1> QED
  BY <1>1, <1>2, <1>3, <1>4, WriteStep, LookCaught DEF FreePCs

LEMMA WriteMarkerSwap ==
  ASSUME SInv, IInv', NEW a \in Actors, WriteMarker(a)
  PROVE  SInv'
<1> DEFINE g == [Files(a) EXCEPT !.marker = TRUE]
<1>1. act[a].pc = "marker" /\ Write(a, g, Step(a, "marked"), Caught(a))
  BY DEF WriteMarker, At
<1>2. act[a].pc \notin FreePCs \cup {"quarantine"} /\ act[a].pc \notin Unlocked
  BY <1>1 DEF FreePCs, Unlocked
<1>3. Fresh(g) /\ Onward(Files(a), g)
  BY <1>1, <1>2, Knowing
     DEF SwapOK, Fresh, Onward, FileRecords, Journalling, PreMarker, Drafting, Started
<1>4. Goes(Step(a, "marked"), act[a], g)
  BY <1>1, <1>2, Knowing
     DEF SwapOK, Fresh, ActRecords, FileRecords, Goes, Step, Journalling, PreMarker, Drafting, Started
<1> QED
  BY <1>1, <1>2, <1>3, <1>4, WriteStep

LEMMA MarkCommittedSwap ==
  ASSUME SInv, IInv', NEW a \in Actors, MarkCommitted(a)
  PROVE  SInv'
<1> DEFINE g == [Files(a) EXCEPT !.manifest = "commit_marked"]
           rec == [Step(a, "publish") EXCEPT !.handler = "publishFailed"]
<1>1. act[a].pc = "marked" /\ Write(a, g, rec, Caught(a))
  BY DEF MarkCommitted, At
<1>2. act[a].pc \notin FreePCs \cup {"quarantine"} /\ act[a].pc \notin Unlocked
  BY <1>1 DEF FreePCs, Unlocked
<1>3. Fresh(g) /\ Onward(Files(a), g)
  BY <1>1, <1>2, Knowing
     DEF SwapOK, Fresh, Onward, FileRecords, Journalling, PreMarker, Drafting, Started
<1>4. Goes(rec, act[a], g)
  BY <1>1, <1>2, Knowing
     DEF SwapOK, Fresh, ActRecords, FileRecords, Goes, Step, Journalling, PreMarker, Drafting, Started
<1> QED
  BY <1>1, <1>2, <1>3, <1>4, WriteStep

LEMMA PublishSwap ==
  ASSUME SInv, IInv', NEW a \in Actors, Publish(a)
  PROVE  SInv'
<1> DEFINE g == [Files(a) EXCEPT !.manifest = "publishing"]
<1>1. act[a].pc = "publish" /\ (Write(a, g, Step(a, "artifact"), Caught(a)) \/ Look(a, Caught(a)))
  BY DEF Publish, At
<1>2. act[a].pc \notin FreePCs \cup {"quarantine"} /\ act[a].pc \notin Unlocked
  BY <1>1 DEF FreePCs, Unlocked
<1>3. Fresh(g) /\ Onward(Files(a), g)
  BY <1>1, <1>2, Knowing
     DEF SwapOK, Fresh, Onward, FileRecords, Journalling, PreMarker, Drafting, Started
<1>4. Goes(Step(a, "artifact"), act[a], g)
  BY <1>1, <1>2, Knowing
     DEF SwapOK, Fresh, ActRecords, FileRecords, Goes, Step, Journalling, PreMarker, Drafting, Started
<1> QED
  BY <1>1, <1>2, <1>3, <1>4, WriteStep, LookCaught DEF FreePCs

LEMMA PublishArtifactSwap ==
  ASSUME SInv, IInv', NEW a \in Actors, PublishArtifact(a)
  PROVE  SInv'
<1> DEFINE g == [Files(a) EXCEPT !.published = @ + 1]
<1>1. act[a].pc = "artifact" /\ Write(a, g, Step(a, "artifact"), Caught(a))
  BY DEF PublishArtifact, At
<1>2. act[a].pc \notin FreePCs \cup {"quarantine"} /\ act[a].pc \notin Unlocked
  BY <1>1 DEF FreePCs, Unlocked
<1>3. Fresh(g) /\ Onward(Files(a), g)
  BY <1>1, <1>2, Knowing
     DEF SwapOK, Fresh, Onward, FileRecords, Journalling, PreMarker, Drafting, Started
<1>4. Goes(Step(a, "artifact"), act[a], g)
  BY <1>1, <1>2, Knowing
     DEF SwapOK, Fresh, ActRecords, FileRecords, Goes, Step, Journalling, PreMarker, Drafting, Started
<1> QED
  BY <1>1, <1>2, <1>3, <1>4, WriteStep

LEMMA WriteReceiptSwap ==
  ASSUME SInv, IInv', NEW a \in Actors, WriteReceipt(a)
  PROVE  SInv'
<1> DEFINE g == [Files(a) EXCEPT !.receipt = TRUE]
<1>1. act[a].pc = "artifact" /\ Write(a, g, Step(a, "complete"), Caught(a))
  BY DEF WriteReceipt, At
<1>2. act[a].pc \notin FreePCs \cup {"quarantine"} /\ act[a].pc \notin Unlocked
  BY <1>1 DEF FreePCs, Unlocked
<1>3. Fresh(g) /\ Onward(Files(a), g)
  BY <1>1, <1>2, Knowing
     DEF SwapOK, Fresh, Onward, FileRecords, Journalling, PreMarker, Drafting, Started
<1>4. Goes(Step(a, "complete"), act[a], g)
  BY <1>1, <1>2, Knowing
     DEF SwapOK, Fresh, ActRecords, FileRecords, Goes, Step, Journalling, PreMarker, Drafting, Started
<1> QED
  BY <1>1, <1>2, <1>3, <1>4, WriteStep

LEMMA CompleteSwap ==
  ASSUME SInv, IInv', NEW a \in Actors, Complete(a)
  PROVE  SInv'
<1> DEFINE g == [Files(a) EXCEPT !.manifest = "completed"]
           rec == [Step(a, "transition") EXCEPT !.goal = "completed"]
<1>1. act[a].pc = "complete" /\ Write(a, g, rec, Caught(a))
  BY DEF Complete, At
<1>2. act[a].pc \notin FreePCs \cup {"quarantine"} /\ act[a].pc \notin Unlocked
  BY <1>1 DEF FreePCs, Unlocked
<1>3. Fresh(g) /\ Onward(Files(a), g)
  BY <1>1, <1>2, Knowing
     DEF SwapOK, Fresh, Onward, FileRecords, Journalling, PreMarker, Drafting, Started
<1>4. Goes(rec, act[a], g)
  BY <1>1, <1>2, Knowing
     DEF SwapOK, Fresh, ActRecords, FileRecords, Goes, Step, Journalling, PreMarker, Drafting, Started
<1> QED
  BY <1>1, <1>2, <1>3, <1>4, WriteStep

LEMMA TransitionSwap ==
  ASSUME SInv, IInv', NEW a \in Actors, Transition(a)
  PROVE  SInv'
<1> DEFINE g == [Files(a) EXCEPT !.registry = @ \cup {act[a].goal}]
<1>1. act[a].pc = "transition" /\ Write(a, g, Step(a, "unlink"), Caught(a))
  BY DEF Transition, At
<1>2. act[a].pc \notin FreePCs \cup {"quarantine"} /\ act[a].pc \notin Unlocked
  BY <1>1 DEF FreePCs, Unlocked
<1>3. Fresh(g) /\ Onward(Files(a), g)
  BY <1>1, <1>2, Knowing
     DEF SwapOK, Fresh, Onward, FileRecords, Journalling, PreMarker, Drafting, Started
<1>4. Goes(Step(a, "unlink"), act[a], g)
  BY <1>1, <1>2, Knowing
     DEF SwapOK, Fresh, ActRecords, FileRecords, Goes, Step, Journalling, PreMarker, Drafting, Started
<1> QED
  BY <1>1, <1>2, <1>3, <1>4, WriteStep

LEMMA UnlinkSwap ==
  ASSUME SInv, IInv', NEW a \in Actors, Unlink(a)
  PROVE  SInv'
<1> DEFINE g == [Files(a) EXCEPT !.registry = @ \ {"pending"}]
<1>1. act[a].pc = "unlink" /\ Write(a, g, Finish(a, act[a].goal), Caught(a))
  BY DEF Unlink, At
<1>2. act[a].pc \notin FreePCs \cup {"quarantine"} /\ act[a].pc \notin Unlocked
  BY <1>1 DEF FreePCs, Unlocked
<1>3. Fresh(g) /\ Onward(Files(a), g)
  BY <1>1, <1>2, Knowing
     DEF SwapOK, Fresh, Onward, FileRecords, Journalling, PreMarker, Drafting, Started
<1>4. Goes(Finish(a, act[a].goal), act[a], g)
  BY <1>1, <1>2, Knowing, FinishGoes
<1> QED
  BY <1>1, <1>2, <1>3, <1>4, WriteStep

LEMMA RolledBackSwap ==
  ASSUME SInv, IInv', NEW a \in Actors, RolledBack(a)
  PROVE  SInv'
<1> DEFINE g == [Files(a) EXCEPT !.manifest = "rolled_back"]
           rec == [Step(a, "transition") EXCEPT !.goal = "rolled_back"]
<1>1. act[a].pc = "undo" /\ Write(a, g, rec, Caught(a))
  BY DEF RolledBack, At
<1>2. act[a].pc \notin FreePCs \cup {"quarantine"} /\ act[a].pc \notin Unlocked
  BY <1>1 DEF FreePCs, Unlocked
<1>3. Fresh(g) /\ Onward(Files(a), g)
  BY <1>1, <1>2, Knowing
     DEF SwapOK, Fresh, Onward, FileRecords, Journalling, PreMarker, Drafting, Started
<1>4. Goes(rec, act[a], g)
  BY <1>1, <1>2, Knowing
     DEF SwapOK, Fresh, ActRecords, FileRecords, Goes, Step, Journalling, PreMarker, Drafting, Started
<1> QED
  BY <1>1, <1>2, <1>3, <1>4, WriteStep

LEMMA CommitSwap ==
  ASSUME SInv, IInv', NEW a \in Actors, Commit(a)
  PROVE  SInv'
<1> DEFINE rec == [Step(a, "applying") EXCEPT !.handler = "commitFailed"]
<1>1. /\ act[a].pc = "commit" /\ ~Busy(a)
      /\ Raise(a) \/ (Files(a).manifest = "prepared" /\ Look(a, rec))
  BY DEF Commit, At
<1>2. act[a].pc \notin FreePCs
  BY <1>1 DEF FreePCs
<1>3. CASE Files(a).manifest = "prepared" /\ Look(a, rec)
  <2>1. Goes(rec, act[a], Files(a))
    BY <1>1, <1>2, <1>3, Knowing
       DEF SwapOK, Fresh, ActRecords, FileRecords, Goes, Step, Journalling, PreMarker, Drafting, Started
  <2> QED
    BY <1>1, <1>3, <2>1, LookInside
<1> QED
  BY <1>1, <1>3, RaiseSwap

LEMMA CheckTargetSwap ==
  ASSUME SInv, IInv', NEW a \in Actors, CheckTarget(a)
  PROVE  SInv'
<1> DEFINE next == [act[a] EXCEPT !.k = @ + 1]
           k == act[a].k
<1>1. /\ act[a].pc = "check"
      /\ \/ Look(a, next)
         \/ file[k] = Files(a).before[k] /\ Look(a, Step(a, "replace"))
         \/ Look(a, Caught(a))
  BY DEF CheckTarget, At
<1>2. act[a].pc \notin FreePCs /\ act[a].pc \notin Unlocked
  BY <1>1 DEF FreePCs, Unlocked
<1>3. CASE Look(a, next)
  <2>1. Goes(next, act[a], Files(a))
    BY <1>1, <1>2, Knowing
       DEF SwapOK, Fresh, ActRecords, Goes, Journalling, PreMarker, Drafting, Started
  <2> QED
    BY <1>2, <1>3, <2>1, LookInside
<1>4. CASE file[k] = Files(a).before[k] /\ Look(a, Step(a, "replace"))
  <2>1. Become(a, Step(a, "replace")) /\ file' = file /\ disk' = disk
    BY <1>4 DEF Look
  <2>2. SwapOK(Step(a, "replace"), file, disk)
    BY <1>1, <1>2, <1>4, Knowing
       DEF SwapOK, ActRecords, Step, Journalling, PreMarker, Drafting, Started
  <2>3. \A r \in Runs : Fresh(disk'[r]) /\ Onward(disk[r], disk'[r])
    BY <2>1 DEF SInv, Onward
  <2> QED
    BY <1>2, <2>1, <2>2, <2>3, Exclusive
<1> QED
  BY <1>1, <1>2, <1>3, <1>4, LookCaught

\* A step of a section that changes a target and goes on with the next one.
LEMMA TouchInside ==
  ASSUME SInv, IInv', NEW a \in Actors, act[a].pc \notin Unlocked,
         NEW rec, Goes(rec, act[a], Files(a)), Become(a, rec), disk' = disk
  PROVE  SInv'
<1>1. \A r \in Runs : Fresh(disk'[r]) /\ Onward(disk[r], disk'[r])
  BY DEF SInv, Onward
<1>2. SwapOK(rec, file, disk) /\ rec.pc \notin {"replace", "restore"}
  BY <1>1, GoOK DEF Files, Goes
<1>3. SwapOK(rec, file', disk')
  BY <1>2 DEF SwapOK
<1> QED
  BY <1>1, <1>3, Exclusive

LEMMA ApplyTargetSwap ==
  ASSUME SInv, IInv', NEW a \in Actors, ApplyTarget(a)
  PROVE  SInv'
<1> DEFINE rec == [Step(a, "check") EXCEPT !.k = @ + 1]
<1>1. act[a].pc = "replace" /\ disk' = disk /\ (Become(a, Caught(a)) \/ Become(a, rec))
  BY DEF ApplyTarget, At
<1>2. act[a].pc \notin FreePCs /\ act[a].pc \notin Unlocked
  BY <1>1 DEF FreePCs, Unlocked
<1>3. Goes(rec, act[a], Files(a))
  BY <1>1, <1>2, Knowing
     DEF SwapOK, Fresh, ActRecords, Goes, Step, Journalling, PreMarker, Drafting, Started
<1>4. Goes(Caught(a), act[a], Files(a))
  BY <1>1, CaughtGoes DEF Onward
<1> QED
  BY <1>1, <1>2, <1>3, <1>4, TouchInside

LEMMA VerifyAppliedSwap ==
  ASSUME SInv, IInv', NEW a \in Actors, VerifyApplied(a)
  PROVE  SInv'
<1>1. act[a].pc = "check" /\ (Look(a, Step(a, "marker")) \/ Look(a, Caught(a)))
  BY DEF VerifyApplied, At
<1>2. act[a].pc \notin FreePCs /\ act[a].pc \notin Unlocked
  BY <1>1 DEF FreePCs, Unlocked
<1>3. Goes(Step(a, "marker"), act[a], Files(a))
  BY <1>1, <1>2, Knowing
     DEF SwapOK, Fresh, ActRecords, Goes, Step, Journalling, PreMarker, Drafting, Started
<1> QED
  BY <1>1, <1>2, <1>3, LookInside, LookCaught

LEMMA CommitFailedSwap ==
  ASSUME SInv, IInv', NEW a \in Actors, CommitFailed(a)
  PROVE  SInv'
<1> DEFINE rec == [Step(a, "rollback") EXCEPT !.handler = "raised"]
<1>1. /\ act[a].pc = "commitFailed"
      /\ Look(a, Step(a, "publishFailed")) \/ (~Files(a).marker /\ Look(a, rec))
  BY DEF CommitFailed, At
<1>2. act[a].pc \notin FreePCs /\ act[a].pc \notin Unlocked
  BY <1>1 DEF FreePCs, Unlocked
<1>3. Goes(Step(a, "publishFailed"), act[a], Files(a))
  BY <1>1, <1>2, Knowing
     DEF SwapOK, Fresh, ActRecords, Goes, Step, Journalling, PreMarker, Drafting, Started
<1>4. ~Files(a).marker => Goes(rec, act[a], Files(a))
  BY <1>1, <1>2, Knowing
     DEF SwapOK, Fresh, ActRecords, Goes, Step, Journalling, PreMarker, Drafting, Started
<1> QED
  BY <1>1, <1>2, <1>3, <1>4, LookInside

LEMMA PublishFailedSwap ==
  ASSUME SInv, IInv', NEW a \in Actors, PublishFailed(a)
  PROVE  SInv'
<1> DEFINE g == [Files(a) EXCEPT !.manifest = "commit_marked"]
           rec == Finish(a, "commit_marked")
<1>1. act[a].pc = "publishFailed" /\ Write(a, g, rec, rec)
  BY DEF PublishFailed, At, TryWrite
<1>2. act[a].pc \notin FreePCs \cup {"quarantine"} /\ act[a].pc \notin Unlocked
  BY <1>1 DEF FreePCs, Unlocked
<1>3. Fresh(g) /\ Onward(Files(a), g)
  BY <1>1, <1>2, Knowing
     DEF SwapOK, Fresh, Onward, FileRecords, Journalling, PreMarker, Drafting, Started
<1>4. Goes(rec, act[a], g) /\ Goes(rec, act[a], Files(a))
  BY <1>1, <1>2, Knowing, FinishGoes
<1> QED
  BY <1>1, <1>2, <1>3, <1>4, Knowing, WriteInside

LEMMA RollbackSwap ==
  ASSUME SInv, IInv', NEW a \in Actors, Rollback(a)
  PROVE  SInv'
<1> DEFINE g == [Files(a) EXCEPT !.manifest = "rolling_back"]
           rec == [Step(a, "undo") EXCEPT !.k = NumTargets]
<1>1. act[a].pc = "rollback" /\ Write(a, g, rec, rec)
  BY DEF Rollback, At, TryWrite
<1>2. act[a].pc \notin FreePCs \cup {"quarantine"} /\ act[a].pc \notin Unlocked
  BY <1>1 DEF FreePCs, Unlocked
<1>3. Fresh(g) /\ Onward(Files(a), g)
  BY <1>1, <1>2, Knowing
     DEF SwapOK, Fresh, Onward, FileRecords, Journalling, PreMarker, Drafting, Started
<1>4. Goes(rec, act[a], g) /\ Goes(rec, act[a], Files(a))
  BY <1>1, <1>2, Knowing
     DEF SwapOK, Fresh, ActRecords, FileRecords, Goes, Step, Journalling, PreMarker, Drafting, Started
<1> QED
  BY <1>1, <1>2, <1>3, <1>4, Knowing, WriteInside

LEMMA RollbackFailedSwap ==
  ASSUME SInv, IInv', NEW a \in Actors, RollbackFailed(a)
  PROVE  SInv'
<1> DEFINE g == [Files(a) EXCEPT !.manifest = "recovery_required"]
           rec == [Step(a, "transition") EXCEPT !.goal = "recovery_required"]
<1>1. act[a].pc = "undo" /\ Write(a, g, rec, rec)
  BY DEF RollbackFailed, At, TryWrite
<1>2. act[a].pc \notin FreePCs \cup {"quarantine"} /\ act[a].pc \notin Unlocked
  BY <1>1 DEF FreePCs, Unlocked
<1>3. Fresh(g) /\ Onward(Files(a), g)
  BY <1>1, <1>2, Knowing
     DEF SwapOK, Fresh, Onward, FileRecords, Journalling, PreMarker, Drafting, Started
<1>4. Goes(rec, act[a], g) /\ Goes(rec, act[a], Files(a))
  BY <1>1, <1>2, Knowing
     DEF SwapOK, Fresh, ActRecords, FileRecords, Goes, Step, Journalling, PreMarker, Drafting, Started
<1> QED
  BY <1>1, <1>2, <1>3, <1>4, Knowing, WriteInside

LEMMA UndoCheckSwap ==
  ASSUME SInv, IInv', NEW a \in Actors, UndoCheck(a)
  PROVE  SInv'
<1> DEFINE k == act[a].k
           rec == [act[a] EXCEPT !.k = @ - 1, !.failed = @ \/ file[k] # Files(a).before[k]]
<1>1. /\ act[a].pc = "undo"
      /\ Look(a, rec) \/ (file[k] = act[a].tx /\ Look(a, Step(a, "restore")))
  BY DEF UndoCheck, At
<1>2. act[a].pc \notin FreePCs /\ act[a].pc \notin Unlocked
  BY <1>1 DEF FreePCs, Unlocked
<1>3. CASE Look(a, rec)
  <2>1. Goes(rec, act[a], Files(a))
    BY <1>1, <1>2, Knowing
       DEF SwapOK, Fresh, ActRecords, Goes, Journalling, PreMarker, Drafting, Started
  <2> HIDE DEF rec
  <2> QED
    BY <1>2, <1>3, <2>1, LookInside
<1>4. CASE file[k] = act[a].tx /\ Look(a, Step(a, "restore"))
  <2>1. Become(a, Step(a, "restore")) /\ file' = file /\ disk' = disk
    BY <1>4 DEF Look
  <2>2. SwapOK(Step(a, "restore"), file, disk)
    BY <1>1, <1>2, <1>4, Knowing
       DEF SwapOK, ActRecords, Step, Journalling, PreMarker, Drafting, Started
  <2>3. \A r \in Runs : Fresh(disk'[r]) /\ Onward(disk[r], disk'[r])
    BY <2>1 DEF SInv, Onward
  <2> QED
    BY <1>2, <2>1, <2>2, <2>3, Exclusive
<1> QED
  BY <1>1, <1>3, <1>4

LEMMA RestoreSwap ==
  ASSUME SInv, IInv', NEW a \in Actors, Restore(a)
  PROVE  SInv'
<1> DEFINE rec(o) == [Step(a, "undo") EXCEPT !.k = @ - 1, !.failed = @ \/ Raised(o)]
<1>1. PICK o \in Outcomes : act[a].pc = "restore" /\ disk' = disk /\ Become(a, rec(o))
  BY DEF Restore, At
<1>2. act[a].pc \notin FreePCs /\ act[a].pc \notin Unlocked
  BY <1>1 DEF FreePCs, Unlocked
<1>3. Goes(rec(o), act[a], Files(a))
  BY <1>1, <1>2, Knowing
     DEF SwapOK, Fresh, ActRecords, Goes, Step, Journalling, PreMarker, Drafting, Started
<1> HIDE DEF rec
<1> QED
  BY <1>1, <1>2, <1>3, TouchInside

\* A look that ends outside, or that nobody can interfere with.
LEMMA LookTo ==
  ASSUME SInv, IInv', NEW a \in Actors, NEW rec, Look(a, rec), SwapOK(rec, file, disk),
         rec.pc \in Unlocked \/ act[a].pc \notin Unlocked \/ ~Busy(a)
  PROVE  SInv'
<1>1. Become(a, rec) /\ file' = file /\ disk' = disk
  BY DEF Look
<1>2. \A r \in Runs : Fresh(disk'[r]) /\ Calm(disk[r], disk'[r]) /\ Onward(disk[r], disk'[r])
  BY <1>1 DEF SInv, Calm, Onward
<1> QED
  BY <1>1, <1>2, Exclusive, Outside

\* What every process knows.
LEMMA KnowingAll ==
  ASSUME SInv, NEW a \in Actors
  PROVE  /\ act[a] \in ActRecords /\ ActOK(act[a], disk) /\ Placed(act[a], disk)
         /\ SwapOK(act[a], file, disk)
  BY DEF SInv, IInv, ActOK

LEMMA DiscoverSwap ==
  ASSUME SInv, IInv', NEW a \in Actors, Discover(a)
  PROVE  SInv'
<1> DEFINE rec == [Step(a, "discovering") EXCEPT
                      !.todo = {r \in Runs : disk[r].staging # "none"}, !.handler = "raised"]
<1>1. ~Busy(a) /\ Look(a, rec)
  BY DEF Discover
<1>2. rec.pc = "discovering" /\ rec.handler = "raised"
  BY KnowingAll DEF Step, ActRecords
<1>3. SwapOK(rec, file, disk)
  BY <1>2 DEF SwapOK, Journalling, PreMarker, Drafting, Started
<1> QED
  BY <1>1, <1>3, LookTo

LEMMA DiscoverStagedSwap ==
  ASSUME SInv, IInv', NEW a \in Actors, DiscoverStaged(a)
  PROVE  SInv'
<1> DEFINE found(r) == [act[a] EXCEPT !.tx = r, !.todo = @ \ {r}]
           bad(r) == [found(r) EXCEPT !.pc = "quarantine"]
           good(r) == [found(r) EXCEPT !.tx = NoRun]
<1>1. /\ act[a].pc = "discovering" /\ act[a].pc \notin Unlocked
      /\ act[a] \in ActRecords /\ Placed(act[a], disk)
  BY KnowingAll DEF DiscoverStaged, At, Unlocked
<1>2. PICK r \in act[a].todo :
         \/ Look(a, bad(r))
         \/ /\ disk[r].staging = "complete"
            /\ disk' = disk \/ disk' = [disk EXCEPT ![r] = Journalled(@)]
            /\ Become(a, bad(r)) \/ Become(a, good(r))
            /\ file' = file
  BY DEF DiscoverStaged
<1>3. ASSUME NEW rec \in {bad(r), good(r)}, NEW d PROVE SwapOK(rec, file, d)
  <2>1. rec.pc \in {"discovering", "quarantine"} /\ rec.handler = "raised"
    BY <1>1 DEF ActRecords, Placed
  <2> QED
    BY <2>1 DEF SwapOK, Journalling, PreMarker, Drafting, Started
<1> HIDE DEF bad, good
<1>4. CASE Look(a, bad(r))
  BY <1>1, <1>3, <1>4, LookTo
<1>5. ASSUME disk[r].staging = "complete",
             disk' = disk \/ disk' = [disk EXCEPT ![r] = Journalled(@)],
             NEW rec \in {bad(r), good(r)}, Become(a, rec), file' = file
      PROVE  SInv'
  <2>1. r \in Runs /\ disk[r] \in FileRecords /\ Fresh(disk[r])
    BY <1>1 DEF ActRecords, SInv, IInv
  <2>2. Fresh(Journalled(disk[r])) /\ Onward(disk[r], Journalled(disk[r]))
    BY <1>5, <2>1 DEF Fresh, Onward, Journalled, FileRecords
  <2>3. \A q \in Runs : Fresh(disk'[q]) /\ Onward(disk[q], disk'[q])
    BY <1>5, <2>1, <2>2 DEF SInv, IInv, Onward
  <2>4. SwapOK(rec, file', disk')
    BY <1>3, <1>5
  <2> QED
    BY <1>1, <1>5, <2>3, <2>4, Exclusive
<1> QED
  BY <1>2, <1>4, <1>5

LEMMA QuarantineSwap ==
  ASSUME SInv, IInv', NEW a \in Actors, Quarantine(a)
  PROVE  SInv'
<1> DEFINE g == [Files(a) EXCEPT !.staging = "none"]
           rec == [Step(a, "discovering") EXCEPT
                       !.report[act[a].tx] = @ \cup {"rolled_back"}, !.tx = NoRun]
<1>1. /\ act[a].pc = "quarantine" /\ Become(a, rec) /\ file' = file
      /\ disk' = disk \/ disk' = [disk EXCEPT ![act[a].tx] = g]
  BY DEF Quarantine, At, TryWrite, Write
<1>2. act[a].pc \notin FreePCs /\ act[a].pc \notin Unlocked
  BY <1>1 DEF FreePCs, Unlocked
<1>3. Fresh(g) /\ Onward(Files(a), g)
  BY <1>2, Knowing DEF Fresh, Onward, FileRecords
<1>4. \A q \in Runs : Fresh(disk'[q]) /\ Onward(disk[q], disk'[q])
  BY <1>1, <1>2, <1>3, Knowing DEF SInv, IInv, Onward
<1>5. rec.pc = "discovering" /\ rec.handler = "raised"
  BY <1>1, KnowingAll DEF Step, ActRecords, Placed
<1>6. SwapOK(rec, file', disk')
  BY <1>5 DEF SwapOK, Journalling, PreMarker, Drafting, Started
<1> QED
  BY <1>1, <1>2, <1>4, <1>6, Exclusive

LEMMA RegisterDiscoveredSwap ==
  ASSUME SInv, IInv', NEW a \in Actors, RegisterDiscovered(a)
  PROVE  SInv'
<1>1. PICK r \in Unregistered :
         /\ disk' = disk \/ disk' = [disk EXCEPT ![r].registry = {"pending"}]
         /\ Become(a, Caught(a)) \/ Become(a, act[a])
         /\ file' = file
  BY DEF RegisterDiscovered
<1>2. /\ act[a].pc = "discovering" /\ act[a].todo = {} /\ act[a].handler = "raised"
      /\ act[a].pc \notin Unlocked /\ act[a] \in ActRecords
  BY KnowingAll DEF RegisterDiscovered, At, Placed, Unlocked
<1>3. r \in Runs /\ disk[r].manifest # "new" /\ disk[r] \in FileRecords /\ Fresh(disk[r])
  BY DEF Unregistered, SInv, IInv
<1>4. \A q \in Runs : Fresh(disk'[q]) /\ Onward(disk[q], disk'[q])
  BY <1>1, <1>3 DEF SInv, IInv, Onward, Fresh, FileRecords
<1>5. SwapOK(act[a], file', disk') /\ SwapOK(Caught(a), file', disk')
  BY <1>2 DEF Caught, SwapOK, ActRecords, Journalling, PreMarker, Drafting, Started
<1> QED
  BY <1>1, <1>2, <1>4, <1>5, Exclusive

LEMMA DiscoveredSwap ==
  ASSUME SInv, IInv', NEW a \in Actors, Discovered(a)
  PROVE  SInv'
<1>1. /\ act[a].pc = "discovering" /\ act[a].todo = {} /\ Look(a, Step(a, "list"))
      /\ act[a].pc \notin Unlocked /\ act[a].handler = "raised" /\ act[a] \in ActRecords
  BY KnowingAll DEF Discovered, At, Placed, Unlocked
<1>2. SwapOK(Step(a, "list"), file, disk)
  BY <1>1 DEF Step, SwapOK, ActRecords, Journalling, PreMarker, Drafting, Started
<1> QED
  BY <1>1, <1>2, LookTo

LEMMA ListPendingSwap ==
  ASSUME SInv, IInv', NEW a \in Actors, ListPending(a)
  PROVE  SInv'
<1> DEFINE T == {r \in Runs : "pending" \in disk[r].registry}
           rec == [Step(a, "entry") EXCEPT !.todo = T]
<1>1. /\ act[a].pc = "list" /\ Look(a, rec)
      /\ act[a] \in ActRecords /\ SwapOK(act[a], file, disk)
  BY KnowingAll DEF ListPending, At
<1>2. \A r \in T : disk[r].manifest # "new"
  BY DEF SInv, Fresh
<1>3. /\ rec.pc = "entry" /\ rec.todo = T /\ rec.tx = act[a].tx
      /\ rec.handler = act[a].handler
  BY <1>1 DEF Step, ActRecords
<1> HIDE DEF T, rec
<1>4. SwapOK(rec, file, disk)
  BY <1>1, <1>2, <1>3 DEF SwapOK, Journalling, PreMarker, Drafting, Started
<1> QED
  BY <1>1, <1>3, <1>4, LookTo DEF Unlocked

LEMMA ReadEntrySwap ==
  ASSUME SInv, IInv', NEW a \in Actors, ReadEntry(a)
  PROVE  SInv'
<1> DEFINE rec(pc, r) == [Step(a, pc) EXCEPT !.tx = r, !.todo = @ \ {r}, !.handler = "markManifest"]
<1>1. PICK r \in act[a].todo, pc \in {"take", "markManifest"} : Look(a, rec(pc, r))
  BY DEF ReadEntry
<1>2. /\ act[a].pc = "entry" /\ act[a] \in ActRecords
      /\ \A q \in act[a].todo : disk[q].manifest # "new"
  BY KnowingAll DEF ReadEntry, At, SwapOK
<1>3. /\ rec(pc, r).pc = pc /\ rec(pc, r).tx = r
      /\ rec(pc, r).todo = act[a].todo \ {r}
  BY <1>2 DEF Step, ActRecords
<1> HIDE DEF rec
<1>4. SwapOK(rec(pc, r), file, disk)
  BY <1>1, <1>2, <1>3 DEF SwapOK, Journalling, PreMarker, Drafting, Started
<1> QED
  BY <1>1, <1>3, <1>4, LookTo DEF Unlocked

LEMMA ReconciledSwap ==
  ASSUME SInv, IInv', NEW a \in Actors, Reconciled(a)
  PROVE  SInv'
<1>1. /\ act[a].pc = "entry" /\ Look(a, Step(a, "returned"))
      /\ act[a] \in ActRecords /\ SwapOK(act[a], file, disk)
  BY KnowingAll DEF Reconciled, At
<1>2. SwapOK(Step(a, "returned"), file, disk) /\ Step(a, "returned").pc \in Unlocked
  BY <1>1 DEF Step, SwapOK, ActRecords, Unlocked, Journalling, PreMarker, Drafting, Started
<1> QED
  BY <1>1, <1>2, LookTo

LEMMA TakeEntrySwap ==
  ASSUME SInv, IInv', NEW a \in Actors, TakeEntry(a)
  PROVE  SInv'
<1> DEFINE forward == [Step(a, "publish") EXCEPT !.handler = "publishFailed"]
<1>1. /\ act[a].pc = "take" /\ ~Busy(a)
      /\ \/ Look(a, Caught(a))
         \/ Look(a, Step(a, "complete"))
         \/ ~Files(a).marker /\ Look(a, Step(a, "rollback"))
         \/ Look(a, forward)
  BY DEF TakeEntry, At
<1>2. act[a].pc \notin FreePCs
  BY <1>1 DEF FreePCs
<1>3. Goes(Step(a, "complete"), act[a], Files(a)) /\ Goes(forward, act[a], Files(a))
  BY <1>1, <1>2, Knowing
     DEF SwapOK, Fresh, ActRecords, Goes, Step, Journalling, PreMarker, Drafting, Started
<1>4. ~Files(a).marker => Goes(Step(a, "rollback"), act[a], Files(a))
  BY <1>1, <1>2, Knowing
     DEF SwapOK, Fresh, ActRecords, Goes, Step, Journalling, PreMarker, Drafting, Started
<1> QED
  BY <1>1, <1>3, <1>4, LookInside, LookCaught

\* A write outside a section, which leaves marker, staging and before image alone.
LEMMA WriteOutside ==
  ASSUME SInv, IInv', NEW a \in Actors, act[a].tx \in Runs,
         NEW g, Fresh(g), Calm(Files(a), g),
         disk' = disk \/ disk' = [disk EXCEPT ![act[a].tx] = g], file' = file,
         NEW rec, rec.pc \in Unlocked, Become(a, rec),
         Goes(rec, act[a], g), Goes(rec, act[a], Files(a))
  PROVE  SInv'
<1>1. \A r \in Runs : Fresh(disk'[r]) /\ Calm(disk[r], disk'[r])
  BY DEF SInv, IInv, Files, Calm, Onward
<1>2. disk'[act[a].tx] = g \/ disk'[act[a].tx] = Files(a)
  BY DEF SInv, IInv, Files
<1>3. SwapOK(rec, file, disk')
  BY <1>1, <1>2, GoOK DEF Calm
<1> QED
  BY <1>1, <1>3, Outside

LEMMA MarkManifestSwap ==
  ASSUME SInv, IInv', NEW a \in Actors, MarkManifest(a)
  PROVE  SInv'
<1> DEFINE g == IF Files(a).manifest = "new" THEN Files(a)
                ELSE [Files(a) EXCEPT !.manifest = "recovery_required"]
           rec == Step(a, "markRegistry")
<1>1. /\ act[a].pc = "markManifest" /\ Become(a, rec) /\ file' = file
      /\ disk' = disk \/ disk' = [disk EXCEPT ![act[a].tx] = g]
  BY DEF MarkManifest, At, TryWrite, Write
<1>2. act[a].pc \notin FreePCs /\ rec.pc \in Unlocked
  BY <1>1, KnowingAll DEF FreePCs, Unlocked, Step, ActRecords
<1>3. Fresh(g) /\ Calm(Files(a), g)
  BY <1>2, Knowing DEF Fresh, Calm, Onward, FileRecords
<1>4. Goes(rec, act[a], g) /\ Goes(rec, act[a], Files(a))
  BY <1>1, <1>2, Knowing
     DEF SwapOK, Fresh, ActRecords, FileRecords, Goes, Step, Journalling, PreMarker, Drafting, Started
<1> HIDE DEF g, rec
<1> QED
  BY <1>1, <1>2, <1>3, <1>4, Knowing, WriteOutside

LEMMA MarkRegistrySwap ==
  ASSUME SInv, IInv', NEW a \in Actors, MarkRegistry(a)
  PROVE  SInv'
<1> DEFINE g == [Files(a) EXCEPT !.registry = @ \cup {"recovery_required"}]
           go == Step(a, "markUnlink")
           end == Finish(a, "recovery_required")
<1>1. /\ act[a].pc = "markRegistry" /\ (Become(a, go) \/ Become(a, end)) /\ file' = file
      /\ disk' = disk \/ disk' = [disk EXCEPT ![act[a].tx] = g]
  BY DEF MarkRegistry, At, Write
<1>2. act[a].pc \notin FreePCs /\ go.pc \in Unlocked
  BY <1>1, KnowingAll DEF FreePCs, Unlocked, Step, ActRecords
<1>3. Fresh(g) /\ Calm(Files(a), g)
  BY <1>1, <1>2, Knowing DEF Fresh, Calm, Onward, FileRecords, SwapOK, Journalling
<1>4. Goes(go, act[a], g) /\ Goes(go, act[a], Files(a))
  BY <1>1, <1>2, Knowing
     DEF SwapOK, Fresh, ActRecords, FileRecords, Goes, Step, Journalling, PreMarker, Drafting, Started
<1>5. Goes(end, act[a], g) /\ Goes(end, act[a], Files(a)) /\ end.pc \in Unlocked
  BY <1>1, <1>2, Knowing, FinishGoes
<1> HIDE DEF g, go, end
<1> QED
  BY <1>1, <1>2, <1>3, <1>4, <1>5, Knowing, WriteOutside

LEMMA MarkUnlinkSwap ==
  ASSUME SInv, IInv', NEW a \in Actors, MarkUnlink(a)
  PROVE  SInv'
<1> DEFINE g == [Files(a) EXCEPT !.registry = @ \ {"pending"}]
           rec == Finish(a, "recovery_required")
<1>1. /\ act[a].pc = "markUnlink" /\ Become(a, rec) /\ file' = file
      /\ disk' = disk \/ disk' = [disk EXCEPT ![act[a].tx] = g]
  BY DEF MarkUnlink, At, TryWrite, Write
<1>2. act[a].pc \notin FreePCs
  BY <1>1 DEF FreePCs
<1>3. Fresh(g) /\ Calm(Files(a), g)
  BY <1>2, Knowing DEF Fresh, Calm, Onward, FileRecords
<1>4. Goes(rec, act[a], g) /\ Goes(rec, act[a], Files(a)) /\ rec.pc \in Unlocked
  BY <1>1, <1>2, Knowing, FinishGoes
<1> HIDE DEF g, rec
<1> QED
  BY <1>1, <1>2, <1>3, <1>4, Knowing, WriteOutside

LEMMA BeginSwap ==
  ASSUME SInv, IInv', NEW a \in Actors, act[a].handler = "raised",
         act[a].pc \notin {"discovering", "quarantine"}, NEW pc \in {"prepare", "drafting"}, Begin(a, pc)
  PROVE  SInv'
<1> DEFINE rec(r) == [Step(a, pc) EXCEPT !.site = "prepare", !.tx = r]
<1>1. PICK r \in Runs :
         /\ disk[r].before = <<>> /\ disk' = [disk EXCEPT ![r].before = file]
         /\ Become(a, rec(r)) /\ file' = file
  BY DEF Begin
<1>2. \A q \in Runs : Fresh(disk'[q]) /\ Calm(disk[q], disk'[q])
  BY <1>1 DEF SInv, IInv, Fresh, Calm, Onward, FileRecords
<1>3. rec(r).pc = pc /\ rec(r).handler = "raised" /\ rec(r).todo = act[a].todo
  BY KnowingAll DEF Step, ActRecords
<1>4. \A q \in act[a].todo : disk'[q].manifest # "new"
  BY <1>2, KnowingAll DEF SwapOK, Calm, Onward, ActRecords
<1> HIDE DEF rec
<1>5. SwapOK(rec(r), file', disk') /\ rec(r).pc \in Unlocked
  BY <1>3, <1>4 DEF SwapOK, Unlocked, Journalling, PreMarker, Drafting, Started
<1>6. Become(a, rec(r)) /\ file' = file
  BY <1>1
<1> QED
  BY <1>2, <1>5, <1>6, Outside

LEMMA CallersSwap ==
  ASSUME SInv, IInv', NEW a \in Actors, WriterStep(a) \/ ReconcilerStep(a) \/ Crash(a)
  PROVE  SInv'
<1> DEFINE r1 == [Step(a, "commit") EXCEPT !.site = "commit"]
           r2 == [Step(a, "discover") EXCEPT !.site = "reconcile"]
<1>1. \/ At(a, "idle") /\ Begin(a, "prepare")
      \/ /\ Become(a, Idle) \/ Become(a, r1) \/ (At(a, "idle") /\ Become(a, r2))
         /\ file' = file /\ disk' = disk
  BY DEF WriterStep, ReconcilerStep, Crash, Look
<1>2. /\ act[a] \in ActRecords /\ SwapOK(act[a], file, disk)
      /\ At(a, "idle") => act[a].handler = "raised"
  BY KnowingAll DEF At, Placed
<1>3. CASE At(a, "idle") /\ Begin(a, "prepare")
  BY <1>2, <1>3, BeginSwap DEF At
<1>4. ASSUME file' = file, disk' = disk, NEW rec, SwapOK(rec, file, disk), rec.pc \in Unlocked,
             Become(a, rec)
      PROVE  SInv'
  <2>1. \A r \in Runs : Fresh(disk'[r]) /\ Calm(disk[r], disk'[r])
    BY <1>4 DEF SInv, Calm, Onward
  <2> QED
    BY <1>4, <2>1, Outside
<1>5. SwapOK(Idle, file, disk) /\ Idle.pc \in Unlocked
  BY DEF Idle, SwapOK, Unlocked, Journalling, PreMarker, Drafting, Started
<1>6. CASE Become(a, Idle) /\ file' = file /\ disk' = disk
  BY <1>4, <1>5, <1>6
<1>7. CASE At(a, "idle") /\ Become(a, r2) /\ file' = file /\ disk' = disk
  <2>1. SwapOK(r2, file, disk) /\ r2.pc \in Unlocked
    BY <1>2, <1>7 DEF At, Step, SwapOK, ActRecords, Unlocked, Journalling, PreMarker, Drafting, Started
  <2> QED
    BY <1>4, <1>7, <2>1
<1>8. CASE At(a, "returned") /\ Become(a, r1) /\ file' = file /\ disk' = disk
  <2>1. SwapOK(r1, file, disk) /\ r1.pc \in Unlocked
    BY <1>2, <1>8 DEF At, Step, SwapOK, ActRecords, Unlocked, Journalling, PreMarker, Drafting, Started
  <2> QED
    BY <1>4, <1>8, <2>1
<1> QED
  BY <1>3, <1>6, <1>7, <1>8 DEF WriterStep, ReconcilerStep, Crash, Look

LEMMA EditSwap ==
  ASSUME SInv, IInv', NEW t \in Targets, Edit(t)
  PROVE  SInv'
<1>1. act' = act /\ disk' = disk
  BY DEF Edit
<1>2. ASSUME NEW a \in Actors PROVE SwapOK(act[a], file', disk)
  BY DEF SInv, SwapOK
<1> QED
  BY <1>1, <1>2 DEF SInv, OneSection

LEMMA SectionSwap ==
  ASSUME SInv, IInv', NEW a \in Actors, Section(a)
  PROVE  SInv'
<1>1. LockErrors(a) => SInv'
  BY RaiseSwap DEF LockErrors, LockError, At
<1>2. Prepare(a) \/ Stage(a) \/ PublishJournal(a) \/ RegisterPending(a) => SInv'
  BY PrepareSwap, StageSwap, PublishJournalSwap, RegisterPendingSwap
<1>3. Commit(a) \/ Applying(a) \/ CheckTarget(a) \/ ApplyTarget(a) \/ VerifyApplied(a) => SInv'
  BY CommitSwap, ApplyingSwap, CheckTargetSwap, ApplyTargetSwap, VerifyAppliedSwap
<1>4. WriteMarker(a) \/ MarkCommitted(a) \/ CommitFailed(a) => SInv'
  BY WriteMarkerSwap, MarkCommittedSwap, CommitFailedSwap
<1>5. Publish(a) \/ PublishArtifact(a) \/ WriteReceipt(a) \/ Complete(a) \/ PublishFailed(a) => SInv'
  BY PublishSwap, PublishArtifactSwap, WriteReceiptSwap, CompleteSwap, PublishFailedSwap
<1>6. Transition(a) \/ Unlink(a) => SInv'
  BY TransitionSwap, UnlinkSwap
<1>7. Rollback(a) \/ UndoCheck(a) \/ Restore(a) \/ RolledBack(a) \/ RollbackFailed(a) => SInv'
  BY RollbackSwap, UndoCheckSwap, RestoreSwap, RolledBackSwap, RollbackFailedSwap
<1>8. Discover(a) \/ DiscoverStaged(a) \/ Quarantine(a) \/ RegisterDiscovered(a) => SInv'
  BY DiscoverSwap, DiscoverStagedSwap, QuarantineSwap, RegisterDiscoveredSwap
<1>9. Discovered(a) \/ ListPending(a) \/ ReadEntry(a) \/ Reconciled(a) \/ TakeEntry(a) => SInv'
  BY DiscoveredSwap, ListPendingSwap, ReadEntrySwap, ReconciledSwap, TakeEntrySwap
<1>10. MarkManifest(a) \/ MarkRegistry(a) \/ MarkUnlink(a) => SInv'
  BY MarkManifestSwap, MarkRegistrySwap, MarkUnlinkSwap
<1> QED
  BY <1>1, <1>2, <1>3, <1>4, <1>5, <1>6, <1>7, <1>8, <1>9, <1>10 DEF Section

LEMMA NextSInv ==
  ASSUME SInv, [Next]_vars
  PROVE  SInv'
<1> IInv'
  BY NextInv DEF SInv
<1>1. CASE \E a \in Actors : Section(a) \/ Crash(a)
  BY <1>1, SectionSwap, CallersSwap
<1>2. CASE \E a \in Writers : WriterStep(a)
  BY <1>2, CallersSwap DEF Actors
<1>3. CASE \E a \in Reconcilers : ReconcilerStep(a)
  BY <1>3, CallersSwap DEF Actors
<1>4. CASE \E t \in Targets : Edit(t)
  BY <1>4, EditSwap
<1>5. CASE UNCHANGED vars
  BY <1>5 DEF vars, SInv, OneSection
<1> QED
  BY <1>1, <1>2, <1>3, <1>4, <1>5 DEF Next

-----------------------------------------------------------------------------
(* Theorems *)

\* Within a section only an application or a restoration changes a target.
LEMMA SectionFile ==
  ASSUME NEW a, Section(a), ~ApplyTarget(a), ~Restore(a)
  PROVE  file' = file
<1>1. (\/ Prepare(a) \/ Stage(a) \/ PublishJournal(a) \/ RegisterPending(a)
       \/ Commit(a) \/ Applying(a) \/ CheckTarget(a) \/ VerifyApplied(a)) => file' = file
  BY DEF Prepare, Stage, PublishJournal, RegisterPending, Commit, Applying, CheckTarget,
         VerifyApplied, Write, Look, Raise
<1>2. (\/ WriteMarker(a) \/ MarkCommitted(a) \/ CommitFailed(a) \/ Publish(a)
       \/ PublishArtifact(a) \/ WriteReceipt(a) \/ Complete(a) \/ PublishFailed(a)
       \/ Transition(a) \/ Unlink(a)) => file' = file
  BY DEF WriteMarker, MarkCommitted, CommitFailed, Publish, PublishArtifact, WriteReceipt,
         Complete, PublishFailed, Transition, Unlink, TryWrite, Write, Look
<1>3. (\/ Rollback(a) \/ UndoCheck(a) \/ RolledBack(a) \/ RollbackFailed(a)
       \/ Discover(a) \/ DiscoverStaged(a) \/ Quarantine(a) \/ RegisterDiscovered(a)) => file' = file
  BY DEF Rollback, UndoCheck, RolledBack, RollbackFailed, Discover, DiscoverStaged, Quarantine,
         RegisterDiscovered, TryWrite, Write, Look
<1>4. (\/ Discovered(a) \/ ListPending(a) \/ ReadEntry(a) \/ Reconciled(a) \/ TakeEntry(a)
       \/ MarkManifest(a) \/ MarkRegistry(a) \/ MarkUnlink(a) \/ LockErrors(a)) => file' = file
  BY DEF Discovered, ListPending, ReadEntry, Reconciled, TakeEntry, MarkManifest, MarkRegistry,
         MarkUnlink, LockErrors, LockError, Raise, TryWrite, Write, Look
<1> QED
  BY <1>1, <1>2, <1>3, <1>4 DEF Section

\* Only an edit, an application or a restoration changes a target.
LEMMA FileChanges ==
  ASSUME [Next]_vars, file' # file
  PROVE  \/ \E t \in Targets : Edit(t)
         \/ \E a \in Actors : ApplyTarget(a) \/ Restore(a)
<1>1. \A a \in Actors : Section(a) /\ ~ApplyTarget(a) /\ ~Restore(a) => file' = file
  BY SectionFile
<1>2. \A a \in Actors : Crash(a) \/ WriterStep(a) \/ ReconcilerStep(a) => file' = file
  BY DEF Crash, WriterStep, ReconcilerStep, Begin, Look
<1> QED
  BY <1>1, <1>2 DEF Next, vars, Actors

\* What a process that has checked a target and not changed it yet knows of it:
\* the check still holds, or an edit has fallen behind it.
WindowOK(rec, f, d, raced) ==
    /\ rec.pc = "replace" => f[rec.k] = d[rec.tx].before[rec.k] \/ <<rec.tx, f[rec.k]>> \in raced
    /\ rec.pc = "restore" => f[rec.k] = rec.tx \/ <<rec.tx, f[rec.k]>> \in raced

Windows == \A a \in Actors : WindowOK(act[a], file, disk, spent.raced)

\* A step of a leaves what the runs read, and what fell into whose window, alone.
Quiet(a) ==
    /\ spent'.raced = spent.raced
    /\ \A r \in Runs : disk'[r].before = disk[r].before \/ disk[r].before = <<>>
    /\ \A b \in Actors : act'[b].pc \in {"replace", "restore"} => act'[b] = act[b]

LEMMA LookQuiet ==
  ASSUME IInv, NEW a \in Actors, NEW rec, Look(a, rec), rec.pc \notin {"replace", "restore"}
  PROVE  Quiet(a)
  BY DEF Look, Become, Quiet, IInv

LEMMA WriteQuiet ==
  ASSUME IInv, NEW a \in Actors, NEW g, NEW then, NEW caught, Write(a, g, then, caught),
         act[a].tx \in Runs => g.before = Files(a).before,
         then.pc \notin {"replace", "restore"}, caught.pc \notin {"replace", "restore"}
  PROVE  Quiet(a)
<1>1. PICK o \in Outcomes :
        /\ disk' = IF Took(o) THEN [disk EXCEPT ![act[a].tx] = g] ELSE disk
        /\ Become(a, IF Raised(o) THEN caught ELSE then)
        /\ Tally(o)
  BY DEF Write
<1>2. spent'.raced = spent.raced
  BY <1>1 DEF Tally, IInv, Spendings
<1>3. \A r \in Runs : disk'[r].before = disk[r].before
  BY <1>1 DEF IInv, Files
<1>4. \A b \in Actors : act'[b].pc \in {"replace", "restore"} => act'[b] = act[b]
  BY <1>1 DEF Become, IInv
<1> QED
  BY <1>2, <1>3, <1>4 DEF Quiet

\* Where a process goes on.
LEMMA StepTo ==
  ASSUME IInv, NEW a \in Actors
  PROVE  /\ Caught(a).pc \notin {"replace", "restore"} /\ act[a].handler \notin {"replace", "restore"}
         /\ \A pc : /\ Step(a, pc).pc = pc /\ \A x : [Step(a, pc) EXCEPT !.k = x].pc = pc
                    /\ \A x : [Step(a, pc) EXCEPT !.handler = x].pc = pc
                    /\ \A x : [Step(a, pc) EXCEPT !.goal = x].pc = pc
                    /\ \A x : [Step(a, pc) EXCEPT !.todo = x].pc = pc
                    /\ \A x, y : [Step(a, pc) EXCEPT !.k = x, !.failed = y].pc = pc
                    /\ \A x, y : [Step(a, pc) EXCEPT !.todo = x, !.handler = y].pc = pc
                    /\ \A x, y : [Step(a, pc) EXCEPT !.report = x, !.tx = y].pc = pc
                    /\ \A x, y, z : [Step(a, pc) EXCEPT !.tx = x, !.todo = y, !.handler = z].pc = pc
         /\ \A s : Finish(a, s).pc \notin {"replace", "restore"}
<1>1. act[a] \in ActRecords
  BY DEF IInv
<1>2. Caught(a).pc \notin {"replace", "restore"} /\ act[a].handler \notin {"replace", "restore"}
  BY <1>1 DEF Caught, ActRecords, Handlers
<1>3. \A s : Finish(a, s).pc \notin {"replace", "restore"}
  BY <1>1 DEF Finish, ActRecords
<1>4. ASSUME NEW pc
      PROVE  /\ Step(a, pc).pc = pc /\ \A x : [Step(a, pc) EXCEPT !.k = x].pc = pc
             /\ \A x : [Step(a, pc) EXCEPT !.handler = x].pc = pc
             /\ \A x : [Step(a, pc) EXCEPT !.goal = x].pc = pc
             /\ \A x : [Step(a, pc) EXCEPT !.todo = x].pc = pc
             /\ \A x, y : [Step(a, pc) EXCEPT !.k = x, !.failed = y].pc = pc
             /\ \A x, y : [Step(a, pc) EXCEPT !.todo = x, !.handler = y].pc = pc
             /\ \A x, y : [Step(a, pc) EXCEPT !.report = x, !.tx = y].pc = pc
             /\ \A x, y, z : [Step(a, pc) EXCEPT !.tx = x, !.todo = y, !.handler = z].pc = pc
  BY <1>1 DEF Step, ActRecords
<1> QED
  BY <1>2, <1>3, <1>4

\* What is written of a run's files leaves what it read alone.
LEMMA BeforeStays ==
  ASSUME NEW f \in FileRecords, NEW x
  PROVE  /\ [f EXCEPT !.staging = x].before = f.before /\ [f EXCEPT !.manifest = x].before = f.before
         /\ [f EXCEPT !.marker = x].before = f.before /\ [f EXCEPT !.published = x].before = f.before
         /\ [f EXCEPT !.receipt = x].before = f.before /\ [f EXCEPT !.registry = x].before = f.before
         /\ Journalled(f).before = f.before
  BY DEF FileRecords, Journalled

\* After the rename the process is not before one.
LEMMA TouchElsewhere ==
  ASSUME IInv, NEW a \in Actors, ApplyTarget(a) \/ Restore(a)
  PROVE  \E o \in Outcomes : /\ disk' = disk /\ Tally(o)
                            /\ \E rec : Become(a, rec) /\ rec.pc \notin {"replace", "restore"}
<1>1. CASE ApplyTarget(a)
  <2>1. PICK o \in Outcomes : /\ disk' = disk /\ Tally(o)
                             /\ \/ Become(a, Caught(a))
                                \/ Become(a, [Step(a, "check") EXCEPT !.k = @ + 1])
    BY <1>1 DEF ApplyTarget
  <2>2. [Step(a, "check") EXCEPT !.k = @ + 1].pc = "check"
    BY StepTo
  <2> QED
    BY <2>1, <2>2, StepTo
<1>2. CASE Restore(a)
  <2> DEFINE rec(o) == [Step(a, "undo") EXCEPT !.k = @ - 1, !.failed = @ \/ Raised(o)]
  <2>1. PICK o \in Outcomes : disk' = disk /\ Tally(o) /\ Become(a, rec(o))
    BY <1>2 DEF Restore
  <2>2. act[a] \in ActRecords
    BY DEF IInv
  <2>3. rec(o).pc = "undo"
    BY <2>2 DEF Step, ActRecords
  <2> HIDE DEF rec
  <2> QED
    BY <2>1, <2>3
<1> QED
  BY <1>1, <1>2

\* Only the two checks lead to a swap.
LEMMA Quiets ==
  ASSUME IInv, NEW a \in Actors, Section(a), ~CheckTarget(a), ~UndoCheck(a)
  PROVE  Quiet(a)
<1> DEFINE f == Files(a)
           Elsewhere(rec) == rec.pc \notin {"replace", "restore"}
           Same(g) == act[a].tx \in Runs => g.before = f.before
<1>1. /\ \A g, then, caught : Write(a, g, then, caught) /\ Same(g) /\ Elsewhere(then) /\ Elsewhere(caught) => Quiet(a)
      /\ \A rec : Look(a, rec) /\ Elsewhere(rec) => Quiet(a)
  BY WriteQuiet, LookQuiet
<1>2. /\ \A x : /\ Same([f EXCEPT !.staging = x]) /\ Same([f EXCEPT !.manifest = x])
               /\ Same([f EXCEPT !.marker = x]) /\ Same([f EXCEPT !.published = x])
               /\ Same([f EXCEPT !.receipt = x]) /\ Same([f EXCEPT !.registry = x])
      /\ Same(Journalled(f)) /\ Same(f)
  BY BeforeStays DEF IInv, Files
<1>0. /\ Elsewhere(Caught(a)) /\ \A s : Elsewhere(Finish(a, s))
      /\ \A pc : pc \notin {"replace", "restore"} =>
            /\ Elsewhere(Step(a, pc))
            /\ \A x : Elsewhere([Step(a, pc) EXCEPT !.k = x])
            /\ \A x : Elsewhere([Step(a, pc) EXCEPT !.handler = x])
            /\ \A x : Elsewhere([Step(a, pc) EXCEPT !.goal = x])
            /\ \A x : Elsewhere([Step(a, pc) EXCEPT !.todo = x])
            /\ \A x, y : Elsewhere([Step(a, pc) EXCEPT !.k = x, !.failed = y])
            /\ \A x, y : Elsewhere([Step(a, pc) EXCEPT !.todo = x, !.handler = y])
            /\ \A x, y : Elsewhere([Step(a, pc) EXCEPT !.report = x, !.tx = y])
            /\ \A x, y, z : Elsewhere([Step(a, pc) EXCEPT !.tx = x, !.todo = y, !.handler = z])
  BY StepTo
<1> HIDE DEF Elsewhere, Same
<1>3. PublishJournal(a) => Quiet(a)
  BY <1>0, <1>1, <1>2 DEF PublishJournal
<1>4. RegisterPending(a) => Quiet(a)
  BY <1>0, <1>1, <1>2 DEF RegisterPending
<1>5. WriteMarker(a) => Quiet(a)
  BY <1>0, <1>1, <1>2 DEF WriteMarker
<1>6. MarkCommitted(a) => Quiet(a)
  BY <1>0, <1>1, <1>2 DEF MarkCommitted
<1>7. PublishArtifact(a) => Quiet(a)
  BY <1>0, <1>1, <1>2 DEF PublishArtifact
<1>8. WriteReceipt(a) => Quiet(a)
  BY <1>0, <1>1, <1>2 DEF WriteReceipt
<1>9. Complete(a) => Quiet(a)
  BY <1>0, <1>1, <1>2 DEF Complete
<1>10. PublishFailed(a) => Quiet(a)
  BY <1>0, <1>1, <1>2 DEF PublishFailed, TryWrite
<1>11. Transition(a) => Quiet(a)
  BY <1>0, <1>1, <1>2 DEF Transition
<1>12. Unlink(a) => Quiet(a)
  BY <1>0, <1>1, <1>2 DEF Unlink
<1>13. Rollback(a) => Quiet(a)
  BY <1>0, <1>1, <1>2 DEF Rollback, TryWrite
<1>14. RolledBack(a) => Quiet(a)
  BY <1>0, <1>1, <1>2 DEF RolledBack
<1>15. RollbackFailed(a) => Quiet(a)
  BY <1>0, <1>1, <1>2 DEF RollbackFailed, TryWrite
<1>16. Quarantine(a) => Quiet(a)
  <2> DEFINE rec == [Step(a, "discovering") EXCEPT
                        !.report[act[a].tx] = @ \cup {"rolled_back"}, !.tx = NoRun]
  <2>1. Elsewhere(rec)
    BY <1>0
  <2>2. Quarantine(a) => Write(a, [f EXCEPT !.staging = "none"], rec, rec)
    BY DEF Quarantine, TryWrite
  <2> HIDE DEF rec
  <2> QED
    BY <1>1, <1>2, <2>1, <2>2
<1>17. MarkManifest(a) => Quiet(a)
  BY <1>0, <1>1, <1>2 DEF MarkManifest, TryWrite
<1>18. MarkRegistry(a) => Quiet(a)
  BY <1>0, <1>1, <1>2 DEF MarkRegistry
<1>19. MarkUnlink(a) => Quiet(a)
  BY <1>0, <1>1, <1>2 DEF MarkUnlink, TryWrite
<1>20. Stage(a) => Quiet(a)
  BY <1>0, <1>1, <1>2 DEF Stage
<1>21. Raise(a) => Quiet(a)
  BY <1>0, <1>1 DEF Raise
<1>22. Commit(a) => Quiet(a)
  BY <1>0, <1>1 DEF Commit, Raise
<1>23. VerifyApplied(a) => Quiet(a)
  BY <1>0, <1>1 DEF VerifyApplied
<1>24. CommitFailed(a) => Quiet(a)
  BY <1>0, <1>1 DEF CommitFailed
<1>25. Discover(a) => Quiet(a)
  BY <1>0, <1>1 DEF Discover
<1>26. Discovered(a) => Quiet(a)
  BY <1>0, <1>1 DEF Discovered
<1>27. ListPending(a) => Quiet(a)
  BY <1>0, <1>1 DEF ListPending
<1>28. ReadEntry(a) => Quiet(a)
  BY <1>0, <1>1 DEF ReadEntry
<1>29. Reconciled(a) => Quiet(a)
  BY <1>0, <1>1 DEF Reconciled
<1>30. TakeEntry(a) => Quiet(a)
  BY <1>0, <1>1 DEF TakeEntry
<1>31. Prepare(a) => Quiet(a)
  BY <1>0, <1>1, <1>2 DEF Prepare, Raise
<1>32. Applying(a) => Quiet(a)
  BY <1>0, <1>1, <1>2 DEF Applying
<1>33. Publish(a) => Quiet(a)
  BY <1>0, <1>1, <1>2 DEF Publish
<1>34. ApplyTarget(a) \/ Restore(a) => Quiet(a)
  <2>1. ASSUME ApplyTarget(a) \/ Restore(a) PROVE Quiet(a)
    <3>1. PICK o \in Outcomes : disk' = disk /\ Tally(o) /\ \E rec : Become(a, rec) /\ rec.pc \notin {"replace", "restore"}
      BY <2>1, TouchElsewhere
    <3>2. spent'.raced = spent.raced
      BY <3>1 DEF Tally, IInv, Spendings
    <3> QED
      BY <3>1, <3>2 DEF Quiet, Become, IInv
  <2> QED
    BY <2>1
<1>35. DiscoverStaged(a) => Quiet(a)
  <2>1. ASSUME NEW r \in Runs, disk[r] \in FileRecords
        PROVE  [disk EXCEPT ![r] = Journalled(@)][r].before = disk[r].before
    BY <2>1, BeforeStays DEF IInv
  <2>2. ASSUME DiscoverStaged(a) PROVE Quiet(a)
    <3> DEFINE found(r) == [act[a] EXCEPT !.tx = r, !.todo = @ \ {r}]
    <3>1. PICK r \in act[a].todo :
            \/ /\ disk' = [disk EXCEPT ![r] = Journalled(@)] \/ disk' = disk
               /\ Become(a, [found(r) EXCEPT !.pc = "quarantine"]) \/ Become(a, [found(r) EXCEPT !.tx = NoRun])
               /\ \E o \in Outcomes : Tally(o)
            \/ Look(a, [found(r) EXCEPT !.pc = "quarantine"])
      BY <2>2 DEF DiscoverStaged
    <3>2. act[a] \in ActRecords /\ act[a].pc = "discovering" /\ r \in Runs /\ disk[r] \in FileRecords
      BY <2>2 DEF IInv, DiscoverStaged, At, ActRecords
    <3>3. [found(r) EXCEPT !.pc = "quarantine"].pc = "quarantine" /\ [found(r) EXCEPT !.tx = NoRun].pc = "discovering"
      BY <3>2 DEF ActRecords
    <3>4. spent'.raced = spent.raced
      BY <3>1 DEF Tally, Look, IInv, Spendings
    <3>5. \A q \in Runs : disk'[q].before = disk[q].before
      BY <2>1, <3>1, <3>2 DEF Look, IInv
    <3> HIDE DEF found
    <3>6. \A b \in Actors : act'[b].pc \in {"replace", "restore"} => act'[b] = act[b]
      BY <3>1, <3>3 DEF Look, Become, IInv
    <3> QED
      BY <3>4, <3>5, <3>6 DEF Quiet
  <2> QED
    BY <2>2
<1>36. RegisterDiscovered(a) => Quiet(a)
  <2>1. ASSUME RegisterDiscovered(a) PROVE Quiet(a)
    <3>1. PICK r \in Unregistered, o \in Outcomes :
            /\ disk' = [disk EXCEPT ![r].registry = {"pending"}] \/ disk' = disk
            /\ Become(a, Caught(a)) \/ Become(a, act[a])
            /\ Tally(o)
      BY <2>1 DEF RegisterDiscovered
    <3>2. r \in Runs /\ disk[r] \in FileRecords
      BY DEF Unregistered, IInv
    <3>3. spent'.raced = spent.raced
      BY <3>1 DEF Tally, IInv, Spendings
    <3>4. \A q \in Runs : disk'[q].before = disk[q].before
      BY <3>1, <3>2 DEF IInv, FileRecords
    <3>5. \A b \in Actors : act'[b].pc \in {"replace", "restore"} => act'[b] = act[b]
      BY <3>1, StepTo DEF Become, IInv
    <3> QED
      BY <3>3, <3>4, <3>5 DEF Quiet
  <2> QED
    BY <2>1
<1> QED
  BY <1>3, <1>4, <1>5, <1>6, <1>7, <1>8, <1>9, <1>10, <1>11, <1>12, <1>13, <1>14, <1>15, <1>16, <1>17, <1>18, <1>19, <1>20, <1>21, <1>22, <1>23, <1>24, <1>25, <1>26, <1>27, <1>28, <1>29, <1>30, <1>31, <1>32, <1>33, <1>34, <1>35, <1>36 DEF Section, LockErrors, LockError

LEMMA InitWindows == Init => Windows
  BY DEF Init, Windows, WindowOK, Idle

\* While a process is between its check and its rename nobody but the author
\* touches its target, and what the author does there is on record.
LEMMA NextWindows ==
  ASSUME SInv, Windows, [Next]_vars
  PROVE  Windows'
<1> SUFFICES ASSUME NEW a \in Actors, act'[a].pc \in {"replace", "restore"}
             PROVE  WindowOK(act'[a], file', disk', spent'.raced)
  BY DEF Windows, WindowOK
<1>1. ASSUME NEW t \in Targets, Edit(t)
      PROVE  WindowOK(act'[a], file', disk', spent'.raced)
  <2>1. /\ act' = act /\ disk' = disk /\ act[a].k \in Targets /\ act[a].tx \in Runs
        /\ WindowOK(act[a], file, disk, spent.raced)
    BY <1>1, KnowingAll DEF Edit, Windows, Placed, Begun, FreePCs
  <2>2. /\ file' = [file EXCEPT ![t] = spent.edits + 1]
        /\ spent'.raced = spent.raced \cup (Between(t) \X {spent.edits + 1})
        /\ file \in [Targets -> Contents]
    BY <1>1 DEF Edit, SInv, IInv, Spendings
  <2>3. CASE act[a].k = t
    <3>1. act[a].tx \in Between(t)
      BY <2>1, <2>3 DEF Between
    <3>2. file'[act[a].k] = spent.edits + 1
      BY <2>2, <2>3
    <3>3. <<act[a].tx, file'[act[a].k]>> \in spent'.raced
      BY <2>2, <3>1, <3>2
    <3> QED
      BY <2>1, <3>3 DEF WindowOK
  <2>4. CASE act[a].k # t
    <3>1. file'[act[a].k] = file[act[a].k]
      BY <2>1, <2>2, <2>4
    <3> QED
      BY <2>1, <2>2, <3>1 DEF WindowOK
  <2> QED
    BY <2>3, <2>4
<1>2. ASSUME CheckTarget(a) \/ UndoCheck(a)
      PROVE  WindowOK(act'[a], file', disk', spent'.raced)
  <2>1. /\ act[a] \in ActRecords /\ act[a].pc \in {"check", "undo"}
        /\ file' = file /\ disk' = disk
        /\ \A rec : Become(a, rec) => act'[a] = rec
    BY <1>2 DEF CheckTarget, UndoCheck, Look, Become, SInv, IInv, At
  <2>2. Caught(a).pc \in Handlers
    BY <2>1 DEF Caught, ActRecords
  <2>3. ASSUME CheckTarget(a), file[act[a].k] = Files(a).before[act[a].k], act'[a] = Step(a, "replace")
        PROVE  WindowOK(act'[a], file', disk', spent'.raced)
    BY <2>1, <2>3 DEF Step, Files, WindowOK, ActRecords
  <2>4. ASSUME UndoCheck(a), file[act[a].k] = act[a].tx, act'[a] = Step(a, "restore")
        PROVE  WindowOK(act'[a], file', disk', spent'.raced)
    BY <2>1, <2>4 DEF Step, Files, WindowOK, ActRecords
  <2>5. CASE CheckTarget(a)
    <3>1. \/ act'[a] = [act[a] EXCEPT !.k = @ + 1]
          \/ file[act[a].k] = Files(a).before[act[a].k] /\ act'[a] = Step(a, "replace")
          \/ act'[a] = Caught(a)
      BY <2>1, <2>5 DEF CheckTarget, Look
    <3> QED
      BY <2>1, <2>2, <2>3, <2>5, <3>1 DEF ActRecords, Handlers
  <2>6. CASE UndoCheck(a)
    <3>1. \/ file[act[a].k] = act[a].tx /\ act'[a] = Step(a, "restore")
          \/ act'[a] = [act[a] EXCEPT !.k = @ - 1,
                           !.failed = @ \/ file[act[a].k] # Files(a).before[act[a].k]]
      BY <2>1, <2>6 DEF UndoCheck, Look
    <3> QED
      BY <2>1, <2>4, <2>6, <3>1 DEF ActRecords
  <2> QED
    BY <1>2, <2>5, <2>6
<1>3. ASSUME NEW b \in Actors, Quiet(b) \/ ((CheckTarget(b) \/ UndoCheck(b)) /\ b # a),
             file' = file \/ act[b].pc \in {"replace", "restore"}, b # a \/ file' = file
      PROVE  WindowOK(act'[a], file', disk', spent'.raced)
  <2>1. /\ act'[a] = act[a] /\ spent'.raced = spent.raced
        /\ \A r \in Runs : disk'[r].before = disk[r].before \/ disk[r].before = <<>>
    BY <1>3 DEF Quiet, CheckTarget, UndoCheck, Look, Become, SInv, IInv
  <2>2. act[a].tx \in Runs /\ disk[act[a].tx].before # <<>> /\ WindowOK(act[a], file, disk, spent.raced)
    BY <2>1, KnowingAll DEF Windows, Placed, Begun, FreePCs
  <2>3. file' = file
    BY <1>3, <2>1, Alone DEF SInv, OneSection, Unlocked
  <2> QED
    BY <2>1, <2>2, <2>3 DEF WindowOK
<1>4. ASSUME NEW b \in Actors, Section(b)
      PROVE  WindowOK(act'[a], file', disk', spent'.raced)
  <2>1. CASE CheckTarget(b) \/ UndoCheck(b)
    <3>1. file' = file
      BY <2>1 DEF CheckTarget, UndoCheck, Look
    <3> QED
      BY <1>2, <1>3, <2>1, <3>1
  <2>2. CASE ~CheckTarget(b) /\ ~UndoCheck(b)
    <3>1. Quiet(b)
      BY <1>4, <2>2, Quiets DEF SInv
    <3>2. CASE ApplyTarget(b) \/ Restore(b)
      <4>1. act[b].pc \in {"replace", "restore"} /\ act'[b].pc \notin {"replace", "restore"}
        <5>1. act \in [Actors -> ActRecords] /\ IInv
          BY DEF SInv, IInv
        <5>2. PICK rec : Become(b, rec) /\ rec.pc \notin {"replace", "restore"}
          BY <3>2, <5>1, TouchElsewhere
        <5>3. act'[b] = rec
          BY <5>1, <5>2 DEF Become
        <5> QED
          BY <3>2, <5>2, <5>3 DEF ApplyTarget, Restore, At
      <4> QED
        BY <1>3, <3>1, <4>1
    <3>3. CASE ~ApplyTarget(b) /\ ~Restore(b)
      <4>1. file' = file
        BY <1>4, <3>3, SectionFile
      <4> QED
        BY <1>3, <3>1, <4>1
    <3> QED
      BY <3>2, <3>3
  <2> QED
    BY <2>1, <2>2
<1>5. ASSUME NEW b \in Actors, Crash(b) \/ WriterStep(b) \/ ReconcilerStep(b)
      PROVE  WindowOK(act'[a], file', disk', spent'.raced)
  <2>1. Quiet(b) /\ file' = file
    <3>1. IInv /\ act \in [Actors -> ActRecords] /\ spent \in Spendings
      BY DEF SInv, IInv
    <3>2. file' = file
      BY <1>5 DEF Crash, WriterStep, ReconcilerStep, Begin, Look
    <3>3. ASSUME NEW rec, Become(b, rec), rec.pc \notin {"replace", "restore"}
          PROVE  \A c \in Actors : act'[c].pc \in {"replace", "restore"} => act'[c] = act[c]
      BY <3>1, <3>3 DEF Become
    <3>4. \A pc : pc \notin {"replace", "restore"} =>
            /\ \A x : [Step(b, pc) EXCEPT !.site = x].pc \notin {"replace", "restore"}
            /\ \A x, y : [Step(b, pc) EXCEPT !.site = x, !.tx = y].pc \notin {"replace", "restore"}
            /\ Idle.pc \notin {"replace", "restore"}
      BY <3>1 DEF Step, ActRecords, Idle
    <3>5. CASE Crash(b)
      <4>1. disk' = disk /\ Become(b, Idle) /\ spent'.raced = spent.raced
        BY <3>1, <3>5 DEF Crash, Spendings
      <4> QED
        BY <3>2, <3>3, <3>4, <4>1 DEF Quiet
    <3>6. ASSUME NEW pc, pc \notin {"replace", "restore"}, Begin(b, pc) PROVE Quiet(b)
      <4>1. PICK r \in Runs : /\ disk[r].before = <<>> /\ disk' = [disk EXCEPT ![r].before = file]
                             /\ Become(b, [Step(b, pc) EXCEPT !.site = "prepare", !.tx = r])
                             /\ spent' = spent
        BY <3>6 DEF Begin
      <4>2. \A q \in Runs : disk'[q].before = disk[q].before \/ disk[q].before = <<>>
        BY <4>1 DEF SInv, IInv
      <4> QED
        BY <3>3, <3>4, <3>6, <4>1, <4>2 DEF Quiet
    <3>7. ASSUME NEW rec, Become(b, rec), rec.pc \notin {"replace", "restore"}, disk' = disk,
                 spent'.raced = spent.raced
          PROVE  Quiet(b)
      BY <3>3, <3>7 DEF Quiet
    <3>8. CASE WriterStep(b)
      <4>1. \/ Begin(b, "prepare") \/ Look(b, [Step(b, "commit") EXCEPT !.site = "commit"])
            \/ Look(b, Idle)
        BY <3>8 DEF WriterStep
      <4> QED
        <5>1. CASE Begin(b, "prepare")
          BY <3>2, <3>6, <5>1
        <5>2. CASE Look(b, [Step(b, "commit") EXCEPT !.site = "commit"])
          <6>1. [Step(b, "commit") EXCEPT !.site = "commit"].pc \notin {"replace", "restore"}
            BY <3>4
          <6> QED
            BY <3>1, <3>2, <5>2, <6>1, LookQuiet
        <5>3. CASE Look(b, Idle)
          <6>1. Idle.pc \notin {"replace", "restore"}
            BY DEF Idle
          <6> QED
            BY <3>1, <3>2, <5>3, <6>1, LookQuiet
        <5> QED
          BY <4>1, <5>1, <5>2, <5>3
    <3>9. CASE ReconcilerStep(b)
      <4>1. \/ Become(b, [Step(b, "discover") EXCEPT !.site = "reconcile"])
            \/ Become(b, Idle)
        BY <3>9 DEF ReconcilerStep, Look
      <4>2. disk' = disk /\ spent'.raced = spent.raced
        BY <3>1, <3>9 DEF ReconcilerStep, Look, Spendings
      <4>3. /\ [Step(b, "discover") EXCEPT !.site = "reconcile"].pc \notin {"replace", "restore"}
            /\ Idle.pc \notin {"replace", "restore"}
        BY <3>4 DEF Idle
      <4> QED
        BY <3>2, <3>7, <4>1, <4>2, <4>3
    <3> QED
      BY <1>5, <3>5, <3>8, <3>9, <3>2
  <2> QED
    BY <1>3, <2>1
<1>6. CASE UNCHANGED vars
  BY <1>6 DEF vars, Windows
<1> QED
  BY <1>1, <1>4, <1>5, <1>6 DEF Next, Actors

\* What one step does to the targets.
LEMMA Swaps ==
  ASSUME SInv, Windows, [Next]_vars, NEW t \in Targets, file'[t] # file[t],
         spent'.edits = spent.edits
  PROVE  \E r \in Runs :
            /\ disk[r].before # <<>> /\ ~disk[r].marker
            /\ \/ file'[t] = r /\ (file[t] = disk[r].before[t] \/ <<r, file[t]>> \in spent.raced)
               \/ file'[t] = disk[r].before[t] /\ (file[t] = r \/ <<r, file[t]>> \in spent.raced)
<1>1. CASE \E q \in Targets : Edit(q)
  BY <1>1, PersistenceAssumption DEF Edit, SInv, IInv, Spendings
<1>2. CASE \E a \in Actors : ApplyTarget(a) \/ Restore(a)
  <2>1. PICK a \in Actors : ApplyTarget(a) \/ Restore(a)
    BY <1>2
  <2> DEFINE r == act[a].tx
  <2>2. act[a].pc \in {"replace", "restore"} /\ act[a].pc \notin FreePCs
    BY <2>1 DEF ApplyTarget, Restore, At, FreePCs
  <2>3. /\ r \in Runs /\ Begun(disk, r) /\ SwapOK(act[a], file, disk) /\ act[a].k \in Targets
        /\ WindowOK(act[a], file, disk, spent.raced)
    BY <2>2, KnowingAll DEF Placed, Begun, Windows
  <2>4. disk[r].before # <<>> /\ ~disk[r].marker
    BY <2>2, <2>3 DEF Begun, SwapOK, PreMarker
  <2>5. CASE ApplyTarget(a)
    <3>1. file' = [file EXCEPT ![act[a].k] = r] \/ file' = file
      BY <2>5 DEF ApplyTarget
    <3>2. t = act[a].k /\ file'[t] = r
      BY <2>3, <3>1 DEF SInv, IInv
    <3>3. file[t] = disk[r].before[t] \/ <<r, file[t]>> \in spent.raced
      BY <2>3, <2>5, <3>2 DEF WindowOK, ApplyTarget, At
    <3> QED
      BY <2>3, <2>4, <3>2, <3>3
  <2>6. CASE Restore(a)
    <3>1. file' = [file EXCEPT ![act[a].k] = disk[r].before[act[a].k]] \/ file' = file
      BY <2>6 DEF Restore, Files
    <3>2. t = act[a].k /\ file'[t] = disk[r].before[t]
      BY <2>3, <3>1 DEF SInv, IInv
    <3>3. file[t] = r \/ <<r, file[t]>> \in spent.raced
      BY <2>3, <2>6, <3>2 DEF WindowOK, Restore, At
    <3> QED
      BY <2>3, <2>4, <3>2, <3>3
  <2> QED
    BY <2>1, <2>5, <2>6
<1> QED
  BY <1>1, <1>2, FileChanges

\* A program step changes a target only as a compare-and-swap of an uncommitted
\* run (_assert_before_image, _rollback_pre_marker), the edits apart that fell
\* between that run's check and its rename: for any number of processes,
\* targets, edits, crashes and failing writes.
THEOREM Swapping == Spec => CompareAndSwap
<1>1. SInv /\ Windows /\ [Next]_vars =>
        [\A t \in Targets :
            file'[t] # file[t] =>
                \/ spent'.edits # spent.edits
                \/ \E r \in Runs :
                    /\ disk[r].before # <<>> /\ ~disk[r].marker
                    /\ \/ {file[t], file'[t]} = {r, disk[r].before[t]}
                       \/ file'[t] \in {r, disk[r].before[t]} /\ <<r, file[t]>> \in spent.raced]_vars
  BY Swaps
<1>2. SInv /\ Windows /\ [Next]_vars => SInv' /\ Windows'
  BY NextSInv, NextWindows
<1> QED
  BY <1>1, <1>2, InitSInv, InitWindows, PTL DEF Spec, CompareAndSwap

\* No program step overwrites an edit, unless its run had read the edited text
\* or had checked the target just before the edit and not renamed yet.
THEOREM EditsSurvive == Spec => EditsArePreserved
<1>1. SInv /\ Windows /\ [Next]_vars =>
        [\A t \in Targets :
            file[t] \in 1 .. MaxEdits /\ file'[t] # file[t] =>
                \/ spent'.edits # spent.edits
                \/ \E r \in Runs :
                    \/ file'[t] = r /\ disk[r].before[t] = file[t]
                    \/ <<r, file[t]>> \in spent.raced]_vars
  <2>1. \A r \in Runs : r \notin 1 .. MaxEdits
    BY PersistenceAssumption
  <2> QED
    BY <2>1, Swaps
<1>2. SInv /\ Windows /\ [Next]_vars => SInv' /\ Windows'
  BY NextSInv, NextWindows
<1> QED
  BY <1>1, <1>2, InitSInv, InitWindows, PTL DEF Spec, EditsArePreserved
=============================================================================
