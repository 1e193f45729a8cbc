---------------------------- MODULE PersistenceV2 ----------------------------
(***************************************************************************)
(* The receipt-backed local transaction of core/engine/persistence_v2.py:  *)
(* prepare, commit, publication, rollback and the reconciliation of what a *)
(* dead process left behind.                                               *)
(*                                                                         *)
(* One step is one durable write (or one check whose result is used        *)
(* later).  A write may raise before or after it took effect; a process    *)
(* may die between any two steps, which also releases its lock; the author *)
(* may edit a target file whenever he likes.  An exception goes to the     *)
(* `handler' of the try block the code is in.                              *)
(*                                                                         *)
(* Run r writes the content r to every target; 0 is the content the books  *)
(* start with and 1, 2, ... are the author's edits.  Published artifacts   *)
(* have paths of their own, nobody else writes them: publishing one is     *)
(* counting it.                                                            *)
(***************************************************************************)
EXTENDS Integers

CONSTANTS
    Runs,          \* run ids, each used for one transaction
    Writers,       \* processes that prepare and commit
    Reconcilers,   \* processes that run --reconcile-persistence
    NoRun,
    NumTargets,    \* apply targets, in manifest order
    ReadSet,       \* the targets that are in the story-project read set
    NumArtifacts,  \* publication targets, the final run record included
    MaxEdits, MaxErrors, MaxCrashes, MaxReconciles

Actors == Writers \cup Reconcilers
Targets == 1 .. NumTargets
Contents == Runs \cup (0 .. MaxEdits)

ASSUME PersistenceAssumption ==
    /\ Runs \cap (0 .. MaxEdits) = {} /\ NoRun \notin Runs
    /\ Writers \cap Reconcilers = {}
    /\ NumTargets \in Nat \ {0} /\ NumArtifacts \in Nat
    /\ ReadSet \subseteq Targets
    /\ MaxEdits \in Nat /\ MaxErrors \in Nat
    /\ MaxCrashes \in Nat /\ MaxReconciles \in Nat

VARIABLES
    file,   \* the content of each apply target
    disk,   \* what the transaction root holds of each run
    act,    \* where each process is, and what it remembers
    spent   \* edits, errors, crashes and reconciliations so far, and the edits
            \* that fell between a hash check and the rename it was made for

vars == <<file, disk, act, spent>>

ManifestStates == {"new", "prepared", "applying", "commit_marked", "publishing",
                   "completed", "rolling_back", "rolled_back", "recovery_required"}
RegistryStates == {"pending", "completed", "rolled_back", "recovery_required"}

\* `new' is a run without a journal; <<>> is the before image of a run that has not begun.
NoFiles == [staging |-> "none", manifest |-> "new", before |-> <<>>, marker |-> FALSE,
            published |-> 0, receipt |-> FALSE, registry |-> {}]

NoReport == [r \in Runs |-> {}]

Idle == [pc |-> "idle", site |-> "idle", tx |-> NoRun, todo |-> {}, report |-> NoReport,
         k |-> 0, failed |-> FALSE, goal |-> "pending", handler |-> "raised"]

Init ==
    /\ file = [t \in Targets |-> 0]
    /\ disk = [r \in Runs |-> NoFiles]
    /\ act = [a \in Actors |-> Idle]
    /\ spent = [edits |-> 0, errors |-> 0, crashes |-> 0, reconciles |-> 0, raced |-> {}]

-----------------------------------------------------------------------------
(* Writes and exceptions. *)

At(a, pc) == act[a].pc = pc
Files(a) == disk[act[a].tx]
Become(a, rec) == act' = [act EXCEPT ![a] = rec]

\* A write is done, or it raises having changed nothing, or having changed the
\* disk (the rename took place and the directory fsync failed).
Outcomes == {"done"} \cup (IF spent.errors < MaxErrors THEN {"lost", "late"} ELSE {})
Took(o) == o # "lost"
Raised(o) == o # "done"
Tally(o) == spent' = IF Raised(o) THEN [spent EXCEPT !.errors = @ + 1] ELSE spent

Caught(a) == [act[a] EXCEPT !.pc = act[a].handler]
Step(a, pc) == [act[a] EXCEPT !.pc = pc]

\* Write the files of a's run; then go on, or be caught.
Write(a, files, then, caught) ==
    \E o \in Outcomes :
        /\ disk' = IF Took(o) THEN [disk EXCEPT ![act[a].tx] = files] ELSE disk
        /\ Become(a, IF Raised(o) THEN caught ELSE then)
        /\ Tally(o)
        /\ UNCHANGED file

TryWrite(a, files, then) == Write(a, files, then, then)

\* Steps that only look at the disk.
Look(a, rec) == Become(a, rec) /\ UNCHANGED <<file, disk, spent>>

\* persistence_run_lock: exclusive and non-blocking, held through these sections.
Unlocked == {"idle", "prepare", "commit", "discover", "list", "entry", "take",
             "markManifest", "markRegistry", "markUnlink", "returned", "raised",
             "gate", "settle", "settleUnlink", "generate", "drafting"}
Busy(a) == \E b \in Actors \ {a} : act[b].pc \notin Unlocked
Raise(a) == Look(a, [Step(a, "raised") EXCEPT !.handler = "raised"])
LockError(a, pc) == At(a, pc) /\ Busy(a) /\ Raise(a)

\* A locked section ends with the state it reports for its run.
Finish(a, state) ==
    [act[a] EXCEPT
        !.pc = IF act[a].site = "commit" THEN "returned" ELSE "entry",
        !.report[act[a].tx] = @ \cup {state},
        !.tx = IF act[a].site = "commit" THEN @ ELSE NoRun,
        !.k = 0, !.failed = FALSE, !.goal = "pending", !.handler = "raised"]

-----------------------------------------------------------------------------
(* prepare *)

\* Every target still holds what the run read (_verify_expected_before).
AsRead(a) == file = Files(a).before

Prepare(a) ==
    /\ At(a, "prepare") /\ ~Busy(a)
    /\ LET f == Files(a) IN
        IF /\ f.manifest = "new" /\ f.staging = "none" /\ "pending" \notin f.registry
           /\ AsRead(a)
        THEN Write(a, [f EXCEPT !.staging = "partial"], Step(a, "stage"), Caught(a))
        ELSE Raise(a)

Stage(a) ==
    /\ At(a, "stage")
    /\ Write(a, [Files(a) EXCEPT !.staging = "complete"], Step(a, "publishJournal"), Caught(a))

Journalled(f) == [f EXCEPT !.staging = "none", !.manifest = "prepared"]

PublishJournal(a) ==
    /\ At(a, "publishJournal")
    /\ Write(a, Journalled(Files(a)), Step(a, "registerPending"), Caught(a))

RegisterPending(a) ==
    /\ At(a, "registerPending")
    /\ Write(a, [Files(a) EXCEPT !.registry = @ \cup {"pending"}], Step(a, "returned"), Caught(a))

-----------------------------------------------------------------------------
(* commit *)

Commit(a) ==
    /\ At(a, "commit") /\ ~Busy(a)
    /\ IF Files(a).manifest = "prepared"
       THEN Look(a, [Step(a, "applying") EXCEPT !.handler = "commitFailed"])
       ELSE Raise(a)

\* verify_story_project_read_set, before the first target is applied.
SourcesAsRead(a) == \A t \in ReadSet : file[t] = Files(a).before[t]

Applying(a) ==
    /\ At(a, "applying")
    /\ IF SourcesAsRead(a)
       THEN Write(a, [Files(a) EXCEPT !.manifest = "applying"],
                  [Step(a, "check") EXCEPT !.k = 1], Caught(a))
       ELSE Look(a, Caught(a))

\* The compare half of the compare-and-swap; ApplyTarget is the swap.
CheckTarget(a) ==
    /\ At(a, "check") /\ act[a].k <= NumTargets
    /\ LET now == file[act[a].k] IN
        Look(a, IF now = act[a].tx THEN [act[a] EXCEPT !.k = @ + 1]
                ELSE IF now = Files(a).before[act[a].k] THEN Step(a, "replace")
                ELSE Caught(a))

ApplyTarget(a) ==
    /\ At(a, "replace")
    /\ \E o \in Outcomes :
        /\ file' = IF Took(o) THEN [file EXCEPT ![act[a].k] = act[a].tx] ELSE file
        /\ Become(a, IF Raised(o) THEN Caught(a)
                     ELSE [Step(a, "check") EXCEPT !.k = @ + 1])
        /\ Tally(o)
        /\ UNCHANGED disk

Applied(r) == \A t \in Targets : file[t] = r

VerifyApplied(a) ==
    /\ At(a, "check") /\ act[a].k > NumTargets
    /\ Look(a, IF Applied(act[a].tx) THEN Step(a, "marker") ELSE Caught(a))

WriteMarker(a) ==
    /\ At(a, "marker")
    /\ Write(a, [Files(a) EXCEPT !.marker = TRUE], Step(a, "marked"), Caught(a))

MarkCommitted(a) ==
    /\ At(a, "marked")
    /\ Write(a, [Files(a) EXCEPT !.manifest = "commit_marked"],
             [Step(a, "publish") EXCEPT !.handler = "publishFailed"], Caught(a))

\* The marker alone decides between rolling back and rolling forward.
CommitFailed(a) ==
    /\ At(a, "commitFailed")
    /\ Look(a, IF Files(a).marker THEN Step(a, "publishFailed")
               ELSE [Step(a, "rollback") EXCEPT !.handler = "raised"])

-----------------------------------------------------------------------------
(* Publication: after the marker, idempotent, never undone. *)

Publish(a) ==
    /\ At(a, "publish")
    /\ IF Applied(act[a].tx)
       THEN Write(a, [Files(a) EXCEPT !.manifest = "publishing"],
                  Step(a, "artifact"), Caught(a))
       ELSE Look(a, Caught(a))

\* Mutant: an artifact that exists is published again.
PublishArtifactAgain(a) ==
    /\ At(a, "artifact") /\ Files(a).published <= NumArtifacts
    /\ Write(a, [Files(a) EXCEPT !.published = @ + 1], Step(a, "artifact"), Caught(a))

PublishArtifact(a) ==
    /\ At(a, "artifact") /\ Files(a).published < NumArtifacts
    /\ Write(a, [Files(a) EXCEPT !.published = @ + 1], Step(a, "artifact"), Caught(a))

\* Mutant: the receipt does not wait for the artifacts.
WriteReceiptEarly(a) ==
    /\ At(a, "artifact")
    /\ Write(a, [Files(a) EXCEPT !.receipt = TRUE], Step(a, "complete"), Caught(a))

WriteReceipt(a) ==
    /\ At(a, "artifact") /\ Files(a).published = NumArtifacts
    /\ Write(a, [Files(a) EXCEPT !.receipt = TRUE], Step(a, "complete"), Caught(a))

Complete(a) ==
    /\ At(a, "complete")
    /\ Write(a, [Files(a) EXCEPT !.manifest = "completed"],
             [Step(a, "transition") EXCEPT !.goal = "completed"], Caught(a))

PublishFailed(a) ==
    /\ At(a, "publishFailed")
    /\ TryWrite(a, [Files(a) EXCEPT !.manifest = "commit_marked"], Finish(a, "commit_marked"))

\* _transition_registry: the terminal entry, then the pending one goes.
Transition(a) ==
    /\ At(a, "transition")
    /\ Write(a, [Files(a) EXCEPT !.registry = @ \cup {act[a].goal}], Step(a, "unlink"), Caught(a))

Unlink(a) ==
    /\ At(a, "unlink")
    /\ Write(a, [Files(a) EXCEPT !.registry = @ \ {"pending"}],
             Finish(a, act[a].goal), Caught(a))

-----------------------------------------------------------------------------
(* Rollback before the marker. *)

Rollback(a) ==
    /\ At(a, "rollback")
    /\ TryWrite(a, [Files(a) EXCEPT !.manifest = "rolling_back"],
                [Step(a, "undo") EXCEPT !.k = NumTargets])

\* Mutant: rollback restores whatever it finds changed.
UndoBlindly(a) ==
    /\ At(a, "undo") /\ act[a].k > 0
    /\ Look(a, IF file[act[a].k] # Files(a).before[act[a].k] THEN Step(a, "restore")
               ELSE [act[a] EXCEPT !.k = @ - 1])

\* In reverse order: a target still at its before image is left alone, one
\* that holds neither image is somebody else's and is not touched.
UndoCheck(a) ==
    /\ At(a, "undo") /\ act[a].k > 0
    /\ LET now == file[act[a].k] IN
        Look(a, IF now = act[a].tx THEN Step(a, "restore")
                ELSE [act[a] EXCEPT !.k = @ - 1,
                                    !.failed = @ \/ now # Files(a).before[act[a].k]])

Restore(a) ==
    /\ At(a, "restore")
    /\ \E o \in Outcomes :
        /\ file' = IF Took(o) THEN [file EXCEPT ![act[a].k] = Files(a).before[act[a].k]] ELSE file
        /\ Become(a, [Step(a, "undo") EXCEPT !.k = @ - 1, !.failed = @ \/ Raised(o)])
        /\ Tally(o)
        /\ UNCHANGED disk

\* Mutant: a rollback that could not restore a target is a rollback.
RolledBackAnyway(a) ==
    /\ At(a, "undo") /\ act[a].k = 0
    /\ Write(a, [Files(a) EXCEPT !.manifest = "rolled_back"],
             [Step(a, "transition") EXCEPT !.goal = "rolled_back"], Caught(a))

RolledBack(a) ==
    /\ At(a, "undo") /\ act[a].k = 0 /\ ~act[a].failed
    /\ Write(a, [Files(a) EXCEPT !.manifest = "rolled_back"],
             [Step(a, "transition") EXCEPT !.goal = "rolled_back"], Caught(a))

RollbackFailed(a) ==
    /\ At(a, "undo") /\ act[a].k = 0 /\ act[a].failed
    /\ TryWrite(a, [Files(a) EXCEPT !.manifest = "recovery_required"],
                [Step(a, "transition") EXCEPT !.goal = "recovery_required"])

-----------------------------------------------------------------------------
(* reconcile_pending_persistence_v2 *)

Discover(a) ==
    /\ At(a, "discover") /\ ~Busy(a)
    /\ Look(a, [Step(a, "discovering") EXCEPT
                   !.todo = {r \in Runs : disk[r].staging # "none"}, !.handler = "raised"])

\* A complete staged journal is published; what fails is quarantined.
DiscoverStaged(a) ==
    /\ At(a, "discovering")
    /\ \E r \in act[a].todo :
        LET found == [act[a] EXCEPT !.tx = r, !.todo = @ \ {r}] IN
        IF disk[r].staging = "complete"
        THEN \E o \in Outcomes :
            /\ disk' = IF Took(o) THEN [disk EXCEPT ![r] = Journalled(@)] ELSE disk
            /\ Become(a, IF Raised(o) THEN [found EXCEPT !.pc = "quarantine"]
                         ELSE [found EXCEPT !.tx = NoRun])
            /\ Tally(o)
            /\ UNCHANGED file
        ELSE Look(a, [found EXCEPT !.pc = "quarantine"])

\* A failed quarantine leaves the staging directory where it is; the run is
\* reported as an abandoned preparation either way.
Quarantine(a) ==
    /\ At(a, "quarantine")
    /\ TryWrite(a, [Files(a) EXCEPT !.staging = "none"],
                [Step(a, "discovering") EXCEPT
                    !.report[act[a].tx] = @ \cup {"rolled_back"}, !.tx = NoRun])

\* The power may have failed between the journal and its registry entry.
Unregistered == {r \in Runs : disk[r].manifest # "new" /\ disk[r].registry = {}}

RegisterDiscovered(a) ==
    /\ At(a, "discovering") /\ act[a].todo = {}
    /\ \E r \in Unregistered, o \in Outcomes :
        /\ disk' = IF Took(o) THEN [disk EXCEPT ![r].registry = {"pending"}] ELSE disk
        /\ Become(a, IF Raised(o) THEN Caught(a) ELSE act[a])
        /\ Tally(o)
        /\ UNCHANGED file

Discovered(a) ==
    /\ At(a, "discovering") /\ act[a].todo = {} /\ Unregistered = {}
    /\ Look(a, Step(a, "list"))

\* The pending entries are listed, and each is read, without the lock.
ListPending(a) ==
    /\ At(a, "list")
    /\ Look(a, [Step(a, "entry") EXCEPT !.todo = {r \in Runs : "pending" \in disk[r].registry}])

ReadEntry(a) ==
    /\ At(a, "entry")
    /\ \E r \in act[a].todo :
        Look(a, [Step(a, IF "pending" \in disk[r].registry THEN "take" ELSE "markManifest")
                 EXCEPT !.tx = r, !.todo = @ \ {r}, !.handler = "markManifest"])

Reconciled(a) ==
    /\ At(a, "entry") /\ act[a].todo = {}
    /\ Look(a, Step(a, "returned"))

\* Mutant: what is marked but not received is left to the operator.
TakeEntryGivesUp(a) ==
    /\ At(a, "take") /\ ~Busy(a)
    /\ LET f == Files(a) IN
        Look(a, IF f.receipt THEN Step(a, "complete")
                ELSE IF ~f.marker THEN Step(a, "rollback") ELSE Caught(a))

\* Under the lock the files decide: marker and receipt complete, a marker rolls
\* forward, neither rolls back.
TakeEntry(a) ==
    /\ At(a, "take") /\ ~Busy(a)
    /\ LET f == Files(a) IN
        Look(a, IF f.receipt THEN IF f.marker THEN Step(a, "complete") ELSE Caught(a)
                ELSE IF ~f.marker THEN Step(a, "rollback")
                ELSE IF Applied(act[a].tx)
                     THEN [Step(a, "publish") EXCEPT !.handler = "publishFailed"]
                ELSE Caught(a))

\* _mark_registry_recovery_required, which takes no lock.
MarkManifest(a) ==
    /\ At(a, "markManifest")
    /\ TryWrite(a, IF Files(a).manifest = "new" THEN Files(a)
                   ELSE [Files(a) EXCEPT !.manifest = "recovery_required"],
                Step(a, "markRegistry"))

MarkRegistry(a) ==
    /\ At(a, "markRegistry")
    /\ Write(a, [Files(a) EXCEPT !.registry = @ \cup {"recovery_required"}],
             Step(a, "markUnlink"), Finish(a, "recovery_required"))

MarkUnlink(a) ==
    /\ At(a, "markUnlink")
    /\ TryWrite(a, [Files(a) EXCEPT !.registry = @ \ {"pending"}],
                Finish(a, "recovery_required"))

-----------------------------------------------------------------------------
(* The environment, and the processes that call the sections above. *)

\* The runs whose process has compared target t and not yet swapped it.
Between(t) == {act[a].tx : a \in {b \in Actors : act[b].pc \in {"replace", "restore"}
                                                  /\ act[b].k = t}}

\* The author edits a target: at any moment, also between a check and its rename.
Edit(t) ==
    /\ spent.edits < MaxEdits
    /\ file' = [file EXCEPT ![t] = spent.edits + 1]
    /\ spent' = [spent EXCEPT !.edits = @ + 1,
                              !.raced = @ \cup (Between(t) \X {spent.edits + 1})]
    /\ UNCHANGED <<disk, act>>

Crash(a) ==
    /\ act[a] # Idle /\ spent.crashes < MaxCrashes
    /\ Become(a, Idle)
    /\ spent' = [spent EXCEPT !.crashes = @ + 1]
    /\ UNCHANGED <<file, disk>>

LockErrors(a) == \E pc \in {"prepare", "commit", "discover", "take"} : LockError(a, pc)

\* What the transaction itself does, whoever calls it.
Section(a) ==
    \/ LockErrors(a)
    \/ Prepare(a) \/ Stage(a) \/ PublishJournal(a) \/ RegisterPending(a)
    \/ Commit(a) \/ Applying(a) \/ CheckTarget(a) \/ ApplyTarget(a) \/ VerifyApplied(a)
    \/ WriteMarker(a) \/ MarkCommitted(a) \/ CommitFailed(a)
    \/ Publish(a) \/ PublishArtifact(a) \/ WriteReceipt(a) \/ Complete(a) \/ PublishFailed(a)
    \/ Transition(a) \/ Unlink(a)
    \/ Rollback(a) \/ UndoCheck(a) \/ Restore(a) \/ RolledBack(a) \/ RollbackFailed(a)
    \/ Discover(a) \/ DiscoverStaged(a) \/ Quarantine(a) \/ RegisterDiscovered(a)
    \/ Discovered(a) \/ ListPending(a) \/ ReadEntry(a) \/ Reconciled(a) \/ TakeEntry(a)
    \/ MarkManifest(a) \/ MarkRegistry(a) \/ MarkUnlink(a)

\* The run reads the books it will write on: its targets' expected_before.
Begin(a, pc) ==
    \E r \in Runs :
        /\ disk[r].before = <<>>
        /\ disk' = [disk EXCEPT ![r].before = file]
        /\ Become(a, [Step(a, pc) EXCEPT !.site = "prepare", !.tx = r])
        /\ UNCHANGED <<file, spent>>

\* A writer that nobody coordinates: prepare, then commit.
WriterStep(a) ==
    \/ At(a, "idle") /\ Begin(a, "prepare")
    \/ /\ At(a, "returned") /\ act[a].site = "prepare"
       /\ Look(a, [Step(a, "commit") EXCEPT !.site = "commit"])
    \/ At(a, "returned") /\ act[a].site = "commit" /\ Look(a, Idle)
    \/ At(a, "raised") /\ Look(a, Idle)

\* main.py --reconcile-persistence
ReconcilerStep(a) ==
    \/ /\ At(a, "idle") /\ spent.reconciles < MaxReconciles
       /\ Become(a, [Step(a, "discover") EXCEPT !.site = "reconcile"])
       /\ spent' = [spent EXCEPT !.reconciles = @ + 1]
       /\ UNCHANGED <<file, disk>>
    \/ At(a, "returned") /\ Look(a, Idle)
    \/ At(a, "raised") /\ Look(a, Idle)

Next ==
    \/ \E a \in Actors : Section(a) \/ Crash(a)
    \/ \E a \in Writers : WriterStep(a)
    \/ \E a \in Reconcilers : ReconcilerStep(a)
    \/ \E t \in Targets : Edit(t)

Spec == Init /\ [][Next]_vars

-----------------------------------------------------------------------------
(* Properties. *)

PCs == Unlocked \cup {"stage", "publishJournal", "registerPending", "applying", "check",
    "replace", "marker", "marked", "commitFailed", "publish", "artifact", "complete",
    "publishFailed", "transition", "unlink", "rollback", "undo", "restore",
    "discovering", "quarantine"}
Sites == {"idle", "prepare", "commit", "reconcile", "gate", "ready", "cleanup"}
Handlers == {"raised", "commitFailed", "publishFailed", "markManifest"}
Reports == {"completed", "rolled_back", "recovery_required", "commit_marked"}

FileRecords == [staging : {"none", "partial", "complete"}, manifest : ManifestStates,
                before : {<<>>} \cup [Targets -> Contents], marker : BOOLEAN,
                published : 0 .. NumArtifacts, receipt : BOOLEAN,
                registry : SUBSET RegistryStates]
ActRecords == [pc : PCs, site : Sites, tx : Runs \cup {NoRun}, todo : SUBSET Runs,
               report : [Runs -> SUBSET Reports], k : 0 .. NumTargets + 1,
               failed : BOOLEAN, goal : RegistryStates \cup {"abandoned"}, handler : Handlers]
Spendings == [edits : 0 .. MaxEdits, errors : 0 .. MaxErrors,
              crashes : 0 .. MaxCrashes, reconciles : 0 .. MaxReconciles,
              raced : SUBSET (Runs \X (1 .. MaxEdits))]

\* Every variable holds a value of its type.
TypeOK ==
    /\ file \in [Targets -> Contents]
    /\ disk \in [Runs -> FileRecords]
    /\ act \in [Actors -> ActRecords]
    /\ spent \in Spendings

\* "Only a validated Publication Receipt proves committed": whatever died or
\* raised on the way, a receipt stands on a marker and on every artifact, and
\* the registry says completed only of a run that has its receipt.
ReceiptProvesCommit ==
    \A r \in Runs :
        /\ disk[r].receipt => disk[r].marker /\ disk[r].published = NumArtifacts
        /\ disk[r].published > 0 => disk[r].marker
        /\ "completed" \in disk[r].registry => disk[r].receipt

\* A journal the registry does not know has not been committed, so that
\* discovery may hand it to rollback as pending.
UnknownIsPrepared ==
    \A r \in Unregistered : disk[r].manifest = "prepared" /\ ~disk[r].marker /\ r \notin {file[t] : t \in Targets}

\* Compare-and-swap (_assert_before_image, _rollback_pre_marker): a program
\* step changes a target only to the text of a run, or back to what the run
\* read, only while that run has no marker, and only from the other of the two:
\* unless an edit fell between that run's check of the target and its rename
\* (persistence_v2.py:478-479, 1657-1672), which the rename does not see.  Such an
\* edit is lost to that run only; at any later time it stops every recovery.
CompareAndSwap ==
    [][\A t \in Targets :
        file'[t] # file[t] =>
            \/ spent'.edits # spent.edits
            \/ \E r \in Runs :
                /\ disk[r].before # <<>> /\ ~disk[r].marker
                /\ \/ {file[t], file'[t]} = {r, disk[r].before[t]}
                   \/ file'[t] \in {r, disk[r].before[t]} /\ <<r, file[t]>> \in spent.raced]_vars

\* "An external edit is preserved": no program step overwrites an edit, unless
\* the run that does had read the edited text as its before image, or had
\* checked the target just before the edit and not swapped it yet.
EditsArePreserved ==
    [][\A t \in Targets :
        file[t] \in 1 .. MaxEdits /\ file'[t] # file[t] =>
            \/ spent'.edits # spent.edits
            \/ \E r \in Runs :
                \/ file'[t] = r /\ disk[r].before[t] = file[t]
                \/ <<r, file[t]>> \in spent.raced]_vars

\* LOCAL_COMMIT_TRANSITIONS of core/reliable_semantic_contracts.py.
ContractTransitions == [s \in ManifestStates |->
    CASE s = "new" -> {"prepared"}
      [] s = "prepared" -> {"applying", "rolling_back"}
      [] s = "applying" -> {"commit_marked", "rolling_back"}
      [] s = "commit_marked" -> {"publishing"}
      [] s = "publishing" -> {"completed", "recovery_required"}
      [] s = "rolling_back" -> {"rolled_back", "recovery_required"}
      [] s = "recovery_required" -> {"rolling_back", "publishing"}
      [] OTHER -> {}]

\* The manifest's state moves only along the contract's transitions.
FollowsContract ==
    [][\A r \in Runs : disk'[r].manifest # disk[r].manifest =>
           disk'[r].manifest \in ContractTransitions[disk[r].manifest]]_vars

\* The transaction implements its promise.
Fate == [r \in Runs |->
    IF disk[r].receipt THEN "published"
    ELSE IF disk[r].marker THEN "committed"
    ELSE IF "rolled_back" \in disk[r].registry THEN "aborted" ELSE "open"]
Promise == INSTANCE AtomicPublication
               WITH fate <- Fate, text <- {r \in Runs : \E t \in Targets : file[t] = r}
AtomicallyPublished == Promise!Spec
=============================================================================
