# A verification development for NovelAgent

NovelAgent writes a novel chapter by chapter. A run reads the books (a *story project* of
Markdown and JSON files that the author edits too), asks a language model for a chapter scene by
scene, validates and repairs it, and then writes the accepted text and the facts it implies back
into the books and into an event-sourced memory, publishes artifacts and a run record, and delivers
the chapter to other places, a Notion database among them. Autonomous sessions drive many chapters
in a row. Everything is plain files on one machine; what is concurrent is processes (runs,
operators' commands, delivery workers, sessions) and the author's editor, and what fails is
processes, disks, the network and the model, whose answers may be anything.

Whether a text is good is out of a model checker's reach. This development is about what decides
whether an author loses work, pays twice, or publishes what was never judged: the durable state
machines, and the bookkeeping that ties texts to verdicts, evidence and facts.

Paths below are relative to the repository root; `src/` stands before them in `PROJECT.json`.

## 1. Inventory

| component | state it keeps | operations | who it talks to | what is hard |
|---|---|---|---|---|
| **Local transaction** `core/engine/persistence_v2.py`, `recovery_protocol.py` | per run: staging, a journal with a manifest, commit marker, artifacts, receipt; a registry directory per state | prepare, commit, complete publication, roll back, discover, reconcile, mark | the target files, which authors edit; `persistence_run_lock` | crash between any two writes; a write that took effect and raised; check-then-rename; reads outside the lock |
| **Authority barrier** `core/story_project/authority_persistence.py` | one writer lock and one registry of unsettled runs per story project | enter (reconcile all), register and prepare, commit and settle | executor, local transactions, dependency fence | two registries that must agree; an operator's command that knows only the local one |
| **Delivery queue** `core/delivery.py` | a job file with its lease, receipts per attempt | enqueue, attempt, reconcile, resolve | Notion; other workers | a POST whose outcome nobody knows; leases that expire under a slow worker |
| **Delivery intents** `core/delivery_intents.py`, `core/engine/delivery_intent_recovery.py` | an intent bound to a receipt | publish, scan, preflight, enqueue | local transaction, delivery queue | crash between the commit and the enqueue |
| **Persistence V1** `core/engine/persistence.py` | a journal and manifest per run | prepare, commit, roll back, reconcile, record | the executor's legacy path | as for V2, without a receipt; source drift |
| **Run loop** `core/engine/executor.py`, `run_record.py` | one run: text, verdict, reports, review, plan | direct, generate, polish, validate, repair, review, decide, record | everything | which verdict belongs to which text |
| **Root registry and relocation** `core/engine/root_registry.py`, `project_root_remap.py` | identities and places of the roots, a relocation journal | ensure, relocate, recover | every path reference | moving a project with transactions pending |
| **Memory V2.1** `core/memory_v2/event_store.py`, `compile.py`, `reducer.py` | batches of events, a cache | compile, append, replay | the source memory file | no lock; a shared temporary file |
| **Memory V2.2** `core/memory_v2/runtime.py`, `recovery.py` | events, checkpoint, three caches, the identity that pins the head | commit a chapter, rebuild caches | transaction, barrier | six files that must agree |
| **History revision** `core/memory_v2/history_revision.py` | revisions in the event log, their invalidations | declare, execute, recover | barrier, outlines, sessions | revising what was built upon |
| **Event-authority migration** `core/story_project/migration_v2.py`, `migration_execution.py`, `authority.py` | plans, approvals, receipts, identity | plan, approve, execute, activate | Persistence V2, chapters | days between plan and execution |
| **Snapshot migrations** `core/state/*_migration.py` | receipts, backups, the snapshot | pin, migrate, roll back | state lock, barrier | two locks over one file |
| **Authoritative state** `core/state/authoritative.py`, `roster.py` | ledgers of facts | gate, apply, baseline | reducer, prose | a gate and a commit that must agree |
| **Views and drafting** `core/state/generation_state_view.py`, `modules/chapter_generator/pipeline.py` | the state between scenes | plan, draft, judge, retry, continue | the model | what is judged was not all shown |
| **Scene evidence** `core/quality/scene_evidence.py`, `modules/scene_repair/` | ranges and drafts of the scenes of a text | polish, repair, review, canonicalize, gate | run loop | every rewriting moves the ranges |
| **StoryProject sources** `core/story_project/semantic_parser.py`, `managed_block.py`, `writer.py` | the author's rows, managed blocks, tombstones | parse, write, import | author, memory | two writers of one fact |
| **Model calls** `core/model_call_runtime.py`, `api/` | intents, responses, receipts, budgets | reserve, call, record, replay, resolve | the provider | call in doubt after a crash; a budget rebuilt from files |
| **Autonomous sessions** `core/autonomy/` | lease chain, session events, operation journal, stage receipts, ledger, arc | open, renew, take over, execute, resume, cancel, abandon, complete | run loop, author | lease takeover; replays of stages over edits |
| **Locked chapters** `core/engine/locked_chapter.py` | recovery markers | recover, reset, hand in a draft | run loop | what of several failed runs still counts |
| **Heuristics, prompts, exports, CLI** | none that is read back | sequential computation | | texts |

What makes each correct:

- *Local transaction*: a run's text is applied whole or not at all; only text a run wrote is
  replaced or taken back; a receipt exists only over a marker and all artifacts; from any crash
  somebody finishes or undoes the run.
- *Barrier*: no run starts from, or writes on, books that an unsettled run has half written; what
  is settled is true; everything is settled in the end.
- *Delivery and intents*: every published run gets its job before the next chapter; a lost answer
  never becomes a second page or a false success; no job stays under way for ever.
- *Memory, history, migrations*: what the files say is the committed history, over crashes, lost
  caches, concurrent commands and revisions; nothing is generated from history that a revision has
  invalidated.
- *Facts, sources, views*: the facts stay consistent and change for a stated reason, the author's
  word stands, an answer true to the prompt can be accepted.
- *Run loop, evidence*: what is published was judged, with the review and evidence of that text;
  a run ends and keeps the best it had.
- *Model calls, sessions, locked chapters*: a call is not paid twice, a budget not overspent, one
  session writes a chapter, an interrupted command is settled, progress is neither lost nor
  resurrected.

The hazards, each at its line with the properties that look at it, are in `PROJECT.json`, and so is
the status of each component.

## 2. Modules

| module | what it models |
|---|---|
| `AtomicPublication` | the promise of a local transaction, abstractly |
| `PersistenceV2` | the local transaction, write by write; `AtomicallyPublished` says it implements `AtomicPublication` |
| `AuthorityBarrier` | EXTENDS `PersistenceV2`: the chapter runs around it, the global registry and the operator |
| `PersistenceV1` | the legacy transaction, the chapter run that commits through it, its loop and its reconcile command |
| `DeliveryIntents` | from a published run to its job |
| `DeliveryQueue` | one Notion job, its workers and the database |
| `ProjectRelocation` | root registries and the relocation of a project |
| `MemoryCompile`, `MemoryReducer` | the V2.1 event store beside concurrent compiles; patches, their events and their replay |
| `MemoryCaches` | the V2.2 events, their caches and the identity that pins them |
| `HistoryRevision` | revisions of published history beside chapters, outlines and sessions |
| `EventMigration` | the change of a book to event authority |
| `BaselineMigration` | the migrations that add rosters and records to a snapshot |
| `AuthoritativeState` | what chapters state: ledgers, gate, application |
| `StorySources` | the author's files, the managed blocks, what is read of both |
| `GenerationView` | operators: what a prompt may know |
| `SceneDrafting` | EXTENDS `GenerationView`: drafting and judging scene by scene |
| `SceneEvidence` | the ranges and drafts of scenes through every rewriting |
| `ChapterRun` | one run of a chapter, from the Director to the record |
| `LockedChapter` | a chapter over failed runs, recoveries and resets |
| `AutonomySession` | leases, session events, the operation journal, stage fences, the runner |
| `ChapterStages` | the stages of a session's chapters over runs that stop anywhere |
| `ModelCallRuntime` | model calls, retries and the run budget |
| `*Proofs` | theorems about `DeliveryQueue`, `DeliveryIntents`, `PersistenceV2`, `AuthorityBarrier`, `ProjectRelocation`, `HistoryRevision`, `EventMigration`, `MemoryCaches`, `ChapterRun`, `LockedChapter`, `AutonomySession`, `ChapterStages` and `ModelCallRuntime` |
| `MC...` | the suites of section 3 |

Everywhere: a hash is what it is taken of, so equal hashes are equal contents; files are written by
the program and, where said, by the author or an operator, and are never forged; a text is a number
or a model value; time is a timer that counts down. Steps are as fine as the durable writes, or as
the points between which another process, the author or a crash can come in.

### 2.1 PersistenceV2

*State.* `file` is the content of each apply target: 0 for what the books start with, a positive
number for each of the author's edits, a run id for the text that run writes (one content per run
is enough, the code compares hashes of whole files). `disk[r]` is all that the transaction root
holds of run r: the staging directory (none, partial, complete), the manifest's state, the before
images, the marker, how many artifacts are published, the receipt, and the set of registry
directories that have an entry for it. `act[a]` is a process: where it is (`pc`), on whose behalf
(`site`), the run it works on, and what it remembers between steps (loop index, failures so far,
listed entries, reports). `spent` counts edits, failed writes, crashes and reconciliations.

*Steps.* One action per durable write, and one per check whose result is used by a later write,
because the author, a crash or an unlocked reader can come in between. `Write` gives every write
three outcomes: done; raised with nothing changed; raised *after* it took effect, which is what
`_atomic_replace_from_bytes` and `_atomic_create_from_bytes` do when the rename or link took place
and the directory fsync fails. An exception goes to `handler`, the except clause the code is in:
out of prepare (`raised`), `commitFailed`, `publishFailed`, or `markManifest` for an entry being
reconciled. Best-effort writes (`TryWrite`) swallow the exception, as the code does.

*Lock.* `persistence_run_lock` is non-blocking: a section either takes it or raises. `Unlocked`
lists where a process does not hold it; `Busy` is that somebody is anywhere else. A crash releases
it. The listing and reading of pending entries and `_mark_registry_recovery_required` are outside
the lock in the code, and here.

*Author.* `Edit` changes any target at any moment. When it falls between a process's hash check and
the rename the check was made for, `spent.raced` keeps which run and which edit: the swap does not
see it, and the properties say what follows for that run and that nothing follows for another.

*Abstractions.* Manifests, markers and receipts are never forged, so their validation always
succeeds and is left out. Writes that leave no trace another step reads (progress fields in the
manifest, the failure receipt) are merged with their neighbours: a failure in them has the
outcomes of the neighbour's failure. Two writes of different sorts are never merged. `Stage`
stands for all the files of a staging directory, whose validity is only whether they are all there.
Published artifacts have paths nobody else writes. Sources that are in the read set but are no
targets are left out: an edit of one can only make `Applying` fail, as an edit of a target in the
read set does. A run's before images are read together when it begins; the code reads some of them
later, still before prepare, which compares them all again.

### 2.2 AuthorityBarrier

`global[r]` is the set of barrier registry directories with an entry for r; `gate` is the pass over
the unsettled entries that `event_authority_write_operation` makes before it yields. A writer is
idle, at the gate, being reconciled on behalf of an entry (it then runs the same sections of
`PersistenceV2` as an operator does), making the coordinator's `assert_ready`, generating, and then
registering, preparing and committing. `LocalState` is the state of an entry's run as
`_reconcile_entry_locked` sees it: the first report about the run, or else the manifest. The
operator's `--reconcile-persistence` is a `Reconcilers` process: it takes the local lock only,
because `_reconcile_authority_persistence` in `main.py` calls `reconcile_pending_persistence_v2`
directly.

### 2.3 PersistenceV1

`file` and `source` are what a run rewrites and what it was generated from, `disk[r]` the manifest
with its state, `marker` the commit markers, `records` the run records, `outbox` the delivery to
memory, `lock` the run-directory lock, `proc` a loop of runs or a reconcile command. Every file
operation may fail before or after its effect, the directory fsync behind the marker included. The
drift check (`read_set.py`) runs before each target and before the marker, and the rollback restores
only what still is the run's text. The checks are steps of their own (`CheckReplace`, `CheckAll`,
`CheckRestore`, `VerifyRestored`), so an edit can fall between one and the write behind it; `raced`
keeps it, as in `PersistenceV2`.

### 2.4 DeliveryIntents and DeliveryQueue

In `DeliveryIntents` a run is `prepared`, `completed` or `rolled_back`, may owe a job, and publishes
an intent with its receipt. A process scans for completed runs whose job is missing, preflights all
of them before it enqueues any, and only then may run. Artifacts and job files may be damaged.

In `DeliveryQueue`: one job, since jobs share nothing but the directory; several workers. `job` is
the job file with its lease, `receipts` the attempt receipts, `worker` what each process remembers
of its attempt, `flight` the requests under way, `pages` what the database holds and `authors` whose
pages they are. One create call may send several requests (`sends`, at most `MaxSends`): after any
exception but an HTTP status the transport sends the same one to the next address of the host. A
request may land after the worker has given up on it, or never; a query may be answered before it
lands. Time is
`Tick`: leases and quarantine count down. Failures are chosen from `FaultKinds` and counted. Workers
may be slow for any time between two steps, which is what makes expiry interesting; a worker that
dies is one that never takes its next step.

### 2.5 ProjectRelocation

Up to four registries of one project, each `[at, rev, armed]`; `held` is the pending work of each
control plane and the revision it names; `txns` the relocation journal. The tree is renamed whole.
Relocation rebinds registry by registry, the main one last, forward only. Writers and the relocation
exclude each other by the dependency fence; a rename is excluded by nothing. `trespass`, which no
step changes, says whether somebody works at a path the project has not been relocated to. Left out: the remap
of one registry alone, V1 journals, sessions.

### 2.6 Memory: MemoryCompile, MemoryReducer, MemoryCaches

`MemoryCompile` has no lock because the command takes none: processes read the source twice (its
digest names the patch, the second reading is the patch's body), load, replay, append with an
exclusive create, and write the cache through one temporary file they share; the author edits the
source at any time. `MemoryReducer` keeps one collection of each shape the reducers know, with a
field of a record and one of an object in it; `Apply` chooses any patch, on records and objects that
are not there too. `MemoryCaches` keeps each
file of the authority as the history it was made from: a run's transaction replaces the six
`Targets` in their order by compare-and-swap, a preflight rebuilds caches without the fence, `Lose`
removes a cache at any time.

### 2.7 HistoryRevision, EventMigration, BaselineMigration

`HistoryRevision`: `log` is the event log by chapter and revision, each with what it invalidates;
outlines remember the head they were made at; `draft` is an outline made and not stored yet, which
is the interleaving `StoreOutline` has to survive; a revision goes `begun`, `preparing`, `applying`,
`checking`, `marking`, `completing`, and `Recover` continues or undoes from the transaction alone. With
two transaction ids a later revision is laid over an earlier one.
`EventMigration`: sources, identity, event store, activation receipts, plans, approvals; one
migrating process with its V2 transaction, one process that activates directly, one that generates
chapters. Three times the sources are compared: under the lock, before the first target and before
the marker; the author edits at any time, and `mig.seen` counts his edits up to the last comparison.
`BaselineMigration`: `rosters` are written into the snapshot under the lock of the state file, `context`
records by a V2 transaction, and chapters go on beside both. `mode` is the authority of the book. A
legacy chapter keeps what the snapshot has, holds the lock of the state file while it is drafted and
commits through a `journal` of the first version, which the barrier does not see; an event_v1 chapter
makes its snapshot from the memory, which knows of neither rosters nor records, commits by a V2
transaction, and the context migration refuses such a book.

### 2.8 AuthoritativeState, StorySources

A delta is what a chapter states: events, changes and the numbers its prose says. `Chapter(d)` is
the quality gate against the snapshot and then the application to the canonical memory, both in
full; a refused delta may be submitted again. `Migrate(d)` is a baseline. The tier of a source (1 a
standard, 2 a chapter's events, 3 an inference) decides who may change a fact. Abstracted: normal forms of names, all free-text fields but one,
aliases of rosters, and how numbers are found in prose.

In `StorySources` a row is `[form, path, value]` in a tracking or setting file; `blocks` are the
managed blocks with their tombstones; `Chapter` is a strict run's gate, its writes into all blocks
and what is read back; `Import` the baseline a migration makes from settings and decisions.

### 2.9 GenerationView, SceneDrafting, SceneEvidence

`GenerationView` has no variables: `View`, `Overlaid`, the prompt's sections and the start of the
first scene, as functions of a ledger and a read set. `SceneDrafting` drafts: `Draft` lets the model
answer with any events and moves from small sets, judges the answer against the full state, retries
once, and saves; `Again` continues the saved scenes under another plan and ledger.

`SceneEvidence` keeps the text as a sequence of characters because ranges count them. `Polish`,
`Repair`, `ReviewRepair`, `Canonicalize` are patches; `Judge` reports problems of the text; `Gate` is
the final comparison of text and evidence. Whether a run converges is in `ChapterRun`.

### 2.10 ChapterRun, LockedChapter

`ChapterRun`: texts are numbers, a verdict is a set of problems with its text, `best` what the loop
would fall back on, `reports` the integrity reports, `review` the review with its text. The actions
are those of the Director's workflow in any order it may name, the repair loop (`Repair`,
`Revalidate`, `NotConverging`), the review's loop, and `Finish`, which decides and records. A run may
begin with the draft of a recovery, which it keeps where it would have generated (`DraftKept`).

`LockedChapter`: `runs` are what the run records, executions and receipts of a chapter's runs hold:
calls, scenes held, text, status. `Recover(mode)` classifies them and appends a marker; the next
`Start` takes the scenes or the draft of the `Checkpoint`, the marker in force. Runs fail at a call, misfit the outline, or are
killed without a record.

### 2.11 AutonomySession, ChapterStages

`AutonomySession`: `history` is the append-only lease chain and `current` its pointer, `events` each
session's chain, `ops` the journal of operations with intent, marker and result, `stages` the stage
receipts with the lease generations they were fenced by, `ledger` the completions. A command first
recovers what is pending, under the fence; then it writes intent, lease, marker, event, index and
result, and may stop after any. An execute or resume that finds a chapter an earlier run published
and did not record appends its receipt and then waits for the fence it holds itself: it raises, and
its operation is rolled back (`Boundary`). The runner's loop, which holds no fence, records such
chapters (`Drive`), asks for the status of the arc, and retries deliveries (`Retry`). `ChapterStages` is one session's chapters without the leases: files
that the author edits, outline checkpoint (staged, marked, recorded), stage outputs and receipts,
publication, completion, and the targets of the arc into which what a chapter left open is carried.
`Replay` takes an earlier run's answer, `Execute` asks for one. The integrity report of a text
(`Flawed`) is merged into the validation after the validator's receipt, so that a repair may follow
a receipt that accepts; `Gate` stands for the review and the final gates, which may refuse any
chapter; the published body is `Canonical` of the text that was judged.

### 2.12 ModelCallRuntime

`intents`, `response`, `receipt`, `usage` are the files of each attempt; `proc` a process with its
tracker, which a new process rebuilds by `Hydrated` in the order of file names; `sent` and `accepted`
what really reached the provider. `Resolve` is the operator's statement about a call in doubt.

## 3. Runs

Modules that are about the same concern share a run. Its MC module has a variable `part`, chosen
once in the initial state: a behaviour exercises one part, with the constants given for it, and the
other parts' variables stay as they are. So the run is the union of its parts, not their product; a
property speaks of the parts it is about. A suite EXTENDS the modules theorems are about, so that it
checks the very definitions that are proved, and INSTANCEs the others, and a second part of the same
module with other constants.

| run | parts | distinct states |
|---|---|---|
| `delivery` | `queue`: 2 workers, 3 attempts, 2 requests for each create call, 2 failures of any kind, lease 1 tick, quarantine 2; `intents`: 2 runs, 2 processes, 2 crashes, 1 damaged file | 530,122 |
| `books` | `local`: 2 runs, 2 writers, 1 operator, 2 targets (one in the read set), 1 artifact; 1 edit, 1 failing write, 1 crash, 1 reconciliation; `barrier`: the same behind the barrier, without the edit | 1,480,574 |
| `settling` | `barrier`: 2 runs, 2 crashes; `legacy`: 2 runs of 2 targets, 2 edits, 1 failure, 1 crash; `moved`: 3 places, 3 renames, 2 crashes; `disturbed`: 2 places, writers and renames before the relocation is complete | 169,130 |
| `history` | `revision`: 3 chapters, 2 published, 1 transaction id, log of 4, 1 edit, 2 crashes; `revisions`: the same with 2 transaction ids, each declared once, log of 5, 1 crash, no outline or edit; `migration`: 2 chapters, 2 decisions, 1 plan, 1 edit, 1 crash, 1 chapter; `baseline`: a legacy or an event_v1 book, 2 chapters, 2 manifests, 1 edit, 2 crashes | 546,053 |
| `memory` | `compile`: 2 compilers, 2 contents, 2 edits, 1 kill; `killed`: 1 compiler, 3 contents, 3 edits, 3 kills; `reduce`: one operation of each kind, and pairs of them, over 2 records; `caches`: 2 runs, 2 chapters, 2 crashes, 1 lost cache; `preflight`: 1 run and 1 preflight, 1 crash, 1 lost cache; `people`, `numbers`: deltas of one or two changes of every ledger | 293,626 |
| `chapters` | `run`: 3 problems, 6 workflows, 2 repairs, 3 texts; `reviewed`: 2 problems, 3 gates, 1 review repair; `resets`, `misfits`, `outlines`, `events`: 2 or 3 runs of a chapter; `drafting`, `moving`: 2 people, 2 places, 2 scenes, 2 runs; `sources`: 7 files, 3 rows, 2 edits, 2 chapters | 684,277 |
| `sessions` | 2 sessions and 2 processes each: `takeover`: 2 stages, 6 lease generations; `chapters`: 2 chapters, 3 operations, 1 crash; `commands`: every command, 2 operations, 1 crash, an edit; `replays`, `carrying`: 1 or 2 chapters, 2 or 3 runs, edits; `scenes`: 1 or 2 scenes of 1 or 2 characters, 2 rewritings, 2 repairs | 1,091,234 |
| `calls` | `once`: 2 processes, 3 calls, 2 attempts, 1 restart; `budget`: 1 process, 4 calls whose file names sort in another order, 3 usages, 2 restarts | 684,264 |
| `barrier_lost_publication`, `autonomy_recovery`, `caches_race`, `locked_events` | one sentence each of the repository that the code does not keep (violations) | small |

### What the passing runs show

`delivery`
- `TypeOK`: in particular that a delivering job, and no other, holds a lease.
- `PostsNeedReopening`: a POST after the first one needs a step of its own that took the job out of
  `uncertain`.
- `PagesOfOneAttempt`: all pages are from one attempt, and no more than the requests it sent, with a
  quarantine longer than a create call can take effect, unless an attempt in doubt was retried. One
  attempt may make several pages: the transport sends its request again (below).
- `JobsInOrder`: no chapter is begun while a published one waits for a job that was never
  made, and no job exists for an unpublished one.
- `ReconcileSettles`: a job does not stay pending, failed or leased.

`books`
- `ReceiptProvesCommit`: whatever died or raised, a receipt stands on a marker and all artifacts,
  and `completed` in the registry stands on a receipt.
- `BarrierIsTruthful`: the global registry never says `completed` without a receipt, nor
  `rolled_back` or `abandoned` of a run with a marker or with text left in the books
  (`SettledTruthfully`); at most one run is unsettled (`OneUnsettled`); a journal without any entry
  was never committed (`UnknownIsPrepared`); what a run reads is published text, and one version of
  it (`GeneratesFromWholeBooks`).
- `CompareAndSwap`: every program step that changes a target swaps one run's before image for its
  text or back, and only before that run's marker; but for an edit that falls between that run's own
  check and its rename, which it overwrites. No other check or rename of anybody overwrites an edit.
- `AtomicallyPublished`: the refinement of `AtomicPublication`. A run is decided once; when it is
  aborted none of its text is in the books and none comes back; only a committed run is published.

`settling`
- `AllSettle`, `MarkedCompletes`: under fair chapter runs, every registered run is settled and every
  marked one completed.
- `LegacyJournalHolds`: no legacy run commits what it generated from sources that have changed; what
  is settled is all or nothing, built on committed text, truly recorded, and keeps edits; but for
  edits between a check and the write behind it, and also where the marker's own fsync raises.
- `RebindsTogether`: no registry is rebound under a pending transaction that names it; a relocation
  that reports completion has rebound all, the main one last; and between relocations they are bound
  to one path, unless somebody trespasses. `CalmlyRelocated`: however often
  the tree is renamed and the relocation killed, the registries end where the tree is.

`history`
- `RevisionsHold`: chapters are generated, and outlines kept, only from history that no unreconciled
  revision has invalidated, a later revision that invalidates less included; a revision commits what
  was declared and answers so. `MarkedCommits`: a
  marked revision reaches the log, and nothing else becomes of it.
- `OneAuthority`: identity, event store and receipts agree, or an intent is left that completes them.
  `MigrationKeeps`: what was reported completed or switched on stays so, and the sources are as frozen
  when the marker is written, but for what the author wrote after the last look at them.
- `BaselinesHold`: what a migration gave a receipt for stays in the snapshot of a legacy book, no
  chapter is ever dropped from one, and what a kill leaves is settled, except where rosters or records
  were written over a transaction or a journal. In an event_v1 book the next chapter drops the rosters.

`memory`
- `CompiledIsStored`: a reported compile can be replayed from the store, unless two compilers wrote
  one revision or one was killed inside a batch; a compile that met no other leaves a whole store and
  the cache it replays to; and but for such a fork there is one history, over kills and retries.
- `EventsAreTheHistory`: a patch's events reproduce the memory it made and replay on no other one. A
  patch that sets a field of a record or an object which it has to make first is the one exception:
  its events never replay, and no patch's events replay to another memory.
- `AuthorityHolds`: with no transaction pending, events and identity are the committed chapters, each
  once and in order. `CachesSettle`: transactions settle and
  lost caches are rebuilt, unless a cache was lost to a pending transaction or rebuilt under it, which
  alone can hold it up; a marker adds one chapter.
- `FactsHold`: one name, one pair, one count each; a retry changes nothing more; memory follows the
  snapshot; a refusal has one of the listed reasons; sources never get weaker and counters and
  rosters change for a reason.

`chapters`
- `BestIsKept`: a run that ends keeps its best text with the fewest problems any verdict counted.
  `PublishedAsJudged`: what is published was judged together with its review, carries no forgotten
  finding and passes the gate.
- `RecoveriesKeep`: a recovery keeps exactly the scenes its source run had. `NeverResurrected`: what
  was before a reset is used by no later checkpoint and no later run.
- `DraftsHold`: moves chain from the ledger to the end of the last scene, over continued runs; every
  event of the plan is told once, in its scene; an answer true to the prompt is accepted, but for
  the listed exceptions; reported places are facts to nobody; no prompt gives two places before a
  move; scenes know what was told.
- `SourcesHold`: the author's word is what is read, a contradiction stops the chapter, the retired
  stays retired, an import is true to the files.

`sessions`
- `OneWriterPerChapter`: the stage receipts of one chapter are fenced by leases between which no
  other session held the book. `ChaptersAsPlanned`: the k-th chapter a session publishes is the k-th of
  its plan, its ledger is at most one behind, also where a command recorded the chapter and was rolled
  back, and a completed session has published and delivered all it was asked for.
- `JournalHolds`: operations are serial, what can be settled is, an ended session keeps no lease.
  `SessionsRecover`: whatever a crash left, opening the store settles it, with one process at work.
- `StagesHold`: receipts tell which answers on which sources made the text that the chapter is the
  canonical form of, whichever run made them, and that every text but the last was refused by its
  validator or the integrity gate; nothing recorded is rewritten; results are carried once.
- `EvidenceHolds`: ranges cut the very text into its scenes, no scene gets another's words, a repair
  asks for what was found of that text, the gate finds stale only what is.

`calls`
- `AnsweredOnce`: a logical call reaches the provider at most once and has one durable answer.
- `BudgetKept`: over restarts no more is spent than the limit, the granted deficits, what the
  provider took beyond a reservation, and for each restart what one call left of its reservation.
- `CallsEnd`: a process in an operation ends it, and nothing is sent behind a call in doubt.

### What the violation runs show

1. `barrier_lost_publication` (code bug). The fsync after the unlink of the pending entry raises.
   The handler puts the completed manifest back to `commit_marked`; with no pending entry left
   nothing looks at the run again, and the barrier blocks the book although its receipt is valid.
2. `autonomy_recovery` (code bug). A cancel stops before its marker while the session's runner
   renews the lease: the operation can be rolled neither back nor forward, and every command of the
   book raises.
3. `caches_race` (code bug). A preflight rebuilds a cache, without the fence, from the history it
   validated before a run's transaction: after that run's marker the cache has the old content, and
   the transaction can never be published.
4. `locked_events` (code bug). A run drops a checkpoint scene whose events are not the outline's and
   pays for it again; the recovery keeps the old one and drops what was paid for, each time.

### Other places where code and words part

Met while modelling and not run as violations. A name in brackets is a definition kept in the module
with its comment; it is false of the model.

| where | what |
|---|---|
| `DeliveryQueue` (`NoAutomaticRepost`) | an expired query-only lease, and a query-only attempt that fails before its query, lead back to an automatic POST of a job in doubt |
| `DeliveryQueue` (`ConfirmAfterQuarantine`) | the quarantine of a second POST in doubt is measured from the first |
| `DeliveryQueue` (`OnePostOnePage`) | a create call whose request times out sends it again to each address of the host (`api/notion_client.py:145`), and all may become pages, where `docs/durable-delivery-queue.md:56` says that an attempt performs one POST |
| `PersistenceV2`, `PersistenceV1` | an edit between a hash check and its rename is overwritten; it is the only one that is (section 4) |
| `PersistenceV2` (`FollowsContract`) | `LOCAL_COMMIT_TRANSITIONS` lacks `applying -> publishing` and three others |
| `AuthorityBarrier` (`BusyIsNotCorruption`) | an operator lists a live run, which completes; the failing load then marks it `recovery_required`, though the comment at `persistence_v2.py:1289` says that busy must not mutate |
| `MemoryCaches` (`TxSettles`) | a cache lost while a transaction is pending makes it unrecoverable (`persistence_v2.py:1609`), though caches are said to be recoverable |
| `MemoryCompile` (`Rebuildable`) | two compilers of different contents append the same revision, and the store cannot be read any more (`event_store.py:1020`) |
| `MemoryReducer` (`MakesItsPlace`) | a patch may set a field of a character, or of an object in one, that the memory does not have (`reducer.py:654`); its events name only the field and never replay (`:866`). A chapter with such a patch is refused at its commit |
| `EventMigration` | an edit between the last source check and the marker is missed; `activation.py:165` may rewrite the identity under a pending migration (`Strict`, `Registered`) |
| `EventMigration` | `--reconcile-persistence` fails closed beside a receipt with a legacy identity |
| `HistoryRevision` (`ReconciledInFull`) | reconciling a revision of chapter 1 is possible through a later chapter's revision |
| `BaselineMigration` | the rosters of an event_v1 book are gone with its next chapter, receipt or not; rosters written beside an unsettled transaction leave it `recovery_required`; a roster migration cannot be repeated after the book went on |
| `AuthoritativeState` | gate and memory disagree on a roster begun by an event with unnamed members (`roster.py:366`) and on a counter bound its value breaks (`authoritative.py:1614`): such a chapter is never committed |
| `StorySources` | managed positions are never read back, and all managed spatial state is dropped where the author typed no position; a manual person is filed by digest and a managed one by name, so neither overrides the other; of two setting files with one heading the later wins |
| `SceneDrafting` | `# Spatial State` (`input_pack.py:83`) keeps the positions of the chapter's start; a boundary is judged against state the prompt held back; a plan with one event id in two scenes can never be drafted |
| `SceneEvidence` | an answer of the wrong shape becomes the chapter through the full-text fallback, against `docs/runtime.md:239`; the review's repair plan never has the shape `repairer.py:78` demands, so only an injected repairer works; a repair across a scene border always fails the run |
| `ChapterRun` (`StopsWhenStuck`) | a repair that returns the text it was given leaves no transition (`executor.py:1994`), and the loop repairs again where `docs/runtime.md:122` says that it stops |
| `LockedChapter` (`Unlocks`) | a killed execution has no run record, recovery refuses it, and every later run is refused (`docs/runtime.md:296`) |
| `LockedChapter` (`PrefersTransform`, `ManualStaged`) | recovery looks for scenes before it looks for a polished answer (`README.md:128`), and for an older checkpoint before the operator's draft (`docs/runtime.md:290`) |
| `AutonomySession` (`OneWritingSession`) | the commit of a chapter does not look at the lease: a session whose lease expired after its last stage publishes while another holds the book (`docs/reliability-autonomy-upgrade-plan.md:238`) |
| `ChapterStages` | a crash between an outline's staging and its marker, or an outline or context file edited and restored at the wrong time, makes every later run of the session raise; an uncertain stage ends its chapter for ever |
| `PersistenceV1` (`MarkerAuthoritative`, `MarkedIsCompleted`) | a marker whose directory fsync raises is rolled back |
| `AutonomySession` (`ExecutionResumes`) | an execute or resume that finds a published chapter to record appends its receipt, waits for its own fence and raises (`runner.py:602`); the next one goes on, where `docs/reliability-autonomy-upgrade-plan.md:241` says that executing the plan again resumes it |
| `PersistenceV1` (`ClaimsOwn`) | a step that fails while it waits for the lock reports another process's run as its own (`docs/architecture.md:143`) |
| `MemoryCaches` (`LoopKeepsUp`) | the second step of a loop still has the identity read before the first and stops (`docs/runtime.md:153`) |
| `ModelCallRuntime` (`WithinLimitUnrepaired`; `OnlyRepairsGrow` of `MCCalls`, with `Repairs = {}`) | a restart rebuilds the budget in the order of file names and grants itself the deficit this makes (`docs/architecture.md:192`) |

### Bounds

Every bound is a constant (`Max...`) in the guards of the environment's actions; nothing the program
does is bounded but by the ids it may use. Why they are enough:

- Two runs: one can be decided while another prepares, and the second writes over the first's text.
  Two targets: half-applied updates, and a read-set target next to another. One artifact: a receipt
  can be early. One crash with one failing write reach every pair of handler and recovery; two
  crashes reach a crash in a recovery.
- Three attempts of a job: a doubt, a confirmed absence, a second doubt. Two failures of any kind.
- Three chapters, two of them published: a revision has something downstream and something new.
- Two compilers of two contents, two sessions, two processes: every property here is broken by a pair.
- Two repairs and three texts: better, worse, and back; three runs of a chapter: a recovery of a
  recovery, and a reset between.
- Two scenes of at most two characters: a range can shrink to nothing, grow, and cross a border.

Each property has a mutant in `PROJECT.json`: a plausible bug in a mapped definition, under which the
same run finds it violated. So none of them holds because a case never happens.

Deadlock is not checked: run ids, attempts and edits are used up, and the system then rightly stops.

### Fairness

`MCFairness` in a suite is the fairness of its modules, each restricted to its part. It asks that
processes that can go on do, that commands by which alone the system recovers are started again
(the next run, the next open, the next reconcile: nothing else settles what a crash left), that
clocks go on and POSTs land or are lost. It asks nothing of the author, crashes, failing writes or
lost files, nor that a model's answer be good. `SessionsRecover` has one process at a time, since
`autonomy_recovery` shows that it fails with two; `MarkedCompletes` has no failing write, since
`barrier_lost_publication` shows that it fails with one.

## 4. Proofs

Every theorem is about its module's own specification, for any values of the constants that meet
the assumptions, and each safety theorem follows the same way: an invariant `IInv` that is
inductive, `Init => IInv`, one lemma per action that the action keeps it, and `IInv` implies the
property. Each `IInv` was checked by TLC before it was proved. What follows says what each adds to
the property and why it is needed. The assumptions on constants are those named in the modules, which
TLC evaluates in the runs; there are no others but the one hypothesis printed in the table.

| module | theorem | states |
|---|---|---|
| `DeliveryProofs` | `TypeCorrect`, `PostsAreBounded`, `OneAuthor` | `TypeOK`, `PostsNeedReopening`; `PagesOfOneAttempt` if `SettleTicks < QuarantineTicks` |
| `DeliveryProofs` | `IntentsTypeCorrect`, `InOrder` | `IntentsTyped`, `JobsInOrder` |
| `PersistenceV2Proofs` | `TypeCorrect`, `ReceiptIsProof`, `Swapping`, `EditsSurvive` | `TypeOK`, `ReceiptProvesCommit`, `CompareAndSwap`, `EditsArePreserved` |
| `AuthorityBarrierProofs` | `Truthful`, `Publication` | `BarrierIsTruthful`, the refinement `AtomicallyPublished` |
| `AuthorityBarrierProofs` | `RegistriesBindTogether` | `RebindsTogether` |
| `HistoryProofs` | `TypeCorrect`, `RevisionsKept` | `TypeOK`, `RevisionsHold` |
| `HistoryProofs` | `AuthorityMigrates`, `MigrationKept` | `OneAuthority`, `MigrationKeeps` |
| `ChapterProofs` | `TypeCorrect`, `PublishedOnJudgement`, `BestSurvives` | `TypeOK`, `PublishedAsJudged`, `BestIsKept` |
| `ChapterProofs` | `ResetsForget` | `NeverResurrected` |
| `SessionProofs` | `TypeCorrect`, `OneWriterEver`, `JournalHoldsAlways`, `PlanFollowed` | `TypeOK`, `OneWriterPerChapter`, `JournalHolds`, `ChaptersAsPlanned` |
| `SessionProofs` | `EvidenceTellsAll` | the action property `StagesHold` |
| `ModelCallProofs` | `OneAnswer`, `NothingBehindDoubt` | `AnsweredOnce`, the action property `NothingSentBehindUncertain` |
| `MemoryCachesProofs` | `AuthorityIsCommitted`, `OneChapterEach` | `AuthorityHolds`, the action property `OneChapterPerMarker` |

### DeliveryQueue

`PostsNeedReopening` is not inductive: the number of permitted POSTs says nothing of a worker that
is about to be permitted one. `Numbering` and `OneRunner`: attempt numbers come from the job's
counter, and no two workers run the same attempt. `StageOK`: what a worker has done agrees with where
it is, so that its attempt is permitted exactly while its POST may be under way and no verdict is
written. `Verdicts`: an attempt that was permitted never reports that it can be retried.
`ClaimFresh`: the lease of a claimed job is not permitted yet. `Paid` is the strengthening proper:
while the job is `Barred` (in a state from which the next POST needs a reopening) the bound may be
used up, and otherwise one POST is still to be had, so that the mark of a fresh claim has one to
spend.

`PagesOfOneAttempt` is about the database, which sees requests late or never, several of one create
call among them. `Spared` counts attempts: those that made a page or may still make one (`Live`: a
request of theirs is under way, or their create call has not ended and may send it again) and the
one still to be had are one altogether, as long as nothing but the operator's confirmation has
reopened the job. The confirmation keeps it for two reasons. What is in doubt is at least as old as the
job's doubt (`Aged`), so that once the quarantine is over, and only then does a resolver work
(`Resolving`), nothing is in doubt any more; here the hypothesis is used, that a quarantine is longer
than a create call can take effect. And the absence which the operator is shown was found after that
(`Shown`). `Authored` bounds the pages by the requests of their one author.

### DeliveryIntents

`JobsInOrder` speaks of two places of the executor. On the way from the scan to the next chapter each
step hands on what it has not dealt with (`Covered`: found or still to look at, planned, made). That
this stays true while others run needs `OneWriter`: the writer lock is held from the scan to the
commit, so nobody else completes a run in between; and `OwnRunOnly`: a recovery inside the lock finds
prepared only runs of processes that are gone.

### PersistenceV2

`ReceiptProvesCommit` speaks of the disk, and is broken by a process that acts on what it remembers.
`IInv` therefore says what a process may rely on where it is (`Placed`): a run that has begun, a
marker behind the marker, a receipt at the terminal entry `completed`. All of it only grows
(`Grows`), which is why neither the other processes nor a reconciler that writes manifests without
the lock nor a crash disturbs it: lemma `Kept`. `Writing`, `WriteAndGo` and `Looking` do the part all
actions share.

`CompareAndSwap` needs exclusion: the check and the swap are two steps, and what was checked must
hold until the swap. `SInv` adds `OneSection` (the lock is exclusive), `Fresh` (the manifest states
from which a transaction is staged or committed are those of a run without marker) and `SwapOK` (in
front of the marker a section's run has none, at `replace` the target holds the before image, at
`restore` it holds the run's text). `Exclusive` is the step inside a section, where the others know
nothing that could be disturbed; `Outside` is the step without the lock, which must be `Calm`: it
leaves markers and before images alone and prepares nothing. The author needs no lock, so what was
checked may still be edited before the rename. `Windows` says that this is all that can happen to it:
at `replace` and `restore` the check still holds, or the edit that fell behind it is in `spent.raced`.
Both theorems then name that window as the only one in which an edit is overwritten; nothing is assumed
of when the author edits.

### AuthorityBarrier

The barrier settles an entry on the strength of what a reconciliation reported a few steps ago, while
an operator may be reconciling the same run and the author may be editing. That stays true only if
what it settles on cannot change back. `Gone(r)`: the run has begun and has no marker, no target
holds its text, and no process is where it could still apply it (`Live`). The last part is what makes
it stable, and why a process that rolls a run back may rely on it: the one who could apply the run is a
writer between its `drafting` and its commit, and the manifest that a rollback leaves behind stops
it at `commit`. The invariant `BInv` has four parts, each proved for every action:

- `AInv`: `SInv` of the transaction, the place of each process by what it was started for (`Posted`),
  and that at most one writer is at work while operators do nothing but reconcile.
- `HInv`: what a process relies on about the run it remembers (`KnowsRun`) and about all the others
  it has listed or reported on (`KnowsOthers`): a reported rollback is `Gone`, a reported completion
  has its receipt. And of the disk: a manifest past `prepared` has a registry entry, which gives
  `UnknownIsPrepared`; a before image holds published text only.
- `GInv`: what the barrier's registry says of each run (`Noted`), that one run at most is unsettled,
  and what the writer knows (`Gated`): unless it is blocked, every unsettled entry there is, is still
  in its hands, so that when it has none left nothing is unsettled. A run whose text is in the books
  without a marker is unsettled (lemma `Unfinished`).
- `WInv`: as long as nobody has edited, each target holds the text of the unsettled run or its before
  image, and where nothing is unsettled the books are of one version. This is what a run generates from.

The actions of the transaction are not looked at four times. Each is shown to be a `SectionStep`,
which says what such a step may do to the books, to the files of a run and to what the process
remembers; the four parts are preserved by any `SectionStep` of anybody (`SectionAInv` to
`SectionWInv`). The barrier's own steps come after that, one lemma each. Nothing is assumed of
when the author edits, of the read set or of the bounds.

`Publication` maps the files to `AtomicPublication`: a run's fate is read from its receipt, its marker
and its registry entry. It rests on the same `BInv`, of which `HInv` also says that a run with an entry
`rolled_back` is `Gone`. A step decides a run only where it writes one of those three, and that is the
process which remembers the run (`SectionPromise`): at its marker it is `Live`, hence not aborted; at
its receipt it has its marker; at the entry of its rollback it is `Gone`, so none of its text is in
the books. A step that decides nothing ends in a state where, by `HInv'`, no aborted run has text in
the books, whichever file it wrote (`Undecided`).

### ProjectRelocation

`RInv` says why a relocation that is resumed finds what it left. `Under`: every registry of a
relocation under way is as it was found or as it will be, and once the main one is rebound all are.
It is inductive because of `Ordered`, the shape of the plan: the main registry is last, and all
registries are there and complete, so that a writer, who touches only absent or incomplete ones,
cannot touch them. `MoverAtWork`: the process has rebound what it is past, and nobody has an
unsettled transaction meanwhile, for `_assert_project_idle` asks every registry there is and a
transaction keeps its own in existence. `Behind`: a registry of a finished relocation is of a later
revision than it began with, which nothing takes back, so `MainLast` outlives the next relocation.
That all are bound together also needs `Unmoved`, since before the first rename writers bind
registries without a relocation, and that completion verifies the inventory once more. The proof is
about renames and crashes at any step, in any number. The hypothesis `RelocationAssumption` types the
constants and says that "nowhere" is no path.

### HistoryRevision

What `RevisionsHold` says of a batch is decided when the batch is prepared or applied, and must hold
when it reaches the log, which another process may do after a crash. `Waiting` says what the pending
transaction carries there: the batch is the one its request asks for, for the log as it still is; it
was not committed before; and from `applied` on it lists every outline there is from before it
(`Escaping` is empty), because an outline is stored only when its head is the identity's, which is
already the new one. `Executing` ties the process to the pending transaction. For generation two
facts about the log are needed: its chapters are the first ones without gaps (`Numbered`), and a
revision that invalidates no later batch was made right after the chapter it revises (`Bare`). So
whatever revision is the last one before a chapter, either it is the blocked one itself, or it was
made over it and carries its reconciliation. `AsDeclared` is `CommitsAsDeclared` of one batch.

### EventMigration

Three processes may have the identity in hand, and a rollback or a kill may come between any two of
their steps. `MInv` says what each of them may rely on. `TxnPlaced`: the transaction is that of an
approved plan, its step tells what is in the event store and which receipt is on disk, and nothing was
reported completed before it, since it is only prepared where neither receipt nor event authority is.
`IdentityStands` gives `Agreeing` between transactions and, during one, tells the identity the
transaction wrote from one that a direct activation wrote before the first target: its receipt is a
genesis, the other begins with a batch of the migration (`BootOther`). `Activating`: a direct
activation finds the identity as it read it, because `ApplyMemory` waits for it and everybody
else waits for it too. `Intended` is what `Recoverable` needs across a rollback: the legacy identity that a
rollback would lead to (`InForce`) has an intent for every receipt that would stay (`Kept`), so an
activation that overtook the migration is not orphaned by it. `StillFrozen`: behind the last check the
sources are the plan's, or the author has edited since (`mig.seen`), which nothing can prevent; nobody
else changes them. The plans and approvals only grow, and what was reported is the first batch of a store to which chapters
only append, which gives `ToldTruthfully`. Nothing is assumed of the main registry (`Registered`) or of
strict reading (`Strict`).

### ChapterRun

`PublishedAsJudged` is carried by the order of the workflow: a text is only replaced while its
validation is still to come (`Planned`: what is left of a plan still has its order), or in a repair,
which is followed by its own (`JudgedOK`: the validation is of the text wherever the run may end, and
a review is of it or there is none). `BestIsKept` rests on the history of verdicts: none scores
better than the best (`Kept`), all before the last one block, and none has fewer problems than the
last as long as that one blocks (`Shrinking`), since a repair that does not get better ends the loop.
Scores are cardinalities of sets of problems; `Countable` and the lemmas after it say what of them is
needed. Nothing is assumed of the workflows a Director may name: `Planned` starts from what
`ValidWorkflow` refuses. A draft kept from a recovery is a text nobody has judged: it, too, has its
validation before it (`DraftKeptKeeps`).

### LockedChapter

A call is named by its run, so that the property is about an order: what is written after a reset may
only name runs after it. `Afresh` says this of everything that can be handed on, which is more than the
property does: of later checkpoints with their drafts, and of later runs with the scenes they were
given, hold and are about to hold, and their text. A recovery hands on what its source run names, the
answers of that run, and what the checkpoint in force names. The source is after the reset since every
run before it was killed without a record or is discarded (`Forgetting`; only a reset that discards all
there is makes this so), and the checkpoint is the last marker or nothing. `Ordered`: markers are written
while no run goes on, which is why a run is before a reset or after it as a whole.

What a recovery reads off the answers of a run is a recursion over its calls (`Laid`), and TLAPS gives
nothing of a recursive function but its `CHOOSE`. `LayingExists` shows that the equation has a solution,
`LaidIs` that every scene of the result is one of the base or of the run; both take the least number of
calls for which they would fail (`Least`, from the well-foundedness of the naturals), since the
induction theorems of the library cannot be used. Nothing is assumed of the constants.

### AutonomySession

The fence carries the journal. `OneFence`: one process holds it. `Placed`: it began with nothing
pending, or with the one operation it recovers, so wherever it is, that operation is the newest one.
`Journalled`: only the newest operation may be pending, and every event of a session has an operation
with a marker that intended it. `Unsettled`: the pending operation finds session and lease as it
needs them to be settled, backwards or forwards. `Freed`: a session that is not active has a lease
only for the pending operation. `OneWriterPerChapter` follows along the lease chain, which only
grows, since a stage receipt is fenced by its newest generation.

The source check carries the plan, in a second invariant (`PInv`) on top of the first. A runner
compares the book with what it saw when it began its chapter; `InTurn`: as long as the book has that
length, it ends where the session's ledger does, so that the chapter it commits is the next of its
plan. `Fits` is what the chapters of the book, the plan, the ledger and the undelivered say of each
other, and is stated over plain values, so that appending a chapter, an edit, a receipt or a
delivery are lemmas about sequences. The receipt may be written by a command that then waits for its
own fence and is rolled back (`Boundary`): the ledger is not part of what a rollback takes back, so
`Fits` has to hold of it at every step, and the next command finds it one chapter further. `Ended` and `Ending`: a completed session, and one whose
completion has its marker, has all it was asked for; nothing takes it away.

### ChapterStages

What a published chapter's receipts tell (`Told`) is decided over many runs, of which the publishing one
may have made none. That run has nevertheless been through all of them. `Walked`: up to its cursor it
has given every stage just what the receipt says the stage was given, the outline and the files it has
loaded to the plan and the draft, and from then on the text the stage before it left. That the cursor is
at the end when it publishes needs `Linked`: what follows a validator is a repair, and a repair follows
only a verdict that refused, be it the validator's own or the integrity report merged into it
(`Refused`), so nothing follows the text that both accept. The run remembers what that verdict was
of (`from`, `MadeFrom`), since the report is of what the text was made from as well. `Gate` adds
nothing to the receipts, and the body is the canonical form of the text that was given to the last
validator. `Linked` also says that the answer
of every receipt is the one kept for what the stage was given, and that no two are kept for the same.

That a result is carried once rests on the order of chapters (`InOrder`): all completed chapters are
fulfilled but the last published one, and everything before a chapter with an outline is, so a fulfilment
adds to at most one target, which nobody has read yet. `Due` ties the runner to this: between publication
and completion the book is one chapter ahead of the ledger, and everywhere else where it is at work it
is not. The lemmas `Followed` and `StageWalks` do a stage once for the answer it finds and the one it
gets. Nothing is assumed but the types of the constants (`StagesAssumption`); the author may edit
the context and any unpublished outline, any number of times, and a run may stop after any step.

### ModelCallRuntime

No process looks at another, and no attempt at another attempt. What relates them is `Reached`: an
intent is made where every earlier call has succeeded and every earlier attempt of its call was not
sent. Intents are created exclusively (`OneOwner`), and receipts are never replaced (`Filed`), so at
most one attempt of a call can have been accepted, and at most one attempt is ever in doubt.
`Recorded`: an operation that a restart skips has all its answers.

### MemoryCaches

Preflights rebuild caches without the fence, and caches are lost at any time, so nothing can be said
of the caches. What keeps this out of the authority: a process moves a transaction only while it
holds the fence (`Placed`: the state of the transaction goes with the place of the one who has it),
the base of a pending transaction is what is committed, with a checkpoint that is a prefix of it
(`OnCommitted`), and a rollback ends the transaction only when every target is the before image. It
may stay pending for ever, which `caches_race` shows; then the theorem says nothing of the files and
`OneChapterEach` still holds of what is committed. The hypothesis `CachesAssumption` types the
constants and says that no process has the name the free fence is written with.

### Only model-checked

- Liveness under fairness (`ReconcileSettles`, `AllSettle`, `MarkedCompletes`, `CalmlyRelocated`,
  `MarkedCommits`, `CachesSettle`, `SessionsRecover`, `CallsEnd`), which is beyond the prover.
- `BudgetKept`, `EventsAreTheHistory`, `CompiledIsStored` and `FactsHold`: they are about folds over
  sequences and what they compute for every input, with induction theorems that none of the provers can
  instantiate. One recursion is proved about by least counterexample (`Laid`); these are several, one
  inside the other.
- The refinement `AtomicallyPublished` for writers without the barrier: it is proved of
  `BarrierSpec`. The theorems about `PersistenceV2` are about its own `Spec`; of `AuthorityBarrier`,
  which has more actions, `BInv` contains the same invariants.
- The journal of the first version in `settling` (`LegacyJournalHolds`), and of `history` (`BaselinesHold`), of `chapters` (`RecoveriesKeep`,
  `DraftsHold`, `SourcesHold`) and of `sessions` (`EvidenceHolds`).

## 5. Not modelled

- Content: whether a text is good, whether JSON validates, hashing, normal forms of names, prompts.
- Forged files in the transaction root. The validators exist against them; here files are only
  written by the program, and, where a module says so, changed by the author or an operator.
- `gc_persistence_v2`; the file adapters of the delivery queue; binding a new book id; the remap of
  one registry alone; the writeback gate (`_apply_gate` in `writer.py`); `migration.py`, which moves a
  runtime directory of earlier versions; checkpoints and the upgrade of the V2.1 store.
- `adjust_uncommitted` and `rebuild_semantic_snapshot`, which nothing calls, and the legacy
  lineages of locked chapters, which no run leads to any more.
- Windows file locks, path identity and symbolic links.
- Heuristic validators, rules and directors, state builders, exports, reports, replays and scripts:
  sequential computation over text that keeps no state a run reads back. Where a run depends on
  what they answer, the answer is chosen freely.

The components with their status are in `PROJECT.json`.

## 6. Plan

Done: every state machine of section 1, and the proofs of section 4. What is left is to prove more of
it, in this order:

1. `PersistenceV2`: `AtomicallyPublished` of its own `Spec`, with writers that nothing keeps apart. It needs that
   a before image never leads back to an aborted run: for every run that has begun there is a set
   with it and closed under "read its before image from", in which its own before image is not. It
   holds only without edits of a target to a run's text.
2. `PersistenceV1`: `AllOrNothing` and `BuiltOnCommitted` of the legacy journal.
