--------------------------- MODULE BaselineMigration ---------------------------
(***************************************************************************)
(* The two migrations that add facts to the snapshot of a book that has    *)
(* chapters already: the baseline of its rosters                           *)
(* (core/state/roster_baseline_migration.py), which writes the snapshot    *)
(* itself under the lock of the state file, and the records of a chapter   *)
(* context (core/state/chapter_context_authority_migration.py), which is a *)
(* PersistenceV2 transaction behind the authority barrier.  Both run       *)
(* beside the chapters, from a manifest an operator pins to the snapshot   *)
(* and to the prose that attests the facts.                                *)
(*                                                                         *)
(* A legacy book's chapter keeps what the snapshot has; it is behind the   *)
(* barrier and holds the state lock while it is drafted, and its journal   *)
(* is one of the first version, which only the next chapter settles: the   *)
(* barrier does not know it.  An event_v1 book's chapter is a transaction  *)
(* of the second version, makes its snapshot from the memory, which has    *)
(* neither rosters nor records, and holds no state lock while it drafts.   *)
(* The context migration refuses such a book, the roster migration does    *)
(* not look.                                                               *)
(*                                                                         *)
(* A snapshot is the number of its chapters and the baselines it holds,    *)
(* and equal hashes are equal snapshots.  Abstracted: the identity of      *)
(* the book and the shape of a manifest (one that does not fit is refused  *)
(* before anything is read), what the records say (core/state/             *)
(* authoritative.py validates it), and the transactions themselves, which  *)
(* are PersistenceV1 and PersistenceV2.                                    *)
(***************************************************************************)
EXTENDS Integers, FiniteSets

CONSTANTS
    MaxChapters,  \* chapters of the book
    MaxEdits,     \* edits of the prose
    MaxPins,      \* manifests written anew
    MaxCrashes

BaselineAssumption == {MaxChapters, MaxEdits, MaxPins, MaxCrashes} \subseteq Nat

Kinds == {"roster", "context"}
Snapshots == [chapters : 0 .. MaxChapters, has : SUBSET Kinds]
Blank == [chapters |-> 0, has |-> {}]
Fresh == [chapters |-> 1, has |-> {}]
With(snap, kind) == [snap EXCEPT !.has = @ \cup {kind}]

VARIABLES
    snapshot,    \* the facts in state_snapshot.json
    evidence,    \* the version of the prose the manifests quote
    pins,        \* what each manifest is pinned to: "roster", "context"
    mode,        \* the authority of the book: "legacy" or "event_v1"
    backups,     \* the preimages the roster migration has copied
    receipt,     \* the receipt of the roster migration, NoReceipt before
    sidecar,     \* whether an identity receipt binds an older receipt to the book
    context,     \* files of the context migration: copy, preimage, receipt, publication receipt
    tx,          \* the transaction of the barrier that is not settled
    journal,     \* the journal of a legacy chapter that is not settled
    draft,       \* the snapshot the chapter at work has read
    mig,         \* the process that migrates rosters
    writer,      \* the process behind the barrier
    spent        \* edits, pins and crashes so far

vars == <<snapshot, evidence, pins, mode, backups, receipt, sidecar, context, tx, journal, draft,
          mig, writer, spent>>
rosterFiles == <<backups, receipt, sidecar>>
chapter == <<mode, journal, draft>>

NoReceipt == [before |-> Blank, after |-> Blank, evidence |-> -1, bound |-> FALSE]
NoTx == [kind |-> "none", state |-> "none", before |-> Blank, after |-> Blank, evidence |-> -1]
NoJournal == [state |-> "none", before |-> Blank, after |-> Blank]
IdleMig == [pc |-> "idle", before |-> Blank, after |-> Blank, evidence |-> -1]

\* A book of one chapter, or one whose rosters an earlier version migrated with a manifest
\* that names no book.
Init ==
    /\ \/ snapshot = Fresh /\ backups = {} /\ receipt = NoReceipt
       \/ snapshot = With(Fresh, "roster") /\ backups = {Fresh}
          /\ receipt = [before |-> Fresh, after |-> snapshot, evidence |-> 0, bound |-> FALSE]
    /\ evidence = 0 /\ sidecar = FALSE /\ context = 0 /\ tx = NoTx
    /\ pins = [m \in Kinds |-> [snap |-> Fresh, evidence |-> 0]]
    /\ mode \in {"legacy", "event_v1"} /\ journal = NoJournal /\ draft = Blank
    /\ mig = IdleMig /\ writer = "idle"
    /\ spent = [edits |-> 0, pins |-> 0, crashes |-> 0]

(***************************************************************************)
(* The rosters.  A plan is made of the files as they are once the lock of  *)
(* the snapshot is held; commits and rollbacks of transactions hold it     *)
(* too, and a legacy chapter from its first look at the snapshot.          *)
(***************************************************************************)

LegacySteps == {"journal", "apply", "replace", "mark", "finish"}
StateLocked ==
    \/ mig.pc # "idle" \/ writer \in {"applied", "checked"} \cup LegacySteps
    \/ writer = "drafting" /\ mode = "legacy"

\* Run and prose are those the manifest pins, and say what it claims.
Attested(m) == evidence = pins[m].evidence

\* What becomes of a snapshot; one with rosters is refused.
WithRoster(snap) == With(snap, "roster")
RosterReady == snapshot = pins["roster"].snap /\ receipt = NoReceipt /\ "roster" \notin snapshot.has
RosterWritten ==
    /\ receipt = NoReceipt /\ pins["roster"].snap \in backups
    /\ "roster" \notin pins["roster"].snap.has /\ snapshot = WithRoster(pins["roster"].snap)

\* Planned from the preimage the manifest pins, or, when a run was killed between snapshot and
\* receipt, from its backup.  With a receipt nothing is left to do; any other state is refused.
PlanRoster ==
    /\ ~StateLocked /\ Attested("roster") /\ (RosterReady \/ RosterWritten)
    /\ mig' = [pc |-> IF RosterReady THEN "back_up" ELSE "receipt", before |-> pins["roster"].snap,
               after |-> WithRoster(pins["roster"].snap), evidence |-> evidence]
    /\ UNCHANGED <<snapshot, evidence, pins, rosterFiles, context, tx, writer, spent, chapter>>

BackUp ==
    /\ mig.pc = "back_up"
    /\ backups' = backups \cup {mig.before} /\ mig' = [mig EXCEPT !.pc = "write"]
    /\ UNCHANGED <<snapshot, evidence, pins, receipt, sidecar, context, tx, writer, spent, chapter>>

WriteRoster ==
    /\ mig.pc = "write"
    /\ snapshot' = mig.after /\ mig' = [mig EXCEPT !.pc = "receipt"]
    /\ UNCHANGED <<evidence, pins, rosterFiles, context, tx, writer, spent, chapter>>

\* The snapshot is read back first.
WriteRosterReceipt ==
    /\ mig.pc = "receipt" /\ mig' = IdleMig
    /\ receipt' = IF snapshot # mig.after THEN receipt
                  ELSE [before |-> mig.before, after |-> mig.after, evidence |-> mig.evidence, bound |-> TRUE]
    /\ UNCHANGED <<snapshot, evidence, pins, backups, sidecar, context, tx, writer, spent, chapter>>

\* An older receipt is bound to the book by a second one, while the snapshot still is what it made.
ReceiptCurrent == receipt.after = snapshot /\ receipt.evidence = evidence /\ receipt.before \in backups

UpgradeIdentity ==
    /\ ~StateLocked /\ Attested("roster") /\ ~sidecar
    /\ receipt # NoReceipt /\ ~receipt.bound /\ receipt.before = pins["roster"].snap /\ ReceiptCurrent
    /\ sidecar' = TRUE
    /\ UNCHANGED <<snapshot, evidence, pins, backups, receipt, context, tx, mig, writer, spent, chapter>>

(***************************************************************************)
(* Chapters.  Whoever comes to the barrier settles its transaction first.  *)
(***************************************************************************)

Enter == writer = "idle" /\ tx = NoTx

\* What the memory of an event_v1 book makes of a snapshot: its chapters.
Projected(snap) == [snap EXCEPT !.has = {}]

\* An event_v1 chapter rebuilds the snapshot when it is not what the memory says.
StartChapter ==
    /\ Enter /\ snapshot.chapters < MaxChapters /\ journal = NoJournal
    /\ mode = "legacy" => ~StateLocked
    /\ snapshot' = IF mode = "legacy" THEN snapshot ELSE Projected(snapshot)
    /\ draft' = snapshot' /\ writer' = "drafting"
    /\ UNCHANGED <<evidence, pins, rosterFiles, context, tx, mig, spent, mode, journal>>

NextChapter == [draft EXCEPT !.chapters = @ + 1]

\* The transaction is prepared while the snapshot still is what the chapter read.
PrepareChapter ==
    /\ writer = "drafting" /\ mode = "event_v1" /\ draft' = Blank
    /\ IF snapshot = draft
       THEN /\ tx' = [kind |-> "chapter", state |-> "prepared", before |-> draft, after |-> NextChapter,
                      evidence |-> evidence]
            /\ writer' = "prepared"
       ELSE writer' = "idle" /\ UNCHANGED tx
    /\ UNCHANGED <<snapshot, evidence, pins, rosterFiles, context, mig, spent, mode, journal>>

\* The journal, the note that the snapshot is next, the snapshot, the marker, the end.
LegacyStep(from, to) ==
    /\ writer = from /\ writer' = to
    /\ UNCHANGED <<evidence, pins, rosterFiles, context, tx, mig, spent, mode>>

JournalChapter ==
    /\ mode = "legacy" /\ LegacyStep("drafting", "apply")
    /\ journal' = [state |-> "prepared", before |-> draft, after |-> NextChapter] /\ draft' = Blank
    /\ UNCHANGED snapshot

ApplyChapter ==
    /\ LegacyStep("apply", "replace") /\ journal' = [journal EXCEPT !.state = "applying"]
    /\ UNCHANGED <<snapshot, draft>>

ReplaceChapter ==
    /\ LegacyStep("replace", "mark") /\ snapshot' = journal.after
    /\ UNCHANGED <<journal, draft>>

MarkChapter ==
    /\ LegacyStep("mark", "finish") /\ journal' = [journal EXCEPT !.state = "marked"]
    /\ UNCHANGED <<snapshot, draft>>

FinishChapter ==
    LegacyStep("finish", "idle") /\ journal' = NoJournal /\ UNCHANGED <<snapshot, draft>>

\* The next chapter settles the journal: with a marker the snapshot must be the chapter's, one
\* that had begun to replace it must find one of its two images, any other changed nothing.
Recovered ==
    CASE journal.state = "marked" -> snapshot = journal.after
      [] journal.state = "applying" -> snapshot \in {journal.before, journal.after}
      [] OTHER -> TRUE

RecoverJournal ==
    /\ Enter /\ ~StateLocked /\ journal.state \in {"prepared", "applying", "marked"}
    /\ journal' = IF Recovered THEN NoJournal ELSE [journal EXCEPT !.state = "stuck"]
    /\ snapshot' = IF journal.state # "marked" /\ snapshot = journal.after THEN journal.before ELSE snapshot
    /\ UNCHANGED <<evidence, pins, rosterFiles, context, tx, mig, writer, spent, mode, draft>>

(***************************************************************************)
(* The context migration, and what it shares with an event_v1 chapter.     *)
(***************************************************************************)

\* Its receipt proves the migration by the publication receipt and its preimage, whatever
\* chapters the snapshot has won since.
ContextApplied == context = 4

\* The pinned preimage and no receipt; anything else is refused or has been done.
ContextReady == ~ContextApplied /\ snapshot = pins["context"].snap

\* It waits for the transaction of the barrier; a journal of the first version it does not see.
BeginContext ==
    /\ Enter /\ mode = "legacy" /\ ContextReady /\ Attested("context")
    /\ tx' = [kind |-> "context", state |-> "prepared", before |-> snapshot,
              after |-> With(snapshot, "context"), evidence |-> evidence]
    /\ writer' = "prepared"
    /\ UNCHANGED <<snapshot, evidence, pins, rosterFiles, context, mig, spent, chapter>>

\* The target is replaced where it still has its before image; otherwise the run is over.
Apply ==
    /\ writer = "prepared" /\ ~StateLocked
    /\ IF snapshot = tx.before
       THEN snapshot' = tx.after /\ tx' = [tx EXCEPT !.state = "applied"] /\ writer' = "applied"
       ELSE UNCHANGED snapshot /\ writer' = "idle" /\ tx' = [tx EXCEPT !.state = "stuck"]
    /\ UNCHANGED <<evidence, pins, rosterFiles, context, mig, spent, chapter>>

\* Before the marker the context migration reads its manifest, its evidence and the snapshot again.
InputsHeld ==
    tx.kind = "context" =>
        /\ evidence = tx.evidence /\ snapshot = tx.after
        /\ pins["context"] = [snap |-> tx.before, evidence |-> tx.evidence]

Check ==
    /\ writer = "applied"
    /\ IF InputsHeld THEN writer' = "checked" /\ UNCHANGED <<snapshot, tx>>
       ELSE writer' = "idle" /\ snapshot' = tx.before /\ tx' = NoTx
    /\ UNCHANGED <<evidence, pins, rosterFiles, context, mig, spent, chapter>>

Mark ==
    /\ writer = "checked" /\ writer' = "publish" /\ tx' = [tx EXCEPT !.state = "marked"]
    /\ UNCHANGED <<snapshot, evidence, pins, rosterFiles, context, mig, spent, chapter>>

\* The manifest, the preimage, the receipt and at last what proves the publication.
Publish ==
    /\ tx.state = "marked" /\ writer \in {"publish", "idle"}
    /\ IF tx.kind = "context" /\ context < 4
       THEN context' = context + 1 /\ UNCHANGED <<tx, writer>>
       ELSE tx' = NoTx /\ writer' = "idle" /\ UNCHANGED context
    /\ UNCHANGED <<snapshot, evidence, pins, rosterFiles, mig, spent, chapter>>

\* Mutant: recovery puts the before image back without a look at what is there.
RollBackBlindly ==
    /\ writer = "idle" /\ tx.state \in {"prepared", "applied"} /\ ~StateLocked
    /\ snapshot' = tx.before /\ tx' = NoTx
    /\ UNCHANGED <<evidence, pins, rosterFiles, context, mig, writer, spent, chapter>>

\* The next writer settles what a crash left: an unmarked transaction is undone where the
\* target has one of its two images, and needs an operator where it has neither.
RollBack ==
    /\ writer = "idle" /\ tx.state \in {"prepared", "applied"} /\ ~StateLocked
    /\ IF snapshot \in {tx.before, tx.after} THEN snapshot' = tx.before /\ tx' = NoTx
       ELSE tx' = [tx EXCEPT !.state = "stuck"] /\ UNCHANGED snapshot
    /\ UNCHANGED <<evidence, pins, rosterFiles, context, mig, writer, spent, chapter>>

(***************************************************************************)
(* Author, operator and operating system.                                  *)
(***************************************************************************)

Edit ==
    /\ spent.edits < MaxEdits /\ spent' = [spent EXCEPT !.edits = @ + 1] /\ evidence' = evidence + 1
    /\ UNCHANGED <<snapshot, pins, rosterFiles, context, tx, mig, writer, chapter>>

\* A manifest that is valid is written anew, for the snapshot and the prose there are.
Pin(m) ==
    /\ spent.pins < MaxPins /\ spent' = [spent EXCEPT !.pins = @ + 1]
    /\ pins' = [pins EXCEPT ![m] = [snap |-> snapshot, evidence |-> evidence]]
    /\ UNCHANGED <<snapshot, evidence, rosterFiles, context, tx, mig, writer, chapter>>

Crash ==
    /\ spent.crashes < MaxCrashes /\ spent' = [spent EXCEPT !.crashes = @ + 1]
    /\ \/ mig # IdleMig /\ mig' = IdleMig /\ UNCHANGED writer
       \/ writer # "idle" /\ writer' = "idle" /\ UNCHANGED mig
    /\ draft' = Blank
    /\ UNCHANGED <<snapshot, evidence, pins, rosterFiles, context, tx, mode, journal>>

Migrate == PlanRoster \/ BackUp \/ WriteRoster \/ WriteRosterReceipt
Chapter == PrepareChapter \/ JournalChapter \/ ApplyChapter \/ ReplaceChapter \/ MarkChapter \/ FinishChapter
Settle == Chapter \/ RecoverJournal \/ Apply \/ Check \/ Mark \/ Publish \/ RollBack

Next ==
    \/ Migrate \/ UpgradeIdentity \/ StartChapter \/ BeginContext \/ Settle
    \/ Edit \/ (\E m \in Kinds : Pin(m)) \/ Crash

\* The operator runs a migration again until it is done, and the next command settles
\* what the last one left.
Fairness == WF_vars(Migrate) /\ WF_vars(Settle)

Spec == Init /\ [][Next]_vars
FairSpec == Spec /\ Fairness

-----------------------------------------------------------------------------
TypeOK ==
    /\ snapshot \in Snapshots /\ backups \subseteq Snapshots /\ context \in 0 .. 4
    /\ evidence \in 0 .. MaxEdits /\ sidecar \in BOOLEAN
    /\ tx.state \in {"none", "prepared", "applied", "marked", "stuck"}
    /\ mig.pc \in {"idle", "back_up", "write", "receipt"}
    /\ journal.state \in {"none", "prepared", "applying", "marked", "stuck"} /\ draft \in Snapshots
    /\ writer \in {"idle", "drafting", "prepared", "applied", "checked", "publish"} \cup LegacySteps
    /\ mode = "legacy" => tx.kind # "chapter"

\* What a receipt says is in the snapshot of a legacy book for good, and what it was made of can
\* be looked up: no crash, rollback, chapter or other migration takes it away
\* (roster_baseline_migration.py:160, chapter_context_authority_migration.py:341).  In an event_v1
\* book the rosters are gone with the next chapter, receipt or not.
ReceiptsHold ==
    /\ receipt # NoReceipt =>
           /\ mode = "legacy" => "roster" \in snapshot.has
           /\ receipt.before \in backups /\ receipt.after = WithRoster(receipt.before)
    /\ context > 0 => "context" \in snapshot.has

\* Nothing is dropped from the snapshot but what an unmarked transaction or journal had put there,
\* and it is over nobody's work that they are undone; the memory of an event_v1 book, too, drops
\* no chapter (the lock of the state file, the plan made under it, the images a rollback looks for).
Undone(t) == t.state \in {"applied", "applying"} /\ snapshot = t.after /\ snapshot' = t.before
NothingLost ==
    [][/\ snapshot'.chapters < snapshot.chapters => Undone(tx) \/ Undone(journal)
       /\ ~(snapshot.has \subseteq snapshot'.has) => Undone(tx) \/ mode = "event_v1"]_vars

\* Rosters that were written get their receipt however often the migration is killed, unless a
\* chapter, a context, an edit of the prose or another manifest came in between
\* (roster_baseline_migration.py:304).
Unreceipted ==
    /\ receipt = NoReceipt /\ Attested("roster")
    /\ "roster" \notin pins["roster"].snap.has /\ snapshot = WithRoster(pins["roster"].snap)
RostersSettle == Unreceipted ~> ~Unreceipted

\* A transaction or journal is published or undone, or an operator has to look at it; and that
\* only if rosters or records were written over it while it was not settled, which nothing forbids.
Unsettled ==
    \/ tx # NoTx /\ tx.state # "stuck"
    \/ journal # NoJournal /\ "stuck" \notin {tx.state, journal.state}
TxSettles ==
    /\ Unsettled ~> ~Unsettled
    /\ [][/\ tx'.state = "stuck" => "roster" \in snapshot'.has \ tx'.before.has
          /\ journal'.state = "stuck" => snapshot'.has \ journal'.before.has # {}]_vars

BaselinesHold == NothingLost /\ [][ReceiptsHold']_vars /\ RostersSettle /\ TxSettles
=============================================================================
