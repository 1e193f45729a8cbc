---------------------------- MODULE EventMigration ----------------------------
(***************************************************************************)
(* The step of a book from legacy Markdown authority to event authority.   *)
(*                                                                         *)
(* A book with published prose takes it by an approved migration           *)
(* (core/story_project/migration_v2.py, migration_execution.py): a plan    *)
(* freezes every source, an approval binds the operator's decisions to the *)
(* plan, and one transaction of Persistence V2 writes the event store, the *)
(* activation receipt and, last, the ProjectIdentity.  An empty book takes *)
(* it directly (authority.py, activate_event_authority): intent, receipt,  *)
(* identity.  Strict reading of the Markdown (activation.py) rewrites the  *)
(* same identity.  Chapters go on being published before and after.        *)
(*                                                                         *)
(* A hash is the value it is taken of: the bytes of the identity are the   *)
(* record, the head of the event store is its sequence of batches.         *)
(* Abstracted: the mapping of decisions to facts (StoryBaseline), schemas  *)
(* and digests of the plan, the layout below .novelagent/migration-v2.     *)
(***************************************************************************)
EXTENDS Integers, Sequences, FiniteSets, SequencesExt, FiniteSetsExt

CONSTANTS BookChapters,  \* 1..n, the chapters that prose may exist of
          Books,         \* the trees a book may start with
          Decisions,     \* what the operator may decide
          Times,         \* when he may approve
          Registered,    \* the main root registry exists
          Strict,        \* strict reading is switched on at some time
          MaxPlans, MaxChanges, MaxKills, MaxWrites   \* bounds

MigrationAssumption ==
    /\ BookChapters = 1..Cardinality(BookChapters) /\ {Registered, Strict} \subseteq BOOLEAN
    /\ {MaxPlans, MaxChanges, MaxKills, MaxWrites} \subseteq Nat

VARIABLES src,        \* the controlled sources: prose and outlines by chapter, settings
          identity,   \* ProjectIdentity
          memory,     \* the batches of the Memory 2.2 event store
          receipts,   \* the activation receipts, each the head it proves
          intents,    \* the pending direct activations
          plans, approvals,
          done,       \* completion record and receipt, by the id of the approval
          owner,      \* who holds the lock of the barrier
          mig,        \* the migrating process; seen: the author's edits before its last check
          txn,        \* its transaction
          told,       \* the approvals that were reported completed
          writer,     \* a process that generates a chapter
          direct,     \* a process that activates directly
          changes, kills, writes

migrationVars == <<src, identity, memory, receipts, intents, plans, approvals, done, told, owner, mig, txn,
          writer, direct, changes, kills, writes>>

Legacy == [mode |-> "legacy", head |-> <<>>, proof |-> <<>>, strict |-> FALSE]
Event(id, head) == [id EXCEPT !.mode = "event", !.head = head, !.proof = head]
NoApproval == [plan |-> 0, decision |-> "none", time |-> 0]
NoTxn == [state |-> "none", approval |-> NoApproval, before |-> Legacy, after |-> Legacy, step |-> 0]
IdleMig == [pc |-> "idle", approval |-> NoApproval, seen |-> 0]
IdleWriter == [pc |-> "idle", identity |-> Legacy, src |-> CHOOSE b \in Books : TRUE]
IdleDirect == [pc |-> "idle", expected |-> Legacy, head |-> <<>>]

MigrationInit ==
    /\ src \in Books
    /\ identity = Legacy /\ memory = <<>> /\ receipts = {} /\ intents = {}
    /\ plans = <<>> /\ approvals = {} /\ done = {} /\ told = {}
    /\ owner = "none" /\ mig = IdleMig /\ txn = NoTxn
    /\ writer = IdleWriter /\ direct = IdleDirect
    /\ changes = 0 /\ kills = 0 /\ writes = 0

-----------------------------------------------------------------------------
(* The identity and who may read and write it.                              *)

Written(s) == {c \in BookChapters : s.prose[c] > 0}
Newest(s) == Max(Written(s) \cup {0})

\* Readers fail closed: a legacy identity beside an activation receipt is an unfinished
\* activation, an event identity needs the receipt it names.
Readable ==
    IF identity.mode = "legacy" THEN receipts = {} ELSE identity.proof \in receipts

\* The lock on the identity file, from the first target applied to the marker.
IdentityLocked == mig.pc \in {"applying", "checked"}

\* Every writer of the identity takes this lock; with a main registry the barrier's first.
MayMutate(me) == ~IdentityLocked /\ direct.pc \in {"idle", me} /\ (Registered => owner = "none")

\* Strict reading is switched on by a qualified report; nothing is reconciled before.
ActivateStrict ==
    /\ Strict /\ MayMutate("none") /\ Readable /\ ~identity.strict
    /\ identity' = [identity EXCEPT !.strict = TRUE]
    /\ UNCHANGED <<src, memory, receipts, intents, plans, approvals, done, told, owner, mig, txn,
                   writer, direct, changes, kills, writes>>

-----------------------------------------------------------------------------
(* Direct activation.                                                       *)

\* The intent is created once for these bytes; a second request must be the same one.
DirectIntent(head) ==
    /\ \A i \in intents : i.expected = identity => i.head = head
    /\ intents' = intents \cup {[expected |-> identity, head |-> head]}

DirectStart(head) ==
    /\ direct.pc = "idle" /\ MayMutate("none")
    /\ identity.mode = "legacy" /\ Written(src) = {}
    /\ DirectIntent(head)
    /\ direct' = [pc |-> "intent", expected |-> identity, head |-> head]
    /\ UNCHANGED <<src, identity, memory, receipts, plans, approvals, done, told, owner, mig, txn,
                   writer, changes, kills, writes>>

DirectReceipt ==
    /\ direct.pc = "intent"
    /\ receipts' = receipts \cup {direct.head}
    /\ direct' = [direct EXCEPT !.pc = "receipt"]
    /\ UNCHANGED <<src, identity, memory, intents, plans, approvals, done, told, owner, mig, txn,
                   writer, changes, kills, writes>>

\* Bytes and prose are looked at once more; without them the receipt stays and the
\* legacy readers with it.
DirectIdentity ==
    /\ direct.pc = "receipt"
    /\ IF identity = direct.expected /\ Written(src) = {}
       THEN /\ identity' = Event(identity, direct.head)
            /\ intents' = {i \in intents : i.expected # direct.expected}
       ELSE UNCHANGED <<identity, intents>>
    /\ direct' = IdleDirect
    /\ UNCHANGED <<src, memory, receipts, plans, approvals, done, told, owner, mig, txn,
                   writer, changes, kills, writes>>

-----------------------------------------------------------------------------
(* Plan and approval.                                                       *)

\* The chapter whose outline the semantic candidate is parsed for; 0: none.
Target(s) ==
    LET unique == {c \in BookChapters : s.outline[c] = 1}
    IN  CASE Newest(s) + 1 \in unique -> Newest(s) + 1
          [] Newest(s) + 1 \notin unique /\ Newest(s) \in unique -> Newest(s)
          [] OTHER -> Max(unique \cup {0})

\* A plan freezes the identity and the sources; the tree is captured again at the end.
BuildPlan ==
    /\ Len(plans) < MaxPlans
    /\ Readable /\ identity.mode = "legacy"
    /\ plans' = Append(plans, [identity |-> identity, src |-> src, target |-> Target(src)])
    /\ UNCHANGED <<src, identity, memory, receipts, intents, approvals, done, told, owner, mig, txn,
                   writer, direct, changes, kills, writes>>

\* No duplicate sources, no gap, and a candidate for the newest chapter or the next.
Approvable(plan) ==
    /\ \A c \in BookChapters : plan.src.prose[c] <= 1 /\ plan.src.outline[c] <= 1
    /\ Written(plan.src) = 1..Newest(plan.src)
    /\ Written(plan.src) # {}
    /\ plan.target \in {Newest(plan.src), Newest(plan.src) + 1}

Approve(i, d, t) ==
    /\ Approvable(plans[i])
    /\ [plan |-> i, decision |-> d, time |-> t] \notin approvals
    /\ approvals' = approvals \cup {[plan |-> i, decision |-> d, time |-> t]}
    /\ UNCHANGED <<src, identity, memory, receipts, intents, plans, done, told, owner, mig, txn,
                   writer, direct, changes, kills, writes>>

\* The id does not cover who approved and when.
SameId(a, b) == a.plan = b.plan /\ a.decision = b.decision

-----------------------------------------------------------------------------
(* Execution.                                                               *)

\* The sources and the candidate are captured twice and compared with the plan.
PlanCurrent(plan) == identity = plan.identity /\ src = plan.src

\* The transaction writes only into an empty store.
Blank == memory = <<>>

Boot(a) == [kind |-> "boot", approval |-> a, src |-> plans[a.plan].src]

\* This migration was completed, and what it wrote is still what the book stands on.
Completed(a) ==
    /\ a \in done
    /\ identity.mode = "event"
    /\ memory # <<>> /\ memory[1] = Boot(a)
    /\ identity.head = memory

\* The record must be of this very approval.
Replay(a) == a \in done /\ Completed(a)
Refused(a) == (\E b \in done : SameId(a, b)) /\ ~Replay(a)

Lock(a) ==
    /\ mig.pc = "idle" /\ owner = "none" /\ txn.state = "none"
    /\ owner' = "mig" /\ mig' = [IdleMig EXCEPT !.pc = "locked", !.approval = a]
    /\ UNCHANGED <<src, identity, memory, receipts, intents, plans, approvals, done, told, txn,
                   writer, direct, changes, kills, writes>>

Leave ==
    /\ owner' = "none" /\ mig' = IdleMig

Again ==
    /\ mig.pc = "locked" /\ Replay(mig.approval)
    /\ told' = told \cup {mig.approval}
    /\ Leave
    /\ UNCHANGED <<src, identity, memory, receipts, intents, plans, approvals, done, txn,
                   writer, direct, changes, kills, writes>>

Refuse ==
    /\ mig.pc = "locked" /\ ~Replay(mig.approval)
    /\ \/ Refused(mig.approval)
       \/ ~Readable \/ identity.mode # "legacy" \/ ~Blank
       \/ ~PlanCurrent(plans[mig.approval.plan])
    /\ Leave
    /\ UNCHANGED <<src, identity, memory, receipts, intents, plans, approvals, done, told, txn,
                   writer, direct, changes, kills, writes>>

Bootstrap(a) ==
    [state |-> "prepared", approval |-> a, before |-> plans[a.plan].identity,
     after |-> Event(plans[a.plan].identity, <<Boot(a)>>),
     step |-> 0]

PrepareTxn ==
    /\ mig.pc = "locked"
    /\ LET a == mig.approval IN
         /\ ~Replay(a) /\ ~Refused(a)
         /\ Readable /\ identity.mode = "legacy"
         /\ PlanCurrent(plans[a.plan]) /\ Blank
         /\ txn' = Bootstrap(a)
    /\ mig' = [mig EXCEPT !.pc = "prepared"]
    /\ UNCHANGED <<src, identity, memory, receipts, intents, plans, approvals, done, told, owner,
                   writer, direct, changes, kills, writes>>

\* The targets in their order; each must still have the bytes it was prepared against.
ApplyMemory ==
    /\ mig.pc = "prepared" /\ direct.pc = "idle" /\ Blank
    /\ memory' = txn.after.head
    /\ mig' = [mig EXCEPT !.pc = "applying"] /\ txn' = [txn EXCEPT !.state = "applying", !.step = 1]
    /\ UNCHANGED <<src, identity, receipts, intents, plans, approvals, done, told, owner,
                   writer, direct, changes, kills, writes>>

ApplyReceipt ==
    /\ mig.pc = "applying" /\ txn.step = 1
    /\ receipts' = receipts \cup {txn.after.proof}
    /\ txn' = [txn EXCEPT !.step = 2]
    /\ UNCHANGED <<src, identity, memory, intents, plans, approvals, done, told, owner, mig,
                   writer, direct, changes, kills, writes>>

\* Mutant: the identity is replaced whatever it has become.
ApplyIdentityBlind ==
    /\ mig.pc = "applying" /\ txn.step = 2
    /\ identity' = txn.after
    /\ txn' = [txn EXCEPT !.step = 3]
    /\ UNCHANGED <<src, memory, receipts, intents, plans, approvals, done, told, owner, mig,
                   writer, direct, changes, kills, writes>>

ApplyIdentity ==
    /\ mig.pc = "applying" /\ txn.step = 2
    /\ identity = txn.before
    /\ identity' = txn.after
    /\ txn' = [txn EXCEPT !.step = 3]
    /\ UNCHANGED <<src, memory, receipts, intents, plans, approvals, done, told, owner, mig,
                   writer, direct, changes, kills, writes>>

\* At the marker every source but the identity and the new event store is as planned.
SourcesFrozen(plan) == src = plan.src

CheckSources ==
    /\ mig.pc = "applying" /\ txn.step = 3
    /\ identity = txn.after
    /\ SourcesFrozen(plans[txn.approval.plan])
    /\ mig' = [mig EXCEPT !.pc = "checked", !.seen = changes]
    /\ UNCHANGED <<src, identity, memory, receipts, intents, plans, approvals, done, told, owner, txn,
                   writer, direct, changes, kills, writes>>

MarkTxn ==
    /\ mig.pc = "checked"
    /\ txn' = [txn EXCEPT !.state = "marked"] /\ mig' = [mig EXCEPT !.pc = "marked"]
    /\ UNCHANGED <<src, identity, memory, receipts, intents, plans, approvals, done, told, owner,
                   writer, direct, changes, kills, writes>>

PublishTxn ==
    /\ mig.pc = "marked"
    /\ done' = done \cup {txn.approval} /\ told' = told \cup {txn.approval} /\ txn' = NoTxn
    /\ Leave
    /\ UNCHANGED <<src, identity, memory, receipts, intents, plans, approvals,
                   writer, direct, changes, kills, writes>>

\* Mutant: the event store is left behind.
UndoKeepsMemory ==
    /\ memory' = memory
    /\ receipts' = IF txn.step >= 2 THEN receipts \ {txn.after.proof} ELSE receipts
    /\ identity' = IF txn.step >= 3 THEN txn.before ELSE identity

\* What was applied is taken back.
Undo ==
    /\ memory' = IF txn.step >= 1 THEN <<>> ELSE memory
    /\ receipts' = IF txn.step >= 2 THEN receipts \ {txn.after.proof} ELSE receipts
    /\ identity' = IF txn.step >= 3 THEN txn.before ELSE identity

\* It can be: every target has the bytes from before or those that were written.
Undoable ==
    /\ txn.step >= 1 => memory \in {<<>>, txn.after.head}
    /\ txn.step >= 3 => identity \in {txn.before, txn.after}

\* A step fails and the process rolls back.
Fail ==
    /\ mig.pc \in {"prepared", "applying"} /\ Undoable
    /\ Undo /\ txn' = NoTxn
    /\ Leave
    /\ UNCHANGED <<src, intents, plans, approvals, done, told, writer, direct, changes, kills, writes>>

Kill ==
    /\ kills < MaxKills /\ kills' = kills + 1
    /\ \/ mig.pc # "idle" /\ Leave /\ UNCHANGED direct
       \/ direct.pc # "idle" /\ direct' = IdleDirect /\ UNCHANGED <<owner, mig>>
    /\ UNCHANGED <<src, identity, memory, receipts, intents, plans, approvals, done, told, txn,
                   writer, changes, writes>>

\* The next that comes to the barrier settles what the crash left.
Reconcile ==
    /\ owner = "none" /\ direct.pc = "idle"
    /\ \/ /\ txn.state \in {"prepared", "applying"} /\ Undoable
          /\ Undo /\ UNCHANGED done
       \/ /\ txn.state = "marked" /\ identity = txn.after /\ memory = txn.after.head
          /\ done' = done \cup {txn.approval}
          /\ UNCHANGED <<identity, memory, receipts>>
    /\ txn' = NoTxn
    /\ UNCHANGED <<src, intents, plans, approvals, told, owner, mig, writer, direct, changes, kills, writes>>

-----------------------------------------------------------------------------
(* Chapters, and the author at his files.                                   *)

\* A generation holds the barrier from before it reads the identity.
StartChapter ==
    /\ writer.pc = "idle" /\ writes < MaxWrites
    /\ owner = "none" /\ txn.state = "none" /\ Readable
    /\ Newest(src) + 1 \in BookChapters
    /\ owner' = "writer" /\ writer' = [pc |-> "generating", identity |-> identity, src |-> src]
    /\ writes' = writes + 1
    /\ UNCHANGED <<src, identity, memory, receipts, intents, plans, approvals, done, told, mig, txn,
                   direct, changes, kills>>

\* The read set still holds.
Seen == src = writer.src /\ identity = writer.identity /\ Readable

\* An event chapter replaces the identity, under the lock on its file.
CommitChapter ==
    /\ writer.pc = "generating" /\ Seen
    /\ LET c == Newest(src) + 1 IN
         /\ src' = [src EXCEPT !.prose[c] = 1]
         /\ \/ /\ writer.identity.mode = "event" /\ direct.pc = "idle"
               /\ memory' = Append(writer.identity.head, [kind |-> "chapter", chapter |-> c])
               /\ identity' = [writer.identity EXCEPT !.head = memory']
            \/ writer.identity.mode = "legacy" /\ UNCHANGED <<memory, identity>>
    /\ owner' = "none" /\ writer' = IdleWriter
    /\ UNCHANGED <<receipts, intents, plans, approvals, done, told, mig, txn, direct,
                   changes, kills, writes>>

RejectChapter ==
    /\ writer.pc = "generating"
    /\ owner' = "none" /\ writer' = IdleWriter
    /\ UNCHANGED <<src, identity, memory, receipts, intents, plans, approvals, done, told, mig, txn,
                   direct, changes, kills, writes>>

\* The author adds, removes or copies a file, at any time: no lock of the program holds him.
Edit ==
    /\ changes < MaxChanges /\ changes' = changes + 1
    /\ \/ src' = [src EXCEPT !.setting = @ + 1]
       \/ \E c \in BookChapters, n \in 0..2 : n # src.prose[c] /\ src' = [src EXCEPT !.prose[c] = n]
    /\ UNCHANGED <<identity, memory, receipts, intents, plans, approvals, done, told, owner, mig, txn,
                   writer, direct, kills, writes>>

-----------------------------------------------------------------------------
Heads == {<<[kind |-> "genesis", id |-> d]>> : d \in Decisions}

Migrate == Again \/ Refuse \/ PrepareTxn \/ ApplyMemory \/ ApplyReceipt \/ ApplyIdentity \/ CheckSources \/ MarkTxn \/ PublishTxn \/ Fail

MigrationNext ==
    \/ ActivateStrict
    \/ \E h \in Heads : DirectStart(h)
    \/ DirectReceipt \/ DirectIdentity
    \/ BuildPlan
    \/ \E i \in DOMAIN plans, d \in Decisions, t \in Times : Approve(i, d, t)
    \/ \E a \in approvals : Lock(a)
    \/ Again \/ Refuse \/ PrepareTxn \/ ApplyMemory \/ ApplyReceipt \/ ApplyIdentity
    \/ CheckSources \/ MarkTxn \/ PublishTxn \/ Fail
    \/ Kill \/ Reconcile
    \/ StartChapter \/ CommitChapter \/ RejectChapter
    \/ Edit

\* A command that is running ends, a crashed one is followed by another entry to the barrier.
MigrationFairness == WF_migrationVars(Migrate) /\ WF_migrationVars(DirectReceipt \/ DirectIdentity) /\ WF_migrationVars(Reconcile)

MigrationSpec == MigrationInit /\ [][MigrationNext]_migrationVars /\ MigrationFairness

-----------------------------------------------------------------------------
(* Properties.                                                             *)

\* Type invariant.
MigrationTyped ==
    /\ identity.mode \in {"legacy", "event"} /\ (identity.mode = "legacy" => identity.proof = <<>>)
    /\ txn.state \in {"none", "prepared", "applying", "marked"} /\ txn.step \in 0..3
    /\ (owner = "mig") = (mig.pc # "idle") /\ (owner = "writer") = (writer.pc # "idle")
    /\ mig.pc \in {"prepared", "applying", "checked", "marked"} => txn.approval = mig.approval
    /\ told \subseteq approvals /\ done \subseteq approvals

Settled == txn.state = "none" /\ direct.pc = "idle"

\* A legacy book has no batch, an event book has its receipt and a store that ends where its
\* identity says (load_project_identity, _load_completed_migration, activate_event_authority).
Agreeing ==
    Settled =>
        /\ identity.mode = "legacy" => memory = <<>>
        /\ identity.mode = "event" =>
             identity.proof \in receipts /\ (memory = identity.head \/ (memory = <<>> /\ identity.head = identity.proof))

\* A receipt beside a legacy identity closes the book to every reader, so the intent that
\* completes the activation is still there and is for these very bytes.
Recoverable ==
    Settled /\ identity.mode = "legacy" /\ receipts # {} =>
        \E i \in intents : i.expected = identity /\ i.head \in receipts

\* Identity, event store and receipts change together, across every crash and rollback, or an
\* intent is left that completes them (activation.py, migration_execution.py).
OneAuthority == Agreeing /\ Recoverable

\* An approval that was reported completed, by this run or a repeated one, is the one the
\* book's memory begins with, and stays so whatever is done later.
ToldTruthfully == \A a \in told : identity.mode = "event" /\ memory # <<>> /\ memory[1] = Boot(a)

\* Strict reading that was switched on is not lost to a migration or a chapter that had
\* read the identity before, nor to a rollback.
StrictSticks == [][identity.strict => identity'.strict]_migrationVars

\* The first receipt of event authority is a point of no return once the transaction has its
\* marker: no crash, rollback or activation brings legacy authority back.
NoDowngrade == [][identity.mode = "event" /\ txn.state \in {"none", "marked"} => identity'.mode = "event"]_migrationVars

\* The sources are what the plan froze when the marker is written, or the author wrote after the
\* last look at them, which nothing can prevent: no chapter, activation or second process, and
\* no earlier edit of his, gets past the marker (assert_migration_source_snapshot_current).
FrozenThroughMarker ==
    [][txn.state = "applying" /\ txn'.state = "marked" =>
         src = plans[txn.approval.plan].src \/ changes > mig.seen]_migrationVars

\* What was reported completed, switched on or frozen stays so, whatever is rolled back or killed.
MigrationKeeps == []ToldTruthfully /\ StrictSticks /\ NoDowngrade /\ FrozenThroughMarker
=============================================================================
