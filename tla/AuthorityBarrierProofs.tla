----------------------- MODULE AuthorityBarrierProofs -----------------------
(***************************************************************************)
(* Proofs about AuthorityBarrier, for any runs, processes, targets and     *)
(* bounds: behind the barrier, with an operator who reconciles at any      *)
(* time and an author who edits, what the barrier says of a run is what    *)
(* happened (BarrierIsTruthful), and every step is a step or a stutter of  *)
(* the promise to the readers (AtomicallyPublished).  Last, about the root *)
(* registries of ProjectRelocation (RebindsTogether).                      *)
(*                                                                         *)
(* The barrier settles an entry on the strength of what it remembers of a  *)
(* reconciliation, while an operator may be reconciling the same run.  The *)
(* invariant BInv has four parts: where each process may be (AInv), what   *)
(* it may rely on about the runs it remembers (HInv: a run that is Gone    *)
(* stays gone, since nobody who could still apply it is left), what the    *)
(* entries of the barrier say (GInv: one run at most is unsettled, and the *)
(* writer that looks at entries has all of them in hand), and that without *)
(* edits the books are whole but for the unsettled run (WInv).             *)
(*                                                                         *)
(* The transaction's own steps are seen through one relation, SectionStep: *)
(* each action is shown to be such a step, and the four parts are shown to *)
(* survive any such step of anybody.                                       *)
(***************************************************************************)
EXTENDS AuthorityBarrier, ProjectRelocation, PersistenceV2Proofs, SequenceTheorems

RecoveryPCs == ScanPCs \cup {"publish", "artifact", "complete", "publishFailed", "transition",
    "unlink", "rollback", "undo", "restore", "returned", "raised"}
BarrierPCs == {"gate", "settle", "settleUnlink"}
CommitPCs == (RecoveryPCs \ ScanPCs) \cup {"commit", "applying", "check", "replace", "marker",
    "marked", "commitFailed", "settle", "settleUnlink"}

\* Which part of the program a process may be in, by what it was started for.
Posted(rec) ==
    /\ rec.pc = "idle" \/ rec.site = "idle" => rec = Idle
    /\ rec.site \in {"gate", "cleanup"} => rec.pc \in RecoveryPCs \cup BarrierPCs
    /\ rec.site = "ready" => rec.pc \in RecoveryPCs \cup {"generate"}
    /\ rec.site = "reconcile" => rec.pc \in RecoveryPCs
    /\ rec.site = "prepare" => rec.pc \in PreparePCs
    /\ rec.site = "commit" => rec.pc \in CommitPCs
    /\ rec.handler = "commitFailed" => rec.site = "commit"
    /\ rec.pc \in FreePCs \cup BarrierPCs => rec.handler = "raised"

\* The writer lock of the StoryProject is exclusive, and the operator does not take it.
OneWriter == \A a, b \in Writers : act[a] # Idle /\ act[b] # Idle => a = b
Operators ==
    /\ \A a \in Writers : act[a].site # "reconcile"
    /\ \A a \in Reconcilers : act[a].site \in {"idle", "reconcile"}

AInv ==
    /\ SInv
    /\ \A a \in Actors : Posted(act[a])
    /\ OneWriter
    /\ Operators

-----------------------------------------------------------------------------
\* A process may still apply a run of which the files are g.
Live(rec, g) ==
    \/ /\ rec.pc \in {"drafting", "prepare", "stage", "publishJournal", "registerPending", "commit"}
          \/ (rec.pc = "returned" /\ rec.site = "prepare")
       /\ g.manifest \in {"new", "prepared"}
    \/ rec.pc \in {"applying", "check", "replace", "marker"}

\* Nothing is left of the run and nothing comes of it any more.
Gone(r) ==
    /\ disk[r].before # <<>> /\ ~disk[r].marker
    /\ \A t \in Targets : file[t] # r
    /\ \A a \in Actors : act[a].tx = r => ~Live(act[a], disk[r])

GoneRuns == {r \in Runs : Gone(r)}

\* What a run's files say of its history.
Recorded(f) ==
    /\ f.manifest \notin {"new", "prepared"} => f.registry # {}
    /\ f.manifest = "completed" => f.receipt

\* What a process that remembers rec knows of its run, of which the files are g.
KnowsRun(rec, f, g, gone) ==
    /\ rec.pc \in Journalling \ {"registerPending"} \/ rec.handler # "raised" \/ rec.site = "commit"
           \/ (rec.site = "prepare" /\ rec.pc = "returned") => g.registry # {}
    /\ rec.pc = "unlink" => rec.goal \in g.registry
    /\ rec.pc = "markUnlink" => "recovery_required" \in g.registry
    /\ rec.pc \in {"drafting", "prepare", "registerPending", "commit"}
           \/ (rec.site = "prepare" /\ rec.pc = "returned") => g.staging = "none"
    /\ rec.pc \in {"undo", "restore"} =>
           rec.failed \/ \A t \in Targets : t > rec.k => f[t] # rec.tx
    /\ rec.pc = "quarantine" => rec.tx \in gone
    /\ rec.pc \in {"transition", "unlink"} /\ rec.goal = "rolled_back" => rec.tx \in gone

\* What it knows of other runs.
KnowsOthers(rec, d, gone) ==
    /\ rec.pc \notin {"discovering", "quarantine"} => \A r \in rec.todo : d[r].registry # {}
    /\ rec.pc \in {"discovering", "quarantine"} => rec.todo \subseteq gone
    /\ \A r \in Runs : "rolled_back" \in rec.report[r] => r \in gone
    /\ \A r \in Runs : "completed" \in rec.report[r] => d[r].receipt

Knows(rec, f, d, gone) == KnowsRun(rec, f, d[rec.tx], gone) /\ KnowsOthers(rec, d, gone)

HInv ==
    /\ \A r \in Runs : Recorded(disk[r])
    /\ \A r \in Runs : disk[r].manifest = "rolled_back" \/ "rolled_back" \in disk[r].registry => r \in GoneRuns
    /\ \A t \in Targets : file[t] \in Runs => disk[file[t]].manifest \notin {"new", "prepared"}
    /\ \A r \in Runs, t \in Targets :
           disk[r].before # <<>> /\ disk[r].before[t] \in Runs => disk[disk[r].before[t]].receipt
    /\ \A a \in Actors : Knows(act[a], file, disk, GoneRuns)

-----------------------------------------------------------------------------
Pairs == {e \in Runs \X Unsettled : e[2] \in global[e[1]]}

\* What the barrier's registry says of a run.
Noted(r) ==
    /\ global[r] \subseteq Unsettled \cup Settled
    /\ global[r] = {} => disk[r].staging = "none" /\ disk[r].manifest = "new"
    /\ global[r] # {} => disk[r].before # <<>>
    /\ "completed" \in global[r] => disk[r].receipt
    /\ global[r] \cap {"rolled_back", "abandoned"} # {} => Gone(r)

\* What the writer knows of the entries.
Gated(a) ==
    LET rec == act[a] IN
    /\ rec.site \in {"ready", "prepare"} => gate = NoGate
    /\ rec.site = "cleanup" /\ rec.pc = "gate" => gate.entries # {}
    /\ (rec.site \in {"gate", "cleanup"} /\ rec.pc # "gate") \/ rec.pc \in {"settle", "settleUnlink"} =>
           gate.entry \in Pairs \ gate.entries
    /\ rec.pc \in {"settle", "settleUnlink"} =>
           /\ rec.tx = gate.entry[1]
           /\ rec.goal \in Settled \cup {"recovery_required"}
           /\ rec.goal = "completed" => disk[rec.tx].receipt
           /\ rec.goal \in {"rolled_back", "abandoned"} => Gone(rec.tx)
    /\ rec.pc = "settleUnlink" => rec.goal \in global[rec.tx]
    /\ rec.site = "gate" /\ ~gate.blocked => \A p \in Pairs :
           \/ p \in gate.entries
           \/ rec.pc # "gate" /\ p = gate.entry
           \/ rec.pc = "settleUnlink" /\ rec.goal = "recovery_required" /\ p = <<rec.tx, "recovery_required">>
    /\ rec.site = "ready" \/ rec.pc = "drafting" => Pairs = {}
    /\ rec.pc = "drafting" => global[rec.tx] = {}
    /\ (rec.site = "prepare" /\ rec.pc # "drafting") \/ rec.site = "commit" => "pending" \in global[rec.tx]

Gates == [entries : SUBSET (Runs \X Unsettled), entry : (Runs \cup {NoRun}) \X Unsettled,
          blocked : BOOLEAN]

GInv ==
    /\ global \in [Runs -> SUBSET (Unsettled \cup Settled)]
    /\ gate \in Gates
    /\ gate.entries \subseteq Pairs
    /\ OneUnsettled
    /\ \A r \in Runs : Noted(r)
    /\ \A a \in Writers : Gated(a)
    /\ (\A a \in Writers : act[a] = Idle) => gate = NoGate

-----------------------------------------------------------------------------
\* Where nobody edits, the books are whole but for the run that is unsettled.
WInv ==
    spent.edits = 0 =>
        /\ \A r \in Runs, t, u \in Targets :
               disk[r].before # <<>> => disk[r].before[t] = disk[r].before[u]
        /\ \A r \in Runs : global[r] \cap Unsettled # {} =>
               /\ \A t \in Targets : file[t] \in {r, disk[r].before[t]}
               /\ disk[r].marker => Applied(r)
        /\ Pairs = {} => \A t, u \in Targets : file[t] = file[u]
        /\ \A a \in Actors : At(a, "drafting") => file = Files(a).before
        /\ \A a \in Actors : At(a, "marker") => Applied(act[a].tx)
        /\ \A a \in Actors : At(a, "restore") => file[act[a].k] = act[a].tx

BInv == AInv /\ HInv /\ GInv /\ WInv

-----------------------------------------------------------------------------
(* A step of a section as the barrier sees it. *)

OuterPCs == {"idle", "gate", "settle", "settleUnlink", "drafting", "generate"}

\* What becomes of the process.
RecStep(old, new) ==
    /\ new.site = old.site /\ Posted(new)
    /\ old.pc \notin OuterPCs /\ new.pc \notin OuterPCs \cup {"prepare", "commit", "discover"}
    /\ old.site \in {"prepare", "commit"} => new.tx = old.tx

\* What becomes of the files of a run while a process remembers old.
FileStep(old, r, f, g) ==
    /\ g.before = f.before
    /\ f.marker => g.marker
    /\ g.marker => f.marker \/ (old.pc = "marker" /\ r = old.tx)
    /\ f.receipt => g.receipt
    /\ g.receipt => f.receipt \/ (old.pc = "artifact" /\ f.marker /\ r = old.tx)
    /\ g.manifest \in {"new", "prepared"} => f.manifest \in {"new", "prepared"}
    /\ g.manifest = "new" => f.manifest = "new"
    /\ g.manifest # "new" =>
           f.manifest # "new" \/ f.staging # "none" \/ (old.pc = "publishJournal" /\ r = old.tx)
    /\ g.staging # "none" => f.staging # "none" \/ (old.pc \in {"prepare", "stage"} /\ r = old.tx)
    /\ g.registry = {} => f.registry = {}
    /\ f.registry \ {"pending"} \subseteq g.registry
    /\ "rolled_back" \in g.registry =>
           "rolled_back" \in f.registry \/ (old.pc = "transition" /\ old.goal = "rolled_back" /\ r = old.tx)
    /\ Recorded(g)
    /\ g.manifest = "rolled_back" =>
           \/ f.manifest = "rolled_back"
           \/ old.pc = "undo" /\ old.k = 0 /\ ~old.failed /\ r = old.tx

\* The run that a is done with rolling back.
Dead(a) == {r \in Runs : /\ r = act[a].tx /\ act[a].pc = "undo" /\ act[a].k = 0 /\ ~act[a].failed
                         /\ disk'[r].manifest = "rolled_back"}

\* What a process has just checked of the books.
Checked(rec, f) ==
    /\ rec.pc = "marker" => \A t \in Targets : f[t] = rec.tx
    /\ rec.pc = "restore" => f[rec.k] = rec.tx

SectionStep(a) ==
    /\ \E rec :
        /\ Become(a, rec)
        /\ RecStep(act[a], rec)
        /\ Knows(rec, file', disk', GoneRuns \cup Dead(a))
        /\ Checked(rec, file')
        /\ Live(rec, disk'[rec.tx]) => rec.tx = act[a].tx /\ Live(act[a], Files(a))
    /\ \A r \in Runs : FileStep(act[a], r, disk[r], disk'[r])
    /\ \/ file' = file
       \/ act[a].pc = "replace" /\ file' = [file EXCEPT ![act[a].k] = act[a].tx]
       \/ act[a].pc = "restore" /\ file' = [file EXCEPT ![act[a].k] = Files(a).before[act[a].k]]
    /\ spent'.edits = spent.edits

-----------------------------------------------------------------------------
(* Writes and looks of a section. *)

\* What is known of a process and of its run before it moves.
LEMMA Seeing ==
  ASSUME AInv, HInv, NEW a \in Actors
  PROVE  /\ act[a] \in ActRecords /\ Placed(act[a], disk) /\ SwapOK(act[a], file, disk)
         /\ Posted(act[a]) /\ KnowsRun(act[a], file, Files(a), GoneRuns)
         /\ KnowsOthers(act[a], disk, GoneRuns)
         /\ act[a].pc \notin FreePCs =>
                /\ act[a].tx \in Runs /\ Files(a) = disk[act[a].tx] /\ Files(a) \in FileRecords
                /\ Files(a).before # <<>> /\ Fresh(Files(a)) /\ Recorded(Files(a)) /\ FileOK(Files(a))
  BY KnowingAll, Acting DEF AInv, HInv, SInv, Knows, Files

\* Where a may go when the files of its run become g.
Onto(a, rec, g) ==
    /\ RecStep(act[a], rec)
    /\ KnowsRun(rec, file, g, GoneRuns)
    /\ Live(rec, g) => rec.tx = act[a].tx /\ Live(act[a], Files(a))
    /\ rec.pc \notin {"marker", "restore", "discovering", "quarantine"}
    /\ rec.tx = act[a].tx \/ (rec.pc = "entry" /\ rec.handler = "raised" /\ rec.site # "commit")
    /\ rec.todo = act[a].todo
    /\ \A r \in Runs : "rolled_back" \in rec.report[r] => r \in GoneRuns
    /\ \A r \in Runs : "completed" \in rec.report[r] =>
           disk[r].receipt \/ (r = act[a].tx /\ g.receipt)

LEMMA OntoKnows ==
  ASSUME AInv, HInv, NEW a \in Actors, act[a].pc \notin {"discovering", "quarantine"},
         NEW d, NEW gone, GoneRuns \subseteq gone,
         \A r \in Runs : FileStep(act[a], r, disk[r], d[r]),
         NEW rec, Onto(a, rec, d[act[a].tx])
  PROVE  /\ RecStep(act[a], rec) /\ Knows(rec, file, d, gone) /\ Checked(rec, file)
         /\ Live(rec, d[rec.tx]) => rec.tx = act[a].tx /\ Live(act[a], Files(a))
<1>1. KnowsOthers(rec, d, gone)
  <2>1. \A r \in rec.todo : r \in Runs /\ disk[r].registry # {}
    BY Seeing DEF Onto, KnowsOthers, Placed, Begun
  <2> QED
    BY <2>1 DEF Onto, KnowsOthers, FileStep
<1>2. Checked(rec, file)
  BY DEF Onto, Checked
<1>3. CASE rec.tx = act[a].tx
  <2>1. KnowsRun(rec, file, d[rec.tx], gone)
    BY <1>3 DEF Onto, KnowsRun
  <2> QED
    BY <1>1, <1>2, <1>3, <2>1 DEF Onto, Knows
<1>4. CASE rec.tx # act[a].tx
  <2>1. rec.pc = "entry" /\ rec.handler = "raised" /\ rec.site # "commit"
    BY <1>4 DEF Onto
  <2>2. KnowsRun(rec, file, d[rec.tx], gone) /\ ~Live(rec, d[rec.tx])
    BY <2>1 DEF KnowsRun, Live, Journalling, PreMarker
  <2> QED
    BY <1>1, <1>2, <2>2 DEF Onto, Knows
<1> QED
  BY <1>3, <1>4

\* A step without a change of the books.
LEMMA OntoStep ==
  ASSUME AInv, HInv, NEW a \in Actors, act[a].pc \notin {"discovering", "quarantine"},
         file' = file, spent'.edits = spent.edits,
         \A r \in Runs : FileStep(act[a], r, disk[r], disk'[r]),
         NEW rec, Become(a, rec), Onto(a, rec, disk'[act[a].tx])
  PROVE  SectionStep(a)
<1>1. GoneRuns \subseteq GoneRuns \cup Dead(a)
  OBVIOUS
<1>2. /\ RecStep(act[a], rec) /\ Knows(rec, file, disk', GoneRuns \cup Dead(a)) /\ Checked(rec, file)
      /\ Live(rec, disk'[rec.tx]) => rec.tx = act[a].tx /\ Live(act[a], Files(a))
  BY <1>1, OntoKnows
<1> QED
  BY <1>2 DEF SectionStep

LEMMA Unwritten ==
  ASSUME HInv, NEW rec, NEW r \in Runs
  PROVE  FileStep(rec, r, disk[r], disk[r])
  BY DEF HInv, FileStep

LEMMA WriteFrame ==
  ASSUME AInv, HInv, NEW a \in Actors, act[a].pc \notin FreePCs \cup {"quarantine"}, NEW g,
         FileStep(act[a], act[a].tx, Files(a), g),
         NEW then, NEW caught, Onto(a, then, g), Onto(a, caught, g), Onto(a, caught, Files(a)),
         Write(a, g, then, caught)
  PROVE  SectionStep(a)
<1> DEFINE d == [disk EXCEPT ![act[a].tx] = g]
<1>1. PICK o \in Outcomes :
         /\ disk' = IF Took(o) THEN d ELSE disk
         /\ Become(a, IF Raised(o) THEN caught ELSE then)
         /\ file' = file /\ Tally(o)
  BY DEF Write
<1>2. /\ act[a].tx \in Runs /\ Files(a) = disk[act[a].tx]
      /\ disk \in [Runs -> FileRecords] /\ spent \in Spendings
  BY Seeing DEF AInv, SInv, IInv
<1>3. spent'.edits = spent.edits
  BY <1>1, <1>2 DEF Tally, Spendings
<1>4. \A r \in Runs : FileStep(act[a], r, disk[r], disk[r]) /\ FileStep(act[a], r, disk[r], d[r])
  BY <1>2, Unwritten
<1>5. d[act[a].tx] = g /\ act[a].pc \notin {"discovering", "quarantine"}
  BY <1>2 DEF FreePCs
<1> HIDE DEF d
<1>6. CASE ~Raised(o)
  <2>1. disk' = d /\ Become(a, then)
    BY <1>1, <1>6 DEF Raised, Took
  <2> QED
    BY <1>1, <1>3, <1>4, <1>5, <2>1, OntoStep
<1>7. CASE Raised(o) /\ Took(o)
  BY <1>1, <1>3, <1>4, <1>5, <1>7, OntoStep
<1>8. CASE Raised(o) /\ ~Took(o)
  <2>1. disk' = disk /\ Become(a, caught)
    BY <1>1, <1>8
  <2> QED
    BY <1>1, <1>2, <1>3, <1>4, <1>5, <2>1, OntoStep
<1> QED
  BY <1>6, <1>7, <1>8

LEMMA LookFrame ==
  ASSUME AInv, HInv, NEW a \in Actors, act[a].pc \notin {"discovering", "quarantine"},
         NEW rec, Onto(a, rec, Files(a)), Look(a, rec)
  PROVE  SectionStep(a)
  BY Unwritten, OntoStep DEF Look, Files

\* An exception.
LEMMA CaughtOnto ==
  ASSUME AInv, HInv, NEW a \in Actors, act[a].pc \notin {"discovering", "quarantine"} \cup OuterPCs,
         NEW g, FileStep(act[a], act[a].tx, Files(a), g)
  PROVE  Onto(a, Caught(a), g)
<1> DEFINE rec == act[a]
           new == Caught(a)
<1>1. /\ rec \in ActRecords /\ rec.handler \in Handlers /\ Posted(rec) /\ Placed(rec, disk)
      /\ KnowsRun(rec, file, Files(a), GoneRuns) /\ KnowsOthers(rec, disk, GoneRuns)
  BY Seeing DEF ActRecords
<1>2. /\ new.pc = rec.handler /\ new.handler = rec.handler /\ new.site = rec.site
      /\ new.tx = rec.tx /\ new.todo = rec.todo /\ new.report = rec.report
  BY <1>1 DEF Caught, ActRecords
<1>3. RecStep(rec, new)
  BY <1>1, <1>2 DEF RecStep, Posted, Placed, OuterPCs, Handlers, FreePCs, RecoveryPCs, CommitPCs,
       PreparePCs, ScanPCs, BarrierPCs, Idle
<1>4. KnowsRun(new, file, g, GoneRuns) /\ ~Live(new, g)
  BY <1>1, <1>2 DEF KnowsRun, Live, FileStep, Handlers, Journalling, PreMarker
<1> QED
  BY <1>1, <1>2, <1>3, <1>4 DEF Onto, KnowsOthers, Handlers

-----------------------------------------------------------------------------
(* One lemma per action. *)

\* A process goes on to another place of its section with what it remembers.
LEMMA StepOnto ==
  ASSUME AInv, HInv, NEW a \in Actors, act[a].pc \notin {"discovering", "quarantine"} \cup OuterPCs,
         NEW g, FileStep(act[a], act[a].tx, Files(a), g),
         NEW rec, NEW pc,
         rec.pc = pc, rec.site = act[a].site, rec.tx = act[a].tx, rec.todo = act[a].todo,
         rec.report = act[a].report,
         pc \notin OuterPCs \cup {"prepare", "commit", "discover", "marker", "restore", "discovering", "quarantine"},
         Posted(rec), KnowsRun(rec, file, g, GoneRuns),
         Live(rec, g) => Live(act[a], Files(a))
  PROVE  Onto(a, rec, g)
  BY Seeing DEF Onto, RecStep, KnowsOthers

LEMMA RaiseFrame ==
  ASSUME AInv, HInv, NEW a \in Actors, act[a].pc \notin {"discovering", "quarantine"} \cup OuterPCs, Raise(a)
  PROVE  SectionStep(a)
<1> DEFINE rec == [Step(a, "raised") EXCEPT !.handler = "raised"]
<1>1. Look(a, rec)
  BY DEF Raise
<1>2. act[a] \in ActRecords /\ Posted(act[a]) /\ KnowsRun(act[a], file, Files(a), GoneRuns)
  BY Seeing
<1>3. /\ rec.pc = "raised" /\ rec.handler = "raised" /\ rec.site = act[a].site
      /\ rec.tx = act[a].tx /\ rec.todo = act[a].todo /\ rec.report = act[a].report
  BY <1>2 DEF Step, ActRecords
<1> HIDE DEF rec
<1>4. Posted(rec) /\ KnowsRun(rec, file, Files(a), GoneRuns) /\ ~Live(rec, Files(a))
  BY <1>2, <1>3 DEF Posted, KnowsRun, Live, OuterPCs, Journalling, PreMarker, RecoveryPCs, CommitPCs,
     PreparePCs, ScanPCs, BarrierPCs, Idle
<1>5. act[a].tx \in Runs => FileStep(act[a], act[a].tx, Files(a), Files(a))
  BY Unwritten DEF Files
<1>6. RecStep(act[a], rec)
  BY <1>3, <1>4 DEF RecStep, OuterPCs
<1>7. Onto(a, rec, Files(a))
  BY <1>2, <1>3, <1>4, <1>6, Seeing DEF Onto, KnowsOthers
<1> QED
  BY <1>1, <1>7, LookFrame

LEMMA PrepareFrame ==
  ASSUME AInv, HInv, NEW a \in Actors, Prepare(a)
  PROVE  SectionStep(a)
<1> DEFINE g == [Files(a) EXCEPT !.staging = "partial"]
           rec == Step(a, "stage")
<1>1. /\ act[a].pc = "prepare"
      /\ Raise(a) \/ (Files(a).manifest = "new" /\ Write(a, g, rec, Caught(a)))
  BY DEF Prepare, At
<1>2. CASE Raise(a)
  BY <1>1, <1>2, RaiseFrame DEF OuterPCs
<1>3. CASE Files(a).manifest = "new" /\ Write(a, g, rec, Caught(a))
  <2>1. act[a].pc \notin FreePCs \cup {"discovering", "quarantine"} \cup OuterPCs
    BY <1>1 DEF FreePCs, OuterPCs
  <2>2. FileStep(act[a], act[a].tx, Files(a), g) /\ FileStep(act[a], act[a].tx, Files(a), Files(a))
    BY <1>1, <1>3, <2>1, Seeing DEF FileStep, FileRecords, Recorded
  <2>3. Onto(a, rec, g)
    <3>1. /\ rec.pc = "stage" /\ rec.handler = act[a].handler /\ rec.site = act[a].site
          /\ rec.tx = act[a].tx /\ rec.todo = act[a].todo /\ rec.report = act[a].report
      BY Seeing DEF Step, ActRecords
    <3> HIDE DEF rec
    <3>2. Posted(rec) /\ KnowsRun(rec, file, g, GoneRuns) /\ Live(act[a], Files(a))
      BY <1>1, <1>3, <2>1, <2>2, <3>1, Seeing DEF Posted, KnowsRun, Live, FileStep, Journalling, PreMarker, RecoveryPCs, CommitPCs,
         PreparePCs, ScanPCs, BarrierPCs, FreePCs, Idle
    <3> QED
      BY <2>1, <2>2, <3>1, <3>2, StepOnto DEF OuterPCs
  <2> QED
    BY <1>3, <2>1, <2>2, <2>3, CaughtOnto, WriteFrame
<1> QED
  BY <1>1, <1>2, <1>3

LEMMA WriteOn ==
  ASSUME AInv, HInv, NEW a \in Actors,
         act[a].pc \notin FreePCs \cup OuterPCs \cup {"discovering", "quarantine"},
         NEW g, FileStep(act[a], act[a].tx, Files(a), g),
         NEW rec, rec.site = act[a].site, rec.tx = act[a].tx, rec.todo = act[a].todo,
         rec.report = act[a].report,
         rec.pc \notin OuterPCs \cup {"prepare", "commit", "discover", "marker", "restore", "discovering", "quarantine"},
         Posted(rec), KnowsRun(rec, file, g, GoneRuns), Live(rec, g) => Live(act[a], Files(a)),
         Write(a, g, rec, Caught(a))
  PROVE  SectionStep(a)
<1>1. FileStep(act[a], act[a].tx, Files(a), Files(a))
  BY Seeing, Unwritten
<1>2. Onto(a, rec, g)
  BY StepOnto
<1>3. Onto(a, Caught(a), g) /\ Onto(a, Caught(a), Files(a))
  BY <1>1, CaughtOnto
<1> QED
  BY <1>2, <1>3, WriteFrame

LEMMA LookCaughtFrame ==
  ASSUME AInv, HInv, NEW a \in Actors,
         act[a].pc \notin FreePCs \cup OuterPCs \cup {"discovering", "quarantine"}, Look(a, Caught(a))
  PROVE  SectionStep(a)
<1>1. FileStep(act[a], act[a].tx, Files(a), Files(a))
  BY Seeing, Unwritten
<1> QED
  BY <1>1, CaughtOnto, LookFrame

LEMMA StageFrame ==
  ASSUME AInv, HInv, NEW a \in Actors, Stage(a)
  PROVE  SectionStep(a)
<1> DEFINE g == [Files(a) EXCEPT !.staging = "complete"]
           rec == Step(a, "publishJournal")
<1>1. act[a].pc = "stage" /\ Write(a, g, rec, Caught(a))
  BY DEF Stage, At
<1>2. act[a].pc \notin FreePCs \cup OuterPCs \cup {"discovering", "quarantine"}
  BY <1>1 DEF FreePCs, OuterPCs
<1>3. FileStep(act[a], act[a].tx, Files(a), g)
  BY <1>1, <1>2, Seeing
     DEF FileStep, FileRecords, Recorded, KnowsRun, Journalling, PreMarker, Placed, MarkedPCs, SwapOK, Started, Fresh, Drafting
<1>4. /\ rec.pc = "publishJournal" /\ rec.handler = act[a].handler /\ rec.goal = act[a].goal
      /\ rec.site = act[a].site /\ rec.tx = act[a].tx /\ rec.todo = act[a].todo /\ rec.report = act[a].report
  BY Seeing DEF Step, ActRecords
<1>5. KnowsRun(rec, file, g, GoneRuns)
  <2>1. /\ g.registry # {} \/ rec.pc \in {"publishJournal", "registerPending"}
        /\ act[a].pc \in {"publishJournal", "registerPending"} => g.staging = "none"
        /\ rec.pc = "unlink" => rec.goal \in g.registry
    BY <1>1, <1>2, <1>4, Seeing DEF KnowsRun, FileRecords, Journalling, PreMarker
  <2>2. act[a].site = "prepare" /\ act[a].handler = "raised"
    BY <1>1, <1>2, Seeing
       DEF Posted, Placed, ActRecords, Sites, RecoveryPCs, ScanPCs, CommitPCs, BarrierPCs, Idle
  <2> HIDE DEF g, rec
  <2> QED
    BY <1>1, <1>2, <1>4, <2>1, <2>2, Seeing
       DEF KnowsRun, Placed, Posted, Idle, PreparePCs, ActRecords, Sites, RecoveryPCs, ScanPCs, CommitPCs, BarrierPCs, Journalling, PreMarker
<1> HIDE DEF g, rec
<1>6. Posted(rec)
  BY <1>1, <1>2, <1>4, Seeing DEF Posted, Idle, Placed, FreePCs, PreparePCs, RecoveryPCs, ScanPCs, CommitPCs, BarrierPCs, OuterPCs
<1>7. Live(rec, g) => Live(act[a], Files(a))
  BY <1>1, <1>2, <1>3, <1>4, Seeing DEF Live, FileStep
<1>8. CASE Write(a, g, rec, Caught(a))
  BY <1>2, <1>3, <1>4, <1>5, <1>6, <1>7, <1>8, WriteOn DEF OuterPCs
<1> QED
  BY <1>1, <1>8

LEMMA PublishJournalFrame ==
  ASSUME AInv, HInv, NEW a \in Actors, PublishJournal(a)
  PROVE  SectionStep(a)
<1> DEFINE g == Journalled(Files(a))
           rec == Step(a, "registerPending")
<1>1. act[a].pc = "publishJournal" /\ Write(a, g, rec, Caught(a))
  BY DEF PublishJournal, At
<1>2. act[a].pc \notin FreePCs \cup OuterPCs \cup {"discovering", "quarantine"}
  BY <1>1 DEF FreePCs, OuterPCs
<1>3. FileStep(act[a], act[a].tx, Files(a), g)
  BY <1>1, <1>2, Seeing
     DEF FileStep, FileRecords, Recorded, KnowsRun, Journalling, PreMarker, Placed, MarkedPCs, SwapOK, Started, Fresh, Drafting, Journalled
<1>4. /\ rec.pc = "registerPending" /\ rec.handler = act[a].handler /\ rec.goal = act[a].goal
      /\ rec.site = act[a].site /\ rec.tx = act[a].tx /\ rec.todo = act[a].todo /\ rec.report = act[a].report
  BY Seeing DEF Step, ActRecords
<1>5. KnowsRun(rec, file, g, GoneRuns)
  <2>1. /\ g.registry # {} \/ rec.pc \in {"publishJournal", "registerPending"}
        /\ act[a].pc \in {"publishJournal", "registerPending"} => g.staging = "none"
        /\ rec.pc = "unlink" => rec.goal \in g.registry
    BY <1>1, <1>2, <1>4, Seeing DEF KnowsRun, FileRecords, Journalling, PreMarker, Journalled
  <2>2. act[a].site = "prepare" /\ act[a].handler = "raised"
    BY <1>1, <1>2, Seeing
       DEF Posted, Placed, ActRecords, Sites, RecoveryPCs, ScanPCs, CommitPCs, BarrierPCs, Idle
  <2> HIDE DEF g, rec
  <2> QED
    BY <1>1, <1>2, <1>4, <2>1, <2>2, Seeing
       DEF KnowsRun, Placed, Posted, Idle, PreparePCs, ActRecords, Sites, RecoveryPCs, ScanPCs, CommitPCs, BarrierPCs, Journalling, PreMarker
<1> HIDE DEF g, rec
<1>6. Posted(rec)
  BY <1>1, <1>2, <1>4, Seeing DEF Posted, Idle, Placed, FreePCs, PreparePCs, RecoveryPCs, ScanPCs, CommitPCs, BarrierPCs, OuterPCs
<1>7. Live(rec, g) => Live(act[a], Files(a))
  BY <1>1, <1>2, <1>3, <1>4, Seeing DEF Live, FileStep
<1>8. CASE Write(a, g, rec, Caught(a))
  BY <1>2, <1>3, <1>4, <1>5, <1>6, <1>7, <1>8, WriteOn DEF OuterPCs
<1> QED
  BY <1>1, <1>8

LEMMA RegisterPendingFrame ==
  ASSUME AInv, HInv, NEW a \in Actors, RegisterPending(a)
  PROVE  SectionStep(a)
<1> DEFINE g == [Files(a) EXCEPT !.registry = @ \cup {"pending"}]
           rec == Step(a, "returned")
<1>1. act[a].pc = "registerPending" /\ Write(a, g, rec, Caught(a))
  BY DEF RegisterPending, At
<1>2. act[a].pc \notin FreePCs \cup OuterPCs \cup {"discovering", "quarantine"}
  BY <1>1 DEF FreePCs, OuterPCs
<1>3. FileStep(act[a], act[a].tx, Files(a), g)
  BY <1>1, <1>2, Seeing
     DEF FileStep, FileRecords, Recorded, KnowsRun, Journalling, PreMarker, Placed, MarkedPCs, SwapOK, Started, Fresh, Drafting
<1>4. /\ rec.pc = "returned" /\ rec.handler = act[a].handler /\ rec.goal = act[a].goal
      /\ rec.site = act[a].site /\ rec.tx = act[a].tx /\ rec.todo = act[a].todo /\ rec.report = act[a].report
  BY Seeing DEF Step, ActRecords
<1>5. KnowsRun(rec, file, g, GoneRuns)
  <2>1. /\ g.registry # {} \/ rec.pc \in {"publishJournal", "registerPending"}
        /\ act[a].pc \in {"publishJournal", "registerPending"} => g.staging = "none"
        /\ rec.pc = "unlink" => rec.goal \in g.registry
    BY <1>1, <1>2, <1>4, Seeing DEF KnowsRun, FileRecords, Journalling, PreMarker
  <2> HIDE DEF g, rec
  <2> QED
    BY <1>1, <1>2, <1>4, <2>1, Seeing
       DEF KnowsRun, Placed, Posted, Idle, PreparePCs, RecoveryPCs, ScanPCs, CommitPCs, BarrierPCs, Journalling, PreMarker
<1> HIDE DEF g, rec
<1>6. Posted(rec)
  <2>1. act[a].site = "prepare" /\ act[a].handler = "raised"
    BY <1>1, Seeing DEF Posted, Placed, ActRecords, Sites, RecoveryPCs, ScanPCs, CommitPCs, BarrierPCs, Idle
  <2> QED
    BY <1>1, <1>2, <1>4, <2>1, Seeing DEF Posted, Idle, Placed, FreePCs, PreparePCs, RecoveryPCs, ScanPCs, CommitPCs, BarrierPCs, OuterPCs
<1>7. Live(rec, g) => Live(act[a], Files(a))
  BY <1>1, <1>2, <1>3, <1>4, Seeing DEF Live, FileStep
<1>8. CASE Write(a, g, rec, Caught(a))
  BY <1>2, <1>3, <1>4, <1>5, <1>6, <1>7, <1>8, WriteOn DEF OuterPCs
<1> QED
  BY <1>1, <1>8

LEMMA ApplyingFrame ==
  ASSUME AInv, HInv, NEW a \in Actors, Applying(a)
  PROVE  SectionStep(a)
<1> DEFINE g == [Files(a) EXCEPT !.manifest = "applying"]
           rec == [Step(a, "check") EXCEPT !.k = 1]
<1>1. act[a].pc = "applying" /\ (Write(a, g, rec, Caught(a)) \/ Look(a, Caught(a)))
  BY DEF Applying, At
<1>2. act[a].pc \notin FreePCs \cup OuterPCs \cup {"discovering", "quarantine"}
  BY <1>1 DEF FreePCs, OuterPCs
<1>3. FileStep(act[a], act[a].tx, Files(a), g)
  BY <1>1, <1>2, Seeing
     DEF FileStep, FileRecords, Recorded, KnowsRun, Journalling, PreMarker, Placed, MarkedPCs, SwapOK, Started, Fresh, Drafting
<1>4. /\ rec.pc = "check" /\ rec.handler = act[a].handler /\ rec.goal = act[a].goal
      /\ rec.site = act[a].site /\ rec.tx = act[a].tx /\ rec.todo = act[a].todo /\ rec.report = act[a].report
  BY Seeing DEF Step, ActRecords
<1>5. KnowsRun(rec, file, g, GoneRuns)
  <2>1. /\ g.registry # {} \/ rec.pc \in {"publishJournal", "registerPending"}
        /\ act[a].pc \in {"publishJournal", "registerPending"} => g.staging = "none"
        /\ rec.pc = "unlink" => rec.goal \in g.registry
    BY <1>1, <1>2, <1>4, Seeing DEF KnowsRun, FileRecords, Journalling, PreMarker
  <2> HIDE DEF g, rec
  <2> QED
    BY <1>1, <1>2, <1>4, <2>1, Seeing
       DEF KnowsRun, Placed, Posted, Idle, PreparePCs, RecoveryPCs, ScanPCs, CommitPCs, BarrierPCs, Journalling, PreMarker
<1> HIDE DEF g, rec
<1>6. Posted(rec)
  BY <1>1, <1>2, <1>4, Seeing DEF Posted, Idle, Placed, FreePCs, PreparePCs, RecoveryPCs, ScanPCs, CommitPCs, BarrierPCs, OuterPCs
<1>7. Live(rec, g) => Live(act[a], Files(a))
  BY <1>1, <1>2, <1>3, <1>4, Seeing DEF Live, FileStep
<1>8. CASE Write(a, g, rec, Caught(a))
  BY <1>2, <1>3, <1>4, <1>5, <1>6, <1>7, <1>8, WriteOn DEF OuterPCs
<1>9. CASE Look(a, Caught(a))
  BY <1>2, <1>9, LookCaughtFrame
<1> QED
  BY <1>1, <1>8, <1>9

LEMMA WriteMarkerFrame ==
  ASSUME AInv, HInv, NEW a \in Actors, WriteMarker(a)
  PROVE  SectionStep(a)
<1> DEFINE g == [Files(a) EXCEPT !.marker = TRUE]
           rec == Step(a, "marked")
<1>1. act[a].pc = "marker" /\ Write(a, g, rec, Caught(a))
  BY DEF WriteMarker, At
<1>2. act[a].pc \notin FreePCs \cup OuterPCs \cup {"discovering", "quarantine"}
  BY <1>1 DEF FreePCs, OuterPCs
<1>3. FileStep(act[a], act[a].tx, Files(a), g)
  BY <1>1, <1>2, Seeing
     DEF FileStep, FileRecords, Recorded, KnowsRun, Journalling, PreMarker, Placed, MarkedPCs, SwapOK, Started, Fresh, Drafting
<1>4. /\ rec.pc = "marked" /\ rec.handler = act[a].handler /\ rec.goal = act[a].goal
      /\ rec.site = act[a].site /\ rec.tx = act[a].tx /\ rec.todo = act[a].todo /\ rec.report = act[a].report
  BY Seeing DEF Step, ActRecords
<1>5. KnowsRun(rec, file, g, GoneRuns)
  <2>1. /\ g.registry # {} \/ rec.pc \in {"publishJournal", "registerPending"}
        /\ act[a].pc \in {"publishJournal", "registerPending"} => g.staging = "none"
        /\ rec.pc = "unlink" => rec.goal \in g.registry
    BY <1>1, <1>2, <1>4, Seeing DEF KnowsRun, FileRecords, Journalling, PreMarker
  <2> HIDE DEF g, rec
  <2> QED
    BY <1>1, <1>2, <1>4, <2>1, Seeing
       DEF KnowsRun, Placed, Posted, Idle, PreparePCs, RecoveryPCs, ScanPCs, CommitPCs, BarrierPCs, Journalling, PreMarker
<1> HIDE DEF g, rec
<1>6. Posted(rec)
  BY <1>1, <1>2, <1>4, Seeing DEF Posted, Idle, Placed, FreePCs, PreparePCs, RecoveryPCs, ScanPCs, CommitPCs, BarrierPCs, OuterPCs
<1>7. Live(rec, g) => Live(act[a], Files(a))
  BY <1>1, <1>2, <1>3, <1>4, Seeing DEF Live, FileStep
<1>8. CASE Write(a, g, rec, Caught(a))
  BY <1>2, <1>3, <1>4, <1>5, <1>6, <1>7, <1>8, WriteOn DEF OuterPCs
<1> QED
  BY <1>1, <1>8

LEMMA MarkCommittedFrame ==
  ASSUME AInv, HInv, NEW a \in Actors, MarkCommitted(a)
  PROVE  SectionStep(a)
<1> DEFINE g == [Files(a) EXCEPT !.manifest = "commit_marked"]
           rec == [Step(a, "publish") EXCEPT !.handler = "publishFailed"]
<1>1. act[a].pc = "marked" /\ Write(a, g, rec, Caught(a))
  BY DEF MarkCommitted, At
<1>2. act[a].pc \notin FreePCs \cup OuterPCs \cup {"discovering", "quarantine"}
  BY <1>1 DEF FreePCs, OuterPCs
<1>3. FileStep(act[a], act[a].tx, Files(a), g)
  BY <1>1, <1>2, Seeing
     DEF FileStep, FileRecords, Recorded, KnowsRun, Journalling, PreMarker, Placed, MarkedPCs, SwapOK, Started, Fresh, Drafting
<1>4. /\ rec.pc = "publish" /\ rec.handler = "publishFailed" /\ rec.goal = act[a].goal
      /\ rec.site = act[a].site /\ rec.tx = act[a].tx /\ rec.todo = act[a].todo /\ rec.report = act[a].report
  BY Seeing DEF Step, ActRecords
<1>5. KnowsRun(rec, file, g, GoneRuns)
  <2>1. /\ g.registry # {} \/ rec.pc \in {"publishJournal", "registerPending"}
        /\ act[a].pc \in {"publishJournal", "registerPending"} => g.staging = "none"
        /\ rec.pc = "unlink" => rec.goal \in g.registry
    BY <1>1, <1>2, <1>4, Seeing DEF KnowsRun, FileRecords, Journalling, PreMarker
  <2> HIDE DEF g, rec
  <2> QED
    BY <1>1, <1>2, <1>4, <2>1, Seeing
       DEF KnowsRun, Placed, Posted, Idle, PreparePCs, RecoveryPCs, ScanPCs, CommitPCs, BarrierPCs, Journalling, PreMarker
<1> HIDE DEF g, rec
<1>6. Posted(rec)
  BY <1>1, <1>2, <1>4, Seeing DEF Posted, Idle, Placed, FreePCs, PreparePCs, RecoveryPCs, ScanPCs, CommitPCs, BarrierPCs, OuterPCs
<1>7. Live(rec, g) => Live(act[a], Files(a))
  BY <1>1, <1>2, <1>3, <1>4, Seeing DEF Live, FileStep
<1>8. CASE Write(a, g, rec, Caught(a))
  BY <1>2, <1>3, <1>4, <1>5, <1>6, <1>7, <1>8, WriteOn DEF OuterPCs
<1> QED
  BY <1>1, <1>8

LEMMA PublishFrame ==
  ASSUME AInv, HInv, NEW a \in Actors, Publish(a)
  PROVE  SectionStep(a)
<1> DEFINE g == [Files(a) EXCEPT !.manifest = "publishing"]
           rec == Step(a, "artifact")
<1>1. act[a].pc = "publish" /\ (Write(a, g, rec, Caught(a)) \/ Look(a, Caught(a)))
  BY DEF Publish, At
<1>2. act[a].pc \notin FreePCs \cup OuterPCs \cup {"discovering", "quarantine"}
  BY <1>1 DEF FreePCs, OuterPCs
<1>3. FileStep(act[a], act[a].tx, Files(a), g)
  BY <1>1, <1>2, Seeing
     DEF FileStep, FileRecords, Recorded, KnowsRun, Journalling, PreMarker, Placed, MarkedPCs, SwapOK, Started, Fresh, Drafting
<1>4. /\ rec.pc = "artifact" /\ rec.handler = act[a].handler /\ rec.goal = act[a].goal
      /\ rec.site = act[a].site /\ rec.tx = act[a].tx /\ rec.todo = act[a].todo /\ rec.report = act[a].report
  BY Seeing DEF Step, ActRecords
<1>5. KnowsRun(rec, file, g, GoneRuns)
  <2>1. /\ g.registry # {} \/ rec.pc \in {"publishJournal", "registerPending"}
        /\ act[a].pc \in {"publishJournal", "registerPending"} => g.staging = "none"
        /\ rec.pc = "unlink" => rec.goal \in g.registry
    BY <1>1, <1>2, <1>4, Seeing DEF KnowsRun, FileRecords, Journalling, PreMarker
  <2> HIDE DEF g, rec
  <2> QED
    BY <1>1, <1>2, <1>4, <2>1, Seeing
       DEF KnowsRun, Placed, Posted, Idle, PreparePCs, RecoveryPCs, ScanPCs, CommitPCs, BarrierPCs, Journalling, PreMarker
<1> HIDE DEF g, rec
<1>6. Posted(rec)
  BY <1>1, <1>2, <1>4, Seeing DEF Posted, Idle, Placed, FreePCs, PreparePCs, RecoveryPCs, ScanPCs, CommitPCs, BarrierPCs, OuterPCs
<1>7. Live(rec, g) => Live(act[a], Files(a))
  BY <1>1, <1>2, <1>3, <1>4, Seeing DEF Live, FileStep
<1>8. CASE Write(a, g, rec, Caught(a))
  BY <1>2, <1>3, <1>4, <1>5, <1>6, <1>7, <1>8, WriteOn DEF OuterPCs
<1>9. CASE Look(a, Caught(a))
  BY <1>2, <1>9, LookCaughtFrame
<1> QED
  BY <1>1, <1>8, <1>9

LEMMA PublishArtifactFrame ==
  ASSUME AInv, HInv, NEW a \in Actors, PublishArtifact(a)
  PROVE  SectionStep(a)
<1> DEFINE g == [Files(a) EXCEPT !.published = @ + 1]
           rec == Step(a, "artifact")
<1>1. act[a].pc = "artifact" /\ Write(a, g, rec, Caught(a))
  BY DEF PublishArtifact, At
<1>2. act[a].pc \notin FreePCs \cup OuterPCs \cup {"discovering", "quarantine"}
  BY <1>1 DEF FreePCs, OuterPCs
<1>3. FileStep(act[a], act[a].tx, Files(a), g)
  BY <1>1, <1>2, Seeing
     DEF FileStep, FileRecords, Recorded, KnowsRun, Journalling, PreMarker, Placed, MarkedPCs, SwapOK, Started, Fresh, Drafting
<1>4. /\ rec.pc = "artifact" /\ rec.handler = act[a].handler /\ rec.goal = act[a].goal
      /\ rec.site = act[a].site /\ rec.tx = act[a].tx /\ rec.todo = act[a].todo /\ rec.report = act[a].report
  BY Seeing DEF Step, ActRecords
<1>5. KnowsRun(rec, file, g, GoneRuns)
  <2>1. /\ g.registry # {} \/ rec.pc \in {"publishJournal", "registerPending"}
        /\ act[a].pc \in {"publishJournal", "registerPending"} => g.staging = "none"
        /\ rec.pc = "unlink" => rec.goal \in g.registry
    BY <1>1, <1>2, <1>4, Seeing DEF KnowsRun, FileRecords, Journalling, PreMarker
  <2> HIDE DEF g, rec
  <2> QED
    BY <1>1, <1>2, <1>4, <2>1, Seeing
       DEF KnowsRun, Placed, Posted, Idle, PreparePCs, RecoveryPCs, ScanPCs, CommitPCs, BarrierPCs, Journalling, PreMarker
<1> HIDE DEF g, rec
<1>6. Posted(rec)
  BY <1>1, <1>2, <1>4, Seeing DEF Posted, Idle, Placed, FreePCs, PreparePCs, RecoveryPCs, ScanPCs, CommitPCs, BarrierPCs, OuterPCs
<1>7. Live(rec, g) => Live(act[a], Files(a))
  BY <1>1, <1>2, <1>3, <1>4, Seeing DEF Live, FileStep
<1>8. CASE Write(a, g, rec, Caught(a))
  BY <1>2, <1>3, <1>4, <1>5, <1>6, <1>7, <1>8, WriteOn DEF OuterPCs
<1> QED
  BY <1>1, <1>8

LEMMA WriteReceiptFrame ==
  ASSUME AInv, HInv, NEW a \in Actors, WriteReceipt(a)
  PROVE  SectionStep(a)
<1> DEFINE g == [Files(a) EXCEPT !.receipt = TRUE]
           rec == Step(a, "complete")
<1>1. act[a].pc = "artifact" /\ Write(a, g, rec, Caught(a))
  BY DEF WriteReceipt, At
<1>2. act[a].pc \notin FreePCs \cup OuterPCs \cup {"discovering", "quarantine"}
  BY <1>1 DEF FreePCs, OuterPCs
<1>3. FileStep(act[a], act[a].tx, Files(a), g)
  BY <1>1, <1>2, Seeing
     DEF FileStep, FileRecords, Recorded, KnowsRun, Journalling, PreMarker, Placed, MarkedPCs, SwapOK, Started, Fresh, Drafting
<1>4. /\ rec.pc = "complete" /\ rec.handler = act[a].handler /\ rec.goal = act[a].goal
      /\ rec.site = act[a].site /\ rec.tx = act[a].tx /\ rec.todo = act[a].todo /\ rec.report = act[a].report
  BY Seeing DEF Step, ActRecords
<1>5. KnowsRun(rec, file, g, GoneRuns)
  <2>1. /\ g.registry # {} \/ rec.pc \in {"publishJournal", "registerPending"}
        /\ act[a].pc \in {"publishJournal", "registerPending"} => g.staging = "none"
        /\ rec.pc = "unlink" => rec.goal \in g.registry
    BY <1>1, <1>2, <1>4, Seeing DEF KnowsRun, FileRecords, Journalling, PreMarker
  <2> HIDE DEF g, rec
  <2> QED
    BY <1>1, <1>2, <1>4, <2>1, Seeing
       DEF KnowsRun, Placed, Posted, Idle, PreparePCs, RecoveryPCs, ScanPCs, CommitPCs, BarrierPCs, Journalling, PreMarker
<1> HIDE DEF g, rec
<1>6. Posted(rec)
  BY <1>1, <1>2, <1>4, Seeing DEF Posted, Idle, Placed, FreePCs, PreparePCs, RecoveryPCs, ScanPCs, CommitPCs, BarrierPCs, OuterPCs
<1>7. Live(rec, g) => Live(act[a], Files(a))
  BY <1>1, <1>2, <1>3, <1>4, Seeing DEF Live, FileStep
<1>8. CASE Write(a, g, rec, Caught(a))
  BY <1>2, <1>3, <1>4, <1>5, <1>6, <1>7, <1>8, WriteOn DEF OuterPCs
<1> QED
  BY <1>1, <1>8

LEMMA CompleteFrame ==
  ASSUME AInv, HInv, NEW a \in Actors, Complete(a)
  PROVE  SectionStep(a)
<1> DEFINE g == [Files(a) EXCEPT !.manifest = "completed"]
           rec == [Step(a, "transition") EXCEPT !.goal = "completed"]
<1>1. act[a].pc = "complete" /\ Write(a, g, rec, Caught(a))
  BY DEF Complete, At
<1>2. act[a].pc \notin FreePCs \cup OuterPCs \cup {"discovering", "quarantine"}
  BY <1>1 DEF FreePCs, OuterPCs
<1>3. FileStep(act[a], act[a].tx, Files(a), g)
  BY <1>1, <1>2, Seeing
     DEF FileStep, FileRecords, Recorded, KnowsRun, Journalling, PreMarker, Placed, MarkedPCs, SwapOK, Started, Fresh, Drafting
<1>4. /\ rec.pc = "transition" /\ rec.handler = act[a].handler /\ rec.goal = "completed"
      /\ rec.site = act[a].site /\ rec.tx = act[a].tx /\ rec.todo = act[a].todo /\ rec.report = act[a].report
  BY Seeing DEF Step, ActRecords
<1>5. KnowsRun(rec, file, g, GoneRuns)
  <2>1. /\ g.registry # {} \/ rec.pc \in {"publishJournal", "registerPending"}
        /\ act[a].pc \in {"publishJournal", "registerPending"} => g.staging = "none"
        /\ rec.pc = "unlink" => rec.goal \in g.registry
    BY <1>1, <1>2, <1>4, Seeing DEF KnowsRun, FileRecords, Journalling, PreMarker
  <2> HIDE DEF g, rec
  <2> QED
    BY <1>1, <1>2, <1>4, <2>1, Seeing
       DEF KnowsRun, Placed, Posted, Idle, PreparePCs, RecoveryPCs, ScanPCs, CommitPCs, BarrierPCs, Journalling, PreMarker
<1> HIDE DEF g, rec
<1>6. Posted(rec)
  BY <1>1, <1>2, <1>4, Seeing DEF Posted, Idle, Placed, FreePCs, PreparePCs, RecoveryPCs, ScanPCs, CommitPCs, BarrierPCs, OuterPCs
<1>7. Live(rec, g) => Live(act[a], Files(a))
  BY <1>1, <1>2, <1>3, <1>4, Seeing DEF Live, FileStep
<1>8. CASE Write(a, g, rec, Caught(a))
  BY <1>2, <1>3, <1>4, <1>5, <1>6, <1>7, <1>8, WriteOn DEF OuterPCs
<1> QED
  BY <1>1, <1>8

LEMMA TransitionFrame ==
  ASSUME AInv, HInv, NEW a \in Actors, Transition(a)
  PROVE  SectionStep(a)
<1> DEFINE g == [Files(a) EXCEPT !.registry = @ \cup {act[a].goal}]
           rec == Step(a, "unlink")
<1>1. act[a].pc = "transition" /\ Write(a, g, rec, Caught(a))
  BY DEF Transition, At
<1>2. act[a].pc \notin FreePCs \cup OuterPCs \cup {"discovering", "quarantine"}
  BY <1>1 DEF FreePCs, OuterPCs
<1>3. FileStep(act[a], act[a].tx, Files(a), g)
  BY <1>1, <1>2, Seeing
     DEF FileStep, FileRecords, Recorded, KnowsRun, Journalling, PreMarker, Placed, MarkedPCs, SwapOK, Started, Fresh, Drafting
<1>4. /\ rec.pc = "unlink" /\ rec.handler = act[a].handler /\ rec.goal = act[a].goal
      /\ rec.site = act[a].site /\ rec.tx = act[a].tx /\ rec.todo = act[a].todo /\ rec.report = act[a].report
  BY Seeing DEF Step, ActRecords
<1>5. KnowsRun(rec, file, g, GoneRuns)
  <2>1. /\ g.registry # {} \/ rec.pc \in {"publishJournal", "registerPending"}
        /\ act[a].pc \in {"publishJournal", "registerPending"} => g.staging = "none"
        /\ rec.pc = "unlink" => rec.goal \in g.registry
    BY <1>1, <1>2, <1>4, Seeing DEF KnowsRun, FileRecords, Journalling, PreMarker
  <2> HIDE DEF g, rec
  <2> QED
    BY <1>1, <1>2, <1>4, <2>1, Seeing
       DEF KnowsRun, Placed, Posted, Idle, PreparePCs, RecoveryPCs, ScanPCs, CommitPCs, BarrierPCs, Journalling, PreMarker
<1> HIDE DEF g, rec
<1>6. Posted(rec)
  BY <1>1, <1>2, <1>4, Seeing DEF Posted, Idle, Placed, FreePCs, PreparePCs, RecoveryPCs, ScanPCs, CommitPCs, BarrierPCs, OuterPCs
<1>7. Live(rec, g) => Live(act[a], Files(a))
  BY <1>1, <1>2, <1>3, <1>4, Seeing DEF Live, FileStep
<1>8. CASE Write(a, g, rec, Caught(a))
  BY <1>2, <1>3, <1>4, <1>5, <1>6, <1>7, <1>8, WriteOn DEF OuterPCs
<1> QED
  BY <1>1, <1>8

\* The end of a section.
LEMMA FinishOnto ==
  ASSUME AInv, HInv, NEW a \in Actors,
         act[a].pc \notin FreePCs \cup OuterPCs \cup {"discovering", "quarantine"}, act[a].site # "prepare",
         NEW g, FileStep(act[a], act[a].tx, Files(a), g), g.registry # {},
         NEW s, s = "completed" => g.receipt, s = "rolled_back" => act[a].tx \in GoneRuns
  PROVE  Onto(a, Finish(a, s), g)
<1> DEFINE rec == Finish(a, s)
<1>1. /\ act[a] \in ActRecords /\ Posted(act[a]) /\ KnowsOthers(act[a], disk, GoneRuns)
      /\ act[a].tx \in Runs /\ act[a].site # "idle"
  BY Seeing DEF Posted, Idle, OuterPCs, FreePCs
<1>2. /\ rec.handler = "raised" /\ rec.site = act[a].site /\ rec.todo = act[a].todo
      /\ \/ act[a].site = "commit" /\ rec.pc = "returned" /\ rec.tx = act[a].tx
         \/ act[a].site # "commit" /\ rec.pc = "entry"
      /\ rec.report = [act[a].report EXCEPT ![act[a].tx] = @ \cup {s}]
  BY <1>1 DEF Finish, ActRecords
<1> HIDE DEF rec
<1>3. \A r \in Runs : rec.report[r] = IF r = act[a].tx THEN act[a].report[r] \cup {s} ELSE act[a].report[r]
  BY <1>1, <1>2 DEF ActRecords
<1>4. RecStep(act[a], rec)
  BY <1>1, <1>2 DEF RecStep, Posted, OuterPCs, RecoveryPCs, CommitPCs, PreparePCs, ScanPCs, BarrierPCs, Idle
<1>5. KnowsRun(rec, file, g, GoneRuns) /\ ~Live(rec, g)
  BY <1>1, <1>2 DEF KnowsRun, Live, Journalling, PreMarker
<1>6. \A r \in Runs : /\ "rolled_back" \in rec.report[r] => r \in GoneRuns
                      /\ "completed" \in rec.report[r] => disk[r].receipt \/ (r = act[a].tx /\ g.receipt)
  BY <1>1, <1>3 DEF KnowsOthers
<1>7. /\ rec.pc \notin {"marker", "restore", "discovering", "quarantine"} /\ rec.todo = act[a].todo
      /\ rec.tx = act[a].tx \/ (rec.pc = "entry" /\ rec.handler = "raised" /\ rec.site # "commit")
  BY <1>2
<1>8. Onto(a, rec, g)
  BY <1>4, <1>5, <1>6, <1>7 DEF Onto
<1> QED
  BY <1>8 DEF rec

\* The actions between commit and the end of a rollback: not those of a prepare.
LEMMA NotPrepare ==
  ASSUME AInv, HInv, NEW a \in Actors, act[a].pc \in Journalling \ {"registerPending"}
  PROVE  /\ act[a].site # "prepare" /\ Files(a).registry # {}
         /\ act[a].pc \notin FreePCs \cup OuterPCs \cup {"discovering", "quarantine"}
  BY Seeing DEF Placed, PreparePCs, KnowsRun, Journalling, PreMarker, FreePCs, OuterPCs

\* A write that is tried.
LEMMA TryFrame ==
  ASSUME AInv, HInv, NEW a \in Actors, act[a].pc \notin FreePCs \cup {"quarantine"}, NEW g,
         FileStep(act[a], act[a].tx, Files(a), g),
         NEW rec, Onto(a, rec, g), Onto(a, rec, Files(a)), TryWrite(a, g, rec)
  PROVE  SectionStep(a)
  BY WriteFrame DEF TryWrite

LEMMA UnlinkFrame ==
  ASSUME AInv, HInv, NEW a \in Actors, Unlink(a)
  PROVE  SectionStep(a)
<1> DEFINE g == [Files(a) EXCEPT !.registry = @ \ {"pending"}]
           rec == Finish(a, act[a].goal)
<1>1. act[a].pc = "unlink" /\ Write(a, g, rec, Caught(a))
  BY DEF Unlink, At
<1>2. /\ act[a].site # "prepare" /\ act[a].pc \notin FreePCs \cup OuterPCs \cup {"discovering", "quarantine"}
  BY <1>1, NotPrepare DEF Journalling
<1>3. /\ act[a].goal \in Files(a).registry /\ act[a].goal # "pending"
      /\ act[a].goal = "completed" => Files(a).receipt
      /\ act[a].goal = "rolled_back" => act[a].tx \in GoneRuns
  BY <1>1, <1>2, Seeing DEF KnowsRun, Placed, Reports
<1>4. g.registry # {} /\ g.receipt = Files(a).receipt
  BY <1>2, <1>3, Seeing DEF FileRecords
<1>5. FileStep(act[a], act[a].tx, Files(a), g) /\ FileStep(act[a], act[a].tx, Files(a), Files(a))
  BY <1>1, <1>2, <1>4, Seeing DEF FileStep, FileRecords, Recorded
<1>6. Onto(a, rec, g)
  BY <1>2, <1>3, <1>4, <1>5, FinishOnto
<1> QED
  BY <1>1, <1>2, <1>5, <1>6, CaughtOnto, WriteFrame

LEMMA PublishFailedFrame ==
  ASSUME AInv, HInv, NEW a \in Actors, PublishFailed(a)
  PROVE  SectionStep(a)
<1> DEFINE g == [Files(a) EXCEPT !.manifest = "commit_marked"]
           rec == Finish(a, "commit_marked")
<1>1. act[a].pc = "publishFailed" /\ TryWrite(a, g, rec)
  BY DEF PublishFailed, At
<1>2. /\ act[a].site # "prepare" /\ act[a].pc \notin FreePCs \cup OuterPCs \cup {"discovering", "quarantine"}
      /\ Files(a).registry # {} /\ Files(a).manifest # "new"
  BY <1>1, NotPrepare, Seeing DEF Journalling, SwapOK, Files
<1>3. FileStep(act[a], act[a].tx, Files(a), g) /\ FileStep(act[a], act[a].tx, Files(a), Files(a)) /\ g.registry # {}
  BY <1>1, <1>2, Seeing DEF FileStep, FileRecords, Recorded
<1>4. Onto(a, rec, g) /\ Onto(a, rec, Files(a))
  BY <1>2, <1>3, FinishOnto
<1> QED
  BY <1>1, <1>2, <1>3, <1>4, TryFrame

LEMMA RollbackFrame ==
  ASSUME AInv, HInv, NEW a \in Actors, Rollback(a)
  PROVE  SectionStep(a)
<1> DEFINE g == [Files(a) EXCEPT !.manifest = "rolling_back"]
           rec == [Step(a, "undo") EXCEPT !.k = NumTargets]
<1>1. act[a].pc = "rollback" /\ TryWrite(a, g, rec)
  BY DEF Rollback, At
<1>2. /\ act[a].site # "prepare" /\ act[a].pc \notin FreePCs \cup OuterPCs \cup {"discovering", "quarantine"}
      /\ Files(a).registry # {} /\ Files(a).manifest # "new"
  BY <1>1, NotPrepare, Seeing DEF Journalling, PreMarker, SwapOK, Files
<1>3. FileStep(act[a], act[a].tx, Files(a), g) /\ FileStep(act[a], act[a].tx, Files(a), Files(a)) /\ g.registry # {}
  BY <1>1, <1>2, Seeing DEF FileStep, FileRecords, Recorded
<1>4. /\ rec.pc = "undo" /\ rec.k = NumTargets /\ rec.handler = act[a].handler /\ rec.site = act[a].site
      /\ rec.tx = act[a].tx /\ rec.todo = act[a].todo /\ rec.report = act[a].report
  BY Seeing DEF Step, ActRecords
<1>5. \A t \in Targets : ~(t > NumTargets)
  BY PersistenceAssumption DEF Targets
<1> HIDE DEF g, rec
<1>6. /\ KnowsRun(rec, file, g, GoneRuns) /\ KnowsRun(rec, file, Files(a), GoneRuns)
      /\ ~Live(rec, g) /\ ~Live(rec, Files(a))
  BY <1>2, <1>3, <1>4, <1>5 DEF KnowsRun, Live
<1>7. Posted(rec)
  BY <1>1, <1>2, <1>4, Seeing DEF Posted, Idle, Placed, FreePCs, PreparePCs, RecoveryPCs, ScanPCs, CommitPCs, BarrierPCs, OuterPCs
<1>8. Onto(a, rec, g) /\ Onto(a, rec, Files(a))
  BY <1>2, <1>3, <1>4, <1>6, <1>7, StepOnto DEF OuterPCs
<1> QED
  BY <1>1, <1>2, <1>3, <1>8, TryFrame

LEMMA RollbackFailedFrame ==
  ASSUME AInv, HInv, NEW a \in Actors, RollbackFailed(a)
  PROVE  SectionStep(a)
<1> DEFINE g == [Files(a) EXCEPT !.manifest = "recovery_required"]
           rec == [Step(a, "transition") EXCEPT !.goal = "recovery_required"]
<1>1. act[a].pc = "undo" /\ TryWrite(a, g, rec)
  BY DEF RollbackFailed, At
<1>2. /\ act[a].site # "prepare" /\ act[a].pc \notin FreePCs \cup OuterPCs \cup {"discovering", "quarantine"}
      /\ Files(a).registry # {} /\ Files(a).manifest # "new"
  BY <1>1, NotPrepare, Seeing DEF Journalling, PreMarker, SwapOK, Files
<1>3. FileStep(act[a], act[a].tx, Files(a), g) /\ FileStep(act[a], act[a].tx, Files(a), Files(a)) /\ g.registry # {}
  BY <1>1, <1>2, Seeing DEF FileStep, FileRecords, Recorded
<1>4. /\ rec.pc = "transition" /\ rec.goal = "recovery_required" /\ rec.handler = act[a].handler
      /\ rec.site = act[a].site /\ rec.tx = act[a].tx /\ rec.todo = act[a].todo /\ rec.report = act[a].report
  BY Seeing DEF Step, ActRecords
<1> HIDE DEF g, rec
<1>5. /\ KnowsRun(rec, file, g, GoneRuns) /\ KnowsRun(rec, file, Files(a), GoneRuns)
      /\ ~Live(rec, g) /\ ~Live(rec, Files(a))
  BY <1>2, <1>3, <1>4 DEF KnowsRun, Live
<1>6. Posted(rec)
  BY <1>1, <1>2, <1>4, Seeing DEF Posted, Idle, Placed, FreePCs, PreparePCs, RecoveryPCs, ScanPCs, CommitPCs, BarrierPCs, OuterPCs
<1>7. Onto(a, rec, g) /\ Onto(a, rec, Files(a))
  BY <1>2, <1>3, <1>4, <1>5, <1>6, StepOnto DEF OuterPCs
<1> QED
  BY <1>1, <1>2, <1>3, <1>7, TryFrame

LEMMA MarkManifestFrame ==
  ASSUME AInv, HInv, NEW a \in Actors, MarkManifest(a)
  PROVE  SectionStep(a)
<1> DEFINE g == IF Files(a).manifest = "new" THEN Files(a)
                ELSE [Files(a) EXCEPT !.manifest = "recovery_required"]
           rec == Step(a, "markRegistry")
<1>1. act[a].pc = "markManifest" /\ TryWrite(a, g, rec)
  BY DEF MarkManifest, At
<1>2. /\ act[a].site # "prepare" /\ act[a].pc \notin FreePCs \cup OuterPCs \cup {"discovering", "quarantine"}
      /\ Files(a).registry # {} /\ Files(a).manifest # "new"
  BY <1>1, NotPrepare, Seeing DEF Journalling, PreMarker, SwapOK, Files
<1>3. FileStep(act[a], act[a].tx, Files(a), g) /\ FileStep(act[a], act[a].tx, Files(a), Files(a)) /\ g.registry # {}
  BY <1>1, <1>2, Seeing DEF FileStep, FileRecords, Recorded
<1>4. /\ rec.pc = "markRegistry" /\ rec.goal = act[a].goal /\ rec.handler = act[a].handler
      /\ rec.site = act[a].site /\ rec.tx = act[a].tx /\ rec.todo = act[a].todo /\ rec.report = act[a].report
  BY Seeing DEF Step, ActRecords
<1> HIDE DEF g, rec
<1>5. /\ KnowsRun(rec, file, g, GoneRuns) /\ KnowsRun(rec, file, Files(a), GoneRuns)
      /\ ~Live(rec, g) /\ ~Live(rec, Files(a))
  BY <1>2, <1>3, <1>4 DEF KnowsRun, Live
<1>6. Posted(rec)
  BY <1>1, <1>2, <1>4, Seeing DEF Posted, Idle, Placed, FreePCs, PreparePCs, RecoveryPCs, ScanPCs, CommitPCs, BarrierPCs, OuterPCs
<1>7. Onto(a, rec, g) /\ Onto(a, rec, Files(a))
  BY <1>2, <1>3, <1>4, <1>5, <1>6, StepOnto DEF OuterPCs
<1> QED
  BY <1>1, <1>2, <1>3, <1>7, TryFrame

LEMMA MarkRegistryFrame ==
  ASSUME AInv, HInv, NEW a \in Actors, MarkRegistry(a)
  PROVE  SectionStep(a)
<1> DEFINE g == [Files(a) EXCEPT !.registry = @ \cup {"recovery_required"}]
           rec == Step(a, "markUnlink")
           end == Finish(a, "recovery_required")
<1>1. act[a].pc = "markRegistry" /\ Write(a, g, rec, end)
  BY DEF MarkRegistry, At
<1>2. /\ act[a].site # "prepare" /\ act[a].pc \notin FreePCs \cup OuterPCs \cup {"discovering", "quarantine"}
      /\ Files(a).registry # {} /\ Files(a).manifest # "new"
  BY <1>1, NotPrepare, Seeing DEF Journalling, PreMarker, SwapOK, Files
<1>3. /\ FileStep(act[a], act[a].tx, Files(a), g) /\ FileStep(act[a], act[a].tx, Files(a), Files(a))
      /\ "recovery_required" \in g.registry
  BY <1>1, <1>2, Seeing DEF FileStep, FileRecords, Recorded
<1>4. /\ rec.pc = "markUnlink" /\ rec.goal = act[a].goal /\ rec.handler = act[a].handler
      /\ rec.site = act[a].site /\ rec.tx = act[a].tx /\ rec.todo = act[a].todo /\ rec.report = act[a].report
  BY Seeing DEF Step, ActRecords
<1> HIDE DEF g, rec
<1>5. KnowsRun(rec, file, g, GoneRuns) /\ ~Live(rec, g)
  BY <1>2, <1>3, <1>4 DEF KnowsRun, Live
<1>6. Posted(rec)
  BY <1>1, <1>2, <1>4, Seeing DEF Posted, Idle, Placed, FreePCs, PreparePCs, RecoveryPCs, ScanPCs, CommitPCs, BarrierPCs, OuterPCs
<1>7. Onto(a, rec, g) /\ Onto(a, end, g) /\ Onto(a, end, Files(a))
  BY <1>2, <1>3, <1>4, <1>5, <1>6, StepOnto, FinishOnto DEF OuterPCs
<1> QED
  BY <1>1, <1>2, <1>3, <1>7, WriteFrame

LEMMA MarkUnlinkFrame ==
  ASSUME AInv, HInv, NEW a \in Actors, MarkUnlink(a)
  PROVE  SectionStep(a)
<1> DEFINE g == [Files(a) EXCEPT !.registry = @ \ {"pending"}]
           rec == Finish(a, "recovery_required")
<1>1. act[a].pc = "markUnlink" /\ TryWrite(a, g, rec)
  BY DEF MarkUnlink, At
<1>2. /\ act[a].site # "prepare" /\ act[a].pc \notin FreePCs \cup OuterPCs \cup {"discovering", "quarantine"}
      /\ "recovery_required" \in Files(a).registry
  BY <1>1, NotPrepare, Seeing DEF Journalling, KnowsRun
<1>3. FileStep(act[a], act[a].tx, Files(a), g) /\ FileStep(act[a], act[a].tx, Files(a), Files(a)) /\ g.registry # {}
  BY <1>1, <1>2, Seeing DEF FileStep, FileRecords, Recorded
<1>4. Onto(a, rec, g) /\ Onto(a, rec, Files(a))
  BY <1>2, <1>3, FinishOnto
<1> QED
  BY <1>1, <1>2, <1>3, <1>4, TryFrame

\* A look that goes on with what the process remembers.
LEMMA LookOn ==
  ASSUME AInv, HInv, NEW a \in Actors,
         act[a].pc \notin FreePCs \cup OuterPCs \cup {"discovering", "quarantine"},
         NEW rec, rec.site = act[a].site, rec.tx = act[a].tx, rec.todo = act[a].todo,
         rec.report = act[a].report,
         rec.pc \notin OuterPCs \cup {"prepare", "commit", "discover", "marker", "restore", "discovering", "quarantine"},
         Posted(rec), KnowsRun(rec, file, Files(a), GoneRuns), Live(rec, Files(a)) => Live(act[a], Files(a)),
         Look(a, rec)
  PROVE  SectionStep(a)
<1>1. FileStep(act[a], act[a].tx, Files(a), Files(a))
  BY Seeing, Unwritten
<1>2. Onto(a, rec, Files(a))
  BY <1>1, StepOnto
<1> QED
  BY <1>2, LookFrame

\* A process goes on and the journals stay as they are.
LEMMA MoveFrame ==
  ASSUME AInv, HInv, NEW a \in Actors, NEW rec, Become(a, rec), disk' = disk, spent'.edits = spent.edits,
         \/ file' = file
         \/ act[a].pc = "replace" /\ file' = [file EXCEPT ![act[a].k] = act[a].tx]
         \/ act[a].pc = "restore" /\ file' = [file EXCEPT ![act[a].k] = Files(a).before[act[a].k]],
         RecStep(act[a], rec), KnowsRun(rec, file', disk[rec.tx], GoneRuns), KnowsOthers(rec, disk, GoneRuns),
         Checked(rec, file'),
         Live(rec, disk[rec.tx]) => rec.tx = act[a].tx /\ Live(act[a], Files(a))
  PROVE  SectionStep(a)
<1>1. Knows(rec, file', disk', GoneRuns \cup Dead(a))
  BY DEF Knows, KnowsRun, KnowsOthers
<1>2. \A r \in Runs : FileStep(act[a], r, disk[r], disk'[r])
  BY Unwritten
<1> QED
  BY <1>1, <1>2 DEF SectionStep

LEMMA CheckTargetFrame ==
  ASSUME AInv, HInv, NEW a \in Actors, CheckTarget(a)
  PROVE  SectionStep(a)
<1> DEFINE on == [act[a] EXCEPT !.k = @ + 1]
           swap == Step(a, "replace")
<1>1. /\ act[a].pc = "check"
      /\ Look(a, on) \/ Look(a, swap) \/ Look(a, Caught(a))
  BY DEF CheckTarget, At
<1>2. act[a].pc \notin FreePCs \cup OuterPCs \cup {"discovering", "quarantine"}
  BY <1>1 DEF FreePCs, OuterPCs
<1>3. ASSUME Look(a, on) PROVE SectionStep(a)
  <2>1. /\ on.pc = "check" /\ on.handler = act[a].handler /\ on.goal = act[a].goal
        /\ on.site = act[a].site /\ on.tx = act[a].tx /\ on.todo = act[a].todo /\ on.report = act[a].report
    BY <1>1, Seeing DEF Step, ActRecords
  <2> HIDE DEF on
  <2>2. Posted(on)
    BY <1>1, <1>2, <2>1, Seeing DEF Posted, Idle, Placed, FreePCs, PreparePCs, RecoveryPCs, ScanPCs, CommitPCs, BarrierPCs, OuterPCs
  <2>3. KnowsRun(on, file, Files(a), GoneRuns)
    BY <1>1, <1>2, <2>1, Seeing
       DEF KnowsRun, Placed, Posted, Idle, PreparePCs, RecoveryPCs, ScanPCs, CommitPCs, BarrierPCs, Journalling, PreMarker
  <2>4. Live(on, Files(a)) => Live(act[a], Files(a))
    BY <1>1, <1>3, <2>1 DEF Live
  <2> QED
    BY <1>3, <1>2, <2>1, <2>2, <2>3, <2>4, LookOn DEF OuterPCs
<1>4. ASSUME Look(a, swap) PROVE SectionStep(a)
  <2>1. /\ swap.pc = "replace" /\ swap.handler = act[a].handler /\ swap.goal = act[a].goal
        /\ swap.site = act[a].site /\ swap.tx = act[a].tx /\ swap.todo = act[a].todo /\ swap.report = act[a].report
    BY <1>1, Seeing DEF Step, ActRecords
  <2> HIDE DEF swap
  <2>2. Posted(swap)
    BY <1>1, <1>2, <2>1, Seeing DEF Posted, Idle, Placed, FreePCs, PreparePCs, RecoveryPCs, ScanPCs, CommitPCs, BarrierPCs, OuterPCs
  <2>3. KnowsRun(swap, file, Files(a), GoneRuns)
    BY <1>1, <1>2, <2>1, Seeing
       DEF KnowsRun, Placed, Posted, Idle, PreparePCs, RecoveryPCs, ScanPCs, CommitPCs, BarrierPCs, Journalling, PreMarker
  <2>4. Live(swap, Files(a)) => Live(act[a], Files(a))
    BY <1>1, <1>4, <2>1 DEF Live
  <2> QED
    BY <1>4, <1>2, <2>1, <2>2, <2>3, <2>4, LookOn DEF OuterPCs
<1> QED
  BY <1>1, <1>2, <1>3, <1>4, LookCaughtFrame

LEMMA CommitFailedFrame ==
  ASSUME AInv, HInv, NEW a \in Actors, CommitFailed(a)
  PROVE  SectionStep(a)
<1> DEFINE forward == Step(a, "publishFailed")
           back == [Step(a, "rollback") EXCEPT !.handler = "raised"]
<1>1. /\ act[a].pc = "commitFailed"
      /\ Look(a, forward) \/ Look(a, back)
  BY DEF CommitFailed, At
<1>2. act[a].pc \notin FreePCs \cup OuterPCs \cup {"discovering", "quarantine"}
  BY <1>1 DEF FreePCs, OuterPCs
<1>3. ASSUME Look(a, forward) PROVE SectionStep(a)
  <2>1. /\ forward.pc = "publishFailed" /\ forward.handler = act[a].handler /\ forward.goal = act[a].goal
        /\ forward.site = act[a].site /\ forward.tx = act[a].tx /\ forward.todo = act[a].todo /\ forward.report = act[a].report
    BY <1>1, Seeing DEF Step, ActRecords
  <2> HIDE DEF forward
  <2>2. Posted(forward)
    BY <1>1, <1>2, <2>1, Seeing DEF Posted, Idle, Placed, FreePCs, PreparePCs, RecoveryPCs, ScanPCs, CommitPCs, BarrierPCs, OuterPCs
  <2>3. KnowsRun(forward, file, Files(a), GoneRuns)
    BY <1>1, <1>2, <2>1, Seeing
       DEF KnowsRun, Placed, Posted, Idle, PreparePCs, RecoveryPCs, ScanPCs, CommitPCs, BarrierPCs, Journalling, PreMarker
  <2>4. Live(forward, Files(a)) => Live(act[a], Files(a))
    BY <1>1, <1>3, <2>1 DEF Live
  <2> QED
    BY <1>3, <1>2, <2>1, <2>2, <2>3, <2>4, LookOn DEF OuterPCs
<1>4. ASSUME Look(a, back) PROVE SectionStep(a)
  <2>1. /\ back.pc = "rollback" /\ back.handler = "raised" /\ back.goal = act[a].goal
        /\ back.site = act[a].site /\ back.tx = act[a].tx /\ back.todo = act[a].todo /\ back.report = act[a].report
    BY <1>1, Seeing DEF Step, ActRecords
  <2> HIDE DEF back
  <2>2. Posted(back)
    BY <1>1, <1>2, <2>1, Seeing DEF Posted, Idle, Placed, FreePCs, PreparePCs, RecoveryPCs, ScanPCs, CommitPCs, BarrierPCs, OuterPCs
  <2>3. KnowsRun(back, file, Files(a), GoneRuns)
    BY <1>1, <1>2, <2>1, Seeing
       DEF KnowsRun, Placed, Posted, Idle, PreparePCs, RecoveryPCs, ScanPCs, CommitPCs, BarrierPCs, Journalling, PreMarker
  <2>4. Live(back, Files(a)) => Live(act[a], Files(a))
    BY <1>1, <1>4, <2>1 DEF Live
  <2> QED
    BY <1>4, <1>2, <2>1, <2>2, <2>3, <2>4, LookOn DEF OuterPCs
<1> QED
  BY <1>1, <1>2, <1>3, <1>4, LookCaughtFrame

LEMMA TakeEntryFrame ==
  ASSUME AInv, HInv, NEW a \in Actors, TakeEntry(a)
  PROVE  SectionStep(a)
<1> DEFINE ended == Step(a, "complete")
           back == Step(a, "rollback")
           forward == [Step(a, "publish") EXCEPT !.handler = "publishFailed"]
<1>1. /\ act[a].pc = "take"
      /\ Look(a, ended) \/ Look(a, back) \/ Look(a, forward) \/ Look(a, Caught(a))
  BY DEF TakeEntry, At
<1>2. act[a].pc \notin FreePCs \cup OuterPCs \cup {"discovering", "quarantine"}
  BY <1>1 DEF FreePCs, OuterPCs
<1>3. ASSUME Look(a, ended) PROVE SectionStep(a)
  <2>1. /\ ended.pc = "complete" /\ ended.handler = act[a].handler /\ ended.goal = act[a].goal
        /\ ended.site = act[a].site /\ ended.tx = act[a].tx /\ ended.todo = act[a].todo /\ ended.report = act[a].report
    BY <1>1, Seeing DEF Step, ActRecords
  <2> HIDE DEF ended
  <2>2. Posted(ended)
    BY <1>1, <1>2, <2>1, Seeing DEF Posted, Idle, Placed, FreePCs, PreparePCs, RecoveryPCs, ScanPCs, CommitPCs, BarrierPCs, OuterPCs
  <2>3. KnowsRun(ended, file, Files(a), GoneRuns)
    BY <1>1, <1>2, <2>1, Seeing
       DEF KnowsRun, Placed, Posted, Idle, PreparePCs, RecoveryPCs, ScanPCs, CommitPCs, BarrierPCs, Journalling, PreMarker
  <2>4. Live(ended, Files(a)) => Live(act[a], Files(a))
    BY <1>1, <1>3, <2>1 DEF Live
  <2> QED
    BY <1>3, <1>2, <2>1, <2>2, <2>3, <2>4, LookOn DEF OuterPCs
<1>4. ASSUME Look(a, back) PROVE SectionStep(a)
  <2>1. /\ back.pc = "rollback" /\ back.handler = act[a].handler /\ back.goal = act[a].goal
        /\ back.site = act[a].site /\ back.tx = act[a].tx /\ back.todo = act[a].todo /\ back.report = act[a].report
    BY <1>1, Seeing DEF Step, ActRecords
  <2> HIDE DEF back
  <2>2. Posted(back)
    BY <1>1, <1>2, <2>1, Seeing DEF Posted, Idle, Placed, FreePCs, PreparePCs, RecoveryPCs, ScanPCs, CommitPCs, BarrierPCs, OuterPCs
  <2>3. KnowsRun(back, file, Files(a), GoneRuns)
    BY <1>1, <1>2, <2>1, Seeing
       DEF KnowsRun, Placed, Posted, Idle, PreparePCs, RecoveryPCs, ScanPCs, CommitPCs, BarrierPCs, Journalling, PreMarker
  <2>4. Live(back, Files(a)) => Live(act[a], Files(a))
    BY <1>1, <1>4, <2>1 DEF Live
  <2> QED
    BY <1>4, <1>2, <2>1, <2>2, <2>3, <2>4, LookOn DEF OuterPCs
<1>5. ASSUME Look(a, forward) PROVE SectionStep(a)
  <2>1. /\ forward.pc = "publish" /\ forward.handler = "publishFailed" /\ forward.goal = act[a].goal
        /\ forward.site = act[a].site /\ forward.tx = act[a].tx /\ forward.todo = act[a].todo /\ forward.report = act[a].report
    BY <1>1, Seeing DEF Step, ActRecords
  <2> HIDE DEF forward
  <2>2. Posted(forward)
    BY <1>1, <1>2, <2>1, Seeing DEF Posted, Idle, Placed, FreePCs, PreparePCs, RecoveryPCs, ScanPCs, CommitPCs, BarrierPCs, OuterPCs
  <2>3. KnowsRun(forward, file, Files(a), GoneRuns)
    BY <1>1, <1>2, <2>1, Seeing
       DEF KnowsRun, Placed, Posted, Idle, PreparePCs, RecoveryPCs, ScanPCs, CommitPCs, BarrierPCs, Journalling, PreMarker
  <2>4. Live(forward, Files(a)) => Live(act[a], Files(a))
    BY <1>1, <1>5, <2>1 DEF Live
  <2> QED
    BY <1>5, <1>2, <2>1, <2>2, <2>3, <2>4, LookOn DEF OuterPCs
<1> QED
  BY <1>1, <1>2, <1>3, <1>4, <1>5, LookCaughtFrame

LEMMA CommitFrame ==
  ASSUME AInv, HInv, NEW a \in Actors, Commit(a)
  PROVE  SectionStep(a)
<1> DEFINE rec == [Step(a, "applying") EXCEPT !.handler = "commitFailed"]
<1>1. /\ act[a].pc = "commit"
      /\ Raise(a) \/ (Files(a).manifest = "prepared" /\ Look(a, rec))
  BY DEF Commit, At
<1>2. act[a].pc \notin FreePCs \cup OuterPCs \cup {"discovering", "quarantine"}
  BY <1>1 DEF FreePCs, OuterPCs
<1>3. CASE Raise(a)
  BY <1>2, <1>3, RaiseFrame
<1>4. CASE Files(a).manifest = "prepared" /\ Look(a, rec)
  <2>1. /\ rec.pc = "applying" /\ rec.handler = "commitFailed" /\ rec.goal = act[a].goal
        /\ rec.site = act[a].site /\ rec.tx = act[a].tx /\ rec.todo = act[a].todo /\ rec.report = act[a].report
    BY <1>1, Seeing DEF Step, ActRecords
  <2>2. act[a].site = "commit"
    BY <1>1, Seeing
       DEF Posted, Placed, ActRecords, Sites, RecoveryPCs, ScanPCs, PreparePCs, BarrierPCs, Idle
  <2> HIDE DEF rec
  <2>3. Posted(rec)
    BY <2>1, <2>2 DEF Posted, CommitPCs, FreePCs, BarrierPCs
  <2>4. KnowsRun(rec, file, Files(a), GoneRuns)
    BY <2>1, <2>2, Seeing DEF KnowsRun
  <2>5. Live(act[a], Files(a))
    BY <1>1, <1>4 DEF Live
  <2> QED
    BY <1>2, <1>4, <2>1, <2>3, <2>4, <2>5, LookOn DEF OuterPCs
<1> QED
  BY <1>1, <1>3, <1>4

LEMMA VerifyAppliedFrame ==
  ASSUME AInv, HInv, NEW a \in Actors, VerifyApplied(a)
  PROVE  SectionStep(a)
<1> DEFINE rec == Step(a, "marker")
<1>1. /\ act[a].pc = "check"
      /\ Look(a, Caught(a)) \/ (Applied(act[a].tx) /\ Look(a, rec))
  BY DEF VerifyApplied, At
<1>2. act[a].pc \notin FreePCs \cup OuterPCs \cup {"discovering", "quarantine"}
  BY <1>1 DEF FreePCs, OuterPCs
<1>3. CASE Applied(act[a].tx) /\ Look(a, rec)
  <2>1. /\ rec.pc = "marker" /\ rec.handler = act[a].handler
        /\ rec.site = act[a].site /\ rec.tx = act[a].tx /\ rec.todo = act[a].todo /\ rec.report = act[a].report
    BY <1>1, Seeing DEF Step, ActRecords
  <2>2. file' = file /\ disk' = disk /\ spent' = spent /\ Become(a, rec)
    BY <1>3 DEF Look
  <2> HIDE DEF rec
  <2>3. Posted(rec)
    BY <1>1, <1>2, <2>1, Seeing DEF Posted, Idle, Placed, FreePCs, PreparePCs, RecoveryPCs, ScanPCs, CommitPCs, BarrierPCs, OuterPCs
  <2>4. KnowsRun(rec, file, Files(a), GoneRuns) /\ KnowsOthers(rec, disk, GoneRuns)
    BY <1>1, <2>1, Seeing DEF KnowsRun, KnowsOthers, Journalling, PreMarker
  <2>5. Live(act[a], Files(a)) /\ Checked(rec, file)
    BY <1>1, <1>3, <2>1 DEF Live, Checked, Applied
  <2>6. RecStep(act[a], rec)
    BY <1>2, <2>1, <2>3 DEF RecStep, OuterPCs
  <2> QED
    BY <2>1, <2>2, <2>4, <2>5, <2>6, MoveFrame DEF Files
<1> QED
  BY <1>1, <1>2, <1>3, LookCaughtFrame

LEMMA ApplyTargetFrame ==
  ASSUME AInv, HInv, NEW a \in Actors, ApplyTarget(a)
  PROVE  SectionStep(a)
<1> DEFINE on == [Step(a, "check") EXCEPT !.k = @ + 1]
<1>1. PICK rec \in {on, Caught(a)} :
      /\ act[a].pc = "replace" /\ Become(a, rec) /\ disk' = disk /\ spent'.edits = spent.edits
      /\ file' = file \/ file' = [file EXCEPT ![act[a].k] = act[a].tx]
  BY DEF ApplyTarget, At, Tally, AInv, SInv, IInv, Spendings
<1>2. act[a].pc \notin FreePCs \cup OuterPCs \cup {"discovering", "quarantine"}
  BY <1>1 DEF FreePCs, OuterPCs
<1>3. act[a].handler \in Handlers /\ act[a] \in ActRecords
  BY Seeing DEF ActRecords
<1>4. /\ rec.pc \in {"check"} \cup Handlers /\ rec.handler = act[a].handler /\ rec.goal = act[a].goal
      /\ rec.site = act[a].site /\ rec.tx = act[a].tx /\ rec.todo = act[a].todo /\ rec.report = act[a].report
      /\ rec.pc = "check" \/ rec.pc = act[a].handler
  BY <1>1, <1>3 DEF Step, Caught, ActRecords
<1> HIDE DEF on
<1>5. Posted(rec)
  BY <1>1, <1>2, <1>3, <1>4, Seeing
     DEF Posted, Idle, Placed, FreePCs, PreparePCs, RecoveryPCs, ScanPCs, CommitPCs, BarrierPCs, OuterPCs, Handlers
<1>6. KnowsRun(rec, file', Files(a), GoneRuns) /\ KnowsOthers(rec, disk, GoneRuns)
  BY <1>1, <1>2, <1>4, Seeing
     DEF KnowsRun, KnowsOthers, Posted, Placed, PreparePCs, Journalling, PreMarker, Handlers
<1>7. Live(act[a], Files(a)) /\ Checked(rec, file')
  BY <1>1, <1>4 DEF Live, Checked, Handlers
<1>8. RecStep(act[a], rec)
  BY <1>2, <1>4, <1>5 DEF RecStep, OuterPCs, Handlers
<1> QED
  BY <1>1, <1>4, <1>6, <1>7, <1>8, MoveFrame DEF Files

LEMMA UndoCheckFrame ==
  ASSUME AInv, HInv, NEW a \in Actors, UndoCheck(a)
  PROVE  SectionStep(a)
<1> DEFINE now == file[act[a].k]
           next == [act[a] EXCEPT !.k = @ - 1, !.failed = @ \/ now # Files(a).before[act[a].k]]
<1>1. /\ act[a].pc = "undo" /\ act[a].k > 0
      /\ \/ now = act[a].tx /\ Look(a, Step(a, "restore"))
         \/ now # act[a].tx /\ Look(a, next)
  BY DEF UndoCheck, At
<1>2. act[a].pc \notin FreePCs \cup OuterPCs \cup {"discovering", "quarantine"}
  BY <1>1 DEF FreePCs, OuterPCs
<1>3. PICK rec : /\ Look(a, rec)
                 /\ \/ now = act[a].tx /\ rec = Step(a, "restore")
                    \/ now # act[a].tx /\ rec = next
  BY <1>1
<1>4. /\ rec.handler = act[a].handler
      /\ rec.site = act[a].site /\ rec.tx = act[a].tx /\ rec.todo = act[a].todo /\ rec.report = act[a].report
      /\ \/ now = act[a].tx /\ rec.pc = "restore" /\ rec.k = act[a].k /\ rec.failed = act[a].failed
         \/ /\ now # act[a].tx /\ rec.pc = "undo" /\ rec.k = act[a].k - 1
            /\ rec.failed \/ rec.failed = act[a].failed
  <2>1. act[a].failed \in BOOLEAN
    BY Seeing DEF ActRecords
  <2> QED
    BY <1>1, <1>3, <2>1, Seeing DEF Step, ActRecords
<1>5. Posted(rec)
  BY <1>1, <1>2, <1>4, Seeing DEF Posted, Idle, Placed, FreePCs, PreparePCs, RecoveryPCs, ScanPCs, CommitPCs, BarrierPCs, OuterPCs
<1>6. rec.failed \/ \A t \in Targets : t > rec.k => file[t] # rec.tx
  <2>1. act[a].failed \/ \A t \in Targets : t > act[a].k => file[t] # act[a].tx
    BY <1>1, Seeing DEF KnowsRun
  <2>2. act[a].k \in Int
    BY Seeing, PersistenceAssumption DEF ActRecords
  <2> QED
    BY <1>4, <2>1, <2>2 DEF Targets
<1>7. KnowsRun(rec, file, Files(a), GoneRuns) /\ KnowsOthers(rec, disk, GoneRuns)
  BY <1>1, <1>2, <1>4, <1>6, Seeing
     DEF KnowsRun, KnowsOthers, Posted, Placed, PreparePCs, Journalling, PreMarker
<1>8. ~Live(rec, Files(a)) /\ Checked(rec, file)
  BY <1>1, <1>4 DEF Live, Checked
<1>9. RecStep(act[a], rec)
  BY <1>2, <1>4, <1>5 DEF RecStep, OuterPCs
<1>10. file' = file /\ disk' = disk /\ spent' = spent /\ Become(a, rec)
  BY <1>3 DEF Look
<1> QED
  BY <1>4, <1>7, <1>8, <1>9, <1>10, MoveFrame DEF Files

LEMMA RestoreFrame ==
  ASSUME AInv, HInv, NEW a \in Actors, Restore(a)
  PROVE  SectionStep(a)
<1> DEFINE rec(o) == [Step(a, "undo") EXCEPT !.k = @ - 1, !.failed = @ \/ Raised(o)]
           k == act[a].k
           restored == [file EXCEPT ![k] = Files(a).before[k]]
<1>1. PICK o \in Outcomes :
         /\ act[a].pc = "restore" /\ Become(a, rec(o)) /\ disk' = disk /\ spent'.edits = spent.edits
         /\ \/ Raised(o) /\ file' = file
            \/ file' = restored
  BY DEF Restore, At, Tally, AInv, SInv, IInv, Spendings, Raised, Took
<1>2. act[a].pc \notin FreePCs \cup OuterPCs \cup {"discovering", "quarantine"}
  BY <1>1 DEF FreePCs, OuterPCs
<1>3. act[a] \in ActRecords /\ k \in Targets /\ k \in Int /\ act[a].tx \in Runs /\ act[a].failed \in BOOLEAN
  BY <1>1, <1>2, Seeing, PersistenceAssumption DEF ActRecords, Placed
<1>4. /\ rec(o).handler = act[a].handler /\ rec(o).pc = "undo" /\ rec(o).k = k - 1
      /\ rec(o).failed = (act[a].failed \/ Raised(o))
      /\ rec(o).site = act[a].site /\ rec(o).tx = act[a].tx /\ rec(o).todo = act[a].todo
      /\ rec(o).report = act[a].report
  BY <1>1, <1>3 DEF Step, ActRecords
<1> HIDE DEF rec
<1>5. Posted(rec(o))
  BY <1>1, <1>2, <1>4, Seeing DEF Posted, Idle, Placed, FreePCs, PreparePCs, RecoveryPCs, ScanPCs, CommitPCs, BarrierPCs, OuterPCs
<1>6. Files(a).before[k] # act[a].tx
  <2>1. ~Files(a).marker /\ ~Files(a).receipt /\ Files(a) = disk[act[a].tx] /\ Files(a).before # <<>>
    BY <1>1, <1>2, Seeing DEF SwapOK, PreMarker, FileOK
  <2> QED
    BY <1>3, <2>1 DEF HInv
<1>7. rec(o).failed \/ \A t \in Targets : t > k - 1 => file'[t] # act[a].tx
  <2>1. act[a].failed \/ \A t \in Targets : t > k => file[t] # act[a].tx
    BY <1>1, Seeing DEF KnowsRun
  <2>2. CASE ~rec(o).failed
    <3>1. file' = restored /\ \A t \in Targets : t > k => file[t] # act[a].tx
      BY <1>1, <1>4, <2>1, <2>2
    <3>2. \A t \in Targets : file'[t] = IF t = k THEN Files(a).before[k] ELSE file[t]
      BY <3>1 DEF AInv, SInv, IInv
    <3>3. \A t \in Targets : t > k - 1 => t = k \/ t > k
      BY <1>3 DEF Targets
    <3> QED
      BY <1>6, <3>1, <3>2, <3>3
  <2> QED
    BY <2>2
<1>8. KnowsRun(rec(o), file', Files(a), GoneRuns) /\ KnowsOthers(rec(o), disk, GoneRuns)
  BY <1>1, <1>2, <1>4, <1>7, Seeing
     DEF KnowsRun, KnowsOthers, Posted, Placed, PreparePCs, Journalling, PreMarker
<1>9. ~Live(rec(o), Files(a)) /\ Checked(rec(o), file')
  BY <1>4 DEF Live, Checked
<1>10. RecStep(act[a], rec(o))
  BY <1>2, <1>4, <1>5 DEF RecStep, OuterPCs
<1> QED
  BY <1>1, <1>4, <1>8, <1>9, <1>10, MoveFrame DEF Files

LEMMA LockErrorsFrame ==
  ASSUME AInv, HInv, NEW a \in Actors, LockErrors(a)
  PROVE  SectionStep(a)
  BY RaiseFrame DEF LockErrors, LockError, At, OuterPCs

LEMMA RolledBackFrame ==
  ASSUME AInv, HInv, NEW a \in Actors, RolledBack(a)
  PROVE  SectionStep(a)
<1> DEFINE g == [Files(a) EXCEPT !.manifest = "rolled_back"]
           rec == [Step(a, "transition") EXCEPT !.goal = "rolled_back"]
           tx == act[a].tx
<1>1. act[a].pc = "undo" /\ act[a].k = 0 /\ ~act[a].failed /\ Write(a, g, rec, Caught(a))
  BY DEF RolledBack, At
<1>2. /\ act[a].site # "prepare" /\ act[a].pc \notin FreePCs \cup OuterPCs \cup {"discovering", "quarantine"}
      /\ Files(a).registry # {} /\ Files(a).manifest # "new"
  BY <1>1, NotPrepare, Seeing DEF Journalling, PreMarker, SwapOK, Files
<1>3. FileStep(act[a], tx, Files(a), g) /\ FileStep(act[a], tx, Files(a), Files(a)) /\ g.registry # {}
  BY <1>1, <1>2, Seeing DEF FileStep, FileRecords, Recorded
<1>4. PICK o \in Outcomes :
         /\ disk' = IF Took(o) THEN [disk EXCEPT ![tx] = g] ELSE disk
         /\ Become(a, IF Raised(o) THEN Caught(a) ELSE rec)
         /\ file' = file /\ Tally(o)
  BY <1>1 DEF Write
<1>5. /\ tx \in Runs /\ Files(a) = disk[tx] /\ disk \in [Runs -> FileRecords] /\ spent \in Spendings
      /\ g.manifest = "rolled_back"
  BY <1>2, Seeing DEF AInv, SInv, IInv, FileRecords
<1> HIDE DEF g
<1>6. spent'.edits = spent.edits
  BY <1>4, <1>5 DEF Tally, Spendings
<1>7. \A r \in Runs : FileStep(act[a], r, disk[r], disk'[r])
  BY <1>3, <1>4, <1>5, Unwritten
<1>8. CASE Raised(o)
  <2>1. Onto(a, Caught(a), g) /\ Onto(a, Caught(a), Files(a))
    BY <1>2, <1>3, CaughtOnto
  <2>2. disk'[tx] = g \/ disk'[tx] = Files(a)
    BY <1>4, <1>5
  <2> QED
    BY <1>2, <1>4, <1>6, <1>7, <1>8, <2>1, <2>2, OntoStep
<1>9. CASE ~Raised(o)
  <2>1. disk'[tx] = g /\ Become(a, rec)
    BY <1>4, <1>5, <1>9 DEF Raised, Took
  <2>2. tx \in Dead(a)
    BY <1>1, <1>5, <2>1 DEF Dead
  <2>3. /\ rec.pc = "transition" /\ rec.goal = "rolled_back" /\ rec.handler = act[a].handler
        /\ rec.site = act[a].site /\ rec.tx = tx /\ rec.todo = act[a].todo /\ rec.report = act[a].report
    BY Seeing DEF Step, ActRecords
  <2> HIDE DEF rec
  <2>4. Posted(rec)
    BY <1>1, <1>2, <2>3, Seeing DEF Posted, Idle, Placed, FreePCs, PreparePCs, RecoveryPCs, ScanPCs, CommitPCs, BarrierPCs, OuterPCs
  <2>5. KnowsRun(rec, file, g, GoneRuns \cup Dead(a)) /\ ~Live(rec, g) /\ Checked(rec, file)
    BY <1>2, <1>3, <2>2, <2>3 DEF KnowsRun, Live, Checked
  <2>6. \A r \in rec.todo : r \in Runs /\ disk[r].registry # {}
    BY <1>2, <2>3, Seeing DEF KnowsOthers, Placed, Begun
  <2>7. KnowsOthers(rec, disk', GoneRuns \cup Dead(a))
    BY <1>7, <2>3, <2>6, Seeing DEF KnowsOthers, FileStep
  <2>8. RecStep(act[a], rec)
    BY <1>2, <2>3, <2>4 DEF RecStep, OuterPCs
  <2> QED
    BY <1>4, <1>6, <1>7, <2>1, <2>3, <2>5, <2>7, <2>8 DEF SectionStep, Knows
<1> QED
  BY <1>8, <1>9

\* The part of a reconciliation that looks at many runs: where it may be.
LEMMA Scanning ==
  ASSUME AInv, HInv, NEW a \in Actors, act[a].pc \in {"discover", "discovering", "quarantine", "list", "entry"}
  PROVE  /\ act[a].site \in {"gate", "cleanup", "ready", "reconcile"}
         /\ act[a] \in ActRecords /\ act[a].pc \notin OuterPCs
  BY Seeing DEF ActRecords, Sites, Posted, Placed, ScanPCs, PreparePCs, OuterPCs, Idle

\* Where a scan goes on.
LEMMA ScanStep ==
  ASSUME AInv, HInv, NEW a \in Actors, act[a].pc \in {"discover", "discovering", "quarantine", "list", "entry"},
         NEW rec, rec.site = act[a].site,
         rec.pc \in {"discovering", "quarantine", "list", "entry", "take", "markManifest", "returned", "raised"},
         rec.handler = "raised" \/ (rec.pc \in {"take", "markManifest"} /\ rec.handler = "markManifest")
  PROVE  /\ RecStep(act[a], rec)
         /\ \A g : ~Live(rec, g)
         /\ \A f : Checked(rec, f)
<1>1. Posted(rec)
  BY Scanning DEF Posted, RecoveryPCs, ScanPCs, FreePCs, BarrierPCs
<1> QED
  BY <1>1, Scanning DEF RecStep, OuterPCs, Live, Checked

LEMMA ScanLook ==
  ASSUME AInv, HInv, NEW a \in Actors, act[a].pc \in {"discover", "discovering", "quarantine", "list", "entry"},
         NEW rec, rec.site = act[a].site,
         rec.pc \in {"discovering", "quarantine", "list", "entry", "take", "markManifest", "returned", "raised"},
         rec.handler = "raised" \/ (rec.pc \in {"take", "markManifest"} /\ rec.handler = "markManifest"),
         KnowsRun(rec, file, disk[rec.tx], GoneRuns), KnowsOthers(rec, disk, GoneRuns), Look(a, rec)
  PROVE  SectionStep(a)
<1>1. file' = file /\ disk' = disk /\ spent' = spent /\ Become(a, rec)
  BY DEF Look
<1> QED
  BY <1>1, ScanStep, MoveFrame

\* A staging directory that nobody writes to is what is left of a run.
LEMMA Staged ==
  ASSUME AInv, HInv, NEW a \in Actors, act[a].pc = "discover", ~Busy(a),
         NEW r \in Runs, disk[r].staging # "none"
  PROVE  r \in GoneRuns
<1>1. disk[r].before # <<>> /\ disk[r].manifest = "new" /\ ~disk[r].marker
  BY DEF AInv, SInv, IInv, FileOK, Fresh
<1>2. \A t \in Targets : file[t] # r
  BY <1>1 DEF HInv
<1>3. ASSUME NEW b \in Actors, act[b].tx = r PROVE ~Live(act[b], disk[r])
  <2>1. act[b].pc \in Unlocked
    BY Alone DEF AInv, Unlocked
  <2>2. act[b].pc \notin {"drafting", "prepare", "registerPending", "commit"}
        /\ ~(act[b].site = "prepare" /\ act[b].pc = "returned")
    BY <1>3, Seeing DEF KnowsRun, Files
  <2> QED
    BY <2>1, <2>2 DEF Live, Unlocked
<1> QED
  BY <1>1, <1>2, <1>3 DEF GoneRuns, Gone

LEMMA DiscoverFrame ==
  ASSUME AInv, HInv, NEW a \in Actors, Discover(a)
  PROVE  SectionStep(a)
<1> DEFINE T == {r \in Runs : disk[r].staging # "none"}
           rec == [Step(a, "discovering") EXCEPT !.todo = T, !.handler = "raised"]
<1>1. act[a].pc = "discover" /\ ~Busy(a) /\ Look(a, rec)
  BY DEF Discover, At
<1>2. T \subseteq GoneRuns
  BY <1>1, Staged
<1>3. /\ rec.pc = "discovering" /\ rec.handler = "raised" /\ rec.todo = T
      /\ rec.site = act[a].site /\ rec.report = act[a].report
  BY <1>1, Scanning DEF Step, ActRecords
<1> HIDE DEF rec, T
<1>4. KnowsOthers(rec, disk, GoneRuns)
  BY <1>2, <1>3, Seeing DEF KnowsOthers
<1>5. KnowsRun(rec, file, disk[rec.tx], GoneRuns)
  BY <1>1, <1>3, Scanning DEF KnowsRun, Journalling, PreMarker
<1> QED
  BY <1>1, <1>3, <1>4, <1>5, ScanLook

LEMMA DiscoverStagedFrame ==
  ASSUME AInv, HInv, NEW a \in Actors, DiscoverStaged(a)
  PROVE  SectionStep(a)
<1> DEFINE found(r) == [act[a] EXCEPT !.tx = r, !.todo = @ \ {r}]
           bad(r) == [found(r) EXCEPT !.pc = "quarantine"]
           good(r) == [found(r) EXCEPT !.tx = NoRun]
<1>1. act[a].pc = "discovering"
  BY DEF DiscoverStaged, At
<1>0. PICK r \in act[a].todo : \E rec \in {bad(r), good(r)} :
         /\ Become(a, rec) /\ file' = file /\ spent'.edits = spent.edits
         /\ \/ disk' = disk
            \/ disk[r].staging = "complete" /\ disk' = [disk EXCEPT ![r] = Journalled(@)]
  BY DEF DiscoverStaged, Tally, Look, AInv, SInv, IInv, Spendings
<1>2. PICK rec \in {bad(r), good(r)} :
         /\ Become(a, rec) /\ file' = file /\ spent'.edits = spent.edits
         /\ \/ disk' = disk
            \/ disk[r].staging = "complete" /\ disk' = [disk EXCEPT ![r] = Journalled(@)]
  BY <1>0
<1>3. /\ act[a] \in ActRecords /\ r \in Runs /\ r \in GoneRuns /\ act[a].handler = "raised"
      /\ act[a].todo \subseteq GoneRuns
  BY <1>1, Seeing DEF ActRecords, KnowsOthers, Placed
<1>4. /\ rec.handler = "raised" /\ rec.site = act[a].site /\ rec.report = act[a].report
      /\ rec.pc \in {"discovering", "quarantine"} /\ rec.todo = act[a].todo \ {r}
      /\ rec.pc = "quarantine" => rec.tx = r
  BY <1>1, <1>2, <1>3 DEF ActRecords
<1> HIDE DEF bad, good
<1>5. FileStep(act[a], r, disk[r], disk'[r])
  <2>1. disk[r] \in FileRecords /\ Fresh(disk[r]) /\ Recorded(disk[r])
    BY <1>3 DEF AInv, SInv, IInv, HInv
  <2>2. CASE disk' = disk
    BY <1>3, <2>2, Unwritten
  <2>3. CASE disk[r].staging = "complete" /\ disk' = [disk EXCEPT ![r] = Journalled(@)]
    <3>1. disk'[r] = Journalled(disk[r])
      BY <1>3, <2>3 DEF AInv, SInv, IInv
    <3> QED
      BY <2>1, <2>3, <3>1 DEF FileStep, Recorded, Fresh, Journalled, FileRecords
  <2> QED
    BY <1>2, <2>2, <2>3
<1>6. \A q \in Runs : FileStep(act[a], q, disk[q], disk'[q])
  BY <1>2, <1>3, <1>5, Unwritten DEF AInv, SInv, IInv
<1>7. KnowsOthers(rec, disk', GoneRuns \cup Dead(a))
  BY <1>3, <1>4, <1>6, Seeing DEF KnowsOthers, FileStep
<1>8. KnowsRun(rec, file', disk'[rec.tx], GoneRuns \cup Dead(a))
  BY <1>1, <1>3, <1>4, Scanning DEF KnowsRun, Journalling, PreMarker
<1>9. RecStep(act[a], rec) /\ Checked(rec, file') /\ ~Live(rec, disk'[rec.tx])
  BY <1>1, <1>4, ScanStep
<1> QED
  BY <1>2, <1>6, <1>7, <1>8, <1>9 DEF SectionStep, Knows

LEMMA QuarantineFrame ==
  ASSUME AInv, HInv, NEW a \in Actors, Quarantine(a)
  PROVE  SectionStep(a)
<1> DEFINE g == [Files(a) EXCEPT !.staging = "none"]
           rec == [Step(a, "discovering") EXCEPT
                       !.report[act[a].tx] = @ \cup {"rolled_back"}, !.tx = NoRun]
           tx == act[a].tx
<1>1. /\ act[a].pc = "quarantine" /\ Become(a, rec) /\ file' = file /\ spent'.edits = spent.edits
      /\ disk' = disk \/ disk' = [disk EXCEPT ![tx] = g]
  BY DEF Quarantine, At, TryWrite, Write, Tally, AInv, SInv, IInv, Spendings
<1>2. /\ act[a] \in ActRecords /\ tx \in Runs /\ tx \in GoneRuns /\ act[a].handler = "raised"
      /\ act[a].todo \subseteq GoneRuns /\ Files(a) = disk[tx] /\ Files(a) \in FileRecords /\ Recorded(Files(a))
  BY <1>1, Seeing DEF ActRecords, KnowsRun, KnowsOthers, Placed, FreePCs
<1>3. /\ rec.handler = "raised" /\ rec.site = act[a].site /\ rec.pc = "discovering" /\ rec.todo = act[a].todo
      /\ \A r \in Runs : rec.report[r] = IF r = tx THEN act[a].report[r] \cup {"rolled_back"} ELSE act[a].report[r]
  BY <1>1, <1>2 DEF Step, ActRecords
<1> HIDE DEF rec
<1>4. FileStep(act[a], tx, disk[tx], g)
  BY <1>2 DEF FileStep, Recorded, FileRecords
<1> HIDE DEF g
<1>5. \A q \in Runs : FileStep(act[a], q, disk[q], disk'[q])
  BY <1>1, <1>2, <1>4, Unwritten DEF AInv, SInv, IInv
<1>6. KnowsOthers(rec, disk', GoneRuns \cup Dead(a))
  <2>1. KnowsOthers(act[a], disk, GoneRuns)
    BY Seeing
  <2>2. \A r \in Runs : "rolled_back" \in rec.report[r] => r \in GoneRuns
    BY <1>2, <1>3, <2>1 DEF KnowsOthers
  <2>3. ASSUME NEW r \in Runs, "completed" \in rec.report[r] PROVE disk[r].receipt
    <3>1. "completed" \in act[a].report[r]
      BY <1>3, <2>3, "completed" # "rolled_back"
    <3> QED
      BY <2>1, <3>1 DEF KnowsOthers
  <2> QED
    BY <1>2, <1>3, <1>5, <2>2, <2>3 DEF KnowsOthers, FileStep
<1>7. KnowsRun(rec, file', disk'[rec.tx], GoneRuns \cup Dead(a))
  BY <1>1, <1>3, Scanning DEF KnowsRun, Journalling, PreMarker
<1>8. RecStep(act[a], rec) /\ Checked(rec, file') /\ ~Live(rec, disk'[rec.tx])
  BY <1>1, <1>3, ScanStep
<1> QED
  BY <1>1, <1>5, <1>6, <1>7, <1>8 DEF SectionStep, Knows

LEMMA RegisterDiscoveredFrame ==
  ASSUME AInv, HInv, NEW a \in Actors, RegisterDiscovered(a)
  PROVE  SectionStep(a)
<1>1. PICK r \in Unregistered, rec \in {act[a], Caught(a)} :
         /\ Become(a, rec) /\ file' = file /\ spent'.edits = spent.edits
         /\ disk' = disk \/ disk' = [disk EXCEPT ![r].registry = {"pending"}]
  BY DEF RegisterDiscovered, Tally, AInv, SInv, IInv, Spendings
<1>2. /\ act[a].pc = "discovering" /\ act[a].todo = {} /\ act[a] \in ActRecords /\ act[a].handler = "raised"
  BY Seeing DEF RegisterDiscovered, At, Placed
<1>3. /\ rec.handler = "raised" /\ rec.site = act[a].site /\ rec.report = act[a].report
      /\ rec.pc \in {"discovering", "raised"} /\ rec.todo = {}
  BY <1>1, <1>2 DEF ActRecords, Caught
<1>4. /\ r \in Runs /\ disk[r].registry = {} /\ disk[r].manifest # "new" /\ disk[r] \in FileRecords
      /\ Recorded(disk[r])
  BY DEF Unregistered, AInv, SInv, IInv, HInv
<1>5. FileStep(act[a], r, disk[r], [disk[r] EXCEPT !.registry = {"pending"}])
  BY <1>4 DEF FileStep, Recorded, FileRecords
<1>6. \A q \in Runs : FileStep(act[a], q, disk[q], disk'[q])
  BY <1>1, <1>4, <1>5, Unwritten DEF AInv, SInv, IInv
<1>7. KnowsOthers(rec, disk', GoneRuns \cup Dead(a))
  BY <1>2, <1>3, <1>6, Seeing DEF KnowsOthers, FileStep
<1>8. KnowsRun(rec, file', disk'[rec.tx], GoneRuns \cup Dead(a))
  BY <1>2, <1>3, Scanning DEF KnowsRun, Journalling, PreMarker
<1>9. RecStep(act[a], rec) /\ Checked(rec, file') /\ ~Live(rec, disk'[rec.tx])
  BY <1>2, <1>3, ScanStep
<1> QED
  BY <1>1, <1>6, <1>7, <1>8, <1>9 DEF SectionStep, Knows

LEMMA DiscoveredFrame ==
  ASSUME AInv, HInv, NEW a \in Actors, Discovered(a)
  PROVE  SectionStep(a)
<1> DEFINE rec == Step(a, "list")
<1>1. act[a].pc = "discovering" /\ act[a].todo = {} /\ act[a].handler = "raised" /\ Look(a, rec)
  BY Seeing DEF Discovered, At, Placed
<1>2. /\ rec.pc = "list" /\ rec.handler = "raised" /\ rec.todo = {}
      /\ rec.site = act[a].site /\ rec.report = act[a].report
  BY <1>1, Scanning DEF Step, ActRecords
<1> HIDE DEF rec
<1>3. KnowsOthers(rec, disk, GoneRuns) /\ KnowsRun(rec, file, disk[rec.tx], GoneRuns)
  BY <1>1, <1>2, Seeing, Scanning DEF KnowsOthers, KnowsRun, Journalling, PreMarker
<1> QED
  BY <1>1, <1>2, <1>3, ScanLook

LEMMA ListPendingFrame ==
  ASSUME AInv, HInv, NEW a \in Actors, ListPending(a)
  PROVE  SectionStep(a)
<1> DEFINE T == {r \in Runs : "pending" \in disk[r].registry}
           rec == [Step(a, "entry") EXCEPT !.todo = T]
<1>1. act[a].pc = "list" /\ Look(a, rec)
  BY DEF ListPending, At
<1>2. /\ rec.pc = "entry" /\ rec.handler = act[a].handler /\ rec.todo = T /\ rec.tx = act[a].tx
      /\ rec.site = act[a].site /\ rec.report = act[a].report
  BY <1>1, Scanning DEF Step, ActRecords
<1>3. \A r \in T : disk[r].registry # {}
  OBVIOUS
<1> HIDE DEF rec, T
<1>4. KnowsOthers(rec, disk, GoneRuns)
  BY <1>2, <1>3, Seeing DEF KnowsOthers
<1>5. KnowsRun(rec, file, disk[rec.tx], GoneRuns)
  BY <1>1, <1>2, Seeing, Scanning DEF KnowsRun, Journalling, PreMarker, Files
<1>6. rec.handler = "raised"
  BY <1>1, <1>2, Scanning, Seeing DEF Posted, FreePCs
<1> QED
  BY <1>1, <1>2, <1>4, <1>5, <1>6, ScanLook

LEMMA ReadEntryFrame ==
  ASSUME AInv, HInv, NEW a \in Actors, ReadEntry(a)
  PROVE  SectionStep(a)
<1> DEFINE next(pc, r) == [Step(a, pc) EXCEPT !.tx = r, !.todo = @ \ {r}, !.handler = "markManifest"]
<1>1. PICK r \in act[a].todo, pc \in {"take", "markManifest"} : Look(a, next(pc, r))
  BY DEF ReadEntry
<1>2. act[a].pc = "entry" /\ disk[r].registry # {}
  BY Seeing DEF ReadEntry, At, KnowsOthers
<1>3. /\ next(pc, r).pc = pc /\ next(pc, r).tx = r /\ next(pc, r).todo = act[a].todo \ {r}
      /\ next(pc, r).handler = "markManifest" /\ next(pc, r).site = act[a].site
      /\ next(pc, r).report = act[a].report
  BY <1>2, Scanning DEF Step, ActRecords
<1> HIDE DEF next
<1>4. KnowsOthers(next(pc, r), disk, GoneRuns)
  BY <1>2, <1>3, Seeing DEF KnowsOthers
<1>5. KnowsRun(next(pc, r), file, disk[next(pc, r).tx], GoneRuns)
  BY <1>1, <1>2, <1>3, Scanning DEF KnowsRun, Journalling, PreMarker
<1> QED
  BY <1>1, <1>2, <1>3, <1>4, <1>5, ScanLook

LEMMA ReconciledFrame ==
  ASSUME AInv, HInv, NEW a \in Actors, Reconciled(a)
  PROVE  SectionStep(a)
<1> DEFINE rec == Step(a, "returned")
<1>1. act[a].pc = "entry" /\ Look(a, rec)
  BY DEF Reconciled, At
<1>2. /\ rec.pc = "returned" /\ rec.handler = act[a].handler /\ rec.todo = act[a].todo /\ rec.tx = act[a].tx
      /\ rec.site = act[a].site /\ rec.report = act[a].report
  BY <1>1, Scanning DEF Step, ActRecords
<1> HIDE DEF rec
<1>3. KnowsOthers(rec, disk, GoneRuns) /\ KnowsRun(rec, file, disk[rec.tx], GoneRuns)
  BY <1>1, <1>2, Seeing, Scanning DEF KnowsOthers, KnowsRun, Journalling, PreMarker, Files
<1>4. rec.handler = "raised"
  BY <1>1, <1>2, Scanning, Seeing DEF Posted, FreePCs
<1> QED
  BY <1>1, <1>2, <1>3, <1>4, ScanLook

\* Every step of a section is one as the barrier sees it.
LEMMA SectionFrame ==
  ASSUME AInv, HInv, NEW a \in Actors, Section(a)
  PROVE  SectionStep(a)
<1>1. LockErrors(a) \/ Prepare(a) \/ Stage(a) \/ PublishJournal(a) \/ RegisterPending(a) => SectionStep(a)
  BY LockErrorsFrame, PrepareFrame, StageFrame, PublishJournalFrame, RegisterPendingFrame
<1>2. Commit(a) \/ Applying(a) \/ CheckTarget(a) \/ ApplyTarget(a) \/ VerifyApplied(a) => SectionStep(a)
  BY CommitFrame, ApplyingFrame, CheckTargetFrame, ApplyTargetFrame, VerifyAppliedFrame
<1>3. WriteMarker(a) \/ MarkCommitted(a) \/ CommitFailed(a) => SectionStep(a)
  BY WriteMarkerFrame, MarkCommittedFrame, CommitFailedFrame
<1>4. Publish(a) \/ PublishArtifact(a) \/ WriteReceipt(a) \/ Complete(a) \/ PublishFailed(a) => SectionStep(a)
  BY PublishFrame, PublishArtifactFrame, WriteReceiptFrame, CompleteFrame, PublishFailedFrame
<1>5. Transition(a) \/ Unlink(a) => SectionStep(a)
  BY TransitionFrame, UnlinkFrame
<1>6. Rollback(a) \/ UndoCheck(a) \/ Restore(a) \/ RolledBack(a) \/ RollbackFailed(a) => SectionStep(a)
  BY RollbackFrame, UndoCheckFrame, RestoreFrame, RolledBackFrame, RollbackFailedFrame
<1>7. Discover(a) \/ DiscoverStaged(a) \/ Quarantine(a) \/ RegisterDiscovered(a) => SectionStep(a)
  BY DiscoverFrame, DiscoverStagedFrame, QuarantineFrame, RegisterDiscoveredFrame
<1>8. Discovered(a) \/ ListPending(a) \/ ReadEntry(a) \/ Reconciled(a) \/ TakeEntry(a) => SectionStep(a)
  BY DiscoveredFrame, ListPendingFrame, ReadEntryFrame, ReconciledFrame, TakeEntryFrame
<1>9. MarkManifest(a) \/ MarkRegistry(a) \/ MarkUnlink(a) => SectionStep(a)
  BY MarkManifestFrame, MarkRegistryFrame, MarkUnlinkFrame
<1> QED
  BY <1>1, <1>2, <1>3, <1>4, <1>5, <1>6, <1>7, <1>8, <1>9 DEF Section

-----------------------------------------------------------------------------
(* What a section leaves true. *)

LEMMA Stepping ==
  ASSUME AInv, NEW a \in Actors, NEW rec, Become(a, rec)
  PROVE  act'[a] = rec /\ \A b \in Actors : b # a => act'[b] = act[b]
  BY DEF AInv, SInv, IInv, Become

\* A writer and an operator are not the same, and one writer at most is at work.
LEMMA Posts ==
  ASSUME AInv, NEW a \in Actors
  PROVE  /\ act[a] \in ActRecords /\ Posted(act[a])
         /\ act[a].pc # "idle" => act[a] # Idle
         /\ act[a].site # "idle" => act[a] # Idle
         /\ act[a].site \in {"gate", "cleanup", "ready", "prepare", "commit"} => a \in Writers
         /\ a \in Writers => act[a].site # "reconcile"
         /\ act[a].pc \in {"drafting", "prepare", "stage", "publishJournal", "registerPending"} => act[a].site = "prepare"
         /\ act[a].pc \in {"applying", "check", "replace", "marker"} => act[a].site = "commit"
<1>1. act[a] \in ActRecords /\ Posted(act[a]) /\ Placed(act[a], disk)
  BY KnowingAll DEF AInv
<1> QED
  BY <1>1 DEF AInv, Operators, Actors, Posted, Placed, ActRecords, Sites, Idle, RecoveryPCs, BarrierPCs, CommitPCs,
     PreparePCs, ScanPCs

LEMMA SectionAInv ==
  ASSUME AInv, HInv, NEW a \in Actors, Section(a)
  PROVE  AInv'
<1>1. PICK rec : Become(a, rec) /\ RecStep(act[a], rec)
  BY SectionFrame DEF SectionStep
<1>2. act'[a] = rec /\ \A b \in Actors : b # a => act'[b] = act[b]
  BY <1>1, Stepping
<1>3. SInv'
  BY SectionInv, SectionSwap DEF AInv, SInv
<1>4. \A b \in Actors : Posted(act'[b])
  BY <1>1, <1>2 DEF RecStep, AInv
<1>5. act[a] # Idle /\ act'[a] # Idle
  BY <1>1, <1>2 DEF RecStep, OuterPCs, Idle
<1>6. OneWriter'
  BY <1>2, <1>5 DEF AInv, OneWriter, Actors
<1>7. Operators'
  BY <1>1, <1>2 DEF AInv, Operators, RecStep, Actors
<1> QED
  BY <1>3, <1>4, <1>6, <1>7 DEF AInv

\* Nothing comes back of a run that is gone.
LEMMA Remains ==
  ASSUME AInv, HInv, NEW a \in Actors, SectionStep(a)
  PROVE  GoneRuns \cup Dead(a) \subseteq GoneRuns'
<1>1. PICK rec :
        /\ Become(a, rec) /\ RecStep(act[a], rec)
        /\ Live(rec, disk'[rec.tx]) => rec.tx = act[a].tx /\ Live(act[a], Files(a))
  BY DEF SectionStep
<1>2. act'[a] = rec /\ \A b \in Actors : b # a => act'[b] = act[b]
  BY <1>1, Stepping
<1>3. /\ \A r \in Runs : FileStep(act[a], r, disk[r], disk'[r])
      /\ \/ file' = file
         \/ act[a].pc = "replace" /\ file' = [file EXCEPT ![act[a].k] = act[a].tx]
         \/ act[a].pc = "restore" /\ file' = [file EXCEPT ![act[a].k] = Files(a).before[act[a].k]]
  BY DEF SectionStep
<1>4. ASSUME NEW r \in Runs, Gone(r) PROVE Gone(r)'
  <2>1. disk'[r].before # <<>> /\ (disk'[r].marker => act[a].pc = "marker" /\ r = act[a].tx)
    BY <1>3, <1>4 DEF FileStep, Gone
  <2>2. ~disk'[r].marker
    BY <1>4, <2>1 DEF Gone, Live
  <2>3. ASSUME NEW t \in Targets PROVE file'[t] # r
    <3>1. CASE file' = file
      BY <1>4, <3>1 DEF Gone
    <3>2. CASE act[a].pc = "replace" /\ file' = [file EXCEPT ![act[a].k] = act[a].tx]
      <4>1. act[a].tx # r
        BY <1>4, <3>2 DEF Gone, Live
      <4> QED
        BY <1>4, <3>2, <4>1 DEF Gone, AInv, SInv, IInv
    <3>3. CASE act[a].pc = "restore" /\ file' = [file EXCEPT ![act[a].k] = Files(a).before[act[a].k]]
      <4>1. act[a].k \in Targets /\ act[a].tx \in Runs /\ Files(a) = disk[act[a].tx] /\ Files(a).before # <<>>
        BY <3>3, Seeing DEF Placed, FreePCs
      <4>2. Files(a).before[act[a].k] # r
        BY <1>4, <4>1 DEF HInv, Gone, AInv, SInv, IInv, FileOK
      <4> QED
        BY <1>4, <3>3, <4>2 DEF Gone, AInv, SInv, IInv
    <3> QED
      BY <1>3, <3>1, <3>2, <3>3
  <2>4. ASSUME NEW b \in Actors, act'[b].tx = r PROVE ~Live(act'[b], disk'[r])
    <3>1. CASE b = a
      BY <1>1, <1>2, <1>4, <2>4, <3>1 DEF Gone, Files
    <3>2. CASE b # a
      BY <1>2, <1>3, <1>4, <2>4, <3>2 DEF Gone, FileStep, Live
    <3> QED
      BY <3>1, <3>2
  <2> QED
    BY <2>1, <2>2, <2>3, <2>4 DEF Gone
<1>5. ASSUME NEW r \in Dead(a) PROVE Gone(r)'
  <2>1. /\ r \in Runs /\ r = act[a].tx /\ act[a].pc = "undo" /\ act[a].k = 0 /\ ~act[a].failed
        /\ disk'[r].manifest = "rolled_back"
    BY <1>5 DEF Dead
  <2>2. disk[r].before # <<>> /\ ~disk[r].marker
    BY <2>1, Seeing DEF FreePCs, SwapOK, PreMarker
  <2>3. disk'[r].before # <<>> /\ ~disk'[r].marker
    BY <1>3, <2>1, <2>2 DEF FileStep
  <2>4. \A t \in Targets : t > 0 => file[t] # r
    BY <2>1, Seeing DEF KnowsRun
  <2>5. \A t \in Targets : file'[t] # r
    BY <1>3, <2>1, <2>4 DEF Targets
  <2>6. ASSUME NEW b \in Actors, act'[b].tx = r PROVE ~Live(act'[b], disk'[r])
    <3>1. CASE b = a
      BY <1>1, <1>2, <2>1, <2>6, <3>1 DEF Live
    <3>2. CASE b # a
      <4>1. act[b].pc \in Unlocked
        BY <2>1, <3>2, Alone DEF AInv, Unlocked
      <4> QED
        BY <1>2, <2>1, <3>2, <4>1 DEF Live, Unlocked
    <3> QED
      BY <3>1, <3>2
  <2> QED
    BY <2>3, <2>5, <2>6 DEF Gone
<1> QED
  BY <1>4, <1>5 DEF GoneRuns, Dead

\* What the others know is not disturbed.
LEMMA OthersKnow ==
  ASSUME AInv, HInv, NEW a \in Actors, SectionStep(a), NEW b \in Actors, b # a
  PROVE  Knows(act[b], file', disk', GoneRuns')
<1> DEFINE rec == act[b]
<1>1. /\ \A r \in Runs : FileStep(act[a], r, disk[r], disk'[r])
      /\ act[a].pc \notin {"replace", "restore"} => file' = file
      /\ act[a].pc \notin OuterPCs
  BY DEF SectionStep, RecStep
<1>2. /\ Placed(rec, disk) /\ Posted(rec) /\ KnowsRun(rec, file, disk[rec.tx], GoneRuns)
      /\ KnowsOthers(rec, disk, GoneRuns)
  BY Seeing DEF Files
<1>3. GoneRuns \subseteq GoneRuns'
  BY Remains
<1>4. KnowsOthers(rec, disk', GoneRuns')
  <2>1. \A r \in rec.todo : r \in Runs
    BY <1>2 DEF Placed, Begun
  <2> QED
    BY <1>1, <1>2, <1>3, <2>1 DEF KnowsOthers, FileStep
<1>5. KnowsRun(rec, file', disk'[rec.tx], GoneRuns')
  <2>1. CASE rec.tx \in Runs
    <3> DEFINE f == disk[rec.tx]
               g == disk'[rec.tx]
    <3>1. FileStep(act[a], rec.tx, f, g)
      BY <1>1, <2>1
    <3>2. rec.pc \in {"drafting", "prepare", "registerPending", "commit"} \/ (rec.site = "prepare" /\ rec.pc = "returned")
              => g.staging = "none"
      <4>1. ASSUME rec.pc \in {"drafting", "prepare", "registerPending", "commit"}
                       \/ (rec.site = "prepare" /\ rec.pc = "returned"),
                   act[a].pc \in {"prepare", "stage"}
            PROVE  FALSE
        <5>1. a \in Writers /\ act[a] # Idle
          BY <4>1, Posts
        <5>2. rec.site \in {"prepare", "commit"}
          BY <1>2, <4>1, Posts DEF Posted, Placed, ActRecords, Sites, Idle, RecoveryPCs, BarrierPCs, ScanPCs
        <5>3. b \in Writers /\ rec # Idle
          BY <5>2, Posts
        <5> QED
          BY <5>1, <5>3 DEF AInv, OneWriter
      <4> QED
        BY <1>2, <3>1, <4>1 DEF KnowsRun, FileStep
    <3>3. rec.pc \in {"undo", "restore"} => file' = file
      BY <1>1, Alone DEF AInv, Unlocked
    <3>4. rec.pc = "unlink" => rec.goal # "pending"
      BY <1>2 DEF Placed, Reports
    <3> HIDE DEF f, g, rec
    <3>5. KnowsRun(rec, file, f, GoneRuns)
      BY <1>2 DEF f
    <3>6. KnowsRun(rec, file', g, GoneRuns')
      BY <1>3, <3>1, <3>2, <3>3, <3>4, <3>5 DEF KnowsRun, FileStep
    <3> QED
      BY <3>6 DEF g
  <2>2. CASE rec.tx \notin Runs
    <3>1. rec.pc \in FreePCs /\ rec.handler = "raised" /\ rec.site \notin {"prepare", "commit"}
      BY <1>2, <2>2 DEF Placed, Begun
    <3> QED
      BY <3>1 DEF KnowsRun, FreePCs, Journalling, PreMarker
  <2> QED
    BY <2>1, <2>2
<1> QED
  BY <1>4, <1>5 DEF Knows

LEMMA SectionHInv ==
  ASSUME AInv, HInv, NEW a \in Actors, SectionStep(a)
  PROVE  HInv'
<1>1. /\ \A r \in Runs : FileStep(act[a], r, disk[r], disk'[r])
      /\ \/ file' = file
         \/ act[a].pc = "replace" /\ file' = [file EXCEPT ![act[a].k] = act[a].tx]
         \/ act[a].pc = "restore" /\ file' = [file EXCEPT ![act[a].k] = Files(a).before[act[a].k]]
  BY DEF SectionStep
<1>2. GoneRuns \subseteq GoneRuns' /\ Dead(a) \subseteq GoneRuns'
  BY Remains
<1>3. ASSUME NEW r \in Runs
      PROVE  /\ Recorded(disk'[r])
             /\ disk'[r].manifest = "rolled_back" \/ "rolled_back" \in disk'[r].registry => r \in GoneRuns'
  <2>1. /\ FileStep(act[a], r, disk[r], disk'[r])
        /\ disk[r].manifest = "rolled_back" \/ "rolled_back" \in disk[r].registry => r \in GoneRuns
    BY <1>1 DEF HInv
  <2>2. disk'[r].manifest = "rolled_back" => r \in GoneRuns'
    BY <1>2, <2>1 DEF FileStep, Dead
  <2>3. act[a].pc = "transition" /\ act[a].goal = "rolled_back" /\ r = act[a].tx => r \in GoneRuns
    BY Seeing DEF KnowsRun
  <2> QED
    BY <1>2, <2>1, <2>2, <2>3 DEF FileStep
<1>4. ASSUME NEW t \in Targets, file'[t] \in Runs
      PROVE  disk'[file'[t]].manifest \notin {"new", "prepared"}
  <2>1. disk[file'[t]].manifest \notin {"new", "prepared"}
    <3>1. CASE file' = file
      BY <1>4, <3>1 DEF HInv
    <3>2. CASE act[a].pc = "replace" /\ file' = [file EXCEPT ![act[a].k] = act[a].tx]
      <4>1. disk[act[a].tx].manifest \notin {"new", "prepared"}
        BY <3>2, Seeing DEF SwapOK, Started, Journalling, PreMarker
      <4>2. file'[t] = act[a].tx \/ file'[t] = file[t]
        BY <3>2 DEF AInv, SInv, IInv
      <4> QED
        BY <1>4, <4>1, <4>2 DEF HInv
    <3>3. CASE act[a].pc = "restore" /\ file' = [file EXCEPT ![act[a].k] = Files(a).before[act[a].k]]
      <4>1. act[a].k \in Targets /\ act[a].tx \in Runs /\ Files(a) = disk[act[a].tx] /\ Files(a).before # <<>>
        BY <3>3, Seeing DEF Placed, FreePCs
      <4>2. file'[t] = Files(a).before[act[a].k] \/ file'[t] = file[t]
        BY <3>3 DEF AInv, SInv, IInv
      <4>3. CASE file'[t] = Files(a).before[act[a].k]
        <5>1. disk[file'[t]].receipt
          BY <1>4, <4>1, <4>3 DEF HInv
        <5>2. disk[file'[t]].marker
          BY <1>4, <5>1 DEF AInv, SInv, IInv, FileOK
        <5> QED
          BY <1>4, <5>2 DEF AInv, SInv, Fresh
      <4> QED
        BY <1>4, <4>2, <4>3 DEF HInv
    <3> QED
      BY <1>1, <3>1, <3>2, <3>3
  <2> QED
    BY <1>1, <1>4, <2>1 DEF FileStep
<1>5. \A r \in Runs, t \in Targets :
          disk'[r].before # <<>> /\ disk'[r].before[t] \in Runs => disk'[disk'[r].before[t]].receipt
  BY <1>1 DEF HInv, FileStep
<1>6. ASSUME NEW b \in Actors PROVE Knows(act'[b], file', disk', GoneRuns')
  <2>1. PICK rec : Become(a, rec) /\ Knows(rec, file', disk', GoneRuns \cup Dead(a))
    BY DEF SectionStep
  <2>2. act'[a] = rec /\ (b # a => act'[b] = act[b])
    BY <2>1, Stepping
  <2>3. Knows(rec, file', disk', GoneRuns')
    BY <1>2, <2>1 DEF Knows, KnowsRun, KnowsOthers
  <2> QED
    BY <2>2, <2>3, OthersKnow
<1> QED
  BY <1>3, <1>4, <1>5, <1>6 DEF HInv

\* A run of which there is text without a marker is not settled.
LEMMA Unfinished ==
  ASSUME AInv, HInv, GInv, NEW t \in Targets, NEW r \in Runs, file[t] = r, ~disk[r].marker
  PROVE  global[r] \cap Unsettled # {} /\ Pairs # {}
<1>1. disk[r].manifest # "new" /\ ~disk[r].receipt /\ ~Gone(r)
  BY DEF HInv, Gone, AInv, SInv, IInv, FileOK
<1>2. /\ global[r] # {} /\ "completed" \notin global[r]
      /\ global[r] \cap {"rolled_back", "abandoned"} = {} /\ global[r] \subseteq Unsettled \cup Settled
  BY <1>1 DEF GInv, Noted
<1>3. PICK s \in global[r] : s \in Unsettled
  BY <1>2 DEF Settled, Unsettled
<1>4. <<r, s>> \in Pairs
  BY <1>3 DEF Pairs
<1> QED
  BY <1>3, <1>4

\* A run that is published was committed.
LEMMA Marked ==
  ASSUME AInv, NEW r \in Runs
  PROVE  disk[r].receipt => disk[r].marker
  BY DEF AInv, SInv, IInv, FileOK

LEMMA PairsOf ==
  ASSUME NEW r \in Runs, global[r] \cap Unsettled # {}
  PROVE  Pairs # {}
<1>1. PICK s \in Unsettled : s \in global[r]
  OBVIOUS
<1>2. <<r, s>> \in Pairs
  BY <1>1 DEF Pairs
<1> QED
  BY <1>2

LEMMA SectionGInv ==
  ASSUME AInv, HInv, GInv, NEW a \in Actors, SectionStep(a), UNCHANGED <<global, gate>>
  PROVE  GInv'
<1>1. PICK rec : Become(a, rec) /\ RecStep(act[a], rec)
  BY DEF SectionStep
<1>2. act'[a] = rec /\ \A b \in Actors : b # a => act'[b] = act[b]
  BY <1>1, Stepping
<1>3. /\ \A r \in Runs : FileStep(act[a], r, disk[r], disk'[r])
      /\ GoneRuns \subseteq GoneRuns'
  BY Remains DEF SectionStep
<1>4. \A r \in Runs : Gone(r) => Gone(r)'
  BY <1>3 DEF GoneRuns
<1>5. ASSUME NEW r \in Runs PROVE Noted(r)'
  <2>1. Noted(r) /\ FileStep(act[a], r, disk[r], disk'[r])
    BY <1>3 DEF GInv
  <2>2. ASSUME global[r] = {} PROVE disk'[r].staging = "none" /\ disk'[r].manifest = "new"
    <3>1. ~(act[a].pc \in {"prepare", "stage", "publishJournal"} /\ r = act[a].tx)
      <4>1. ASSUME act[a].pc \in {"prepare", "stage", "publishJournal"} PROVE "pending" \in global[act[a].tx]
        <5>1. act[a].site = "prepare" /\ a \in Writers /\ act[a].pc # "drafting"
          BY <4>1, Posts
        <5> QED
          BY <5>1 DEF GInv, Gated
      <4> QED
        BY <2>2, <4>1
    <3> QED
      BY <2>1, <2>2, <3>1 DEF Noted, FileStep
  <2> QED
    BY <1>4, <2>1, <2>2 DEF Noted, FileStep
<1>6. ASSUME NEW b \in Writers PROVE Gated(b)'
  <2>1. Gated(b) /\ b \in Actors /\ gate' = gate /\ global' = global /\ Pairs' = Pairs
    BY DEF GInv, Actors, Pairs
  <2>2. CASE b = a
    <3>1. /\ act'[b].site = act[b].site /\ act'[b].pc \notin OuterPCs /\ act[b].pc \notin OuterPCs
          /\ act[b].site \in {"prepare", "commit"} => act'[b].tx = act[b].tx
      BY <1>1, <1>2, <2>2 DEF RecStep
    <3> QED
      BY <2>1, <3>1 DEF Gated, OuterPCs
  <2>3. CASE b # a
    <3>1. act'[b] = act[b]
      BY <1>2, <2>1, <2>3
    <3>2. ASSUME NEW r \in Runs, r = act[b].tx, act[b].pc \in {"settle", "settleUnlink"}
          PROVE  /\ act[b].goal = "completed" => disk'[r].receipt
                 /\ act[b].goal \in {"rolled_back", "abandoned"} => Gone(r)'
      BY <1>3, <1>4, <2>1, <3>2 DEF Gated, FileStep
    <3>3. act[b].pc \in {"settle", "settleUnlink"} => act[b].tx \in Runs
      BY <2>1, Seeing DEF FreePCs
    <3> QED
      BY <2>1, <3>1, <3>2, <3>3 DEF Gated, Gone
  <2> QED
    BY <2>2, <2>3
<1>7. (\A b \in Writers : act'[b] = Idle) => gate = NoGate
  <2>1. act'[a] # Idle
    BY <1>1, <1>2 DEF RecStep, OuterPCs, Idle
  <2>2. (\A b \in Writers : act'[b] = Idle) => \A b \in Writers : act[b] = Idle
    BY <1>2, <2>1 DEF Actors
  <2> QED
    BY <2>2 DEF GInv
<1> QED
  BY <1>5, <1>6, <1>7 DEF GInv, OneUnsettled, Pairs

\* Which of the books a section changes: those of the run that is unsettled.
LEMMA Rewriting ==
  ASSUME AInv, HInv, GInv, WInv, spent.edits = 0, NEW a \in Actors, SectionStep(a), file' # file
  PROVE  /\ act[a].pc \in {"replace", "restore"} /\ act[a].tx \in Runs /\ ~disk[act[a].tx].marker
         /\ act[a].k \in Targets /\ disk[act[a].tx].before # <<>>
         /\ global[act[a].tx] \cap Unsettled # {} /\ Pairs # {}
         /\ act[a].pc = "restore" => file[act[a].k] = act[a].tx
         /\ \E x \in {act[a].tx, disk[act[a].tx].before[act[a].k]} : file' = [file EXCEPT ![act[a].k] = x]
<1> DEFINE tx == act[a].tx
<1>1. \/ act[a].pc = "replace" /\ file' = [file EXCEPT ![act[a].k] = tx]
      \/ act[a].pc = "restore" /\ file' = [file EXCEPT ![act[a].k] = Files(a).before[act[a].k]]
  BY DEF SectionStep
<1>2. /\ act[a].pc \in {"replace", "restore"} /\ tx \in Runs /\ ~disk[tx].marker
      /\ act[a].k \in Targets /\ disk[tx].before # <<>> /\ Files(a) = disk[tx]
  BY <1>1, Seeing DEF FreePCs, Placed, SwapOK, PreMarker
<1>3. CASE act[a].pc = "replace"
  <2>1. act[a].site = "commit" /\ a \in Writers
    BY <1>3, Posts
  <2>2. "pending" \in global[tx]
    BY <2>1 DEF GInv, Gated
  <2>3. global[tx] \cap Unsettled # {}
    BY <2>2 DEF Unsettled
  <2> QED
    BY <1>1, <1>2, <1>3, <2>3, PairsOf
<1>4. CASE act[a].pc = "restore"
  <2>1. file[act[a].k] = tx
    BY <1>4 DEF WInv, At
  <2> QED
    BY <1>1, <1>2, <1>4, <2>1, Unfinished
<1> QED
  BY <1>2, <1>3, <1>4

LEMMA SectionWInv ==
  ASSUME AInv, HInv, GInv, WInv, NEW a \in Actors, SectionStep(a), UNCHANGED <<global, gate>>
  PROVE  WInv'
<1> SUFFICES ASSUME spent.edits = 0 PROVE WInv'
  BY DEF SectionStep, WInv
<1>1. PICK rec : Become(a, rec) /\ RecStep(act[a], rec) /\ Checked(rec, file')
  BY DEF SectionStep
<1>2. act'[a] = rec /\ \A b \in Actors : b # a => act'[b] = act[b]
  BY <1>1, Stepping
<1>3. \A r \in Runs : FileStep(act[a], r, disk[r], disk'[r])
  BY DEF SectionStep
<1>4. /\ \A r \in Runs : disk'[r].before = disk[r].before
      /\ Pairs' = Pairs
  BY <1>3 DEF FileStep, Pairs
<1>5. file \in [Targets -> Contents]
  BY DEF AInv, SInv, IInv
<1>6. \A r \in Runs, t, u \in Targets :
          disk'[r].before # <<>> => disk'[r].before[t] = disk'[r].before[u]
  BY <1>4 DEF WInv
<1>7. ASSUME NEW r \in Runs, global[r] \cap Unsettled # {}
      PROVE  /\ \A t \in Targets : file'[t] \in {r, disk'[r].before[t]}
             /\ disk'[r].marker => \A t \in Targets : file'[t] = r
  <2>1. /\ \A t \in Targets : file[t] \in {r, disk[r].before[t]}
        /\ disk[r].marker => \A t \in Targets : file[t] = r
    BY <1>7 DEF WInv, Applied
  <2>2. CASE file' = file
    <3>1. disk'[r].marker => disk[r].marker \/ (act[a].pc = "marker" /\ r = act[a].tx)
      BY <1>3 DEF FileStep
    <3>2. act[a].pc = "marker" /\ r = act[a].tx => \A t \in Targets : file[t] = r
      BY DEF WInv, At, Applied
    <3> QED
      BY <1>4, <2>1, <2>2, <3>1, <3>2
  <2>3. CASE file' # file
    <3>1. /\ r = act[a].tx /\ ~disk[r].marker /\ act[a].k \in Targets /\ act[a].pc # "marker"
          /\ \E x \in {r, disk[r].before[act[a].k]} : file' = [file EXCEPT ![act[a].k] = x]
      BY <1>7, <2>3, Rewriting DEF GInv, OneUnsettled
    <3>2. ~disk'[r].marker
      BY <1>3, <3>1 DEF FileStep
    <3> QED
      BY <1>4, <1>5, <2>1, <3>1, <3>2
  <2> QED
    BY <2>2, <2>3
<1>8. Pairs' = {} => \A t, u \in Targets : file'[t] = file'[u]
  BY <1>4, Rewriting DEF WInv
<1>9. ASSUME NEW b \in Actors, act'[b].pc = "drafting" PROVE file' = disk'[act'[b].tx].before
  <2>1. b # a /\ act'[b] = act[b]
    BY <1>1, <1>2, <1>9 DEF RecStep, OuterPCs
  <2>2. act[b].pc = "drafting" /\ act[b].tx \in Runs /\ act[b].site = "prepare" /\ b \in Writers
    BY <1>9, <2>1, Seeing, Posts DEF FreePCs
  <2>3. Pairs = {}
    BY <2>2 DEF GInv, Gated
  <2>4. file' = file
    BY <2>3, Rewriting
  <2> QED
    BY <1>4, <2>1, <2>2, <2>4 DEF WInv, At, Files
<1>10. ASSUME NEW b \in Actors, act'[b].pc = "marker" PROVE \A t \in Targets : file'[t] = act'[b].tx
  <2>1. CASE b = a
    BY <1>1, <1>2, <1>10, <2>1 DEF Checked
  <2>2. CASE b # a
    <3>1. act'[b] = act[b] /\ act[b].pc = "marker"
      BY <1>2, <1>10, <2>2
    <3>2. act[a].pc \in Unlocked
      BY <2>2, <3>1, Alone DEF AInv, Unlocked
    <3>3. file' = file
      BY <3>2 DEF SectionStep, Unlocked
    <3> QED
      BY <3>1, <3>3 DEF WInv, At, Applied
  <2> QED
    BY <2>1, <2>2
<1>11. ASSUME NEW b \in Actors, act'[b].pc = "restore" PROVE file'[act'[b].k] = act'[b].tx
  <2>1. CASE b = a
    BY <1>1, <1>2, <1>11, <2>1 DEF Checked
  <2>2. CASE b # a
    <3>1. act'[b] = act[b] /\ act[b].pc = "restore"
      BY <1>2, <1>11, <2>2
    <3>2. act[a].pc \in Unlocked
      BY <2>2, <3>1, Alone DEF AInv, Unlocked
    <3>3. file' = file
      BY <3>2 DEF SectionStep, Unlocked
    <3> QED
      BY <3>1, <3>3 DEF WInv, At
  <2> QED
    BY <2>1, <2>2
<1> QED
  BY <1>6, <1>7, <1>8, <1>9, <1>10, <1>11 DEF WInv, Applied, At, Files

\* A step of the transaction, whoever makes it, keeps the invariant.
LEMMA SectionBInv ==
  ASSUME BInv, NEW a \in Actors, Local(Section(a))
  PROVE  BInv'
<1>1. Section(a) /\ UNCHANGED <<global, gate>> /\ AInv /\ HInv /\ GInv /\ WInv
  BY DEF Local, BInv
<1>2. SectionStep(a)
  BY <1>1, SectionFrame
<1> QED
  BY <1>1, <1>2, SectionAInv, SectionHInv, SectionGInv, SectionWInv DEF BInv

-----------------------------------------------------------------------------
(* Steps outside the transaction. *)

\* A process moves where no lock is held, and leaves everything on the disk.
LEMMA QuietInv ==
  ASSUME AInv, HInv, NEW a \in Actors, NEW rec, Become(a, rec), file' = file, disk' = disk,
         spent' \in Spendings, ActOK(rec, disk), SwapOK(rec, file, disk), rec.pc \in Unlocked, Posted(rec),
         a \in Writers => rec.site # "reconcile", a \in Reconcilers => rec.site \in {"idle", "reconcile"},
         a \in Writers /\ rec # Idle => act[a] # Idle \/ \A b \in Writers : act[b] = Idle,
         Knows(rec, file, disk, GoneRuns),
         Live(rec, disk[rec.tx]) => rec.tx = act[a].tx /\ Live(act[a], Files(a))
  PROVE  AInv' /\ HInv' /\ \A r \in Runs : Gone(r) => Gone(r)'
<1>1. act'[a] = rec /\ \A b \in Actors : b # a => act'[b] = act[b]
  BY Stepping
<1>2. IInv'
  <2>1. \A r \in Runs : Grows(disk[r], disk'[r])
    BY DEF Grows
  <2>2. act' \in [Actors -> ActRecords] /\ \A b \in Actors : ActOK(act'[b], disk')
    BY <2>1, Moving DEF AInv, SInv
  <2> QED
    BY <2>2 DEF AInv, SInv, IInv
<1>3. SInv'
  <2>1. \A r \in Runs : Fresh(disk'[r]) /\ Calm(disk[r], disk'[r])
    BY DEF AInv, SInv, Calm, Onward
  <2> QED
    BY <1>2, <2>1, Outside DEF AInv
<1>4. AInv'
  <2>1. \A b \in Actors : Posted(act'[b])
    BY <1>1 DEF AInv
  <2>2. OneWriter'
    BY <1>1 DEF AInv, OneWriter, Actors
  <2>3. Operators'
    BY <1>1 DEF AInv, Operators, Actors
  <2> QED
    BY <1>3, <2>1, <2>2, <2>3 DEF AInv
<1>5. ASSUME NEW r \in Runs, Gone(r) PROVE Gone(r)'
  <2>1. ASSUME NEW b \in Actors, act'[b].tx = r PROVE ~Live(act'[b], disk[r])
    <3>1. CASE b = a
      BY <1>1, <1>5, <2>1, <3>1 DEF Gone, Files
    <3>2. CASE b # a
      BY <1>1, <1>5, <2>1, <3>2 DEF Gone
    <3> QED
      BY <3>1, <3>2
  <2> QED
    BY <1>5, <2>1 DEF Gone
<1>6. GoneRuns \subseteq GoneRuns'
  BY <1>5 DEF GoneRuns
<1>7. ASSUME NEW b \in Actors PROVE Knows(act'[b], file', disk', GoneRuns')
  <2>1. Knows(act'[b], file, disk, GoneRuns)
    BY <1>1 DEF HInv
  <2> QED
    BY <1>6, <2>1 DEF Knows, KnowsRun, KnowsOthers
<1>8. HInv'
  BY <1>6, <1>7 DEF HInv
<1> QED
  BY <1>4, <1>5, <1>8

\* A record that remembers nothing.
Plain(pc, site) == [Idle EXCEPT !.pc = pc, !.site = site]
PlainPCs == {<<"idle", "idle">>, <<"gate", "gate">>, <<"gate", "cleanup">>, <<"discover", "ready">>,
             <<"generate", "ready">>, <<"discover", "reconcile">>}

LEMMA PlainOK ==
  ASSUME NEW pc, NEW site, <<pc, site>> \in PlainPCs
  PROVE  LET rec == Plain(pc, site) IN
         /\ rec.pc = pc /\ rec.site = site /\ rec.pc \in Unlocked /\ Posted(rec)
         /\ (rec = Idle <=> pc = "idle")
         /\ ActOK(rec, disk) /\ SwapOK(rec, file, disk) /\ Knows(rec, file, disk, GoneRuns)
         /\ ~Live(rec, disk[rec.tx])
<1> DEFINE rec == Plain(pc, site)
<1>1. /\ rec.pc = pc /\ rec.site = site /\ rec.handler = "raised" /\ rec.todo = {} /\ rec.report = NoReport
  BY DEF Plain, Idle
<1>2. (rec = Idle <=> pc = "idle")
  <2>1. Idle.pc = "idle"
    BY DEF Idle
  <2>2. ASSUME pc = "idle" PROVE rec = Idle
    <3>1. site = "idle"
      BY <2>2 DEF PlainPCs
    <3>2. rec \in ActRecords /\ Idle \in ActRecords
      <4>1. Idle \in ActRecords /\ "idle" \in PCs /\ "idle" \in Sites
        BY IdleOK DEF ActOK, PCs, Unlocked, Sites
      <4> QED
        BY <2>2, <3>1, <4>1 DEF Plain, ActRecords
    <3>3. /\ rec.pc = Idle.pc /\ rec.site = Idle.site /\ rec.tx = Idle.tx /\ rec.todo = Idle.todo
          /\ rec.report = Idle.report /\ rec.k = Idle.k /\ rec.failed = Idle.failed
          /\ rec.goal = Idle.goal /\ rec.handler = Idle.handler
      BY <2>2, <3>1 DEF Plain, Idle
    <3> HIDE DEF rec
    <3> QED
      BY <3>2, <3>3 DEF ActRecords
  <2> QED
    BY <1>1, <2>1, <2>2
<1>3. rec \in ActRecords
  <2>1. Idle \in ActRecords
    BY IdleOK DEF ActOK
  <2>2. pc \in PCs /\ site \in Sites
    BY DEF PlainPCs, PCs, Unlocked, Sites
  <2> QED
    BY <2>1, <2>2 DEF Plain, ActRecords
<1>4. Posted(rec) /\ rec.pc \in Unlocked
  BY <1>1, <1>2 DEF Posted, PlainPCs, Unlocked, BarrierPCs, RecoveryPCs, ScanPCs
<1>5. ActOK(rec, disk) /\ SwapOK(rec, file, disk)
  BY <1>1, <1>3 DEF ActOK, Placed, SwapOK, PlainPCs, FreePCs, MarkedPCs, Journalling, PreMarker, Drafting, Started
<1>6. Knows(rec, file, disk, GoneRuns) /\ ~Live(rec, disk[rec.tx])
  BY <1>1 DEF Knows, KnowsRun, KnowsOthers, PlainPCs, NoReport, Journalling, PreMarker, Live
<1> QED
  BY <1>1, <1>2, <1>4, <1>5, <1>6

LEMMA PlainInv ==
  ASSUME AInv, HInv, NEW a \in Actors, NEW pc, NEW site, <<pc, site>> \in PlainPCs, Become(a, Plain(pc, site)),
         file' = file, disk' = disk, spent' \in Spendings,
         a \in Writers => site # "reconcile", a \in Reconcilers => site \in {"idle", "reconcile"},
         a \in Writers /\ pc # "idle" => act[a] # Idle \/ \A b \in Writers : act[b] = Idle
  PROVE  AInv' /\ HInv' /\ \A r \in Runs : Gone(r) => Gone(r)'
<1> DEFINE rec == Plain(pc, site)
<1>1. /\ rec.site = site /\ rec.pc \in Unlocked /\ Posted(rec) /\ (rec = Idle <=> pc = "idle")
      /\ ActOK(rec, disk) /\ SwapOK(rec, file, disk) /\ Knows(rec, file, disk, GoneRuns)
      /\ ~Live(rec, disk[rec.tx])
  BY PlainOK
<1>2. Become(a, rec)
  OBVIOUS
<1> HIDE DEF rec
<1> QED
  BY <1>1, <1>2, QuietInv

\* The writer goes on with its run or with an entry.
LEMMA WriterGoes ==
  ASSUME AInv, HInv, NEW a \in Writers, act[a].pc \in {"gate", "returned", "raised", "settle", "settleUnlink"},
         NEW rec \in ActRecords, Become(a, rec), file' = file, disk' = disk, spent' \in Spendings,
         rec.pc \in {"discover", "settle", "settleUnlink", "raised"}, rec.site = act[a].site,
         rec.site \in {"gate", "cleanup", "commit"}, rec.handler = act[a].handler, rec.todo = act[a].todo,
         rec.report \in {act[a].report, NoReport}, Posted(rec),
         rec.pc \in {"settle", "settleUnlink"} => Begun(disk, rec.tx),
         rec.site = "commit" => rec.tx = act[a].tx
  PROVE  AInv' /\ HInv' /\ \A r \in Runs : Gone(r) => Gone(r)'
<1>1. /\ a \in Actors /\ act[a] \in ActRecords /\ Posted(act[a]) /\ Placed(act[a], disk)
      /\ SwapOK(act[a], file, disk) /\ KnowsRun(act[a], file, Files(a), GoneRuns)
      /\ KnowsOthers(act[a], disk, GoneRuns)
  BY Seeing DEF Actors
<1>2. rec.handler = "raised" /\ act[a] # Idle
  BY <1>1 DEF Posted, FreePCs, BarrierPCs, Idle
<1>3. ActOK(rec, disk)
  BY <1>1, <1>2 DEF ActOK, Placed, FreePCs, MarkedPCs, ScanPCs, Posted, CommitPCs, RecoveryPCs
<1>4. SwapOK(rec, file, disk)
  BY <1>1, <1>2 DEF SwapOK, Journalling, PreMarker, Drafting, Started
<1>5. KnowsRun(rec, file, disk[rec.tx], GoneRuns)
  BY <1>1, <1>2 DEF KnowsRun, Journalling, PreMarker, Files
<1>6. KnowsOthers(rec, disk, GoneRuns)
  BY <1>1 DEF KnowsOthers, NoReport
<1>7. ~Live(rec, disk[rec.tx]) /\ rec.pc \in Unlocked
  BY DEF Live, Unlocked
<1>8. a \notin Reconcilers
  BY <1>1, PersistenceAssumption
<1> QED
  BY <1>1, <1>2, <1>3, <1>4, <1>5, <1>6, <1>7, <1>8, QuietInv DEF Knows

\* A step of the writer: the other writers are idle.
LEMMA WriterInv ==
  ASSUME AInv, NEW a \in Writers, NEW rec, Become(a, rec), act[a] # Idle \/ \A b \in Writers : act[b] = Idle,
         global' \in [Runs -> SUBSET (Unsettled \cup Settled)], gate' \in Gates, gate'.entries \subseteq Pairs',
         OneUnsettled', \A r \in Runs : Noted(r)', Gated(a)', rec = Idle => gate' = NoGate
  PROVE  GInv'
<1>1. a \in Actors /\ act'[a] = rec /\ \A b \in Actors : b # a => act'[b] = act[b]
  BY Stepping DEF Actors
<1>2. ASSUME NEW b \in Writers, b # a PROVE act'[b] = Idle
  BY <1>1, <1>2 DEF AInv, OneWriter, Actors
<1>3. ASSUME NEW b \in Writers PROVE Gated(b)'
  <2>1. CASE b = a
    BY <2>1
  <2>2. CASE b # a
    BY <1>2, <2>2 DEF Gated, Idle
  <2> QED
    BY <2>1, <2>2
<1>4. (\A b \in Writers : act'[b] = Idle) => gate' = NoGate
  BY <1>1
<1> QED
  BY <1>3, <1>4 DEF GInv

\* A step after which the same run is unsettled.
LEMMA StillWhole ==
  ASSUME AInv, WInv, NEW a \in Actors, NEW rec, Become(a, rec), file' = file, disk' = disk,
         spent'.edits = spent.edits, rec.pc \notin {"drafting", "marker", "restore"},
         spent.edits = 0 => \A r \in Runs : global'[r] \cap Unsettled # {} =>
             global[r] \cap Unsettled # {} \/ (file = disk[r].before /\ ~disk[r].marker),
         spent.edits = 0 /\ Pairs' = {} => \A t, u \in Targets : file[t] = file[u]
  PROVE  WInv'
<1> SUFFICES ASSUME spent.edits = 0 PROVE WInv'
  BY DEF WInv
<1>1. act'[a] = rec /\ \A b \in Actors : b # a => act'[b] = act[b]
  BY Stepping
<1>2. ASSUME NEW r \in Runs, global'[r] \cap Unsettled # {}
      PROVE  /\ \A t \in Targets : file[t] \in {r, disk[r].before[t]}
             /\ disk[r].marker => Applied(r)
  BY <1>2 DEF WInv
<1>3. ASSUME NEW b \in Actors, act'[b].pc \in {"drafting", "marker", "restore"}
      PROVE  b # a /\ act'[b] = act[b]
  BY <1>1, <1>3
<1> QED
  BY <1>2, <1>3 DEF WInv, Applied, At, Files

\* A step of the writer that writes nothing.
LEMMA Onwards ==
  ASSUME BInv, NEW a \in Writers, NEW rec, Become(a, rec), act[a] # Idle \/ \A b \in Writers : act[b] = Idle,
         file' = file, disk' = disk, global' = global, spent' = spent,
         AInv' /\ HInv' /\ (\A r \in Runs : Gone(r) => Gone(r)'),
         gate' \in Gates, gate'.entries \subseteq Pairs, Gated(a)', rec = Idle => gate' = NoGate,
         rec.pc \notin {"drafting", "marker", "restore"}
  PROVE  BInv'
<1>1. AInv /\ HInv /\ GInv /\ WInv /\ a \in Actors
  BY DEF BInv, Actors
<1>2. Pairs' = Pairs /\ (OneUnsettled' <=> OneUnsettled)
  BY DEF Pairs, OneUnsettled
<1>3. \A r \in Runs : Noted(r)'
  BY <1>1 DEF GInv, Noted
<1>4. GInv'
  BY <1>1, <1>2, <1>3, WriterInv DEF GInv
<1>5. WInv'
  <2>1. spent.edits = 0 /\ Pairs = {} => \A t, u \in Targets : file[t] = file[u]
    BY <1>1 DEF WInv
  <2> QED
    BY <1>1, <1>2, <2>1, StillWhole
<1> QED
  BY <1>4, <1>5 DEF BInv

\* The writer goes to a place where it remembers nothing.
LEMMA PlainStep ==
  ASSUME BInv, NEW a \in Writers, NEW pc, NEW site, <<pc, site>> \in PlainPCs, site # "reconcile",
         NEW g, Advance(a, Plain(pc, site), g),
         act[a] # Idle \/ \A b \in Writers : act[b] = Idle,
         g \in Gates, g.entries \subseteq Pairs,
         pc \in {"idle", "discover", "generate"} => g = NoGate,
         site = "cleanup" => g.entries # {},
         site = "gate" /\ ~g.blocked => Pairs \subseteq g.entries,
         site = "ready" => Pairs = {}
  PROVE  BInv'
<1> DEFINE rec == Plain(pc, site)
<1>1. /\ Become(a, rec) /\ gate' = g /\ file' = file /\ disk' = disk /\ global' = global /\ spent' = spent
      /\ a \in Actors /\ AInv /\ HInv /\ GInv /\ spent \in Spendings
  BY DEF Advance, BInv, AInv, SInv, IInv, Actors
<1>2. rec.pc = pc /\ rec.site = site /\ (rec = Idle <=> pc = "idle")
  BY PlainOK
<1>3. AInv' /\ HInv' /\ (\A r \in Runs : Gone(r) => Gone(r)')
  <2>1. a \notin Reconcilers
    BY PersistenceAssumption
  <2> QED
    BY <1>1, <2>1, PlainInv
<1>4. act'[a] = rec /\ Pairs' = Pairs
  BY <1>1, Stepping DEF Pairs
<1>5. Gated(a)'
  <2> HIDE DEF rec
  <2>1. act'[a].pc = pc /\ act'[a].site = site
    BY <1>2, <1>4
  <2>2. pc \in {"idle", "gate", "discover", "generate"} /\ site \in {"idle", "gate", "cleanup", "ready"}
        /\ (site = "ready" => pc \in {"discover", "generate"}) /\ (site \in {"gate", "cleanup"} <=> pc = "gate")
    BY DEF PlainPCs
  <2> QED
    BY <1>1, <1>4, <2>1, <2>2 DEF Gated
<1> HIDE DEF rec
<1>6. rec.pc \notin {"drafting", "marker", "restore"}
  BY <1>2 DEF PlainPCs
<1> QED
  BY <1>1, <1>2, <1>3, <1>5, <1>6, Onwards

LEMMA NoGateOK == NoGate \in Gates /\ NoGate.entries = {} /\ ~NoGate.blocked
  BY DEF NoGate, Gates, Unsettled

\* The writer leaves and drops its lock.
LEMMA LeaveInv ==
  ASSUME BInv, NEW a \in Writers, act[a] # Idle, Leave(a)
  PROVE  BInv'
<1>1. Plain("idle", "idle") = Idle
  BY PlainOK DEF PlainPCs
<1>2. <<"idle", "idle">> \in PlainPCs
  BY DEF PlainPCs
<1> QED
  BY <1>1, <1>2, PlainStep, NoGateOK DEF Leave

\* What is known of the writer where it is not in the transaction.
LEMMA WriterAt ==
  ASSUME BInv, NEW a \in Writers
  PROVE  /\ AInv /\ HInv /\ GInv /\ WInv /\ a \in Actors /\ act[a] \in ActRecords /\ Gated(a) /\ Posted(act[a])
         /\ act[a].pc = "idle" => act[a] = Idle
         /\ act[a].pc # "idle" => act[a] # Idle
         /\ act[a].pc = "gate" => act[a].site \in {"gate", "cleanup"}
         /\ act[a].pc \in {"settle", "settleUnlink"} => act[a].site \in {"gate", "cleanup", "commit"}
         /\ act[a].pc = "generate" => act[a].site = "ready"
         /\ act[a].pc = "drafting" => act[a].site = "prepare"
         /\ gate \in Gates /\ gate.entries \subseteq Pairs
<1>1. /\ AInv /\ HInv /\ GInv /\ WInv /\ a \in Actors /\ Gated(a)
      /\ gate \in Gates /\ gate.entries \subseteq Pairs
  BY DEF BInv, GInv, Actors
<1>2. /\ act[a] \in ActRecords /\ Posted(act[a])
      /\ act[a].pc # "idle" => act[a] # Idle
      /\ act[a].site # "reconcile"
  BY <1>1, Posts
<1>3. act[a].site \in Sites
  BY <1>2 DEF ActRecords
<1>4. act[a].pc = "idle" \/ act[a].site = "idle" => act[a] = Idle
  BY <1>2 DEF Posted
<1>5. Idle.pc = "idle"
  BY DEF Idle
<1>6. act[a].pc \in {"gate", "settle", "settleUnlink", "generate", "drafting"} =>
          act[a].site \in {"gate", "ready", "cleanup", "prepare", "commit"}
  BY <1>2, <1>3, <1>4, <1>5 DEF Sites
<1>7. /\ act[a].pc = "gate" => act[a].site \in {"gate", "cleanup"}
      /\ act[a].pc \in {"settle", "settleUnlink"} => act[a].site \in {"gate", "cleanup", "commit"}
      /\ act[a].pc = "generate" => act[a].site = "ready"
      /\ act[a].pc = "drafting" => act[a].site = "prepare"
  BY <1>2, <1>6 DEF Posted, RecoveryPCs, BarrierPCs, CommitPCs, PreparePCs, ScanPCs
<1> QED
  BY <1>1, <1>2, <1>4, <1>7

LEMMA EnterInv ==
  ASSUME BInv, NEW a \in Writers, Enter(a)
  PROVE  BInv'
<1> DEFINE g == [NoGate EXCEPT !.entries = {e \in Runs \X Unsettled : e[2] \in global[e[1]]}]
<1>1. act[a] = Idle /\ \A b \in Writers : act[b] = Idle
  BY WriterAt DEF Enter, At
<1>2. Advance(a, Plain("gate", "gate"), g)
  BY <1>1 DEF Enter, Step, Plain
<1>3. g \in Gates /\ g.entries = Pairs
  BY NoGateOK DEF Gates, Pairs, NoGate
<1> HIDE DEF g
<1>4. <<"gate", "gate">> \in PlainPCs
  BY DEF PlainPCs
<1> QED
  BY <1>1, <1>2, <1>3, <1>4, PlainStep

LEMMA EndGateInv ==
  ASSUME BInv, NEW a \in Writers, EndGate(a)
  PROVE  BInv'
<1>1. /\ act[a].pc = "gate" /\ gate.entries = {} /\ act[a] # Idle
      /\ IF gate.blocked THEN Leave(a) ELSE Advance(a, Plain("discover", "ready"), NoGate)
  BY WriterAt DEF EndGate, At, Plain
<1>2. CASE gate.blocked
  BY <1>1, <1>2, LeaveInv
<1>3. CASE ~gate.blocked
  <2>1. act[a].site = "gate" /\ Pairs = {}
    BY <1>1, <1>3, WriterAt DEF Gated
  <2>2. <<"discover", "ready">> \in PlainPCs
    BY DEF PlainPCs
  <2> QED
    BY <1>1, <1>3, <2>1, <2>2, PlainStep, NoGateOK
<1> QED
  BY <1>2, <1>3

LEMMA ReadyInv ==
  ASSUME BInv, NEW a \in Writers, Ready(a)
  PROVE  BInv'
<1>1. /\ act[a].pc = "returned" /\ act[a].site = "ready" /\ act[a] # Idle
      /\ Leave(a) \/ Advance(a, Plain("generate", "ready"), gate)
  BY WriterAt DEF Ready, At, Plain
<1>2. gate = NoGate /\ Pairs = {}
  BY <1>1, WriterAt DEF Gated
<1>3. <<"generate", "ready">> \in PlainPCs
  BY DEF PlainPCs
<1> QED
  BY <1>1, <1>2, <1>3, LeaveInv, PlainStep, NoGateOK

\* Where the writer gives up.
LEMMA LeavesInv ==
  ASSUME BInv, NEW a \in Writers, NotReady(a) \/ Reject(a) \/ FenceBusy(a)
  PROVE  BInv'
<1>1. act[a].pc # "idle" /\ Leave(a)
  BY DEF NotReady, Reject, FenceBusy, At
<1> QED
  BY <1>1, WriterAt, LeaveInv

LEMMA EntryRaisedInv ==
  ASSUME BInv, NEW a \in Writers, EntryRaised(a)
  PROVE  BInv'
<1>1. act[a].pc = "raised" /\ act[a] # Idle /\ act[a].site \in {"gate", "cleanup"}
  BY WriterAt DEF EntryRaised, At
<1>2. CASE act[a].site = "gate"
  <2> DEFINE g == [gate EXCEPT !.blocked = TRUE]
  <2>1. Advance(a, Plain("gate", "gate"), g)
    BY <1>2 DEF EntryRaised, Block, Plain
  <2>2. g \in Gates /\ g.entries \subseteq Pairs /\ g.blocked
    BY WriterAt DEF Gates
  <2> HIDE DEF g
  <2>3. <<"gate", "gate">> \in PlainPCs
    BY DEF PlainPCs
  <2> QED
    BY <1>1, <2>1, <2>2, <2>3, PlainStep
<1>3. CASE act[a].site # "gate"
  <2>1. Leave(a)
    BY <1>3 DEF EntryRaised, Block, Leave
  <2> QED
    BY <1>1, <2>1, LeaveInv
<1> QED
  BY <1>2, <1>3

\* The writer looks on at its entry.
LEMMA GoesInv ==
  ASSUME BInv, NEW a \in Writers, act[a].pc \in {"gate", "returned", "raised"},
         NEW rec \in ActRecords, NEW g, Advance(a, rec, g),
         rec.pc \in {"discover", "settle", "raised"}, rec.site = act[a].site,
         rec.site \in {"gate", "cleanup"}, rec.handler = act[a].handler, rec.todo = act[a].todo,
         rec.report \in {act[a].report, NoReport},
         g \in Gates, g.entries \subseteq Pairs, g.entry \in Pairs \ g.entries,
         ~g.blocked => Pairs \subseteq g.entries \cup {g.entry} \/ rec.site = "cleanup",
         rec.pc = "settle" =>
             /\ rec.tx = g.entry[1] /\ rec.goal \in Settled \cup {"recovery_required"}
             /\ rec.goal = "completed" => disk[rec.tx].receipt
             /\ rec.goal \in {"rolled_back", "abandoned"} => Gone(rec.tx)
  PROVE  BInv'
<1>1. /\ AInv /\ HInv /\ GInv /\ a \in Actors /\ act[a] # Idle /\ spent \in Spendings
      /\ Posted(act[a]) /\ rec.handler = "raised"
  BY WriterAt DEF AInv, SInv, IInv, Posted, FreePCs, BarrierPCs
<1>2. /\ Become(a, rec) /\ gate' = g /\ file' = file /\ disk' = disk /\ global' = global /\ spent' = spent
      /\ act'[a] = rec /\ Pairs' = Pairs
  BY <1>1, Stepping DEF Advance, Pairs
<1>3. Posted(rec)
  BY <1>1 DEF Posted, RecoveryPCs, BarrierPCs, ScanPCs, Idle
<1>4. rec.pc = "settle" => Begun(disk, rec.tx) /\ rec.tx \in Runs
  <2>1. g.entry[1] \in Runs /\ global[g.entry[1]] # {}
    BY DEF Pairs
  <2> QED
    BY <1>1, <2>1 DEF GInv, Noted, Begun
<1>5. AInv' /\ HInv' /\ \A r \in Runs : Gone(r) => Gone(r)'
  BY <1>1, <1>2, <1>3, <1>4, WriterGoes
<1>6. Gated(a)'
  <2>1. rec.goal \in {"rolled_back", "abandoned"} /\ rec.pc = "settle" => Gone(rec.tx)'
    BY <1>4, <1>5
  <2> QED
    BY <1>2, <1>4, <2>1 DEF Gated, Gone
<1>7. rec # Idle /\ rec.pc \notin {"drafting", "marker", "restore"}
  BY DEF Idle
<1> QED
  BY <1>1, <1>2, <1>5, <1>6, <1>7, Onwards

LEMMA VerifyBusyInv ==
  ASSUME BInv, NEW a \in Writers, VerifyBusy(a)
  PROVE  BInv'
<1> DEFINE rec == Step(a, "raised")
<1>1. act[a].pc = "returned" /\ act[a].site \in {"gate", "cleanup"} /\ Advance(a, rec, gate)
  BY DEF VerifyBusy, At
<1>2. /\ rec \in ActRecords /\ rec.pc = "raised" /\ rec.site = act[a].site /\ rec.handler = act[a].handler
      /\ rec.todo = act[a].todo /\ rec.report = act[a].report
  <2>1. act[a] \in ActRecords /\ "raised" \in PCs
    BY WriterAt DEF PCs, Unlocked
  <2> QED
    BY <2>1 DEF Step, ActRecords
<1>3. /\ gate \in Gates /\ gate.entries \subseteq Pairs /\ gate.entry \in Pairs \ gate.entries
      /\ ~gate.blocked => Pairs \subseteq gate.entries \cup {gate.entry} \/ rec.site = "cleanup"
  BY <1>1, <1>2, WriterAt DEF Gated
<1> HIDE DEF rec
<1> QED
  BY <1>1, <1>2, <1>3, GoesInv

\* A run of which the barrier has an entry and the transaction root nothing.
LEMMA NothingLocal ==
  ASSUME BInv, NEW a \in Writers, act[a].pc = "gate", NEW r \in Runs, global[r] # {},
         disk[r].manifest = "new", disk[r].staging = "none"
  PROVE  Gone(r)
<1>1. disk[r].before # <<>> /\ ~disk[r].marker /\ \A t \in Targets : file[t] # r
  BY WriterAt DEF GInv, Noted, HInv, AInv, SInv, Fresh
<1>2. ASSUME NEW b \in Actors PROVE ~Live(act[b], disk[r])
  <2>1. Posted(act[b]) /\ act[a] # Idle
    BY <1>2, WriterAt DEF AInv
  <2>2. ASSUME Live(act[b], disk[r]) PROVE FALSE
    <3>1. act[b].site \in {"prepare", "commit"} /\ b \in Writers /\ act[b] # Idle
      <4>1. /\ act[b].pc \in {"drafting", "prepare", "stage", "publishJournal", "registerPending",
                               "applying", "check", "replace", "marker", "commit"} \/ act[b].site = "prepare"
        BY <2>2 DEF Live
      <4>2. act[b] \in ActRecords /\ act[b].pc = "commit" => act[b].site \in {"prepare", "commit"}
        BY <1>2, <2>1, WriterAt, Posts DEF Posted, ActRecords, Sites, RecoveryPCs, ScanPCs, BarrierPCs, Idle
      <4> QED
        BY <1>2, <4>1, <4>2, WriterAt, Posts
    <3>2. b = a
      BY <2>1, <3>1, WriterAt DEF AInv, OneWriter
    <3> QED
      BY <2>2, <3>2 DEF Live
  <2> QED
    BY <2>2
<1> QED
  BY <1>1, <1>2 DEF Gone

LEMMA NextEntryInv ==
  ASSUME BInv, NEW a \in Writers, NextEntry(a)
  PROVE  BInv'
<1>1. PICK e \in gate.entries :
        LET known == disk[e[1]].manifest # "new" \/ disk[e[1]].staging # "none" IN
        Advance(a, [act[a] EXCEPT !.tx = e[1], !.report = NoReport,
                                  !.pc = IF known THEN "discover" ELSE "settle",
                                  !.goal = IF known THEN "pending" ELSE "abandoned"],
                [gate EXCEPT !.entries = @ \ {e}, !.entry = e])
  BY DEF NextEntry
<1> DEFINE known == disk[e[1]].manifest # "new" \/ disk[e[1]].staging # "none"
           rec == [act[a] EXCEPT !.tx = e[1], !.report = NoReport,
                                 !.pc = IF known THEN "discover" ELSE "settle",
                                 !.goal = IF known THEN "pending" ELSE "abandoned"]
           g == [gate EXCEPT !.entries = @ \ {e}, !.entry = e]
<1>2. Advance(a, rec, g) /\ act[a].pc = "gate" /\ act[a].site \in {"gate", "cleanup"}
  BY <1>1, WriterAt DEF NextEntry, At
<1>3. e \in Pairs /\ e \in Runs \X Unsettled /\ e[1] \in Runs /\ global[e[1]] # {}
  BY WriterAt DEF Pairs
<1>4. /\ rec \in ActRecords /\ rec.pc = (IF known THEN "discover" ELSE "settle") /\ rec.site = act[a].site
      /\ rec.handler = act[a].handler /\ rec.todo = act[a].todo /\ rec.report = NoReport
      /\ rec.tx = e[1] /\ rec.goal = (IF known THEN "pending" ELSE "abandoned")
  <2>1. /\ act[a] \in ActRecords /\ NoReport \in [Runs -> SUBSET Reports]
        /\ {"discover", "settle"} \subseteq PCs /\ {"pending", "abandoned"} \subseteq RegistryStates \cup {"abandoned"}
    BY WriterAt DEF NoReport, PCs, Unlocked, RegistryStates
  <2> QED
    BY <1>3, <2>1 DEF ActRecords
<1>5. /\ g \in Gates /\ g.entries = gate.entries \ {e} /\ g.entry = e /\ g.blocked = gate.blocked
      /\ g.entries \subseteq Pairs /\ g.entry \in Pairs \ g.entries
  BY <1>3, WriterAt DEF Gates
<1>6. ~g.blocked => Pairs \subseteq g.entries \cup {g.entry} \/ rec.site = "cleanup"
  BY <1>2, <1>4, <1>5, WriterAt DEF Gated
<1>7. ~known => Gone(e[1])
  BY <1>2, <1>3, NothingLocal
<1>8. rec.pc = "settle" => ~known
  BY <1>4
<1> HIDE DEF rec, g, known
<1> QED
  BY <1>2, <1>4, <1>5, <1>6, <1>7, <1>8, GoesInv DEF Settled

LEMMA EntryReconciledInv ==
  ASSUME BInv, NEW a \in Writers, EntryReconciled(a)
  PROVE  BInv'
<1> DEFINE r == gate.entry[1]
           said == act[a].report[r]
           state == LocalState(a, r)
           goal == IF state \in Settled THEN state ELSE "recovery_required"
           rec == [Step(a, "settle") EXCEPT !.tx = r, !.report = NoReport, !.goal = goal]
<1>1. act[a].pc = "returned" /\ act[a].site \in {"gate", "cleanup"} /\ Advance(a, rec, gate)
  BY DEF EntryReconciled, At
<1>2. /\ gate \in Gates /\ gate.entries \subseteq Pairs /\ gate.entry \in Pairs \ gate.entries
      /\ ~gate.blocked => Pairs \subseteq gate.entries \cup {gate.entry} \/ act[a].site = "cleanup"
  BY <1>1, WriterAt DEF Gated
<1>3. r \in Runs
  BY <1>2 DEF Pairs
<1>4. /\ act[a] \in ActRecords /\ disk[r] \in FileRecords /\ said \subseteq Reports
      /\ Recorded(disk[r]) /\ (disk[r].manifest = "rolled_back" => Gone(r))
      /\ "rolled_back" \in said => Gone(r)
      /\ "completed" \in said => disk[r].receipt
  <2>1. KnowsOthers(act[a], disk, GoneRuns) /\ act[a] \in ActRecords
    BY WriterAt DEF HInv, Knows
  <2> QED
    BY <1>3, <2>1, WriterAt DEF AInv, SInv, IInv, HInv, KnowsOthers, GoneRuns, ActRecords
<1>5. /\ state \in ManifestStates \cup Reports
      /\ state = "completed" => disk[r].receipt
      /\ state = "rolled_back" => Gone(r)
  <2>1. CASE said = {}
    BY <1>4, <2>1 DEF LocalState, FileRecords, Recorded
  <2>2. CASE said # {} /\ "rolled_back" \in said
    BY <1>4, <2>2 DEF LocalState, Reports
  <2>3. CASE said # {} /\ "rolled_back" \notin said
    <3>1. state \in said
      BY <2>3 DEF LocalState
    <3> QED
      BY <1>4, <2>3, <3>1
  <2> QED
    BY <2>1, <2>2, <2>3
<1>6. /\ goal \in Settled \cup {"recovery_required"} /\ goal # "abandoned"
      /\ goal = "completed" => disk[r].receipt
      /\ goal = "rolled_back" => Gone(r)
  BY <1>5 DEF Settled, ManifestStates, Reports
<1> HIDE DEF goal
<1>7. /\ rec \in ActRecords /\ rec.pc = "settle" /\ rec.site = act[a].site /\ rec.handler = act[a].handler
      /\ rec.todo = act[a].todo /\ rec.report = NoReport /\ rec.tx = r /\ rec.goal = goal
  <2>1. /\ NoReport \in [Runs -> SUBSET Reports] /\ "settle" \in PCs
        /\ goal \in RegistryStates \cup {"abandoned"}
    BY <1>6 DEF NoReport, PCs, Unlocked, RegistryStates, Settled
  <2> QED
    BY <1>3, <1>4, <2>1 DEF Step, ActRecords
<1> HIDE DEF rec, r
<1>8. rec.tx = gate.entry[1]
  BY <1>7 DEF r
<1> QED
  BY <1>1, <1>2, <1>6, <1>7, <1>8, GoesInv

-----------------------------------------------------------------------------
(* Settling an entry. *)

LEMMA SettleSeen ==
  ASSUME BInv, NEW a \in Writers, act[a].pc \in {"settle", "settleUnlink"}
  PROVE  LET r == act[a].tx IN
         /\ r \in Runs /\ disk[r].before # <<>> /\ gate.entry \in Pairs \ gate.entries
         /\ gate.entry = <<r, gate.entry[2]>> /\ gate.entry[2] \in global[r] /\ gate.entry[2] \in Unsettled
         /\ global[r] \subseteq Unsettled \cup Settled
         /\ act[a].goal \in Settled \cup {"recovery_required"}
         /\ act[a].goal = "completed" => disk[r].receipt
         /\ act[a].goal \in {"rolled_back", "abandoned"} => Gone(r)
         /\ spent.edits = 0 /\ act[a].goal \in Settled => \A t, u \in Targets : file[t] = file[u]
<1> DEFINE r == act[a].tx
<1>1. /\ r = gate.entry[1] /\ gate.entry \in Pairs \ gate.entries
      /\ act[a].goal \in Settled \cup {"recovery_required"}
      /\ act[a].goal = "completed" => disk[r].receipt
      /\ act[a].goal \in {"rolled_back", "abandoned"} => Gone(r)
  BY WriterAt DEF Gated
<1>2. /\ r \in Runs /\ gate.entry = <<r, gate.entry[2]>> /\ gate.entry[2] \in global[r]
      /\ gate.entry[2] \in Unsettled
  BY <1>1 DEF Pairs
<1>3. disk[r].before # <<>> /\ global[r] \subseteq Unsettled \cup Settled
  BY <1>2, WriterAt DEF GInv, Noted
<1>4. ASSUME spent.edits = 0, act[a].goal \in Settled PROVE \A t, u \in Targets : file[t] = file[u]
  <2>1. /\ \A t \in Targets : file[t] \in {r, disk[r].before[t]}
        /\ disk[r].marker => Applied(r)
        /\ \A t, u \in Targets : disk[r].before[t] = disk[r].before[u]
    BY <1>2, <1>3, <1>4, WriterAt DEF WInv
  <2>2. CASE act[a].goal = "completed"
    <3>1. Applied(r)
      BY <1>1, <1>2, <2>1, <2>2, Marked, WriterAt
    <3> QED
      BY <3>1 DEF Applied
  <2>3. CASE act[a].goal \in {"rolled_back", "abandoned"}
    BY <1>1, <2>1, <2>3 DEF Gone
  <2> QED
    BY <1>4, <2>2, <2>3 DEF Settled
<1> QED
  BY <1>1, <1>2, <1>3, <1>4

\* Where the writer goes from a write of the barrier's registry.
LEMMA SettleNext ==
  ASSUME BInv, NEW a \in Writers, act[a].pc \in {"settle", "settleUnlink"},
         NEW rec, rec \in {Step(a, "settleUnlink"), Block(a)}, Become(a, rec),
         file' = file, disk' = disk, spent' \in Spendings
  PROVE  AInv' /\ HInv' /\ \A r \in Runs : Gone(r) => Gone(r)'
<1>1. /\ AInv /\ HInv /\ a \in Actors /\ act[a] \in ActRecords /\ Posted(act[a]) /\ act[a] # Idle
      /\ act[a].site \in {"gate", "cleanup", "commit"} /\ a \notin Reconcilers
  BY WriterAt, PersistenceAssumption
<1>2. CASE rec = Step(a, "settleUnlink")
  <2>1. /\ rec \in ActRecords /\ rec.pc = "settleUnlink" /\ rec.site = act[a].site /\ rec.tx = act[a].tx
        /\ rec.handler = act[a].handler /\ rec.todo = act[a].todo /\ rec.report = act[a].report
    <3>1. "settleUnlink" \in PCs
      BY DEF PCs, Unlocked
    <3> QED
      BY <1>1, <1>2, <3>1 DEF Step, ActRecords
  <2>2. Posted(rec)
    BY <1>1, <2>1 DEF Posted, RecoveryPCs, BarrierPCs, CommitPCs, FreePCs, Idle
  <2>3. Begun(disk, rec.tx)
    BY <2>1, SettleSeen DEF Begun
  <2> QED
    BY <1>1, <2>1, <2>2, <2>3, WriterGoes
<1>3. CASE rec = Block(a)
  <2>1. PICK pc, site : <<pc, site>> \in {<<"gate", "gate">>, <<"idle", "idle">>} /\ rec = Plain(pc, site)
    <3>1. Block(a) = Plain("gate", "gate") \/ Block(a) = Plain("idle", "idle")
      <4>1. Plain("idle", "idle") = Idle
        BY PlainOK DEF PlainPCs
      <4> QED
        BY <4>1 DEF Block, Plain
    <3> QED
      BY <1>3, <3>1
  <2>2. <<pc, site>> \in PlainPCs /\ site # "reconcile"
    BY <2>1 DEF PlainPCs
  <2> QED
    BY <1>1, <2>1, <2>2, PlainInv
<1> QED
  BY <1>2, <1>3

\* The registry of the barrier is written, or not: the entry's run, which was unsettled, may now be
\* settled, with the books whole.
LEMMA SettleWrite ==
  ASSUME BInv, NEW a \in Writers, act[a].pc \in {"settle", "settleUnlink"},
         NEW rec, rec \in {Step(a, "settleUnlink"), Block(a)}, Become(a, rec),
         file' = file, disk' = disk, spent' \in Spendings, spent'.edits = spent.edits,
         NEW entries, entries \subseteq global[act[a].tx] \cup {act[a].goal}, entries # {},
         entries \cap Unsettled = {} => act[a].goal \in Settled,
         global' \in {global, [global EXCEPT ![act[a].tx] = entries]},
         gate' \in Gates, gate'.entries \subseteq Pairs', Gated(a)', rec = Idle => gate' = NoGate
  PROVE  BInv'
<1> DEFINE r == act[a].tx
<1>1. /\ AInv /\ HInv /\ GInv /\ WInv /\ a \in Actors /\ act[a] # Idle
      /\ global \in [Runs -> SUBSET (Unsettled \cup Settled)]
  BY WriterAt DEF GInv
<1>2. AInv' /\ HInv' /\ \A s \in Runs : Gone(s) => Gone(s)'
  BY SettleNext
<1>3. /\ r \in Runs /\ disk[r].before # <<>> /\ global[r] \cap Unsettled # {}
      /\ global[r] \subseteq Unsettled \cup Settled
      /\ act[a].goal \in Settled \cup {"recovery_required"}
      /\ act[a].goal = "completed" => disk[r].receipt
      /\ act[a].goal \in {"rolled_back", "abandoned"} => Gone(r)
      /\ spent.edits = 0 /\ act[a].goal \in Settled => \A t, u \in Targets : file[t] = file[u]
  BY SettleSeen
<1>4. \A s \in Runs : global'[s] = global[s] \/ (s = r /\ global'[s] = entries)
  BY <1>1, <1>3
<1>5. \A s \in Runs : global'[s] \cap Unsettled # {} => global[s] \cap Unsettled # {}
  BY <1>3, <1>4
<1>6. global' \in [Runs -> SUBSET (Unsettled \cup Settled)] /\ OneUnsettled'
  <2>1. entries \subseteq Unsettled \cup Settled
    BY <1>3 DEF Unsettled
  <2>2. OneUnsettled'
    BY <1>1, <1>5 DEF GInv, OneUnsettled
  <2> QED
    BY <1>1, <1>3, <2>1, <2>2
<1>7. ASSUME NEW s \in Runs PROVE Noted(s)'
  <2>1. CASE global'[s] = global[s]
    BY <1>1, <1>2, <2>1 DEF GInv, Noted
  <2>2. CASE s = r /\ global'[s] = entries
    <3>1. Noted(s) /\ (Gone(s) => Gone(s)')
      BY <1>1, <1>2 DEF GInv
    <3>2. /\ entries \subseteq global[s] \cup {act[a].goal} /\ disk[s].before # <<>>
          /\ act[a].goal \in Settled \cup {"recovery_required"}
          /\ act[a].goal = "completed" => disk[s].receipt
          /\ act[a].goal \in {"rolled_back", "abandoned"} => Gone(s)
      BY <1>3, <2>2
    <3>3. /\ entries \subseteq Unsettled \cup Settled
          /\ "completed" \in entries => disk[s].receipt
          /\ entries \cap {"rolled_back", "abandoned"} # {} => Gone(s)
      BY <3>1, <3>2 DEF Noted, Unsettled
    <3> QED
      BY <2>2, <3>1, <3>2, <3>3 DEF Noted
  <2> QED
    BY <1>4, <2>1, <2>2
<1>8. GInv'
  BY <1>1, <1>6, <1>7, WriterInv
<1>9. WInv'
  <2>1. rec.pc \notin {"drafting", "marker", "restore"}
    <3>1. Step(a, "settleUnlink").pc = "settleUnlink"
      BY WriterAt DEF Step, ActRecords
    <3>2. Block(a).pc \in {"gate", "idle"}
      BY DEF Block, Idle
    <3> QED
      BY <3>1, <3>2
  <2>2. ASSUME spent.edits = 0, Pairs' = {} PROVE \A t, u \in Targets : file[t] = file[u]
    <3>1. ASSUME NEW x \in global'[r] \cap Unsettled PROVE FALSE
      <4>1. <<r, x>> \in Pairs'
        BY <1>3 DEF Pairs
      <4> QED
        BY <2>2, <4>1
    <3>2. act[a].goal \in Settled
      BY <1>3, <1>4, <3>1
    <3> QED
      BY <1>3, <2>2, <3>2
  <2> QED
    BY <1>1, <1>5, <2>1, <2>2, StillWhole
<1> QED
  BY <1>2, <1>8, <1>9 DEF BInv

\* What a write of the barrier's registry comes to.
LEMMA GlobalWrites ==
  ASSUME BInv, NEW a \in Writers, NEW entries, NEW then, NEW caught, WriteGlobal(a, entries, then, caught)
  PROVE  /\ file' = file /\ disk' = disk /\ spent' \in Spendings /\ spent'.edits = spent.edits
         /\ \E blocked \in BOOLEAN, rec \in {then, caught} :
                /\ Become(a, rec)
                /\ gate' = IF rec = Idle THEN NoGate
                           ELSE [gate EXCEPT !.blocked =
                                    @ \/ (rec.pc = "gate" /\ (blocked \/ act[a].goal = "recovery_required"))]
                /\ \/ rec = then /\ ~blocked /\ global' = [global EXCEPT ![act[a].tx] = entries]
                   \/ rec = caught /\ blocked /\ global' \in {global, [global EXCEPT ![act[a].tx] = entries]}
<1>1. PICK o \in Outcomes :
        /\ global' = IF Took(o) THEN [global EXCEPT ![act[a].tx] = entries] ELSE global
        /\ LET next == IF Raised(o) THEN caught ELSE then IN
            /\ Become(a, next)
            /\ gate' = IF next = Idle THEN NoGate
                       ELSE [gate EXCEPT !.blocked =
                                @ \/ (next.pc = "gate" /\ (Raised(o) \/ act[a].goal = "recovery_required"))]
        /\ Tally(o) /\ file' = file /\ disk' = disk
  BY DEF WriteGlobal
<1>2. spent \in Spendings /\ IInv
  BY WriterAt DEF AInv, SInv, IInv
<1>3. spent' \in Spendings /\ spent'.edits = spent.edits
  <2>1. spent' \in Spendings
    BY <1>1, <1>2, Tallying
  <2> QED
    BY <1>1, <1>2, <2>1 DEF Tally, Spendings
<1>4. CASE Raised(o)
  BY <1>1, <1>3, <1>4
<1>5. CASE ~Raised(o)
  <2>1. Took(o)
    BY <1>5 DEF Raised, Took
  <2> QED
    BY <1>1, <1>3, <1>5, <2>1
<1> QED
  BY <1>4, <1>5

\* Where the writer is back at its entries, or has left.
LEMMA BlockGated ==
  ASSUME BInv, NEW a \in Writers, Become(a, Block(a)),
         Block(a) # Idle => gate'.blocked \/ Pairs' \subseteq gate'.entries
  PROVE  Gated(a)'
<1>1. act'[a] = Block(a)
  BY Stepping, WriterAt
<1>2. CASE act[a].site = "gate"
  <2>1. act'[a].pc = "gate" /\ act'[a].site = "gate" /\ Block(a) # Idle
    BY <1>1, <1>2 DEF Block, Idle
  <2> QED
    BY <2>1 DEF Gated
<1>3. CASE act[a].site # "gate"
  <2>1. act'[a].pc = "idle" /\ act'[a].site = "idle"
    BY <1>1, <1>3 DEF Block, Idle
  <2> QED
    BY <2>1 DEF Gated
<1> QED
  BY <1>2, <1>3

LEMMA SettleInv ==
  ASSUME BInv, NEW a \in Writers, Settle(a)
  PROVE  BInv'
<1> DEFINE r == act[a].tx
           entries == global[r] \cup {act[a].goal}
           then == Step(a, "settleUnlink")
<1>1. act[a].pc = "settle" /\ WriteGlobal(a, entries, then, Block(a))
  BY DEF Settle, At
<1>2. /\ r \in Runs /\ gate.entry \in Pairs \ gate.entries /\ gate.entry = <<r, gate.entry[2]>>
      /\ disk[r].before # <<>> /\ act[a].goal \in Settled \cup {"recovery_required"}
      /\ act[a].goal = "completed" => disk[r].receipt
      /\ act[a].goal \in {"rolled_back", "abandoned"} => Gone(r)
      /\ gate \in Gates /\ gate.entries \subseteq Pairs /\ Gated(a) /\ act[a] \in ActRecords
      /\ AInv /\ a \in Actors /\ global \in [Runs -> SUBSET (Unsettled \cup Settled)]
  BY <1>1, SettleSeen, WriterAt DEF GInv
<1>3. /\ file' = file /\ disk' = disk /\ spent' \in Spendings /\ spent'.edits = spent.edits
  BY <1>1, GlobalWrites
<1>4. PICK blocked \in BOOLEAN, rec \in {then, Block(a)} :
        /\ Become(a, rec)
        /\ gate' = IF rec = Idle THEN NoGate
                   ELSE [gate EXCEPT !.blocked =
                            @ \/ (rec.pc = "gate" /\ (blocked \/ act[a].goal = "recovery_required"))]
        /\ \/ rec = then /\ ~blocked /\ global' = [global EXCEPT ![r] = entries]
           \/ rec = Block(a) /\ blocked /\ global' \in {global, [global EXCEPT ![r] = entries]}
  BY <1>1, GlobalWrites
<1>5. /\ then.pc = "settleUnlink" /\ then.site = act[a].site /\ then.tx = r /\ then.goal = act[a].goal
  BY <1>2 DEF Step, ActRecords
<1>6. /\ gate' \in Gates
      /\ rec # Idle => gate'.entries = gate.entries /\ gate'.entry = gate.entry
      /\ rec # Idle /\ rec.pc # "gate" => gate'.blocked = gate.blocked
      /\ rec = Idle => gate' = NoGate /\ gate'.entries = {}
  BY <1>2, <1>4, NoGateOK DEF Gates
<1>7. Pairs \subseteq Pairs' /\ \A p \in Pairs' : p \in Pairs \/ p = <<r, act[a].goal>>
  BY <1>2, <1>4 DEF Pairs
<1>8. gate'.entries \subseteq Pairs'
  BY <1>2, <1>6, <1>7
<1>9. Gated(a)'
  <2>1. CASE rec = then /\ ~blocked /\ global' = [global EXCEPT ![r] = entries]
    <3>1. /\ act'[a] = rec /\ rec.pc = "settleUnlink" /\ rec.site = act[a].site /\ rec.tx = r
          /\ rec.goal = act[a].goal /\ rec # Idle
      BY <1>2, <1>4, <1>5, <2>1, Stepping DEF Idle
    <3>2. Gone(r) => Gone(rec.tx)'
      <4>1. \A s \in Runs : Gone(s) => Gone(s)'
        BY <1>1, <1>3, <1>4, SettleNext
      <4> QED
        BY <1>2, <3>1, <4>1
    <3>3. /\ gate'.entry \in Pairs' \ gate'.entries /\ gate'.entry = gate.entry
          /\ gate'.blocked = gate.blocked /\ rec.goal \in global'[r]
      BY <1>2, <1>6, <1>7, <2>1, <3>1
    <3>4. rec.site = "gate" /\ ~gate'.blocked => \A p \in Pairs' :
              p \in gate'.entries \/ p = gate'.entry \/ (rec.goal = "recovery_required" /\ p = <<rec.tx, "recovery_required">>)
      <4>1. act[a].site = "gate" /\ ~gate.blocked => \A p \in Pairs : p \in gate.entries \/ p = gate.entry
        BY <1>1, <1>2 DEF Gated
      <4>2. \A p \in Pairs' \ Pairs : rec.goal = "recovery_required" /\ p = <<rec.tx, "recovery_required">>
        BY <1>2, <1>7, <3>1 DEF Pairs, Settled, Unsettled
      <4> QED
        BY <1>6, <3>1, <3>3, <4>1, <4>2
    <3>5. rec.site = "commit" => "pending" \in global'[rec.tx]
      BY <1>2, <2>1, <3>1 DEF Gated
    <3>6. rec.site \notin {"ready", "prepare"}
      BY <1>1, <3>1, WriterAt
    <3> QED
      BY <1>2, <1>3, <3>1, <3>2, <3>3, <3>4, <3>5, <3>6 DEF Gated, Gone
  <2>2. CASE rec = Block(a) /\ blocked
    <3>1. Block(a) # Idle => gate'.blocked
      BY <1>2, <1>4, <2>2 DEF Gates, Block, Idle
    <3> QED
      BY <1>4, <2>2, <3>1, BlockGated
  <2> QED
    BY <1>4, <2>1, <2>2
<1>10. entries # {} /\ (entries \cap Unsettled = {} => act[a].goal \in Settled)
  BY <1>2 DEF Unsettled
<1> QED
  BY <1>1, <1>3, <1>4, <1>6, <1>8, <1>9, <1>10, SettleWrite

LEMMA SettleUnlinkInv ==
  ASSUME BInv, NEW a \in Writers, SettleUnlink(a)
  PROVE  BInv'
<1> DEFINE r == act[a].tx
           entries == global[r] \ ({gate.entry[2]} \ {act[a].goal})
<1>1. act[a].pc = "settleUnlink" /\ WriteGlobal(a, entries, Block(a), Block(a))
  BY DEF SettleUnlink, At
<1>2. /\ r \in Runs /\ gate.entry \in Pairs \ gate.entries /\ gate.entry = <<r, gate.entry[2]>>
      /\ act[a].goal \in Settled \cup {"recovery_required"} /\ act[a].goal \in global[r]
      /\ gate \in Gates /\ gate.entries \subseteq Pairs /\ Gated(a) /\ gate.entry[2] \in Unsettled
      /\ AInv /\ a \in Actors /\ global \in [Runs -> SUBSET (Unsettled \cup Settled)]
  <2>1. act[a].goal \in global[r]
    BY <1>1, WriterAt DEF Gated
  <2> QED
    BY <1>1, <2>1, SettleSeen, WriterAt DEF GInv
<1>3. /\ file' = file /\ disk' = disk /\ spent' \in Spendings /\ spent'.edits = spent.edits
  BY <1>1, GlobalWrites
<1>4. PICK blocked \in BOOLEAN, rec \in {Block(a), Block(a)} :
        /\ Become(a, rec)
        /\ gate' = IF rec = Idle THEN NoGate
                   ELSE [gate EXCEPT !.blocked =
                            @ \/ (rec.pc = "gate" /\ (blocked \/ act[a].goal = "recovery_required"))]
        /\ \/ rec = Block(a) /\ ~blocked /\ global' = [global EXCEPT ![r] = entries]
           \/ rec = Block(a) /\ blocked /\ global' \in {global, [global EXCEPT ![r] = entries]}
  BY <1>1, GlobalWrites
<1>5. rec = Block(a) /\ (Block(a) # Idle => rec.pc = "gate" /\ act[a].site = "gate")
  BY <1>4 DEF Block, Idle
<1>6. /\ gate' \in Gates
      /\ rec # Idle => /\ gate'.entries = gate.entries
                       /\ gate'.blocked = (gate.blocked \/ blocked \/ act[a].goal = "recovery_required")
      /\ rec = Idle => gate' = NoGate /\ gate'.entries = {}
  BY <1>2, <1>4, <1>5, NoGateOK DEF Gates
<1>7. gate'.entries \subseteq Pairs'
  <2>1. Pairs \ {gate.entry} \subseteq Pairs'
    BY <1>2, <1>4 DEF Pairs
  <2> QED
    BY <1>2, <1>6, <2>1
<1>8. Gated(a)'
  <2>1. ASSUME Block(a) # Idle, ~gate'.blocked PROVE Pairs' \subseteq gate'.entries
    <3>1. ~gate.blocked /\ ~blocked /\ act[a].goal # "recovery_required" /\ act[a].site = "gate"
          /\ gate'.entries = gate.entries
      BY <1>5, <1>6, <2>1
    <3>2. \A p \in Pairs : p \in gate.entries \/ p = gate.entry
      BY <1>1, <1>2, <3>1 DEF Gated
    <3>3. global' = [global EXCEPT ![r] = entries] /\ gate.entry[2] \notin entries
      BY <1>2, <1>4, <3>1 DEF Settled, Unsettled
    <3>4. Pairs' \subseteq Pairs \ {gate.entry}
      BY <1>2, <3>3 DEF Pairs
    <3> QED
      BY <3>1, <3>2, <3>4
  <2> QED
    BY <1>4, <1>5, <2>1, BlockGated
<1>9. /\ entries \subseteq global[r] \cup {act[a].goal} /\ entries # {}
      /\ entries \cap Unsettled = {} => act[a].goal \in Settled
  BY <1>2 DEF Unsettled
<1> QED
  BY <1>1, <1>3, <1>4, <1>6, <1>7, <1>8, <1>9, SettleWrite

-----------------------------------------------------------------------------
(* A run of the writer. *)

LEMMA PreparedOrNotInv ==
  ASSUME BInv, NEW a \in Writers, PreparedOrNot(a)
  PROVE  BInv'
<1>1. /\ AInv /\ HInv /\ GInv /\ a \in Actors /\ act[a].site = "prepare" /\ act[a].pc \in {"returned", "raised"}
      /\ act[a] # Idle /\ act[a] \in ActRecords /\ spent \in Spendings /\ a \notin Reconcilers
      /\ gate = NoGate /\ "pending" \in global[act[a].tx]
      /\ Placed(act[a], disk) /\ SwapOK(act[a], file, disk) /\ Posted(act[a])
      /\ KnowsRun(act[a], file, Files(a), GoneRuns) /\ KnowsOthers(act[a], disk, GoneRuns)
  <2>1. act[a].site = "prepare" /\ act[a].pc \in {"returned", "raised"}
    BY DEF PreparedOrNot, At
  <2>2. spent \in Spendings
    BY WriterAt DEF AInv, SInv, IInv
  <2> QED
    BY <2>1, <2>2, WriterAt, Seeing, PersistenceAssumption DEF Gated
<1>2. act[a].tx \in Runs /\ <<act[a].tx, "pending">> \in Pairs
  BY <1>1 DEF Placed, Begun, Pairs, Unsettled
<1>3. CASE act[a].pc = "returned"
  <2> DEFINE rec == [Step(a, "commit") EXCEPT !.site = "commit"]
  <2>1. /\ Become(a, rec) /\ gate' = gate /\ file' = file /\ disk' = disk /\ global' = global /\ spent' = spent
    BY <1>3 DEF PreparedOrNot, At, Advance
  <2>2. /\ rec \in ActRecords /\ rec.pc = "commit" /\ rec.site = "commit" /\ rec.tx = act[a].tx
        /\ rec.handler = act[a].handler /\ rec.todo = act[a].todo /\ rec.report = act[a].report
    <3>1. act[a] \in ActRecords /\ "commit" \in PCs /\ "commit" \in Sites
      BY <1>1 DEF PCs, Unlocked, Sites
    <3> QED
      BY <3>1 DEF Step, ActRecords
  <2> HIDE DEF rec
  <2>3. rec.handler = "raised" /\ rec # Idle
    BY <1>1, <2>2 DEF Placed, Idle
  <2>4. Posted(rec) /\ rec.pc \in Unlocked
    BY <2>2, <2>3 DEF Posted, CommitPCs, Unlocked
  <2>5. ActOK(rec, disk) /\ SwapOK(rec, file, disk)
    BY <1>1, <2>2, <2>3 DEF ActOK, Placed, SwapOK, MarkedPCs, FreePCs, ScanPCs, Journalling, PreMarker, Drafting, Started
  <2>6. Knows(rec, file, disk, GoneRuns)
    BY <1>1, <1>3, <2>2, <2>3 DEF Knows, KnowsRun, KnowsOthers, Files, Journalling, PreMarker
  <2>7. Live(rec, disk[rec.tx]) => Live(act[a], Files(a))
    BY <1>1, <1>3, <2>2 DEF Live, Files
  <2>8. AInv' /\ HInv' /\ \A r \in Runs : Gone(r) => Gone(r)'
    BY <1>1, <2>1, <2>2, <2>4, <2>5, <2>6, <2>7, QuietInv
  <2>9. Gated(a)'
    <3>1. act'[a] = rec
      BY <1>1, <2>1, Stepping
    <3> QED
      BY <1>1, <2>1, <2>2, <3>1 DEF Gated
  <2> QED
    BY <1>1, <2>1, <2>2, <2>3, <2>8, <2>9, Onwards, NoGateOK
<1>4. CASE act[a].pc = "raised"
  <2> DEFINE g == [NoGate EXCEPT !.entries = {<<act[a].tx, "pending">>}]
  <2>1. Advance(a, Plain("gate", "cleanup"), g)
    BY <1>4 DEF PreparedOrNot, At, Plain
  <2>2. g \in Gates /\ g.entries = {<<act[a].tx, "pending">>}
    <3>1. {<<act[a].tx, "pending">>} \subseteq Runs \X Unsettled
      BY <1>2 DEF Pairs
    <3> QED
      BY <3>1, NoGateOK DEF Gates
  <2> HIDE DEF g
  <2>3. <<"gate", "cleanup">> \in PlainPCs
    BY DEF PlainPCs
  <2> QED
    BY <1>1, <1>2, <2>1, <2>2, <2>3, PlainStep
<1> QED
  BY <1>1, <1>3, <1>4

LEMMA CommittedOrNotInv ==
  ASSUME BInv, NEW a \in Writers, CommittedOrNot(a)
  PROVE  BInv'
<1> DEFINE result == act[a].report[act[a].tx] \ {"commit_marked"}
           goal == CHOOSE s \in result : TRUE
           rec == [Step(a, "settle") EXCEPT !.goal = goal, !.report = NoReport]
           g == [NoGate EXCEPT !.entry = <<act[a].tx, "pending">>]
<1>1. /\ AInv /\ HInv /\ GInv /\ a \in Actors /\ act[a].site = "commit" /\ act[a].pc \in {"returned", "raised"}
      /\ act[a] # Idle /\ act[a] \in ActRecords /\ spent \in Spendings /\ "pending" \in global[act[a].tx]
      /\ Placed(act[a], disk) /\ Posted(act[a]) /\ KnowsOthers(act[a], disk, GoneRuns)
  <2>1. act[a].site = "commit" /\ act[a].pc \in {"returned", "raised"}
    BY DEF CommittedOrNot, At
  <2>2. spent \in Spendings
    BY WriterAt DEF AInv, SInv, IInv
  <2> QED
    BY <2>1, <2>2, WriterAt, Seeing DEF Gated
<1>2. Leave(a) \/ (act[a].pc = "returned" /\ result # {} /\ Advance(a, rec, g))
  BY <1>1 DEF CommittedOrNot, At
<1>3. CASE act[a].pc = "returned" /\ result # {} /\ Advance(a, rec, g)
  <2>1. act[a].tx \in Runs /\ Begun(disk, act[a].tx) /\ <<act[a].tx, "pending">> \in Pairs
    BY <1>1 DEF Placed, Begun, Pairs, Unsettled
  <2>2. goal \in result /\ result \subseteq {"completed", "rolled_back", "recovery_required"}
    BY <1>1, <1>3, <2>1 DEF ActRecords, Reports
  <2>3. /\ goal \in Settled \cup {"recovery_required"} /\ goal # "abandoned"
        /\ goal = "completed" => disk[act[a].tx].receipt
        /\ goal = "rolled_back" => Gone(act[a].tx)
    BY <1>1, <2>1, <2>2 DEF KnowsOthers, GoneRuns, Settled
  <2> HIDE DEF goal
  <2>4. /\ rec \in ActRecords /\ rec.pc = "settle" /\ rec.site = "commit" /\ rec.tx = act[a].tx
        /\ rec.handler = act[a].handler /\ rec.todo = act[a].todo /\ rec.report = NoReport /\ rec.goal = goal
    <3>1. /\ act[a] \in ActRecords /\ "settle" \in PCs /\ NoReport \in [Runs -> SUBSET Reports]
          /\ goal \in RegistryStates \cup {"abandoned"}
      BY <1>1, <2>3 DEF PCs, Unlocked, NoReport, RegistryStates, Settled
    <3> QED
      BY <1>1, <3>1 DEF Step, ActRecords
  <2>5. g \in Gates /\ g.entries = {} /\ g.entry = <<act[a].tx, "pending">>
    BY <2>1 DEF NoGate, Gates, Unsettled
  <2>6. /\ Become(a, rec) /\ gate' = g /\ file' = file /\ disk' = disk /\ global' = global /\ spent' = spent
    BY <1>3 DEF Advance
  <2> HIDE DEF rec, g
  <2>7. Posted(rec) /\ rec # Idle
    BY <1>1, <2>4 DEF Posted, CommitPCs, RecoveryPCs, FreePCs, Idle
  <2>8. AInv' /\ HInv' /\ \A r \in Runs : Gone(r) => Gone(r)'
    BY <1>1, <2>1, <2>4, <2>6, <2>7, WriterGoes
  <2>9. Gated(a)'
    <3>1. act'[a] = rec /\ Pairs' = Pairs
      BY <1>1, <2>6, Stepping DEF Pairs
    <3>2. PICK q \in Runs : q = act[a].tx
      BY <2>1
    <3>3. rec.goal \in {"rolled_back", "abandoned"} => Gone(q)'
      BY <2>3, <2>4, <2>8, <3>2
    <3>4. /\ act'[a].site = "commit" /\ act'[a].pc = "settle" /\ act'[a].tx = q /\ act'[a].goal = rec.goal
          /\ gate'.entries = {} /\ gate'.entry = <<q, "pending">> /\ <<q, "pending">> \in Pairs'
          /\ "pending" \in global'[q]
      BY <1>1, <2>1, <2>4, <2>5, <2>6, <3>1, <3>2
    <3>5. /\ rec.goal \in Settled \cup {"recovery_required"}
          /\ rec.goal = "completed" => disk'[q].receipt
      BY <2>3, <2>4, <2>6, <3>2
    <3> QED
      BY <3>3, <3>4, <3>5 DEF Gated, Gone
  <2> QED
    BY <1>1, <2>4, <2>5, <2>6, <2>7, <2>8, <2>9, Onwards
<1> QED
  BY <1>1, <1>2, <1>3, LeaveInv

\* Where nothing is unsettled, every text is published.
LEMMA Published ==
  ASSUME AInv, HInv, GInv, Pairs = {}, NEW t \in Targets, file[t] \in Runs
  PROVE  disk[file[t]].receipt
<1> DEFINE r == file[t]
<1>1. disk[r].manifest # "new" /\ ~Gone(r) /\ Noted(r)
  BY DEF HInv, Gone, GInv
<1>2. /\ global[r] # {} /\ global[r] \cap {"rolled_back", "abandoned"} = {}
      /\ global[r] \subseteq Unsettled \cup Settled
  BY <1>1 DEF Noted
<1>3. global[r] \cap Unsettled = {}
  BY PairsOf
<1>4. "completed" \in global[r]
  BY <1>2, <1>3 DEF Settled
<1> QED
  BY <1>1, <1>4 DEF Noted

LEMMA GenerateInv ==
  ASSUME BInv, NEW a \in Writers, Generate(a)
  PROVE  BInv'
<1>1. /\ AInv /\ HInv /\ GInv /\ WInv /\ a \in Actors /\ act[a].site = "ready" /\ act[a].pc = "generate"
      /\ act[a] # Idle /\ act[a] \in ActRecords /\ Posted(act[a]) /\ gate = NoGate /\ Pairs = {}
      /\ act[a].handler = "raised" /\ a \notin Reconcilers
  <2>1. act[a].pc = "generate"
    BY DEF Generate, At
  <2> QED
    BY <2>1, WriterAt, PersistenceAssumption DEF Gated, Posted, FreePCs
<1>2. PICK r \in Runs :
        /\ disk[r].before = <<>> /\ disk' = [disk EXCEPT ![r].before = file]
        /\ Become(a, [Step(a, "drafting") EXCEPT !.site = "prepare", !.tx = r])
        /\ file' = file /\ spent' = spent /\ global' = global /\ gate' = gate
  BY DEF Generate, Begin
<1> DEFINE rec == [Step(a, "drafting") EXCEPT !.site = "prepare", !.tx = r]
<1>3. /\ rec.pc = "drafting" /\ rec.site = "prepare" /\ rec.tx = r /\ rec.handler = "raised"
      /\ rec.todo = act[a].todo /\ rec.report = act[a].report
  BY <1>1 DEF Step, ActRecords
<1>4. act'[a] = rec /\ \A b \in Actors : b # a => act'[b] = act[b]
  BY <1>1, <1>2, Stepping
<1> HIDE DEF rec
<1>5. /\ disk \in [Runs -> FileRecords] /\ FileOK(disk[r]) /\ file \in [Targets -> Contents]
  BY <1>1 DEF AInv, SInv, IInv
<1>6. /\ \A s \in Runs \ {r} : disk'[s] = disk[s]
      /\ disk'[r].before = file
      /\ \A s \in Runs : /\ disk'[s].staging = disk[s].staging /\ disk'[s].manifest = disk[s].manifest
                         /\ disk'[s].marker = disk[s].marker /\ disk'[s].receipt = disk[s].receipt
                         /\ disk'[s].registry = disk[s].registry
  BY <1>2, <1>5 DEF FileRecords
<1>7. file # <<>>
  <2>1. DOMAIN file = Targets /\ 1 \in Targets
    BY <1>5, PersistenceAssumption DEF Targets
  <2> QED
    BY <2>1
<1>8. SInv'
  <2>1. Begin(a, "drafting")
    BY DEF Generate
  <2>2. IInv'
    BY <1>1, <2>1, BeginInv DEF AInv, SInv
  <2> QED
    BY <1>1, <2>1, <2>2, BeginSwap DEF AInv
<1>9. AInv'
  <2>1. Posted(rec)
    BY <1>3 DEF Posted, PreparePCs
  <2>2. \A b \in Actors : Posted(act'[b])
    BY <1>1, <1>4, <2>1 DEF AInv
  <2>3. OneWriter'
    BY <1>1, <1>4 DEF AInv, OneWriter, Actors
  <2>4. Operators'
    BY <1>1, <1>3, <1>4 DEF AInv, Operators, Actors
  <2> QED
    BY <1>8, <2>2, <2>3, <2>4 DEF AInv
<1>10. ASSUME NEW s \in Runs, Gone(s) PROVE s # r /\ Gone(s)'
  <2>1. s # r /\ disk'[s] = disk[s]
    BY <1>2, <1>6, <1>10 DEF Gone
  <2>2. ASSUME NEW b \in Actors, act'[b].tx = s PROVE ~Live(act'[b], disk'[s])
    <3>1. b # a /\ act'[b] = act[b]
      BY <1>3, <1>4, <2>1, <2>2
    <3> QED
      BY <1>10, <2>1, <2>2, <3>1 DEF Gone
  <2> QED
    BY <1>2, <1>10, <2>1, <2>2 DEF Gone
<1>11. HInv'
  <2>1. GoneRuns \subseteq GoneRuns'
    BY <1>10 DEF GoneRuns
  <2>2. \A s \in Runs :
          /\ Recorded(disk'[s])
          /\ disk'[s].manifest = "rolled_back" \/ "rolled_back" \in disk'[s].registry => s \in GoneRuns'
    BY <1>1, <1>6, <2>1 DEF HInv, Recorded
  <2>3. \A t \in Targets : file'[t] \in Runs => disk'[file'[t]].manifest \notin {"new", "prepared"}
    BY <1>1, <1>2, <1>6 DEF HInv
  <2>4. ASSUME NEW s \in Runs, NEW t \in Targets, disk'[s].before # <<>>, disk'[s].before[t] \in Runs
        PROVE  disk'[disk'[s].before[t]].receipt
    BY <1>1, <1>6, <2>4, Published DEF HInv
  <2>5. ASSUME NEW b \in Actors PROVE Knows(act'[b], file', disk', GoneRuns')
    <3>1. Knows(act[b], file, disk, GoneRuns) /\ Placed(act[b], disk) /\ act[b] \in ActRecords
      BY <1>1, Seeing DEF HInv
    <3>2. ASSUME NEW x \in ActRecords, KnowsOthers(x, disk, GoneRuns), \A q \in x.todo : q \in Runs
          PROVE  KnowsOthers(x, disk', GoneRuns')
      BY <1>6, <2>1, <3>2 DEF KnowsOthers
    <3>3. CASE b = a
      <4>1. KnowsOthers(rec, disk', GoneRuns')
        <5>1. \A q \in act[b].todo : q \in Runs
          BY <3>1 DEF Placed, Begun
        <5>2. KnowsOthers(act[b], disk', GoneRuns')
          BY <3>1, <3>2, <5>1 DEF Knows
        <5> QED
          BY <1>1, <1>3, <3>3, <5>2 DEF KnowsOthers
      <4>2. KnowsRun(rec, file', disk'[rec.tx], GoneRuns')
        BY <1>2, <1>3, <1>5, <1>6 DEF KnowsRun, FileOK, Journalling, PreMarker
      <4> QED
        BY <1>4, <3>3, <4>1, <4>2 DEF Knows
    <3>4. CASE b # a
      <4>1. act'[b] = act[b] /\ KnowsOthers(act[b], disk', GoneRuns')
        <5>1. \A q \in act[b].todo : q \in Runs
          BY <3>1 DEF Placed, Begun
        <5> QED
          BY <1>4, <3>1, <3>2, <3>4, <5>1 DEF Knows
      <4>2. KnowsRun(act[b], file', disk'[act[b].tx], GoneRuns')
        <5>1. CASE act[b].tx \in Runs
          BY <1>2, <1>6, <2>1, <3>1, <5>1 DEF Knows, KnowsRun
        <5>2. CASE act[b].tx \notin Runs
          <6>1. act[b].pc \in FreePCs /\ act[b].handler = "raised" /\ act[b].site \notin {"prepare", "commit"}
            BY <3>1, <5>2 DEF Placed, Begun
          <6> QED
            BY <6>1 DEF KnowsRun, FreePCs, Journalling, PreMarker
        <5> QED
          BY <5>1, <5>2
      <4> QED
        BY <4>1, <4>2 DEF Knows
    <3> QED
      BY <3>3, <3>4
  <2> QED
    BY <2>2, <2>3, <2>4, <2>5 DEF HInv
<1>12. Pairs' = {}
  BY <1>1, <1>2 DEF Pairs
<1>13. global[r] = {}
  BY <1>1, <1>2 DEF GInv, Noted
<1>14. ASSUME NEW s \in Runs PROVE Noted(s)'
  BY <1>1, <1>2, <1>6, <1>7, <1>10, <1>13 DEF GInv, Noted
<1>15. Gated(a)'
  BY <1>1, <1>2, <1>3, <1>4, <1>12, <1>13 DEF Gated
<1>16. GInv'
  <2>1. OneUnsettled'
    BY <1>1, <1>2 DEF GInv, OneUnsettled
  <2>2. rec # Idle
    BY <1>3 DEF Idle
  <2>3. gate'.entries \subseteq Pairs' /\ gate' \in Gates /\ global' \in [Runs -> SUBSET (Unsettled \cup Settled)]
    BY <1>1, <1>2, NoGateOK DEF GInv
  <2>4. Become(a, rec)
    BY <1>2 DEF rec
  <2> QED
    BY <1>1, <1>14, <1>15, <2>1, <2>2, <2>3, <2>4, WriterInv
<1>17. WInv'
  <2> SUFFICES ASSUME spent.edits = 0 PROVE WInv'
    BY <1>2 DEF WInv
  <2>1. \A t, u \in Targets : file[t] = file[u]
    BY <1>1 DEF WInv
  <2>2. \A s \in Runs, t, u \in Targets : disk'[s].before # <<>> => disk'[s].before[t] = disk'[s].before[u]
    BY <1>1, <1>6, <2>1 DEF WInv
  <2>3. \A s \in Runs : global'[s] \cap Unsettled = {}
    BY <1>1, <1>2, PairsOf
  <2>4. ASSUME NEW b \in Actors, act'[b].pc = "drafting" PROVE file' = disk'[act'[b].tx].before
    <3>1. CASE b = a
      BY <1>2, <1>3, <1>4, <1>6, <3>1
    <3>2. CASE b # a
      <4>1. act'[b] = act[b] /\ act[b].tx \in Runs /\ disk[act[b].tx].before # <<>>
        BY <1>1, <1>4, <2>4, <3>2, Seeing DEF FreePCs
      <4>2. act[b].tx # r /\ file = disk[act[b].tx].before
        BY <1>1, <1>2, <2>4, <4>1 DEF WInv, At, Files
      <4> QED
        BY <1>2, <1>6, <4>1, <4>2
    <3> QED
      BY <3>1, <3>2
  <2>5. ASSUME NEW b \in Actors, act'[b].pc \in {"marker", "restore"} PROVE act'[b] = act[b]
    BY <1>3, <1>4, <2>5
  <2> QED
    BY <1>1, <1>2, <2>1, <2>2, <2>3, <2>4, <2>5 DEF WInv, At, Applied, Files
<1> QED
  BY <1>9, <1>11, <1>16, <1>17 DEF BInv

LEMMA RegisterInv ==
  ASSUME BInv, NEW a \in Writers, Register(a)
  PROVE  BInv'
<1> DEFINE r == act[a].tx
           then == Step(a, "prepare")
<1>1. act[a].pc = "drafting" /\ WriteGlobal(a, {"pending"}, then, Idle)
  BY DEF Register, At
<1>2. /\ AInv /\ HInv /\ GInv /\ WInv /\ a \in Actors /\ act[a].site = "prepare" /\ act[a] # Idle
      /\ act[a] \in ActRecords /\ Posted(act[a]) /\ Gated(a) /\ a \notin Reconcilers
      /\ gate = NoGate /\ Pairs = {} /\ global[r] = {}
      /\ global \in [Runs -> SUBSET (Unsettled \cup Settled)]
  <2>1. act[a].site = "prepare" /\ Gated(a) /\ GInv
    BY <1>1, WriterAt
  <2> QED
    BY <1>1, <2>1, WriterAt, PersistenceAssumption DEF Gated, GInv
<1>3. /\ Placed(act[a], disk) /\ SwapOK(act[a], file, disk)
      /\ KnowsRun(act[a], file, Files(a), GoneRuns) /\ KnowsOthers(act[a], disk, GoneRuns)
  BY <1>2, Seeing
<1>4. /\ r \in Runs /\ disk[r].before # <<>> /\ act[a].handler = "raised"
      /\ ~disk[r].marker /\ Noted(r) /\ Files(a) = disk[r]
  <2>1. r \in Runs /\ disk[r].before # <<>> /\ act[a].handler = "raised"
    BY <1>1, <1>2, <1>3 DEF Placed, Begun, FreePCs
  <2>2. Noted(r) /\ disk[r].manifest = "new" /\ Fresh(disk[r])
    BY <1>2, <2>1 DEF GInv, Noted, AInv, SInv
  <2> QED
    BY <2>1, <2>2 DEF Fresh, Files
<1>5. file' = file /\ disk' = disk /\ spent' \in Spendings /\ spent'.edits = spent.edits
  BY <1>1, GlobalWrites
<1>6. PICK blocked \in BOOLEAN, rec \in {then, Idle} :
        /\ Become(a, rec)
        /\ gate' = IF rec = Idle THEN NoGate
                   ELSE [gate EXCEPT !.blocked =
                            @ \/ (rec.pc = "gate" /\ (blocked \/ act[a].goal = "recovery_required"))]
        /\ \/ rec = then /\ ~blocked /\ global' = [global EXCEPT ![r] = {"pending"}]
           \/ rec = Idle /\ blocked /\ global' \in {global, [global EXCEPT ![r] = {"pending"}]}
  BY <1>1, GlobalWrites
<1>7. /\ then \in ActRecords /\ then.pc = "prepare" /\ then.site = "prepare" /\ then.tx = r
      /\ then.handler = "raised" /\ then.todo = act[a].todo /\ then.report = act[a].report /\ then # Idle
  <2>1. act[a] \in ActRecords /\ "prepare" \in PCs
    BY <1>2 DEF PCs, Unlocked
  <2> QED
    BY <1>2, <1>4, <2>1 DEF Step, ActRecords, Idle
<1>8. AInv' /\ HInv' /\ \A s \in Runs : Gone(s) => Gone(s)'
  <2>1. CASE rec = then
    <3>1. /\ ActOK(then, disk) /\ SwapOK(then, file, disk) /\ Posted(then) /\ then.pc \in Unlocked
      BY <1>1, <1>2, <1>3, <1>4, <1>7 DEF ActOK, Placed, SwapOK, Posted, PreparePCs, MarkedPCs, FreePCs, BarrierPCs,
         Journalling, PreMarker, Drafting, Started, Unlocked, Begun
    <3>2. Knows(then, file, disk, GoneRuns)
      BY <1>1, <1>2, <1>3, <1>4, <1>7 DEF Knows, KnowsRun, KnowsOthers, Files, Journalling, PreMarker
    <3>3. Live(then, disk[then.tx]) => then.tx = act[a].tx /\ Live(act[a], Files(a))
      BY <1>1, <1>4, <1>7 DEF Live
    <3> HIDE DEF then
    <3> QED
      BY <1>2, <1>5, <1>6, <1>7, <2>1, <3>1, <3>2, <3>3, QuietInv
  <2>2. CASE rec = Idle
    <3>1. Plain("idle", "idle") = Idle
      BY PlainOK DEF PlainPCs
    <3>2. <<"idle", "idle">> \in PlainPCs
      BY DEF PlainPCs
    <3> QED
      BY <1>2, <1>5, <1>6, <2>2, <3>1, <3>2, PlainInv
  <2> QED
    BY <1>6, <2>1, <2>2
<1>9. gate' = NoGate
  <2>1. CASE rec = then
    <3>1. gate' = [NoGate EXCEPT !.blocked = FALSE]
      BY <1>2, <1>6, <1>7, <2>1, NoGateOK DEF NoGate
    <3> QED
      BY <3>1 DEF NoGate
  <2>2. CASE rec = Idle
    BY <1>6, <2>2
  <2> QED
    BY <1>6, <2>1, <2>2
<1>10. \A s \in Runs : global'[s] = global[s] \/ (s = r /\ global'[s] = {"pending"})
  BY <1>2, <1>4, <1>6
<1>11. global' \in [Runs -> SUBSET (Unsettled \cup Settled)] /\ OneUnsettled'
  <2>1. {"pending"} \subseteq Unsettled \cup Settled
    BY DEF Unsettled
  <2>2. \A s \in Runs : global[s] \cap Unsettled = {}
    BY <1>2, PairsOf
  <2>3. OneUnsettled'
    BY <1>10, <2>2 DEF OneUnsettled
  <2> QED
    BY <1>2, <1>4, <1>6, <2>1, <2>3
<1>12. ASSUME NEW s \in Runs PROVE Noted(s)'
  <2>1. Noted(s) /\ (Gone(s) => Gone(s)')
    BY <1>2, <1>8 DEF GInv
  <2>2. CASE global'[s] = global[s]
    BY <1>5, <2>1, <2>2 DEF Noted
  <2>3. CASE s = r /\ global'[s] = {"pending"}
    BY <1>4, <1>5, <2>3 DEF Noted, Unsettled
  <2> QED
    BY <1>10, <2>2, <2>3
<1>13. Gated(a)'
  <2>1. act'[a] = rec
    BY <1>2, <1>6, Stepping
  <2>2. CASE rec = then /\ global' = [global EXCEPT ![r] = {"pending"}]
    <3>1. act'[a].pc = "prepare" /\ act'[a].site = "prepare" /\ "pending" \in global'[act'[a].tx]
      BY <1>2, <1>4, <1>7, <2>1, <2>2
    <3> QED
      BY <1>9, <3>1 DEF Gated
  <2>3. CASE rec = Idle
    <3>1. act'[a].pc = "idle" /\ act'[a].site = "idle"
      BY <2>1, <2>3 DEF Idle
    <3> QED
      BY <3>1 DEF Gated
  <2> QED
    BY <1>6, <2>2, <2>3
<1>14. GInv'
  <2>1. gate' \in Gates /\ gate'.entries \subseteq Pairs'
    BY <1>9, NoGateOK
  <2> QED
    BY <1>2, <1>6, <1>9, <1>11, <1>12, <1>13, <2>1, WriterInv
<1>15. WInv'
  <2>1. rec.pc \notin {"drafting", "marker", "restore"}
    BY <1>6, <1>7 DEF Idle
  <2>2. ASSUME spent.edits = 0, NEW s \in Runs, global'[s] \cap Unsettled # {}
        PROVE  global[s] \cap Unsettled # {} \/ (file = disk[s].before /\ ~disk[s].marker)
    <3>1. file = disk[r].before
      BY <1>1, <1>2, <1>4, <2>2 DEF WInv, At
    <3> QED
      BY <1>4, <1>10, <2>2, <3>1
  <2>3. spent.edits = 0 => \A t, u \in Targets : file[t] = file[u]
    BY <1>2 DEF WInv
  <2> QED
    BY <1>2, <1>5, <1>6, <2>1, <2>2, <2>3, StillWhole
<1> QED
  BY <1>8, <1>14, <1>15 DEF BInv

LEMMA BarrierStepInv ==
  ASSUME BInv, NEW a \in Writers, BarrierStep(a)
  PROVE  BInv'
  BY EnterInv, NextEntryInv, EntryReconciledInv, VerifyBusyInv, EntryRaisedInv, SettleInv, SettleUnlinkInv,
     EndGateInv, ReadyInv, LeavesInv, GenerateInv, RegisterInv, PreparedOrNotInv, CommittedOrNotInv DEF BarrierStep

-----------------------------------------------------------------------------
(* The operator, the deaths and the author. *)

\* Somebody who is not a writer moves, and leaves the disk as it is.
LEMMA OperatorInv ==
  ASSUME BInv, NEW a \in Reconcilers, NEW pc, NEW site, <<pc, site>> \in {<<"idle", "idle">>, <<"discover", "reconcile">>},
         Become(a, Plain(pc, site)), file' = file, disk' = disk, spent' \in Spendings,
         spent'.edits = spent.edits, UNCHANGED <<global, gate>>
  PROVE  BInv'
<1>1. /\ AInv /\ HInv /\ GInv /\ WInv /\ a \in Actors /\ a \notin Writers
      /\ <<pc, site>> \in PlainPCs /\ site \in {"idle", "reconcile"}
  BY PersistenceAssumption DEF BInv, Actors, PlainPCs
<1>2. AInv' /\ HInv' /\ \A r \in Runs : Gone(r) => Gone(r)'
  BY <1>1, PlainInv
<1>3. \A b \in Writers : act'[b] = act[b] /\ b \in Actors
  BY <1>1, Stepping DEF Actors
<1>4. GInv'
  <2>1. Pairs' = Pairs /\ (OneUnsettled' <=> OneUnsettled)
    BY DEF Pairs, OneUnsettled
  <2>2. \A r \in Runs : Noted(r)'
    BY <1>1, <1>2 DEF GInv, Noted
  <2>3. ASSUME NEW b \in Writers PROVE Gated(b)'
    <3>1. Gated(b) /\ act'[b] = act[b]
      BY <1>1, <1>3 DEF GInv
    <3>2. act[b].pc \in {"settle", "settleUnlink"} => act[b].tx \in Runs
      BY <1>1, <1>3, Seeing DEF FreePCs
    <3>3. ASSUME NEW r \in Runs, r = act[b].tx, act[b].pc \in {"settle", "settleUnlink"}
          PROVE  act[b].goal \in {"rolled_back", "abandoned"} => Gone(r)'
      BY <1>2, <3>1, <3>3 DEF Gated
    <3> QED
      BY <2>1, <3>1, <3>2, <3>3 DEF Gated, Gone
  <2> QED
    BY <1>1, <1>3, <2>1, <2>2, <2>3 DEF GInv
<1>5. WInv'
  <2>1. Plain(pc, site).pc \notin {"drafting", "marker", "restore"}
    BY DEF Plain, Idle
  <2>2. spent.edits = 0 /\ Pairs' = {} => \A t, u \in Targets : file[t] = file[u]
    BY <1>1 DEF WInv, Pairs
  <2> QED
    BY <1>1, <2>1, <2>2, StillWhole
<1> QED
  BY <1>2, <1>4, <1>5 DEF BInv

LEMMA PlainIdle == Plain("idle", "idle") = Idle /\ <<"idle", "idle">> \in PlainPCs
  BY PlainOK DEF PlainPCs

LEMMA ReconcilerBInv ==
  ASSUME BInv, NEW a \in Reconcilers, Local(ReconcilerStep(a))
  PROVE  BInv'
<1>1. /\ AInv /\ a \in Actors /\ spent \in Spendings /\ Posted(act[a]) /\ UNCHANGED <<global, gate>>
  <2>1. AInv /\ a \in Actors
    BY DEF BInv, Actors
  <2> QED
    BY <2>1 DEF Local, AInv, SInv, IInv
<1>2. CASE act[a].pc = "idle" /\ spent.reconciles < MaxReconciles
           /\ Become(a, [Step(a, "discover") EXCEPT !.site = "reconcile"])
           /\ spent' = [spent EXCEPT !.reconciles = @ + 1] /\ UNCHANGED <<file, disk>>
  <2>1. act[a] = Idle
    BY <1>1, <1>2 DEF Posted
  <2>2. Become(a, Plain("discover", "reconcile"))
    BY <1>2, <2>1 DEF Step, Plain
  <2>3. spent' \in Spendings /\ spent'.edits = spent.edits
    BY <1>1, <1>2, PersistenceAssumption DEF Spendings
  <2> QED
    BY <1>1, <1>2, <2>2, <2>3, OperatorInv
<1>3. CASE Look(a, Idle)
  BY <1>1, <1>3, PlainIdle, OperatorInv DEF Look
<1> QED
  BY <1>2, <1>3 DEF Local, ReconcilerStep, At

LEMMA CrashBInv ==
  ASSUME BInv, NEW a \in Actors, BarrierCrash(a)
  PROVE  BInv'
<1>1. /\ AInv /\ HInv /\ GInv /\ WInv /\ spent \in Spendings
  BY DEF BInv, AInv, SInv, IInv
<1>2. /\ act[a] # Idle /\ Become(a, Plain("idle", "idle")) /\ file' = file /\ disk' = disk /\ global' = global
      /\ spent' \in Spendings /\ spent'.edits = spent.edits
  BY <1>1, PlainIdle, PersistenceAssumption DEF BarrierCrash, Crash, Spendings
<1>3. CASE a \in Reconcilers
  <2>1. gate' = gate
    BY <1>3, PersistenceAssumption DEF BarrierCrash
  <2> QED
    BY <1>2, <1>3, <2>1, OperatorInv
<1>4. CASE a \in Writers
  <2>1. gate' = NoGate /\ a \notin Reconcilers
    BY <1>4, PersistenceAssumption DEF BarrierCrash
  <2>2. AInv' /\ HInv' /\ \A r \in Runs : Gone(r) => Gone(r)'
    BY <1>1, <1>2, <1>4, <2>1, PlainIdle, PlainInv
  <2>3. Pairs' = Pairs /\ (OneUnsettled' <=> OneUnsettled)
    BY <1>2 DEF Pairs, OneUnsettled
  <2>4. \A r \in Runs : Noted(r)'
    BY <1>1, <1>2, <2>2 DEF GInv, Noted
  <2>5. Gated(a)'
    <3>1. act'[a].pc = "idle" /\ act'[a].site = "idle"
      BY <1>1, <1>2, PlainIdle, Stepping DEF Idle
    <3> QED
      BY <3>1 DEF Gated
  <2>6. GInv'
    <3>1. gate' \in Gates /\ gate'.entries \subseteq Pairs'
      BY <2>1, NoGateOK
    <3> QED
      BY <1>1, <1>2, <1>4, <2>1, <2>3, <2>4, <2>5, <3>1, WriterInv DEF GInv
  <2>7. WInv'
    <3>1. Plain("idle", "idle").pc \notin {"drafting", "marker", "restore"}
      BY DEF Plain, Idle
    <3>2. spent.edits = 0 /\ Pairs' = {} => \A t, u \in Targets : file[t] = file[u]
      BY <1>1, <2>3 DEF WInv
    <3> QED
      BY <1>1, <1>2, <3>1, <3>2, StillWhole
  <2> QED
    BY <2>2, <2>6, <2>7 DEF BInv
<1> QED
  BY <1>3, <1>4 DEF Actors

LEMMA EditBInv ==
  ASSUME BInv, NEW t \in Targets, Local(Edit(t))
  PROVE  BInv'
<1>1. /\ AInv /\ HInv /\ GInv /\ Edit(t) /\ UNCHANGED <<global, gate>> /\ disk' = disk /\ act' = act
      /\ file \in [Targets -> Contents] /\ spent \in Spendings
      /\ file' = [file EXCEPT ![t] = spent.edits + 1] /\ spent'.edits = spent.edits + 1
      /\ spent.edits < MaxEdits
  BY DEF BInv, Local, Edit, AInv, SInv, IInv, Spendings
<1>2. spent.edits \in Nat /\ spent.edits + 1 \notin Runs /\ spent'.edits # 0
  BY <1>1, PersistenceAssumption DEF Spendings
<1>3. \A u \in Targets : file'[u] = file[u] \/ file'[u] \notin Runs
  BY <1>1, <1>2
<1>4. AInv'
  <2>1. SInv'
    BY <1>1, EditInv, EditSwap DEF AInv, SInv
  <2> QED
    BY <1>1, <2>1 DEF AInv, OneWriter, Operators
<1>5. \A r \in Runs : Gone(r) => Gone(r)'
  BY <1>1, <1>3 DEF Gone
<1>6. HInv'
  <2>1. GoneRuns \subseteq GoneRuns'
    BY <1>5 DEF GoneRuns
  <2>2. ASSUME NEW b \in Actors PROVE Knows(act'[b], file', disk', GoneRuns')
    <3>1. Knows(act[b], file, disk, GoneRuns) /\ (act[b].pc \in {"undo", "restore"} => act[b].tx \in Runs)
      BY <1>1, Seeing DEF HInv, FreePCs
    <3>2. KnowsRun(act[b], file', disk[act[b].tx], GoneRuns')
      BY <1>3, <2>1, <3>1 DEF Knows, KnowsRun
    <3> QED
      BY <1>1, <2>1, <3>1, <3>2 DEF Knows, KnowsOthers
  <2> QED
    BY <1>1, <1>3, <2>1, <2>2 DEF HInv
<1>7. GInv'
  <2>1. \A r \in Runs : Noted(r)'
    BY <1>1, <1>5 DEF GInv, Noted
  <2>2. ASSUME NEW b \in Writers PROVE Gated(b)'
    <3>1. Gated(b) /\ b \in Actors
      BY <1>1 DEF GInv, Actors
    <3>2. act[b].pc \in {"settle", "settleUnlink"} => act[b].tx \in Runs
      BY <1>1, <3>1, Seeing DEF FreePCs
    <3>3. ASSUME NEW r \in Runs, r = act[b].tx, act[b].pc \in {"settle", "settleUnlink"}
          PROVE  act[b].goal \in {"rolled_back", "abandoned"} => Gone(r)'
      BY <1>5, <3>1, <3>3 DEF Gated
    <3> QED
      BY <1>1, <3>1, <3>2, <3>3 DEF Gated, Gone, Pairs
  <2> QED
    BY <1>1, <2>1, <2>2 DEF GInv, Pairs, OneUnsettled
<1>8. WInv'
  BY <1>2 DEF WInv
<1> QED
  BY <1>4, <1>6, <1>7, <1>8 DEF BInv

LEMMA BarrierNextInv ==
  ASSUME BInv, [BarrierNext]_barrierVars
  PROVE  BInv'
<1>1. CASE BarrierNext
  BY <1>1, BarrierStepInv, ReconcilerBInv, SectionBInv, CrashBInv, EditBInv DEF BarrierNext
<1>2. CASE UNCHANGED barrierVars
  <2>1. /\ file' = file /\ disk' = disk /\ act' = act /\ spent' = spent /\ global' = global /\ gate' = gate
    BY <1>2 DEF barrierVars, vars
  <2>2. IInv' /\ SInv'
    BY <2>1 DEF BInv, AInv, SInv, IInv, OneSection
  <2>3. AInv'
    BY <2>1, <2>2 DEF BInv, AInv, OneWriter, Operators
  <2>4. GoneRuns' = GoneRuns /\ Pairs' = Pairs
    BY <2>1 DEF GoneRuns, Gone, Pairs
  <2>5. HInv'
    BY <2>1, <2>4 DEF BInv, HInv
  <2>6. GInv'
    BY <2>1, <2>4 DEF BInv, GInv, OneUnsettled, Noted, Gone, Gated
  <2>7. WInv'
    BY <2>1, <2>4 DEF BInv, WInv, Applied, At, Files
  <2> QED
    BY <2>3, <2>5, <2>6, <2>7 DEF BInv
<1> QED
  BY <1>1, <1>2

LEMMA BarrierInitInv == BarrierInit => BInv
<1> SUFFICES ASSUME BarrierInit PROVE BInv
  OBVIOUS
<1>1. /\ file = [t \in Targets |-> 0] /\ disk = [r \in Runs |-> NoFiles] /\ act = [a \in Actors |-> Idle]
      /\ global = [r \in Runs |-> {}] /\ gate = NoGate
  BY DEF BarrierInit, Init
<1>2. /\ \A r \in Runs : disk[r] = NoFiles /\ global[r] = {}
      /\ \A a \in Actors : act[a] = Idle /\ act[a] = Plain("idle", "idle")
      /\ \A t \in Targets : file[t] = 0 /\ file[t] \notin Runs
  BY <1>1, PlainIdle, PersistenceAssumption
<1>3. AInv
  <2>1. SInv
    BY InitSInv DEF BarrierInit
  <2>2. \A a \in Actors : Posted(act[a])
    BY <1>2, PlainIdle, PlainOK
  <2>3. OneWriter /\ Operators
    <3>1. Idle.site = "idle" /\ \A a \in Actors : act[a] = Idle
      BY <1>2 DEF Idle
    <3> QED
      BY <3>1 DEF OneWriter, Operators, Actors
  <2> QED
    BY <2>1, <2>2, <2>3 DEF AInv
<1>4. HInv
  <2>1. \A a \in Actors : Knows(act[a], file, disk, GoneRuns)
    BY <1>2, PlainIdle, PlainOK
  <2> QED
    BY <1>2, <2>1 DEF HInv, Recorded, NoFiles
<1>5. GInv
  <2>1. Pairs = {} /\ OneUnsettled
    BY <1>2 DEF Pairs, OneUnsettled
  <2>2. \A r \in Runs : Noted(r)
    <3>1. NoFiles.staging = "none" /\ NoFiles.manifest = "new"
      BY DEF NoFiles
    <3> QED
      BY <1>2, <3>1 DEF Noted
  <2>3. \A a \in Writers : Gated(a)
    BY <1>2 DEF Gated, Idle, Actors
  <2> QED
    BY <1>1, <2>1, <2>2, <2>3, NoGateOK DEF GInv
<1>6. WInv
  BY <1>2 DEF WInv, NoFiles, At, Idle
<1> QED
  BY <1>3, <1>4, <1>5, <1>6 DEF BInv

LEMMA BarrierTruth == BInv => BarrierIsTruthful
<1> SUFFICES ASSUME BInv PROVE BarrierIsTruthful
  OBVIOUS
<1>1. AInv /\ HInv /\ GInv /\ WInv
  BY DEF BInv
<1>2. SettledTruthfully
  BY <1>1 DEF SettledTruthfully, GInv, Noted, Gone
<1>3. UnknownIsPrepared
  <2>1. ASSUME NEW r \in Runs, disk[r].manifest # "new", disk[r].registry = {}
        PROVE  disk[r].manifest = "prepared" /\ ~disk[r].marker /\ \A t \in Targets : file[t] # r
    BY <1>1, <2>1 DEF HInv, Recorded, AInv, SInv, Fresh
  <2> QED
    BY <2>1 DEF UnknownIsPrepared, Unregistered
<1>4. GeneratesFromWholeBooks
  <2>1. ASSUME NEW a \in Writers, act[a].pc = "generate" PROVE Pairs = {}
    BY <2>1, WriterAt DEF Gated
  <2>2. ASSUME Pairs = {}
        PROVE  /\ \A t \in Targets : file[t] \in Runs => disk[file[t]].receipt
               /\ spent.edits = 0 => \A t, u \in Targets : file[t] = file[u]
    BY <1>1, <2>2, Published DEF WInv
  <2> QED
    BY <2>1, <2>2 DEF GeneratesFromWholeBooks, At
<1> QED
  BY <1>1, <1>2, <1>3, <1>4 DEF BarrierIsTruthful, GInv

\* Behind the barrier, whatever raises, dies, reconciles or edits: what the barrier says of a run is
\* what happened to it, no run writes while another is unsettled, a journal the registry does not
\* know was not committed, and a run generates from books that are published and, unless the
\* author has edited them, of one whole version.
THEOREM Truthful == BarrierSpec => []BarrierIsTruthful
<1>1. BInv /\ [BarrierNext]_barrierVars => BInv'
  BY BarrierNextInv
<1> QED
  BY <1>1, BarrierInitInv, BarrierTruth, PTL DEF BarrierSpec

-----------------------------------------------------------------------------
(* The promise of AtomicPublication, which the transaction keeps behind the barrier. *)

\* What the files of a run say of its fate.
FateOf(f) ==
    IF f.receipt THEN "published"
    ELSE IF f.marker THEN "committed"
    ELSE IF "rolled_back" \in f.registry THEN "aborted" ELSE "open"

Promised == Promise!Next \/ UNCHANGED <<Fate, {r \in Runs : \E t \in Targets : file[t] = r}>>

\* While nothing is decided the books may change, since no run that is gone comes back.
LEMMA Undecided ==
  ASSUME HInv', \A r \in Runs : FateOf(disk'[r]) = FateOf(disk[r])
  PROVE  Promised
<1>1. Fate' = Fate
  BY DEF Fate, FateOf
<1>2. ASSUME NEW r \in Runs, Fate[r] = "aborted" PROVE \A t \in Targets : file'[t] # r
  <2>1. "rolled_back" \in disk'[r].registry
    BY <1>1, <1>2 DEF Fate
  <2>2. r \in GoneRuns'
    BY <2>1 DEF HInv
  <2> QED
    BY <2>2 DEF GoneRuns, Gone
<1>3. {r \in Runs : \E t \in Targets : file'[t] = r} \subseteq {r \in Runs : Fate[r] # "aborted"}
  BY <1>2
<1> QED
  BY <1>1, <1>3 DEF Promised, Promise!Next, Promise!Rewrite

\* One run is decided, and the books stay.
LEMMA Decided ==
  ASSUME NEW q \in Runs, file' = file, \A r \in Runs \ {q} : FateOf(disk'[r]) = FateOf(disk[r]),
         \/ FateOf(disk[q]) = "open" /\ FateOf(disk'[q]) = "committed"
         \/ FateOf(disk[q]) = "committed" /\ FateOf(disk'[q]) = "published"
         \/ FateOf(disk[q]) = "open" /\ FateOf(disk'[q]) = "aborted" /\ \A t \in Targets : file[t] # q
  PROVE  Promised
<1> DEFINE text == {r \in Runs : \E t \in Targets : file[t] = r}
<1>1. Fate = [r \in Runs |-> FateOf(disk[r])] /\ Fate' = [r \in Runs |-> FateOf(disk'[r])]
  BY DEF Fate, FateOf
<1>2. text' = text
  OBVIOUS
<1>3. Fate[q] = FateOf(disk[q]) /\ Fate' = [Fate EXCEPT ![q] = FateOf(disk'[q])]
  BY <1>1
<1>4. (\A t \in Targets : file[t] # q) => q \notin text
  OBVIOUS
<1>5. CASE FateOf(disk[q]) = "open" /\ FateOf(disk'[q]) = "committed"
  <2>1. Promise!Commit(q)
    BY <1>2, <1>3, <1>5 DEF Promise!Commit, Promise!Decide
  <2> QED
    BY <2>1 DEF Promised, Promise!Next
<1>6. CASE FateOf(disk[q]) = "committed" /\ FateOf(disk'[q]) = "published"
  <2>1. Promise!Publish(q)
    BY <1>2, <1>3, <1>6 DEF Promise!Publish, Promise!Decide
  <2> QED
    BY <2>1 DEF Promised, Promise!Next
<1>7. CASE FateOf(disk[q]) = "open" /\ FateOf(disk'[q]) = "aborted" /\ \A t \in Targets : file[t] # q
  <2>1. Promise!Abort(q)
    BY <1>2, <1>3, <1>4, <1>7 DEF Promise!Abort, Promise!Decide
  <2> QED
    BY <2>1 DEF Promised, Promise!Next
<1> QED
  BY <1>5, <1>6, <1>7

\* A run is decided by the marker, the receipt and the entry of its rollback, each written by the
\* process that remembers it.
LEMMA SectionPromise ==
  ASSUME BInv, BInv', NEW a \in Actors, Local(Section(a))
  PROVE  Promised
<1> DEFINE q == act[a].tx
<1>1. /\ AInv /\ HInv /\ HInv' /\ SectionStep(a)
      /\ disk \in [Runs -> FileRecords] /\ disk' \in [Runs -> FileRecords]
      /\ \A r \in Runs : FileOK(disk[r])
  BY SectionFrame DEF Local, BInv, AInv, SInv, IInv
<1>2. \A r \in Runs : FileStep(act[a], r, disk[r], disk'[r])
  BY <1>1 DEF SectionStep
<1>3. \A r \in Runs : FateOf(disk'[r]) = FateOf(disk[r]) \/ (r = q /\ act[a].pc \in {"marker", "artifact", "transition"})
  BY <1>1, <1>2 DEF FateOf, FileStep, FileRecords
<1>4. CASE \A r \in Runs : FateOf(disk'[r]) = FateOf(disk[r])
  BY <1>1, <1>4, Undecided
<1>5. CASE \E r \in Runs : FateOf(disk'[r]) # FateOf(disk[r])
  <2>1. /\ q \in Runs /\ act[a].pc \in {"marker", "artifact", "transition"}
        /\ FateOf(disk'[q]) # FateOf(disk[q])
        /\ \A r \in Runs \ {q} : FateOf(disk'[r]) = FateOf(disk[r])
    BY <1>3, <1>5
  <2>2. file' = file
    BY <1>1, <2>1 DEF SectionStep
  <2>3. FileStep(act[a], q, disk[q], disk'[q]) /\ FileOK(disk[q]) /\ disk[q] \in FileRecords /\ disk'[q] \in FileRecords
    BY <1>1, <1>2, <2>1
  <2>4. CASE act[a].pc = "marker"
    <3>1. "rolled_back" \notin disk[q].registry
      <4>1. Live(act[a], disk[q])
        BY <2>4 DEF Live
      <4>2. q \notin GoneRuns
        BY <2>1, <4>1 DEF GoneRuns, Gone
      <4> QED
        BY <1>1, <2>1, <4>2 DEF HInv
    <3>2. FateOf(disk[q]) = "open" /\ FateOf(disk'[q]) = "committed"
      BY <2>1, <2>3, <2>4, <3>1 DEF FateOf, FileStep, FileOK, FileRecords
    <3> QED
      BY <2>1, <2>2, <3>2, Decided
  <2>5. CASE act[a].pc = "artifact"
    <3>1. FateOf(disk[q]) = "committed" /\ FateOf(disk'[q]) = "published"
      BY <2>1, <2>3, <2>5 DEF FateOf, FileStep, FileRecords
    <3> QED
      BY <2>1, <2>2, <3>1, Decided
  <2>6. CASE act[a].pc = "transition"
    <3>1. FateOf(disk[q]) = "open" /\ FateOf(disk'[q]) = "aborted" /\ act[a].goal = "rolled_back"
      BY <2>1, <2>3, <2>6 DEF FateOf, FileStep, FileRecords
    <3>2. q \in GoneRuns
      BY <1>1, <2>6, <3>1, Seeing DEF KnowsRun
    <3> QED
      BY <2>1, <2>2, <3>1, <3>2, Decided DEF GoneRuns, Gone
  <2> QED
    BY <2>1, <2>4, <2>5, <2>6
<1> QED
  BY <1>4, <1>5

\* The barrier's own steps, the operator, the deaths and the author decide nothing.
LEMMA OtherPromise ==
  ASSUME BInv, BInv',
         \/ \E a \in Writers : BarrierStep(a)
         \/ \E a \in Reconcilers : Local(ReconcilerStep(a))
         \/ \E a \in Actors : BarrierCrash(a)
         \/ \E t \in Targets : Local(Edit(t))
         \/ UNCHANGED barrierVars
  PROVE  Promised
<1>1. CASE disk' = disk
  BY <1>1, Undecided DEF BInv
<1>2. CASE \E a \in Writers : Generate(a)
  <2>1. PICK r \in Runs : disk' = [disk EXCEPT ![r].before = file]
    BY <1>2 DEF Generate, Begin
  <2>2. \A s \in Runs : /\ disk'[s].receipt = disk[s].receipt /\ disk'[s].marker = disk[s].marker
                        /\ disk'[s].registry = disk[s].registry
    BY <2>1 DEF BInv, AInv, SInv, IInv, FileRecords
  <2>3. \A s \in Runs : FateOf(disk'[s]) = FateOf(disk[s])
    BY <2>2 DEF FateOf
  <2> QED
    BY <2>3, Undecided DEF BInv
<1>3. ASSUME NEW a \in Writers, BarrierStep(a), ~Generate(a) PROVE disk' = disk
  BY <1>3 DEF BarrierStep, Enter, NextEntry, EntryReconciled, VerifyBusy, EntryRaised, Settle, SettleUnlink,
     EndGate, Ready, NotReady, Reject, Register, PreparedOrNot, FenceBusy, CommittedOrNot,
     WriteGlobal, Leave, Advance
<1>4. ASSUME NEW a \in Reconcilers, ReconcilerStep(a) PROVE disk' = disk
  BY <1>4 DEF ReconcilerStep, Look
<1>5. ASSUME NEW a \in Actors, BarrierCrash(a) PROVE disk' = disk
  BY <1>5 DEF BarrierCrash, Crash
<1>6. ASSUME NEW t \in Targets, Edit(t) PROVE disk' = disk
  BY <1>6 DEF Edit
<1>7. UNCHANGED barrierVars => disk' = disk
  BY DEF barrierVars, vars
<1> QED
  BY <1>1, <1>2, <1>3, <1>4, <1>5, <1>6, <1>7 DEF Local

LEMMA BarrierPromise ==
  ASSUME BInv, BInv', [BarrierNext]_barrierVars
  PROVE  Promised
  BY SectionPromise, OtherPromise DEF BarrierNext

\* Nothing is decided and nothing is written before the first run.
LEMMA PromiseInit == BarrierInit => Promise!Init
<1> SUFFICES ASSUME BarrierInit PROVE Promise!Init
  OBVIOUS
<1>1. \A r \in Runs : disk[r] = NoFiles
  BY DEF BarrierInit, Init
<1>2. Fate = [r \in Runs |-> "open"]
  BY <1>1 DEF Fate, NoFiles
<1>3. \A t \in Targets : file[t] = 0 /\ file[t] \notin Runs
  BY PersistenceAssumption DEF BarrierInit, Init
<1>4. {r \in Runs : \E t \in Targets : file[t] = r} = {}
  BY <1>3
<1> QED
  BY <1>2, <1>4 DEF Promise!Init

\* Behind the barrier the transaction keeps its promise, whatever raises, dies, reconciles or edits:
\* a run is aborted only when none of its text is in the books, and then none ever is again; a
\* committed run is never aborted; and only a committed run is published.
THEOREM Publication == BarrierSpec => AtomicallyPublished
<1>1. BInv /\ [BarrierNext]_barrierVars => BInv'
  BY BarrierNextInv
<1>2. BInv /\ BInv' /\ [BarrierNext]_barrierVars
          => [Promise!Next]_<<Fate, {r \in Runs : \E t \in Targets : file[t] = r}>>
  BY BarrierPromise DEF Promised
<1> QED
  BY <1>1, <1>2, BarrierInitInv, PromiseInit, PTL DEF BarrierSpec, AtomicallyPublished, Promise!Spec

-----------------------------------------------------------------------------
(* The root registries that the transactions are bound to, and their relocation: for any      *)
(* paths, registries, renames, crashes and writers, no registry is rebound under an unsettled *)
(* transaction, a relocation that reports completion has rebound all, the main one last, and  *)
(* between relocations they are bound to one path (RebindsTogether).                          *)
(*                                                                                            *)
(* RInv says why a resumed relocation finds what it left.  Every registry of a relocation     *)
(* under way is as it was found or as it will be (Under), since all of them are complete and  *)
(* a writer touches only absent or incomplete ones (Ordered); the process has rebound what    *)
(* it is past (MoverAtWork), so the main one, which is last, is rebound after the others.     *)

Registry == [at : Places \union {"nowhere"}, rev : Nat, armed : BOOLEAN]
Txn == [from : Places \union {"nowhere"}, to : Places, seen : Registry, order : Seq(Kinds),
        before : UNION {[D -> Registry] : D \in SUBSET Kinds}, marked : BOOLEAN, done : BOOLEAN]

RelocationTyped ==
  /\ place \in Places /\ moves \in Nat /\ trespass \in BOOLEAN
  /\ reg \in [Kinds -> Registry] /\ held = [w \in WriterKinds |-> held[w]]
  /\ txns \in Seq(Txn)
  /\ \/ mover = AtRest
     \/ /\ mover \in [pc : {"check", "apply"}, txn : Nat, next : Nat \ {0}]
        /\ mover.txn = Len(txns) /\ Len(txns) # 0 /\ ~txns[mover.txn].done

\* The main registry is the last one of a relocation, and none of its registries is created or
\* completed by a writer.
Ordered(t) ==
  /\ DOMAIN t.before = ToSet(t.order) /\ "main" \in DOMAIN t.before
  /\ \A j \in 1 .. Len(t.order) : t.order[j] = "main" <=> j = Len(t.order)
  /\ \A k \in DOMAIN t.before : t.before[k] # Absent /\ t.before[k].armed

\* What a relocation has done to the registries it began with.
Behind(t) == \A k \in DOMAIN t.before : reg[k].rev > t.before[k].rev
Under(t) ==
  /\ \A k \in DOMAIN t.before : reg[k] \in {t.before[k], Rebound(t, k)}
  /\ reg["main"] = Rebound(t, "main") => Behind(t)
RemapJournal ==
  \A i \in 1 .. Len(txns) :
    /\ Ordered(txns[i])
    /\ txns[i].done => Behind(txns[i])
    /\ ~txns[i].done => i = Len(txns) /\ Under(txns[i])

\* The relocating process has replaced what it is past, and nobody else is at work.
MoverAtWork ==
  /\ \A w \in WriterKinds : held[w].state # "none" => reg[w] # Absent /\ mover = AtRest
  /\ mover.pc = "check" => mover.next = 1
  /\ mover.pc = "apply" =>
       \A j \in 1 .. Len(txn.order) : j < mover.next => reg[txn.order[j]] = Rebound(txn, txn.order[j])

\* Before the first move everything is where it was made.
Unmoved ==
  moves = 0 => place = Home /\ txns = <<>> /\ mover = AtRest /\ \A k \in Present : reg[k].at = Home

RInv == RelocationTyped /\ RemapJournal /\ MoverAtWork /\ Unmoved /\ Together
-----------------------------------------------------------------------------
\* The registries that are found, in their order.
LEMMA FoundOrNot ==
  ASSUME NEW k
  PROVE  Found(k) \in Seq({k}) /\ Len(Found(k)) = IF reg[k] # Absent THEN 1 ELSE 0
<1>1. CASE reg[k] # Absent
  <2>1. Found(k) = <<k>>
    BY <1>1 DEF Found
  <2> QED
    BY <1>1, <2>1
<1>2. CASE reg[k] = Absent
  <2>1. Found(k) = <<>>
    BY <1>2 DEF Found
  <2> QED
    BY <1>2, <2>1
<1> QED
  BY <1>1, <1>2

LEMMA Listing ==
  /\ Inventory \in Seq(Kinds) /\ ToSet(Inventory) = Present
  /\ "main" \in Present => \A j \in 1 .. Len(Inventory) : Inventory[j] = "main" <=> j = Len(Inventory)
<1> DEFINE first == Found("migration") \o Found("ea") \o Found("history")
<1>1. /\ first \in Seq(Kinds \ {"main"})
      /\ \A k \in Kinds \ {"main"} : (\E j \in 1 .. Len(first) : first[j] = k) <=> reg[k] # Absent
  <2> DEFINE a == Found("migration")
             b == Found("ea")
             c == Found("history")
  <2>1. /\ a \in Seq({"migration"}) /\ Len(a) = (IF reg["migration"] # Absent THEN 1 ELSE 0)
        /\ b \in Seq({"ea"}) /\ Len(b) = (IF reg["ea"] # Absent THEN 1 ELSE 0)
        /\ c \in Seq({"history"}) /\ Len(c) = (IF reg["history"] # Absent THEN 1 ELSE 0)
    BY FoundOrNot
  <2> HIDE DEF a, b, c
  <2>2. /\ a \in Seq(Kinds \ {"main"}) /\ b \in Seq(Kinds \ {"main"}) /\ c \in Seq(Kinds \ {"main"})
        /\ \A j \in 1 .. Len(a) : a[j] = "migration"
        /\ \A j \in 1 .. Len(b) : b[j] = "ea"
        /\ \A j \in 1 .. Len(c) : c[j] = "history"
    BY <2>1 DEF Kinds
  <2>3. /\ first \in Seq(Kinds \ {"main"}) /\ Len(first) = Len(a) + Len(b) + Len(c)
        /\ \A j \in 1 .. Len(first) :
             first[j] = IF j <= Len(a) THEN "migration" ELSE IF j <= Len(a) + Len(b) THEN "ea" ELSE "history"
    BY <2>1, <2>2 DEF a, b, c
  <2> HIDE DEF first
  <2>4. (\E j \in 1 .. Len(first) : first[j] = "migration") <=> reg["migration"] # Absent
    BY <2>1, <2>3
  <2>5. (\E j \in 1 .. Len(first) : first[j] = "ea") <=> reg["ea"] # Absent
    BY <2>1, <2>3
  <2>6. (\E j \in 1 .. Len(first) : first[j] = "history") <=> reg["history"] # Absent
    BY <2>1, <2>3
  <2> QED
    BY <2>3, <2>4, <2>5, <2>6 DEF Kinds
<1>2. Inventory = first \o Found("main")
  BY DEF Inventory
<1> HIDE DEF first
<1>3. CASE reg["main"] # Absent
  <2>1. /\ Inventory \in Seq(Kinds) /\ Len(Inventory) = Len(first) + 1 /\ Inventory[Len(first) + 1] = "main"
        /\ \A j \in 1 .. Len(first) : Inventory[j] = first[j]
    BY <1>1, <1>2, <1>3 DEF Found, Kinds
  <2>2. \A j \in 1 .. Len(first) : first[j] # "main" /\ first[j] \in Kinds
    BY <1>1
  <2>3. \A k \in Kinds : (\E j \in 1 .. Len(Inventory) : Inventory[j] = k) <=> reg[k] # Absent
    BY <1>1, <1>3, <2>1, <2>2
  <2>4. \A j \in 1 .. Len(Inventory) : Inventory[j] = "main" <=> j = Len(Inventory)
    BY <1>1, <2>1, <2>2
  <2> QED
    BY <2>1, <2>3, <2>4 DEF ToSet, Present
<1>4. CASE reg["main"] = Absent
  <2>1. Inventory = first
    BY <1>1, <1>2, <1>4 DEF Found
  <2>2. \A k \in Kinds : (\E j \in 1 .. Len(first) : first[j] = k) <=> reg[k] # Absent
    BY <1>1, <1>4
  <2> QED
    BY <1>1, <1>4, <2>1, <2>2 DEF ToSet, Present, Kinds
<1> QED
  BY <1>3, <1>4
LEMMA RelocationStarts ==
  ASSUME RelocationAssumption, RelocationInit
  PROVE  RInv
<1>1. /\ reg \in [Kinds -> Registry] /\ \A k \in Kinds : reg[k] = Absent \/ reg[k].at = Home
  <2>1. PICK have \in Starts, armed \in BOOLEAN :
          reg = [k \in Kinds |-> IF k \in have THEN [at |-> Home, rev |-> 1, armed |-> armed] ELSE Absent]
    BY DEF RelocationInit
  <2>2. Home \in Places
    BY DEF RelocationAssumption
  <2> QED
    BY <2>1, <2>2 DEF Registry, Absent
<1>2. place = Home /\ txns = <<>> /\ mover = AtRest /\ moves = 0 /\ held = [k \in WriterKinds |-> NoWork]
      /\ trespass \in BOOLEAN /\ Home \in Places
  BY DEF RelocationInit, RelocationAssumption
<1>3. RelocationTyped
  BY <1>1, <1>2 DEF RelocationTyped
<1>4. RemapJournal
  BY <1>2 DEF RemapJournal
<1>5. MoverAtWork
  BY <1>2 DEF MoverAtWork, NoWork, AtRest
<1>6. Unmoved /\ Together
  BY <1>1, <1>2 DEF Unmoved, Together, Present
<1> QED
  BY <1>3, <1>4, <1>5, <1>6 DEF RInv

\* The plan of a relocation, and what it makes of a registry.
LEMMA ReboundBy ==
  ASSUME NEW t \in Txn, Ordered(t)
  PROVE  /\ t.order \in Seq(Kinds) /\ DOMAIN t.before \subseteq Kinds /\ "main" \in DOMAIN t.before
         /\ \A j \in 1 .. Len(t.order) : t.order[j] \in DOMAIN t.before
         /\ \A k \in DOMAIN t.before : \E j \in 1 .. Len(t.order) : t.order[j] = k
         /\ \A k \in DOMAIN t.before : t.before[k] \in Registry /\ t.before[k].rev \in Nat
         /\ \A k \in DOMAIN t.before : /\ Rebound(t, k) \in Registry /\ Rebound(t, k).at = t.to
                                        /\ Rebound(t, k).armed = t.before[k].armed
                                        /\ Rebound(t, k).rev = t.before[k].rev + 1 /\ Rebound(t, k).armed = t.before[k].armed
                                        /\ Rebound(t, k).rev > t.before[k].rev
<1>1. t.order \in Seq(Kinds) /\ t.to \in Places /\ DOMAIN t.before = ToSet(t.order) /\ "main" \in DOMAIN t.before
  BY DEF Txn, Ordered
<1>2. DOMAIN t.before \subseteq Kinds /\ \A k \in DOMAIN t.before : t.before[k] \in Registry
  <2>1. t.before \in UNION {[D -> Registry] : D \in SUBSET Kinds}
    BY DEF Txn
  <2>2. PICK D \in SUBSET Kinds : t.before \in [D -> Registry]
    BY <2>1
  <2> QED
    BY <2>2
<1>3. /\ \A j \in 1 .. Len(t.order) : t.order[j] \in DOMAIN t.before
      /\ \A k \in DOMAIN t.before : \E j \in 1 .. Len(t.order) : t.order[j] = k
  BY <1>1 DEF ToSet
<1>4. ASSUME NEW k \in DOMAIN t.before
      PROVE  /\ t.before[k].rev \in Nat /\ Rebound(t, k) \in Registry /\ Rebound(t, k).at = t.to
             /\ Rebound(t, k).rev = t.before[k].rev + 1 /\ Rebound(t, k).armed = t.before[k].armed
  <2>1. t.before[k].rev \in Nat /\ t.before[k].armed \in BOOLEAN
    BY <1>2 DEF Registry
  <2>2. Rebound(t, k) = [at |-> t.to, rev |-> t.before[k].rev + 1, armed |-> t.before[k].armed]
    <3>1. PICK a, r, f : t.before[k] = [at |-> a, rev |-> r, armed |-> f]
      BY <1>2 DEF Registry
    <3>2. Rebound(t, k) = [[at |-> a, rev |-> r, armed |-> f] EXCEPT !.at = t.to, !.rev = @ + 1]
      BY <3>1 DEF Rebound
    <3> QED
      BY <3>1, <3>2
  <2> QED
    BY <1>1, <2>1, <2>2 DEF Registry
<1>5. \A k \in DOMAIN t.before : Rebound(t, k).rev > t.before[k].rev
  BY <1>4
<1> QED
  BY <1>1, <1>2, <1>3, <1>4, <1>5

\* What a relocation has done to its registries stays, wherever registries only grow and those
\* of an unfinished relocation are left alone.
LEMMA RelocationStays ==
  ASSUME NEW t \in Txn, Ordered(t), reg \in [Kinds -> Registry], reg' \in [Kinds -> Registry],
         \A k \in Kinds : reg'[k].rev >= reg[k].rev,
         \A k \in Kinds : reg[k] # Absent /\ reg[k].armed => reg'[k] = reg[k]
  PROVE  (Behind(t) => Behind(t)') /\ (Under(t) => Under(t)')
<1>1. /\ DOMAIN t.before \subseteq Kinds /\ "main" \in DOMAIN t.before
      /\ \A k \in DOMAIN t.before : t.before[k] \in Registry /\ t.before[k] # Absent /\ t.before[k].armed
  BY DEF Txn, Ordered
<1>2. Behind(t) => Behind(t)'
  <2>1. \A k \in DOMAIN t.before : reg[k].rev \in Int /\ reg'[k].rev \in Int /\ t.before[k].rev \in Int
                                   /\ reg'[k].rev >= reg[k].rev
    BY <1>1 DEF Registry
  <2> QED
    BY <2>1 DEF Behind
<1>3. ASSUME Under(t)
      PROVE  Under(t)'
  <2>1. \A k \in DOMAIN t.before : Rebound(t, k) # Absent /\ Rebound(t, k).armed
    <3>1. \A k \in DOMAIN t.before : /\ Rebound(t, k).armed = t.before[k].armed /\ t.before[k].rev \in Nat
                                     /\ Rebound(t, k).rev = t.before[k].rev + 1
      BY ReboundBy
    <3>2. \A k \in DOMAIN t.before : Rebound(t, k).rev # 0
      BY <3>1
    <3> QED
      BY <1>1, <3>1, <3>2 DEF Absent
  <2>2. \A k \in DOMAIN t.before : reg'[k] = reg[k]
    BY <1>1, <1>3, <2>1 DEF Under
  <2> QED
    BY <1>1, <1>2, <1>3, <2>2 DEF Under, Rebound
<1> QED
  BY <1>2, <1>3

LEMMA JournalStays ==
  ASSUME RInv, UNCHANGED txns, reg' \in [Kinds -> Registry],
         \A k \in Kinds : reg'[k].rev >= reg[k].rev,
         \A k \in Kinds : reg[k] # Absent /\ reg[k].armed => reg'[k] = reg[k]
  PROVE  RemapJournal'
<1>1. ASSUME NEW i \in 1 .. Len(txns)
      PROVE  /\ Ordered(txns[i])
             /\ txns[i].done => \A t : t = txns[i] => Behind(t)'
             /\ ~txns[i].done => i = Len(txns) /\ \A t : t = txns[i] => Under(t)'
  <2>1. txns[i] \in Txn /\ Ordered(txns[i]) /\ (txns[i].done => Behind(txns[i]))
        /\ (~txns[i].done => i = Len(txns) /\ Under(txns[i])) /\ reg \in [Kinds -> Registry]
    BY DEF RInv, RelocationTyped, RemapJournal
  <2>2. \A t : t = txns[i] => (Behind(t) => Behind(t)') /\ (Under(t) => Under(t)')
    BY <2>1, RelocationStays
  <2> QED
    BY <2>1, <2>2
<1> QED
  BY <1>1 DEF RemapJournal

\* A writer creates or completes a registry.
LEMMA EnsureKeeps ==
  ASSUME RInv, NEW k \in Kinds, MayWrite, Ensure(k), \A w \in WriterKinds : held[w].state = "none"
  PROVE  RInv'
<1>1. /\ reg' = [reg EXCEPT ![k] = Ensured(k)] /\ UNCHANGED <<place, held, txns, mover, trespass, moves>>
      /\ reg[k] = Absent \/ (Bound(k) /\ ~reg[k].armed)
      /\ reg \in [Kinds -> Registry] /\ place \in Places /\ mover = AtRest
  BY DEF Ensure, RInv, RelocationTyped, MayWrite
<1>2. /\ Ensured(k) \in Registry /\ Ensured(k).rev > reg[k].rev /\ Ensured(k) # Absent
      /\ Ensured(k).at = place
  <2>1. CASE reg[k] = Absent
    BY <1>1, <2>1 DEF Ensured, Registry, Absent
  <2>2. CASE reg[k] # Absent
    <3>1. Ensured(k) = [reg[k] EXCEPT !.armed = TRUE, !.rev = @ + 1]
      BY <2>2 DEF Ensured
    <3>2. reg[k] \in Registry /\ reg[k].at = place /\ reg[k].rev \in Nat
      BY <1>1, <2>2 DEF Registry, Bound
    <3>3. Ensured(k) \in Registry
      <4>1. Ensured(k) = [at |-> reg[k].at, rev |-> reg[k].rev + 1, armed |-> TRUE]
        BY <3>1, <3>2 DEF Registry
      <4> QED
        BY <3>2, <4>1, <1>1 DEF Registry
    <3>4. Ensured(k).rev = reg[k].rev + 1 /\ Ensured(k).at = place
      BY <3>1, <3>2 DEF Registry
    <3>5. Ensured(k).rev > reg[k].rev /\ Ensured(k).rev # 0
      BY <3>2, <3>4
    <3> QED
      BY <3>3, <3>4, <3>5 DEF Absent
  <2> QED
    BY <2>1, <2>2
<1>3. /\ reg' \in [Kinds -> Registry] /\ reg'[k] = Ensured(k)
      /\ \A j \in Kinds : j # k => reg'[j] = reg[j]
      /\ \A j \in Kinds : reg'[j].rev >= reg[j].rev
      /\ \A j \in Kinds : reg[j] # Absent => reg'[j] # Absent
      /\ \A j \in Kinds : reg[j] # Absent /\ reg[j].armed => reg'[j] = reg[j]
  <2>1. reg' \in [Kinds -> Registry] /\ reg'[k] = Ensured(k) /\ \A j \in Kinds : j # k => reg'[j] = reg[j]
    BY <1>1, <1>2
  <2>2. \A j \in Kinds : reg[j].rev \in Nat /\ reg'[j].rev \in Nat
    BY <1>1, <2>1 DEF Registry
  <2> QED
    BY <1>1, <1>2, <2>1, <2>2
<1>4. RelocationTyped'
  BY <1>1, <1>3 DEF RInv, RelocationTyped
<1>5. RemapJournal'
  BY <1>1, <1>3, JournalStays DEF RInv, RelocationTyped
<1>6. MoverAtWork'
  BY <1>1 DEF RInv, MoverAtWork, AtRest
<1>7. Unmoved'
  BY <1>1, <1>2, <1>3 DEF RInv, Unmoved, Present
<1>8. Together'
  <2>1. SUFFICES ASSUME UnfinishedRemaps' = {}, ~trespass
                 PROVE  \A i, j \in Present' : reg'[i].at = reg'[j].at
    BY <1>1 DEF Together
  <2>2. \A j \in Present : reg[j].at = place
    <3>1. (Relocated /\ "main" \in Present) \/ moves = 0
      BY <2>1 DEF MayWrite
    <3> QED
      BY <3>1 DEF RInv, Unmoved, Relocated, Bound
  <2>3. \A j \in Present' : reg'[j].at = place
    BY <1>2, <1>3, <2>2 DEF Present
  <2> QED
    BY <2>3
<1> QED
  BY <1>4, <1>5, <1>6, <1>7, <1>8 DEF RInv

\* Steps that touch neither the registries nor the journal of relocations.
LEMMA LeftAlone ==
  ASSUME RInv, UNCHANGED <<reg, txns, trespass>>
  PROVE  RemapJournal' /\ Together'
<1>1. RemapJournal'
  BY DEF RInv, RemapJournal, Ordered, Behind, Under, Rebound
<1> QED
  BY <1>1 DEF RInv, Together, UnfinishedRemaps, Present

LEMMA PrepareKeeps ==
  ASSUME RelocationAssumption, RInv, NEW k \in WriterKinds, PrepareUnder(k)
  PROVE  RInv'
<1>1. /\ mover = AtRest /\ reg[k].at = place /\ UNCHANGED <<place, reg, txns, mover, trespass, moves>>
      /\ \E h : held' = [held EXCEPT ![k] = h]
  BY DEF PrepareUnder, MayWrite, Bound
<1>2. reg[k] # Absent
  BY <1>1 DEF RInv, RelocationTyped, Absent, RelocationAssumption
<1>3. RelocationTyped'
  BY <1>1 DEF RInv, RelocationTyped
<1>4. MoverAtWork'
  BY <1>1, <1>2 DEF RInv, RelocationTyped, MoverAtWork, AtRest
<1>5. Unmoved'
  BY <1>1 DEF RInv, Unmoved, Present
<1> QED
  BY <1>1, <1>3, <1>4, <1>5, LeftAlone DEF RInv

LEMMA SettleKeeps ==
  ASSUME RInv, NEW k \in WriterKinds, SettleBound(k)
  PROVE  RInv'
<1>1. /\ UNCHANGED <<place, reg, txns, mover, trespass, moves>> /\ held' = [held EXCEPT ![k] = NoWork]
      /\ NoWork.state = "none"
  BY DEF SettleBound, NoWork
<1>2. RelocationTyped'
  BY <1>1 DEF RInv, RelocationTyped
<1>3. \A w \in WriterKinds : held'[w].state # "none" => held[w].state # "none"
  BY <1>1 DEF RInv, RelocationTyped
<1>4. MoverAtWork'
  BY <1>1, <1>3 DEF RInv, MoverAtWork, Rebound, txn
<1>5. Unmoved'
  BY <1>1 DEF RInv, Unmoved, Present
<1> QED
  BY <1>1, <1>2, <1>4, <1>5, LeftAlone DEF RInv

LEMMA ReconcileElsewhereKeeps ==
  ASSUME RInv, ReconcileElsewhere
  PROVE  RInv'
<1>1. /\ UNCHANGED <<place, reg, txns, mover, trespass, moves>> /\ held["main"].state = "pending"
      /\ held' = [held EXCEPT !["main"].state = "stuck"]
  BY DEF ReconcileElsewhere
<1>2. RelocationTyped'
  BY <1>1 DEF RInv, RelocationTyped
<1>3. \A w \in WriterKinds : held'[w].state # "none" => held[w].state # "none"
  BY <1>1 DEF RInv, RelocationTyped
<1>4. MoverAtWork'
  BY <1>1, <1>3 DEF RInv, MoverAtWork, Rebound, txn
<1>5. Unmoved'
  BY <1>1 DEF RInv, Unmoved, Present
<1> QED
  BY <1>1, <1>2, <1>4, <1>5, LeftAlone DEF RInv

\* The process ends, by an error of the command or by a crash.
LEMMA EndKeeps ==
  ASSUME RInv, mover' = AtRest, UNCHANGED <<place, reg, held, txns, trespass, moves>>
  PROVE  RInv'
<1>1. RelocationTyped'
  BY DEF RInv, RelocationTyped
<1>2. MoverAtWork'
  BY DEF RInv, MoverAtWork, AtRest
<1>3. Unmoved'
  BY DEF RInv, Unmoved, Present
<1> QED
  BY <1>1, <1>2, <1>3, LeftAlone DEF RInv

LEMMA MoveKeeps ==
  ASSUME RInv, NEW p \in Places, Move(p)
  PROVE  RInv'
<1>1. place' = p /\ moves' = moves + 1 /\ UNCHANGED <<reg, held, txns, mover, trespass>>
  BY DEF Move
<1>2. RelocationTyped' /\ Unmoved'
  BY <1>1 DEF RInv, RelocationTyped, Unmoved
<1>3. MoverAtWork'
  BY <1>1 DEF RInv, MoverAtWork, Rebound, txn
<1> QED
  BY <1>1, <1>2, <1>3, LeftAlone DEF RInv

\* A relocation is begun, with every registry it has found.
LEMMA PreparedIsOrdered ==
  ASSUME RInv, NEW seen, MayPrepare(seen), "main" \in Present
  PROVE  /\ Prepared(seen) \in Txn /\ Ordered(Prepared(seen)) /\ Under(Prepared(seen))
         /\ ~Prepared(seen).done
<1> DEFINE t == Prepared(seen)
<1>1. /\ Inventory \in Seq(Kinds) /\ ToSet(Inventory) = Present /\ Present \subseteq Kinds
      /\ \A j \in 1 .. Len(Inventory) : Inventory[j] = "main" <=> j = Len(Inventory)
  BY Listing DEF Present
<1>2. /\ seen = reg["main"] /\ seen \in Registry /\ reg \in [Kinds -> Registry] /\ place \in Places
      /\ \A k \in Present : reg[k].armed /\ reg[k] # Absent
  BY <1>1 DEF RInv, RelocationTyped, MayPrepare, Kinds, Present
<1>3. t = [from |-> seen.at, to |-> place, seen |-> seen, order |-> Inventory,
           before |-> [k \in Present |-> reg[k]], marked |-> FALSE, done |-> FALSE]
  BY <1>1 DEF Prepared
<1> HIDE DEF t
<1>4. t.before \in [Present -> Registry] /\ DOMAIN t.before = Present /\ \A k \in Present : t.before[k] = reg[k]
  BY <1>1, <1>2, <1>3
<1>5. t \in Txn
  <2>1. t.before \in UNION {[D -> Registry] : D \in SUBSET Kinds}
    BY <1>1, <1>4
  <2>2. seen.at \in Places \union {"nowhere"}
    BY <1>2 DEF Registry
  <2> QED
    BY <1>1, <1>2, <1>3, <2>1, <2>2 DEF Txn
<1>6. Ordered(t)
  BY <1>1, <1>2, <1>3, <1>4 DEF Ordered
<1>7. Under(t)
  <2>1. reg["main"] # Rebound(t, "main")
    <3>1. reg["main"].rev \in Nat /\ t.before["main"] = reg["main"] /\ reg["main"] \in Registry
      BY <1>2, <1>4 DEF Registry
    <3>2. Rebound(t, "main").rev = reg["main"].rev + 1
      BY <3>1 DEF Rebound, Registry
    <3> QED
      BY <3>1, <3>2
  <2> QED
    BY <1>4, <2>1 DEF Under
<1> QED
  BY <1>3, <1>5, <1>6, <1>7 DEF t

\* Before the first move there is no relocation to begin or resume.
LEMMA StartAfterMove ==
  ASSUME RInv, Start
  PROVE  moves # 0
<1>1. SUFFICES ASSUME moves = 0
               PROVE  FALSE
  OBVIOUS
<1>2. txns = <<>> /\ place = Home /\ reg["main"].at = Home
  BY <1>1 DEF RInv, Unmoved, Start, Present
<1>3. PICK seen : MayPrepare(seen) \/ \E i \in DOMAIN txns : MayResume(i, seen)
  BY DEF Start
<1> QED
  BY <1>2, <1>3 DEF MayPrepare, Bound

LEMMA StartKeeps ==
  ASSUME RInv, Start
  PROVE  RInv'
<1>1. /\ mover = AtRest /\ "main" \in Present /\ ProjectIdle /\ UNCHANGED <<place, reg, held, trespass, moves>>
      /\ txns \in Seq(Txn)
  BY DEF Start, RInv, RelocationTyped
<1>2. \A w \in WriterKinds : held[w].state = "none"
  <2>1. SUFFICES ASSUME NEW w \in WriterKinds, held[w].state # "none"
                 PROVE  FALSE
    OBVIOUS
  <2>2. w \in Present
    BY <2>1 DEF RInv, MoverAtWork, Present, WriterKinds
  <2> QED
    BY <1>1, <2>1, <2>2 DEF ProjectIdle, IdleAt, WriterKinds
<1>3. PICK seen :
        \/ /\ MayPrepare(seen)
           /\ txns' = Append(txns, Prepared(seen))
           /\ mover' = [pc |-> "check", txn |-> Len(txns'), next |-> 1]
        \/ \E i \in DOMAIN txns :
             /\ MayResume(i, seen)
             /\ mover' = [pc |-> "check", txn |-> i, next |-> 1]
             /\ UNCHANGED txns
  BY DEF Start
<1>4. mover'.pc = "check" /\ mover'.next = 1
  BY <1>3
<1>5. MoverAtWork'
  BY <1>1, <1>2, <1>4 DEF MoverAtWork
<1>6. Unmoved'
  BY <1>1, StartAfterMove DEF Unmoved
<1>7. CASE MayPrepare(seen) /\ txns' = Append(txns, Prepared(seen))
           /\ mover' = [pc |-> "check", txn |-> Len(txns'), next |-> 1]
  <2>0. PICK n \in Nat : n = Len(txns) + 1
    BY <1>1
  <2>1. PICK t \in Txn : t = Prepared(seen) /\ Ordered(t) /\ Under(t) /\ ~t.done
    BY <1>1, <1>7, PreparedIsOrdered
  <2>2. /\ txns' = Append(txns, t) /\ txns' \in Seq(Txn) /\ Len(txns') = n /\ n # 0 /\ txns'[n] = t
        /\ \A i \in 1 .. Len(txns) : txns'[i] = txns[i]
    BY <1>1, <1>7, <2>0, <2>1
  <2>3. RelocationTyped'
    BY <1>1, <1>7, <2>0, <2>1, <2>2 DEF RInv, RelocationTyped
  <2>4. \A i \in 1 .. Len(txns) : txns[i].done
    BY <1>1, <1>7 DEF MayPrepare, UnfinishedRemaps
  <2>5. RemapJournal'
    <3>1. \A i \in 1 .. Len(txns') : i = n \/ i \in 1 .. Len(txns)
      BY <1>1, <2>0, <2>2
    <3>2. \A i \in 1 .. Len(txns) : Ordered(txns[i])' /\ (txns[i].done => Behind(txns[i])')
      <4>1. \A i \in 1 .. Len(txns) : Ordered(txns[i]) /\ Behind(txns[i])
        BY <2>4 DEF RInv, RemapJournal
      <4> QED
        BY <1>1, <2>2, <4>1 DEF Ordered, Behind
    <3>3. Under(t)'
      BY <1>1, <2>1 DEF Under, Behind, Rebound
    <3>4. /\ Ordered(txns'[n]) /\ ~txns'[n].done /\ Under(txns[n])'
      <4>1. txns'[n] = t
        BY <2>2
      <4>2. Under(txns[n])' <=> Under(t)'
        BY <4>1 DEF Under, Behind, Rebound
      <4>3. Ordered(txns'[n]) /\ ~txns'[n].done
        BY <2>1, <4>1
      <4> QED
        BY <3>3, <4>2, <4>3
    <3>5. \A i \in 1 .. Len(txns') : Ordered(txns'[i])
      BY <2>2, <3>1, <3>2, <3>4 DEF Ordered
    <3> QED
      BY <2>2, <2>4, <3>1, <3>2, <3>4, <3>5 DEF RemapJournal
  <2>6. Together'
    BY <2>1, <2>2 DEF Together, UnfinishedRemaps
  <2> QED
    BY <1>5, <1>6, <2>3, <2>5, <2>6 DEF RInv
<1>8. CASE \E i \in DOMAIN txns :
             /\ MayResume(i, seen)
             /\ mover' = [pc |-> "check", txn |-> i, next |-> 1]
             /\ UNCHANGED txns
  <2>1. PICK i \in DOMAIN txns : /\ MayResume(i, seen) /\ UNCHANGED txns
                                 /\ mover' = [pc |-> "check", txn |-> i, next |-> 1]
    BY <1>8
  <2>2. i \in 1 .. Len(txns) /\ ~txns[i].done /\ i = Len(txns)
    BY <1>1, <2>1 DEF MayResume, UnfinishedRemaps, RInv, RemapJournal
  <2>3. RelocationTyped'
    BY <1>1, <2>1, <2>2 DEF RInv, RelocationTyped
  <2> QED
    BY <1>1, <1>5, <1>6, <2>1, <2>3, LeftAlone DEF RInv
<1> QED
  BY <1>3, <1>7, <1>8

\* What the relocating process works on.
LEMMA AtWork ==
  ASSUME RInv, mover # AtRest
  PROVE  /\ mover.txn \in 1 .. Len(txns) /\ mover.txn = Len(txns) /\ txn \in Txn /\ ~txn.done
         /\ Ordered(txn) /\ Under(txn) /\ mover.pc \in {"check", "apply"} /\ mover.next \in Nat \ {0}
         /\ moves # 0 /\ \A w \in WriterKinds : held[w].state = "none"
<1>1. /\ txns \in Seq(Txn) /\ mover.txn = Len(txns) /\ Len(txns) # 0 /\ ~txns[mover.txn].done
      /\ mover.pc \in {"check", "apply"} /\ mover.next \in Nat \ {0}
  BY DEF RInv, RelocationTyped
<1>2. Len(txns) \in Nat /\ mover.txn \in 1 .. Len(txns)
  BY <1>1
<1>3. txn \in Txn /\ Ordered(txn) /\ Under(txn)
  BY <1>1, <1>2 DEF RInv, RemapJournal, txn
<1>4. moves # 0 /\ \A w \in WriterKinds : held[w].state = "none"
  BY DEF RInv, Unmoved, MoverAtWork
<1> QED
  BY <1>1, <1>2, <1>3, <1>4 DEF txn

\* One relocation of the journal is replaced.
LEMMA OneReplaced ==
  ASSUME NEW S, NEW q \in Seq(S), NEW n \in 1 .. Len(q), NEW s \in S
  PROVE  /\ [q EXCEPT ![n] = s] \in Seq(S) /\ Len([q EXCEPT ![n] = s]) = Len(q)
         /\ [q EXCEPT ![n] = s][n] = s
         /\ DOMAIN [q EXCEPT ![n] = s] = 1 .. Len(q)
         /\ \A i \in 1 .. Len(q) : i # n => [q EXCEPT ![n] = s][i] = q[i]
  BY ExceptSeq

\* What is said of a relocation is said of its plan.
LEMMA SamePlan ==
  ASSUME NEW s, NEW t, s.before = t.before, s.to = t.to, s.order = t.order
  PROVE  /\ Ordered(s) <=> Ordered(t)
         /\ Behind(s) <=> Behind(t)
         /\ Under(s) <=> Under(t)
         /\ \A k : Rebound(s, k) = Rebound(t, k)
  BY DEF Ordered, Behind, Under, Rebound

LEMMA MarkKeeps ==
  ASSUME RInv, Mark
  PROVE  RInv'
<1>1. /\ mover.pc = "check" /\ mover.next = 1 /\ mover # AtRest
      /\ txns' = [txns EXCEPT ![mover.txn].marked = TRUE] /\ mover' = [mover EXCEPT !.pc = "apply"]
      /\ UNCHANGED <<place, reg, held, trespass, moves>>
  BY DEF Mark, RInv, MoverAtWork, AtRest
<1>2. /\ mover.txn \in 1 .. Len(txns) /\ mover.txn = Len(txns) /\ txn \in Txn /\ ~txn.done
      /\ moves # 0 /\ \A w \in WriterKinds : held[w].state = "none"
      /\ txns \in Seq(Txn)
  BY <1>1, AtWork DEF RInv, RelocationTyped
<1>3. mover' = [pc |-> "apply", txn |-> mover.txn, next |-> 1]
  BY <1>1 DEF RInv, RelocationTyped
<1>4. PICK s \in Txn : s = [txn EXCEPT !.marked = TRUE] /\ s.before = txn.before /\ s.to = txn.to
                       /\ s.order = txn.order /\ s.done = txn.done
  <2>1. [txn EXCEPT !.marked = TRUE] \in Txn
    BY <1>2 DEF Txn
  <2> QED
    BY <1>2, <2>1 DEF Txn
<1>5. txns' = [txns EXCEPT ![mover.txn] = s]
  BY <1>1, <1>2, <1>4 DEF txn
<1>6. /\ txns' \in Seq(Txn) /\ Len(txns') = Len(txns) /\ txns'[mover.txn] = s
      /\ DOMAIN txns' = 1 .. Len(txns)
      /\ \A i \in 1 .. Len(txns) : txns'[i].before = txns[i].before /\ txns'[i].to = txns[i].to
                                  /\ txns'[i].order = txns[i].order /\ txns'[i].done = txns[i].done
  <2>1. txns' \in Seq(Txn) /\ Len(txns') = Len(txns) /\ txns'[mover.txn] = s
        /\ DOMAIN txns' = 1 .. Len(txns)
        /\ \A i \in 1 .. Len(txns) : i # mover.txn => txns'[i] = txns[i]
    BY <1>2, <1>5, OneReplaced
  <2> QED
    BY <1>4, <2>1 DEF txn
<1>7. RelocationTyped'
  BY <1>1, <1>2, <1>3, <1>4, <1>6 DEF RInv, RelocationTyped
<1>8. RemapJournal'
  <2>1. ASSUME NEW i \in 1 .. Len(txns)
        PROVE  /\ Ordered(txns'[i])
               /\ txns'[i].done => \A t : t = txns'[i] => Behind(t)
               /\ ~txns'[i].done => i = Len(txns) /\ \A t : t = txns'[i] => Under(t)
    <3>1. Ordered(txns[i]) /\ (txns[i].done => Behind(txns[i])) /\ (~txns[i].done => i = Len(txns) /\ Under(txns[i]))
      BY DEF RInv, RemapJournal
    <3> QED
      BY <1>6, <3>1, SamePlan
  <2>2. \A t : (Behind(t)' <=> Behind(t)) /\ (Under(t)' <=> Under(t)) /\ (Ordered(t)' <=> Ordered(t))
    BY <1>1 DEF Behind, Under, Ordered, Rebound
  <2>3. ASSUME NEW i \in 1 .. Len(txns')
        PROVE  Ordered(txns[i])' /\ (txns[i].done => Behind(txns[i]))'
               /\ (~txns[i].done => i = Len(txns) /\ Under(txns[i]))'
    <3>1. i \in 1 .. Len(txns)
      BY <1>6
    <3> QED
      BY <1>6, <2>1, <2>2, <3>1 DEF Behind, Under, Ordered, Rebound
  <2> QED
    BY <2>3 DEF RemapJournal
<1>9. MoverAtWork'
  BY <1>1, <1>2, <1>3, <1>6, <1>4 DEF MoverAtWork
<1>10. Unmoved' /\ Together'
  <2>1. mover.txn \in UnfinishedRemaps'
    BY <1>2, <1>4, <1>6 DEF UnfinishedRemaps
  <2> QED
    BY <1>1, <1>2, <2>1 DEF Unmoved, Together
<1> QED
  BY <1>7, <1>8, <1>9, <1>10 DEF RInv

\* The next registry is bound to the new path: when it is the main one, all others are.
LEMMA ReplaceKeeps ==
  ASSUME RInv, Replace
  PROVE  RInv'
<1>1. /\ mover.pc = "apply" /\ mover.next <= Len(txn.order) /\ Valid /\ mover # AtRest
      /\ reg' = [reg EXCEPT ![txn.order[mover.next]] = Rebound(txn, txn.order[mover.next])]
      /\ mover' = [mover EXCEPT !.next = @ + 1]
      /\ UNCHANGED <<place, held, txns, trespass, moves>>
  BY DEF Replace, AtRest
<1>2. PICK t \in Txn : t = txn
  BY <1>1, AtWork
<1>3. PICK n \in Nat \ {0} : n = mover.next
  BY <1>1, AtWork
<1>4. /\ mover.txn \in 1 .. Len(txns) /\ mover.txn = Len(txns) /\ ~t.done /\ Ordered(t) /\ Under(t)
      /\ moves # 0 /\ \A w \in WriterKinds : held[w].state = "none"
      /\ txns \in Seq(Txn) /\ reg \in [Kinds -> Registry]
  BY <1>1, <1>2, AtWork DEF RInv, RelocationTyped
<1>5. /\ t.order \in Seq(Kinds) /\ n \in 1 .. Len(t.order) /\ t.order[n] \in DOMAIN t.before
      /\ DOMAIN t.before \subseteq Kinds /\ "main" \in DOMAIN t.before
      /\ \A j \in 1 .. Len(t.order) : t.order[j] \in DOMAIN t.before
      /\ \A k \in DOMAIN t.before : \E j \in 1 .. Len(t.order) : t.order[j] = k
      /\ \A k \in DOMAIN t.before : t.before[k] \in Registry
  <2>1. n <= Len(t.order) /\ t.order \in Seq(Kinds)
    BY <1>1, <1>2, <1>3, <1>4, ReboundBy
  <2>2. n \in 1 .. Len(t.order)
    BY <1>3, <2>1
  <2> QED
    BY <1>4, <2>1, <2>2, ReboundBy
<1>6. PICK c \in Kinds : c = t.order[n]
  BY <1>5
<1>7. /\ reg' = [reg EXCEPT ![c] = Rebound(t, c)] /\ c \in DOMAIN t.before
  BY <1>1, <1>2, <1>3, <1>5, <1>6
<1>8. \A k \in DOMAIN t.before : /\ Rebound(t, k) \in Registry /\ Rebound(t, k).rev = t.before[k].rev + 1
                                /\ Rebound(t, k).rev > t.before[k].rev /\ t.before[k].rev \in Nat
  BY <1>4, ReboundBy
<1>9. /\ reg' \in [Kinds -> Registry] /\ reg'[c] = Rebound(t, c) /\ \A k \in Kinds : k # c => reg'[k] = reg[k]
      /\ \A k \in Kinds : reg'[k].rev >= reg[k].rev
  <2>1. reg' \in [Kinds -> Registry] /\ reg'[c] = Rebound(t, c) /\ \A k \in Kinds : k # c => reg'[k] = reg[k]
    BY <1>4, <1>7, <1>8
  <2>2. reg[c] = t.before[c] \/ reg[c] = Rebound(t, c)
    BY <1>4, <1>7 DEF Under
  <2>3. \A k \in Kinds : reg[k].rev \in Nat
    BY <1>4 DEF Registry
  <2> QED
    BY <1>7, <1>8, <2>1, <2>2, <2>3
<1>10. mover' = [pc |-> "apply", txn |-> mover.txn, next |-> n + 1]
  BY <1>1, <1>3 DEF RInv, RelocationTyped
<1>11. RelocationTyped'
  <2>1. mover'.next = n + 1 /\ n + 1 \in Nat \ {0} /\ mover'.txn = mover.txn /\ mover'.txn \in Nat
    BY <1>3, <1>4, <1>10
  <2>2. /\ mover' \in [pc : {"check", "apply"}, txn : Nat, next : Nat \ {0}]
        /\ mover'.txn = Len(txns) /\ Len(txns) # 0 /\ ~txns[mover'.txn].done
    BY <1>2, <1>4, <1>10, <2>1 DEF txn
  <2> QED
    BY <1>1, <1>9, <2>2 DEF RInv, RelocationTyped
<1>12. \A j \in 1 .. Len(t.order) : j < n + 1 => reg'[t.order[j]] = Rebound(t, t.order[j])
  <2>1. \A j \in 1 .. Len(t.order) : j < n => reg[t.order[j]] = Rebound(t, t.order[j])
    BY <1>1, <1>2, <1>3 DEF RInv, MoverAtWork
  <2>2. ASSUME NEW j \in 1 .. Len(t.order), j < n + 1
        PROVE  reg'[t.order[j]] = Rebound(t, t.order[j])
    <3>1. CASE t.order[j] = c
      BY <1>9, <3>1
    <3>2. CASE t.order[j] # c
      <4>1. j < n
        BY <1>3, <1>6, <2>2, <3>2
      <4>2. t.order[j] \in Kinds
        BY <1>5
      <4> QED
        BY <1>9, <2>1, <3>2, <4>1, <4>2
    <3> QED
      BY <3>1, <3>2
  <2> QED
    BY <2>2
<1>13. MoverAtWork'
  <2>1. txn' = t
    BY <1>1, <1>2, <1>10 DEF txn
  <2> QED
    <3>1. mover'.pc = "apply" /\ mover'.next = n + 1 /\ held' = held
      BY <1>1, <1>10
    <3>2. \A j \in 1 .. Len(txn'.order) : j < mover'.next => reg'[txn'.order[j]] = Rebound(txn, txn.order[j])'
      BY <1>12, <2>1, <3>1 DEF Rebound
    <3> QED
      BY <1>4, <3>1, <3>2 DEF MoverAtWork
<1>14. Under(t)'
  <2>1. \A k \in DOMAIN t.before : reg'[k] \in {t.before[k], Rebound(t, k)}
    BY <1>4, <1>5, <1>9 DEF Under
  <2>2. ASSUME reg'["main"] = Rebound(t, "main")
        PROVE  \A k \in DOMAIN t.before : reg'[k].rev > t.before[k].rev
    <3>1. CASE c = "main"
      <4>1. n = Len(t.order)
        BY <1>4, <1>5, <1>6, <3>1 DEF Ordered
      <4>2. \A j \in 1 .. Len(t.order) : reg'[t.order[j]] = Rebound(t, t.order[j])
        BY <1>5, <1>12, <4>1
      <4>3. \A k \in DOMAIN t.before : reg'[k] = Rebound(t, k)
        BY <1>5, <4>2
      <4> QED
        BY <1>8, <4>3
    <3>2. CASE c # "main"
      <4>1. Behind(t)
        BY <1>4, <1>5, <1>9, <2>2, <3>2 DEF Under
      <4>2. \A k \in DOMAIN t.before : reg[k].rev \in Nat /\ reg'[k].rev \in Nat
        BY <1>4, <1>5, <1>9 DEF Registry
      <4> QED
        BY <1>5, <1>8, <1>9, <4>1, <4>2 DEF Behind
    <3> QED
      BY <3>1, <3>2
  <2> QED
    BY <2>1, <2>2 DEF Under, Behind, Rebound
<1>15. RemapJournal'
  <2>1. ASSUME NEW s \in Txn, Ordered(s), Behind(s)
        PROVE  Behind(s)'
    <3>1. \A k \in DOMAIN s.before : /\ k \in Kinds /\ s.before[k].rev \in Nat
                                     /\ reg[k].rev \in Nat /\ reg'[k].rev \in Nat
      BY <1>4, <1>9 DEF Txn, Registry
    <3> QED
      BY <1>9, <2>1, <3>1 DEF Behind
  <2>2. ASSUME NEW i \in 1 .. Len(txns)
        PROVE  /\ Ordered(txns[i])
               /\ txns[i].done => Behind(txns[i])'
               /\ ~txns[i].done => i = Len(txns) /\ Under(txns[i])'
    <3>1. txns[i] \in Txn /\ Ordered(txns[i]) /\ (txns[i].done => Behind(txns[i])) /\ (~txns[i].done => i = Len(txns))
      BY <1>4 DEF RInv, RemapJournal
    <3>2. txns[i].done => Behind(txns[i])'
      BY <1>1, <2>1, <3>1 DEF Behind
    <3>3. ~txns[i].done => Under(txns[i])'
      <4>1. ~txns[i].done => txns[i] = t /\ txns'[i] = t
        BY <1>1, <1>2, <1>4, <3>1 DEF txn
      <4> QED
        BY <1>14, <4>1 DEF Under, Behind, Rebound
    <3> QED
      BY <3>1, <3>2, <3>3
  <2> QED
    <3>1. txns' = txns
      BY <1>1
    <3>2. \A i \in 1 .. Len(txns) : (Ordered(txns[i])' <=> Ordered(txns[i]))
      BY <3>1 DEF Ordered
    <3> QED
      BY <2>2, <3>1, <3>2 DEF RemapJournal
<1>16. Unmoved' /\ Together'
  <2>1. mover.txn \in UnfinishedRemaps'
    BY <1>1, <1>2, <1>4 DEF UnfinishedRemaps, txn
  <2> QED
    BY <1>1, <1>4, <2>1 DEF Unmoved, Together
<1> QED
  BY <1>11, <1>13, <1>15, <1>16 DEF RInv

\* The relocation reports completion: every registry there is was rebound.
LEMMA AllAreRebound ==
  ASSUME RInv, CompleteRemap
  PROVE  /\ \A k \in Present : reg[k] = Rebound(txn, k) /\ reg[k].at = txn.to
         /\ Behind(txn) /\ mover # AtRest
<1>1. /\ mover.pc = "apply" /\ mover.next > Len(txn.order) /\ Inventory = txn.order /\ mover # AtRest
  BY DEF CompleteRemap, Valid, AtRest
<1>2. PICK t \in Txn : t = txn /\ Ordered(t)
  BY <1>1, AtWork
<1>3. /\ t.order \in Seq(Kinds) /\ ToSet(t.order) = Present /\ DOMAIN t.before = Present
      /\ \A k \in Present : t.before[k] \in Registry
  BY <1>1, <1>2, Listing, ReboundBy DEF Ordered
<1>4. mover.next \in Nat
  BY <1>1, AtWork
<1>5. \A j \in 1 .. Len(t.order) : reg[t.order[j]] = Rebound(t, t.order[j])
  BY <1>1, <1>2, <1>3, <1>4 DEF RInv, MoverAtWork
<1>6. \A k \in Present : reg[k] = Rebound(t, k)
  BY <1>3, <1>5 DEF ToSet
<1>7. \A k \in Present : Rebound(t, k).at = t.to /\ Rebound(t, k).rev > t.before[k].rev
  BY <1>2, <1>3, ReboundBy
<1> QED
  BY <1>1, <1>2, <1>3, <1>6, <1>7 DEF Behind

LEMMA CompleteKeeps ==
  ASSUME RInv, CompleteRemap
  PROVE  RInv'
<1>1. /\ mover # AtRest /\ txns' = [txns EXCEPT ![mover.txn].done = TRUE] /\ mover' = AtRest
      /\ UNCHANGED <<place, reg, held, trespass, moves>>
  BY AllAreRebound DEF CompleteRemap
<1>2. /\ mover.txn \in 1 .. Len(txns) /\ mover.txn = Len(txns) /\ txn \in Txn
      /\ moves # 0 /\ \A w \in WriterKinds : held[w].state = "none"
      /\ txns \in Seq(Txn) /\ Behind(txn)
  BY <1>1, AtWork, AllAreRebound DEF RInv, RelocationTyped
<1>3. PICK s \in Txn : s = [txn EXCEPT !.done = TRUE] /\ s.before = txn.before /\ s.to = txn.to
                       /\ s.order = txn.order /\ s.done
  <2>1. [txn EXCEPT !.done = TRUE] \in Txn
    BY <1>2 DEF Txn
  <2> QED
    BY <1>2, <2>1 DEF Txn
<1>4. txns' = [txns EXCEPT ![mover.txn] = s]
  BY <1>1, <1>2, <1>3 DEF txn
<1>5. txns' \in Seq(Txn) /\ Len(txns') = Len(txns) /\ txns'[mover.txn] = s
      /\ DOMAIN txns' = 1 .. Len(txns)
      /\ \A i \in 1 .. Len(txns) : i # mover.txn => txns'[i] = txns[i]
  BY <1>2, <1>4, OneReplaced
<1>6. RelocationTyped'
  BY <1>1, <1>2, <1>5 DEF RInv, RelocationTyped
<1>7. RemapJournal'
  <2>1. Ordered(s) /\ Behind(s)
    BY <1>1, <1>2, <1>3, AtWork, SamePlan
  <2>2. \A i \in 1 .. Len(txns) : i # mover.txn => txns[i].done /\ Ordered(txns[i]) /\ Behind(txns[i])
    BY <1>2 DEF RInv, RemapJournal
  <2>3. \A i \in 1 .. Len(txns) : txns'[i].done /\ Ordered(txns'[i]) /\ Behind(txns'[i])
    BY <1>3, <1>5, <2>1, <2>2
  <2> QED
    BY <1>1, <1>5, <2>3 DEF RemapJournal, Ordered, Behind
<1>8. MoverAtWork' /\ Unmoved'
  BY <1>1, <1>2 DEF MoverAtWork, Unmoved, AtRest
<1>9. Together'
  BY <1>1, AllAreRebound DEF Together, Present
<1> QED
  BY <1>6, <1>7, <1>8, <1>9 DEF RInv

\* Every step keeps the invariant.
LEMMA RelocationKeeps ==
  ASSUME RelocationAssumption, RInv, [RelocationNext]_relocationVars
  PROVE  RInv'
<1>1. CASE \E k \in WriterKinds : Open(k) \/ PrepareUnder(k) \/ SettleBound(k)
  <2>1. PICK k \in WriterKinds : Open(k) \/ PrepareUnder(k) \/ SettleBound(k)
    BY <1>1
  <2>2. Open(k) => RInv'
    BY EnsureKeeps DEF Open, IdleAt, WriterKinds
  <2> QED
    BY <2>1, <2>2, PrepareKeeps, SettleKeeps
<1>2. CASE OpenBarrier
  BY <1>2, EnsureKeeps DEF OpenBarrier, Ensure, IdleAt, Kinds
<1>3. CASE ReconcileElsewhere
  BY <1>3, ReconcileElsewhereKeeps
<1>4. CASE Start
  BY <1>4, StartKeeps
<1>5. CASE Mark
  BY <1>5, MarkKeeps
<1>6. CASE Replace
  BY <1>6, ReplaceKeeps
<1>7. CASE CompleteRemap
  BY <1>7, CompleteKeeps
<1>8. CASE FailProof \/ Kill
  BY <1>8, EndKeeps DEF FailProof, Kill
<1>9. CASE \E p \in Places : Move(p)
  BY <1>9, MoveKeeps
<1>10. CASE UNCHANGED relocationVars
  <2>1. UNCHANGED <<place, reg, held, txns, mover, trespass, moves>>
    BY <1>10 DEF relocationVars
  <2>2. RelocationTyped' /\ Unmoved'
    BY <2>1 DEF RInv, RelocationTyped, Unmoved, Present
  <2>3. MoverAtWork'
    BY <2>1 DEF RInv, MoverAtWork, Rebound, txn
  <2> QED
    BY <2>1, <2>2, <2>3, LeftAlone DEF RInv
<1> QED
  BY <1>1, <1>2, <1>3, <1>4, <1>5, <1>6, <1>7, <1>8, <1>9, <1>10 DEF RelocationNext

\* A registry is only touched while no transaction is unsettled.
LEMMA BindsIdle ==
  ASSUME RInv, [RelocationNext]_relocationVars
  PROVE  \A k \in WriterKinds :
           held[k].state # "none" /\ held'[k].state # "none" => reg'[k] = reg[k] /\ reg'["ea"] = reg["ea"]
<1>1. SUFFICES ASSUME NEW w \in WriterKinds, held[w].state # "none"
               PROVE  reg' = reg
  OBVIOUS
<1>2. ~IdleAt("ea")
  BY <1>1 DEF IdleAt
<1>3. \A k \in WriterKinds : ~Open(k)
  BY <1>2 DEF Open
<1>4. ~OpenBarrier
  BY <1>2 DEF OpenBarrier, Ensure
<1>5. ~Replace
  BY <1>1, AtWork DEF Replace, AtRest
<1> QED
  BY <1>3, <1>4, <1>5 DEF RelocationNext, relocationVars, PrepareUnder, SettleBound, ReconcileElsewhere,
                          Start, Mark, CompleteRemap, FailProof, Kill, Move

\* Only CompleteRemap reports completion.
LEMMA ReportsAllRebound ==
  ASSUME RInv, [RelocationNext]_relocationVars
  PROVE  \A i \in DOMAIN txns : txns'[i].done /\ ~txns[i].done => \A k \in Present : reg[k].at = txns[i].to
<1>1. SUFFICES ASSUME NEW i \in DOMAIN txns, txns'[i].done, ~txns[i].done
               PROVE  \A k \in Present : reg[k].at = txns[i].to
  OBVIOUS
<1>2. i \in 1 .. Len(txns) /\ txns \in Seq(Txn) /\ i = Len(txns)
  BY <1>1 DEF RInv, RelocationTyped, RemapJournal
<1>3. CASE CompleteRemap
  BY <1>2, <1>3, AllAreRebound, AtWork DEF txn
<1>4. CASE Mark
  <2>1. mover.txn \in 1 .. Len(txns) /\ txns' = [txns EXCEPT ![mover.txn].marked = TRUE] /\ txn \in Txn
    BY <1>4, AtWork DEF Mark, AtRest
  <2>2. txns'[i] = [txns[i] EXCEPT !.marked = TRUE] \/ txns'[i] = txns[i]
    BY <1>2, <2>1
  <2>3. PICK t \in Txn : t = txns[i]
    BY <1>2
  <2>4. [t EXCEPT !.marked = TRUE].done = t.done
    BY DEF Txn
  <2> QED
    BY <1>1, <2>2, <2>3, <2>4
<1>5. CASE Start
  <2>1. txns' = txns \/ \E t : txns' = Append(txns, t)
    BY <1>5 DEF Start
  <2> QED
    BY <1>1, <1>2, <2>1
<1>6. CASE UNCHANGED txns
  BY <1>1, <1>6
<1> QED
  BY <1>3, <1>4, <1>5, <1>6 DEF RelocationNext, relocationVars, Open, OpenBarrier, Ensure, PrepareUnder, SettleBound, ReconcileElsewhere,
                                Replace, FailProof, Kill, Move

LEMMA MainIsLast ==
  ASSUME RInv
  PROVE  MainLast
<1>1. ASSUME NEW i \in DOMAIN txns, reg["main"] = Rebound(txns[i], "main")
      PROVE  Behind(txns[i])
  <2>1. i \in 1 .. Len(txns)
    BY DEF RInv, RelocationTyped
  <2> QED
    BY <1>1, <2>1 DEF RInv, RemapJournal, Under
<1> QED
  BY <1>1 DEF MainLast, Behind

\* No registry is rebound while a transaction that names it is unsettled; a relocation that
\* reports completion has rebound all, the main one last; and between relocations they are
\* bound together, wherever the process is killed and the tree is renamed
\* (root_registry.py, project_root_remap.py).
THEOREM RegistriesBindTogether == RelocationAssumption => (RelocationSpec => RebindsTogether)
<1> SUFFICES ASSUME RelocationAssumption
             PROVE  RelocationSpec => RebindsTogether
  OBVIOUS
<1>1. RelocationInit => RInv
  BY RelocationStarts
<1>2. RInv /\ [RelocationNext]_relocationVars => RInv'
  BY RelocationKeeps
<1>3. RInv /\ [RelocationNext]_relocationVars =>
        [\A k \in WriterKinds :
           held[k].state # "none" /\ held'[k].state # "none" => reg'[k] = reg[k] /\ reg'["ea"] = reg["ea"]]_relocationVars
  BY BindsIdle
<1>4. RInv /\ [RelocationNext]_relocationVars =>
        [\A i \in DOMAIN txns : txns'[i].done /\ ~txns[i].done => \A k \in Present : reg[k].at = txns[i].to]_relocationVars
  BY ReportsAllRebound
<1>5. RInv => MainLast /\ Together
  BY MainIsLast DEF RInv
<1> QED
  BY <1>1, <1>2, <1>3, <1>4, <1>5, PTL DEF RelocationSpec, RebindsTogether, PendingBound, AllRebound
=============================================================================
