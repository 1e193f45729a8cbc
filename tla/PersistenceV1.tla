--------------------------- MODULE PersistenceV1 ---------------------------
(***************************************************************************)
(* The legacy local transaction (core/engine/persistence.py), the chapter  *)
(* run that commits through it (executor.py:_persist_accepted_result), the *)
(* loop that makes several runs, and the command that reconciles and       *)
(* publishes (main.py).                                                    *)
(*                                                                         *)
(* A run holds the run-directory lock from the reconciliation it starts    *)
(* with to its record.  A check, a manifest write, a replaced target, the  *)
(* marker, the delivery to memory and the run record are steps of their    *)
(* own; each file operation may fail before or after its effect, the       *)
(* directory's fsync included.  Somebody else may edit a target or a       *)
(* source file at any time, also between a check and the write it guards.  *)
(*                                                                         *)
(* A content is the number of who wrote it: a run, or after those an edit; *)
(* so is the version of the sources.                                       *)
(***************************************************************************)
EXTENDS Integers, Sequences, FiniteSets, SequencesExt

CONSTANTS
    Procs,          \* processes: loops of runs, and reconcile commands
    Targets,        \* number of files a run rewrites
    Steps,          \* --steps of a loop
    Writer,         \* memory writer: "file", "notion" or "none"
    MaxRuns, MaxEdits, MaxFaults, MaxCrashes    \* bounds

Outcomes == {"ok", "before", "after"}

V1Assumption ==
    /\ Targets \in Nat \ {0} /\ Steps \in Nat \ {0} /\ Writer \in {"file", "notion", "none"}
    /\ {MaxRuns, MaxEdits, MaxFaults, MaxCrashes} \subseteq Nat

Transactions == 1 .. MaxRuns
Files == 1 .. Targets
None == 0

VARIABLES
    file,     \* the content of each target
    source,   \* the version of the read-only sources
    disk,     \* each run's manifest.json, NoManifest before
    marker,   \* runs with a commit.marker
    records,  \* run records in the order they were written: run, status
    outbox,   \* runs whose memory updates were delivered
    lock,     \* the process holding the run lock, or "free"
    proc,     \* what each process does
    owner,    \* history: the process that started each run
    edited,   \* history: the last content an editor put into each target
    raced,    \* history: edits that fell between a run's check and the write it guards
    edits, faults, crashes   \* history: counts

vars == <<file, source, disk, marker, records, outbox, lock, proc, owner,
          edited, raced, edits, faults, crashes>>
world == <<file, source>>
counts == <<edited, raced, edits, crashes>>

NoManifest == [state |-> "none"]
Idle == [pc |-> "idle", task |-> "none", run |-> None, i |-> None, m |-> NoManifest, back |-> "run",
         todo |-> {}, blocked |-> FALSE, known |-> {}, claimed |-> {}, step |-> 0, how |-> "ok"]

Status(r) == LET mine == SelectSeq(records, LAMBDA e : e.run = r)
             IN IF mine = <<>> THEN "none" ELSE mine[1].status
Recorded == {records[k].run : k \in DOMAIN records}
Save(r, status) ==
    records' = Append(SelectSeq(records, LAMBDA e : e.run # r), [run |-> r, status |-> status])

\* A file operation ends well, or raises before or after its effect.
Ends == IF faults < MaxFaults THEN Outcomes ELSE {"ok"}
Counted(o) == faults' = IF o = "ok" THEN faults ELSE faults + 1
Written(r, m, o) == disk' = IF o = "before" THEN disk ELSE [disk EXCEPT ![r] = m]

At(p, pc) == [proc[p] EXCEPT !.pc = pc]
Go(p, s) == proc' = [proc EXCEPT ![p] = s]
Raises(p) == Go(p, [At(p, "end") EXCEPT !.how = "raised"])
Failed(p) == Go(p, At(p, "record_failed"))

NoDrift(m) == FALSE

SourceDrift(m) == source # m.read
AllAfter(r) == \A t \in Files : file[t] = r

-----------------------------------------------------------------------------
(* The loop, the lock and the reconciliation every run starts with.        *)

\* A loop step notes the records it knows before it takes the lock; a reconcile command
\* only takes it (in the place of a loop that stopped, too).
BeginStep(p) ==
    /\ proc[p].pc = "idle" /\ proc[p].step < Steps
    /\ Go(p, [At(p, "wait") EXCEPT !.task = "run", !.step = @ + 1, !.known = Recorded])
    /\ UNCHANGED <<world, disk, marker, records, outbox, lock, owner, faults, counts>>

BeginReconcile(p) ==
    /\ proc[p].pc \in {"idle", "stopped"}
    /\ Go(p, [At(p, "wait") EXCEPT !.task = "reconcile"])
    /\ UNCHANGED <<world, disk, marker, records, outbox, lock, owner, faults, counts>>

TakeLock(p) ==
    /\ proc[p].pc = "wait" /\ lock = "free"
    /\ lock' = p
    /\ Go(p, [At(p, "reconcile") EXCEPT !.blocked = FALSE, !.how = "ok",
                                        !.todo = {r \in Transactions : disk[r] # NoManifest}])
    /\ UNCHANGED <<world, disk, marker, records, outbox, owner, faults, counts>>

Terminal(r) ==
    \/ disk[r].state = "rolled_back" /\ r \notin marker
    \/ disk[r].state = "completed" /\ r \in marker

Oldest(runs) == CHOOSE r \in runs : \A s \in runs : r <= s

\* reconcile_persistence_transaction of a journal with a marker: every target must hold
\* what the run wrote.
Reconciled(p, r, o) ==
    LET state == IF AllAfter(r) THEN "commit_marked" ELSE "recovery_required"
        done == state = "commit_marked" /\ o = "ok"
    IN /\ Written(r, [disk[r] EXCEPT !.state = state], o)
       /\ Go(p, [proc[p] EXCEPT !.todo = @ \ {r}, !.blocked = TRUE, !.run = r,
                                !.m = [disk[r] EXCEPT !.state = state],
                                !.pc = IF done /\ proc[p].task = "reconcile"
                                       THEN "publish" ELSE "reconcile"])

Reconcile(p) ==
    /\ proc[p].pc = "reconcile"
    /\ LET open == {r \in proc[p].todo : ~Terminal(r)}
           r == Oldest(open)
       IN \/ /\ open # {} /\ r \in marker
             /\ \E o \in Ends : Counted(o) /\ Reconciled(p, r, o)
          \/ /\ open # {} /\ r \notin marker
             /\ Go(p, [At(p, "roll_back") EXCEPT !.run = r, !.m = disk[r], !.back = "reconcile",
                                                 !.todo = @ \ {r}])
             /\ UNCHANGED <<disk, faults>>
          \/ /\ open = {}
             /\ IF proc[p].task = "reconcile" THEN Go(p, At(p, "end"))
                ELSE IF proc[p].blocked THEN Raises(p)
                ELSE Go(p, At(p, "generate"))
             /\ UNCHANGED <<disk, faults>>
    /\ UNCHANGED <<world, marker, records, outbox, lock, owner, counts>>

-----------------------------------------------------------------------------
(* A run.                                                                  *)

Unused == {r \in Transactions : owner[r] = "none"}

\* The context and the generation: the run reads the targets and the sources.
Generate(p) ==
    /\ proc[p].pc = "generate" /\ Unused # {}
    /\ LET r == Oldest(Unused) IN
         /\ owner' = [owner EXCEPT ![r] = p]
         /\ Go(p, [At(p, "prepare") EXCEPT !.run = r,
                     !.m = [state |-> "preparing", status |-> [t \in Files |-> "planned"],
                            before |-> file, read |-> source]])
    /\ UNCHANGED <<world, disk, marker, records, outbox, lock, faults, counts>>

\* The context cannot be loaded (nor any run's beyond MaxRuns): nothing is recorded.
ContextFails(p) ==
    /\ proc[p].pc = "generate"
    /\ IF Unused = {} THEN UNCHANGED faults ELSE faults < MaxFaults /\ faults' = faults + 1
    /\ Raises(p)
    /\ UNCHANGED <<world, disk, marker, records, outbox, lock, owner, counts>>

\* An action fails, and the failed run is recorded.
GenerateFails(p) ==
    /\ proc[p].pc = "prepare" /\ faults < MaxFaults
    /\ faults' = faults + 1
    /\ Save(proc[p].run, "failed") /\ Raises(p)
    /\ UNCHANGED <<world, disk, marker, outbox, lock, owner, counts>>

Prepare(p) ==
    LET m == proc[p].m IN
    /\ proc[p].pc = "prepare"
    /\ IF SourceDrift(m) \/ file # m.before THEN Failed(p) /\ UNCHANGED <<disk, faults>>
       ELSE \E o \in Ends :
              /\ Counted(o) /\ Written(proc[p].run, m, o)
              /\ IF o = "ok" THEN Go(p, At(p, "stage")) ELSE Failed(p)
    /\ UNCHANGED <<world, marker, records, outbox, lock, owner, counts>>

\* Candidate, staged and backup files, then the manifest is prepared.
Stage(p) ==
    LET m == [proc[p].m EXCEPT !.state = "prepared", !.status = [t \in Files |-> "prepared"]]
        r == proc[p].run
    IN /\ proc[p].pc = "stage"
       /\ \E o \in Ends :
            /\ Counted(o)
            /\ disk' = [disk EXCEPT ![r] = IF o = "ok" THEN m ELSE [m EXCEPT !.state = "rolled_back"]]
            /\ IF o = "ok" THEN Go(p, [At(p, "pre_apply") EXCEPT !.m = m]) ELSE Failed(p)
       /\ UNCHANGED <<world, marker, records, outbox, lock, owner, counts>>

\* commit() raises before it applies anything; the journal stays prepared.
PreApply(p) ==
    LET m == [proc[p].m EXCEPT !.state = "applying"] IN
    /\ proc[p].pc = "pre_apply"
    /\ IF SourceDrift(m) THEN Failed(p) /\ UNCHANGED <<disk, faults>>
       ELSE \E o \in Ends :
              /\ Counted(o) /\ Written(proc[p].run, m, o)
              /\ IF o = "ok" THEN Go(p, [At(p, "apply") EXCEPT !.m = m, !.i = 1]) ELSE Failed(p)
    /\ UNCHANGED <<world, marker, records, outbox, lock, owner, counts>>

Undo(p, m) == Go(p, [At(p, "roll_back") EXCEPT !.m = m, !.back = "run"])

\* Source and target are as they were read, and the manifest says that the target is next.
Apply(p) ==
    LET t == proc[p].i
        m == [proc[p].m EXCEPT !.status[t] = "applying"]
    IN /\ proc[p].pc = "apply"
       /\ IF SourceDrift(m) \/ file[t] # m.before[t]
          THEN Undo(p, proc[p].m) /\ UNCHANGED <<disk, faults>>
          ELSE \E o \in Ends :
                 /\ Counted(o) /\ Written(proc[p].run, m, o)
                 /\ IF o = "ok" THEN Go(p, [At(p, "check") EXCEPT !.m = m]) ELSE Undo(p, m)
       /\ UNCHANGED <<world, marker, records, outbox, lock, owner, counts>>

\* Both are looked at again, just before the rename.
CheckReplace(p) ==
    LET t == proc[p].i
        m == proc[p].m
    IN /\ proc[p].pc = "check"
       /\ IF SourceDrift(m) \/ file[t] # m.before[t] THEN Undo(p, m) ELSE Go(p, At(p, "replace"))
       /\ UNCHANGED <<world, disk, marker, records, outbox, lock, owner, faults, counts>>

Replace(p) ==
    LET t == proc[p].i IN
    /\ proc[p].pc = "replace"
    /\ \E o \in Ends :
         /\ Counted(o)
         /\ file' = IF o = "before" THEN file ELSE [file EXCEPT ![t] = proc[p].run]
         /\ IF o = "ok" THEN Go(p, At(p, "verify")) ELSE Undo(p, proc[p].m)
    /\ UNCHANGED <<source, disk, marker, records, outbox, lock, owner, counts>>

Verify(p) ==
    LET t == proc[p].i
        m == [proc[p].m EXCEPT !.status[t] = "verified"]
    IN /\ proc[p].pc = "verify"
       /\ IF file[t] # proc[p].run THEN Undo(p, proc[p].m) /\ UNCHANGED <<disk, faults>>
          ELSE \E o \in Ends :
                 /\ Counted(o) /\ Written(proc[p].run, m, o)
                 /\ IF o # "ok" THEN Undo(p, m)
                    ELSE IF t < Targets THEN Go(p, [At(p, "apply") EXCEPT !.m = m, !.i = t + 1])
                    ELSE Go(p, [At(p, "check_all") EXCEPT !.m = m])
       /\ UNCHANGED <<world, marker, records, outbox, lock, owner, counts>>

\* The sources and every target are checked once more.
CheckAll(p) ==
    /\ proc[p].pc = "check_all"
    /\ IF SourceDrift(proc[p].m) \/ ~AllAfter(proc[p].run) THEN Undo(p, proc[p].m)
       ELSE Go(p, At(p, "mark"))
    /\ UNCHANGED <<world, disk, marker, records, outbox, lock, owner, faults, counts>>

\* When creating the marker raises, the transaction is rolled back, be the marker there
\* or not.
Mark(p) ==
    LET r == proc[p].run IN
    /\ proc[p].pc = "mark"
    /\ \E o \in Ends :
         /\ Counted(o)
         /\ marker' = IF o = "before" THEN marker ELSE marker \cup {r}
         /\ IF o = "ok" THEN Go(p, At(p, "marked")) ELSE Undo(p, proc[p].m)
    /\ UNCHANGED <<world, disk, records, outbox, lock, owner, counts>>

Marked(p) ==
    LET m == [proc[p].m EXCEPT !.state = "commit_marked"] IN
    /\ proc[p].pc = "marked"
    /\ \E o \in Ends : Counted(o) /\ Written(proc[p].run, m, o)
    /\ Go(p, [At(p, "deliver") EXCEPT !.m = m])
    /\ UNCHANGED <<world, marker, records, outbox, lock, owner, counts>>

-----------------------------------------------------------------------------
(* Rollback, in the run that failed and in a reconciliation.               *)

RollBack(p) ==
    LET m == [proc[p].m EXCEPT !.state = "rolling_back"] IN
    /\ proc[p].pc = "roll_back"
    /\ \E o \in Ends : Counted(o) /\ Written(proc[p].run, m, o)
    /\ Go(p, [At(p, "undo") EXCEPT !.m = m, !.i = Targets])
    /\ UNCHANGED <<world, marker, records, outbox, lock, owner, counts>>

\* The target's fate is noted, and the one before it is next.
Noted(p, status) ==
    LET t == proc[p].i IN
    Go(p, [proc[p] EXCEPT !.m.status[t] = status, !.i = t - 1,
                          !.pc = IF t = 1 THEN "undone" ELSE "undo"])

\* One target, last first: restored only if it still holds what the run wrote; another
\* content is kept, and is a failure once the run had begun to replace the target.
CheckRestore(p) ==
    LET t == proc[p].i
        m == proc[p].m
        r == proc[p].run
    IN /\ proc[p].pc = "undo"
       /\ IF file[t] = m.before[t] \/ (file[t] # r /\ m.status[t] \in {"planned", "prepared"})
          THEN Noted(p, "rolled_back")
          ELSE IF file[t] # r THEN Noted(p, "rollback_failed")
          ELSE Go(p, At(p, "restore"))
       /\ UNCHANGED <<world, disk, marker, records, outbox, lock, owner, faults, counts>>

Restore(p) ==
    LET t == proc[p].i IN
    /\ proc[p].pc = "restore"
    /\ \E o \in Ends :
         /\ Counted(o)
         /\ file' = IF o = "before" THEN file ELSE [file EXCEPT ![t] = proc[p].m.before[t]]
         /\ IF o = "ok" THEN Go(p, At(p, "restored")) ELSE Noted(p, "rollback_failed")
    /\ UNCHANGED <<source, disk, marker, records, outbox, lock, owner, counts>>

VerifyRestored(p) ==
    LET t == proc[p].i IN
    /\ proc[p].pc = "restored"
    /\ Noted(p, IF file[t] = proc[p].m.before[t] THEN "rolled_back" ELSE "rollback_failed")
    /\ UNCHANGED <<world, disk, marker, records, outbox, lock, owner, faults, counts>>

\* The result of a run's own rollback counts as committed when its marker is there.
Undone(p) ==
    LET r == proc[p].run
        clean == \A t \in Files : proc[p].m.status[t] = "rolled_back"
    IN /\ proc[p].pc = "undone"
       /\ \E o \in Ends :
            LET state == IF clean /\ o = "ok" THEN "rolled_back" ELSE "recovery_required"
                m == [proc[p].m EXCEPT !.state = state]
            IN /\ Counted(o) /\ disk' = [disk EXCEPT ![r] = m]
               /\ IF proc[p].back = "reconcile"
                  THEN Go(p, [At(p, "reconcile") EXCEPT
                               !.blocked = @ \/ state = "recovery_required"])
                  ELSE IF r \in marker THEN Go(p, [At(p, "deliver") EXCEPT !.m = m])
                  ELSE Go(p, [At(p, "record_failed") EXCEPT !.m = m])
       /\ UNCHANGED <<world, marker, records, outbox, lock, owner, counts>>

-----------------------------------------------------------------------------
(* Publication.                                                            *)

RecordFailed(p) ==
    /\ proc[p].pc = "record_failed"
    /\ Save(proc[p].run, "failed")
    /\ Go(p, [At(p, "end") EXCEPT !.how = "failed"])
    /\ UNCHANGED <<world, disk, marker, outbox, lock, owner, faults, counts>>

Delivered(r, o) ==
    outbox' = IF Writer # "none" /\ o # "before" THEN outbox \cup {r} ELSE outbox

\* The memory updates: the file outbox skips what it holds.  When the file cannot be
\* written the publication stays pending; a remote failure is recorded and passed over.
Deliver(p) ==
    LET r == proc[p].run IN
    /\ proc[p].pc = "deliver"
    /\ \E o \in Ends :
         /\ Counted(o)
         /\ Delivered(r, o)
         /\ IF Writer = "file" /\ o # "ok" THEN Go(p, [At(p, "end") EXCEPT !.how = "failed"])
            ELSE Go(p, At(p, "record"))
    /\ UNCHANGED <<world, disk, marker, records, lock, owner, counts>>

Record(p) ==
    /\ proc[p].pc = "record"
    /\ \E o \in Ends :
         /\ Counted(o)
         /\ IF o = "before" THEN UNCHANGED records ELSE Save(proc[p].run, "committed")
         /\ IF o = "ok" THEN Go(p, At(p, "complete")) ELSE Raises(p)
    /\ UNCHANGED <<world, disk, marker, outbox, lock, owner, counts>>

\* complete_publication, of the run or of a reconciliation that published.
Complete(p) ==
    LET r == proc[p].run
        m == [proc[p].m EXCEPT !.state = "completed"]
        next == IF proc[p].task = "reconcile" THEN "reconcile" ELSE "end"
    IN /\ proc[p].pc = "complete"
       /\ IF r \notin marker \/ proc[p].m.state # "commit_marked"
          THEN Raises(p) /\ UNCHANGED <<disk, faults>>
          ELSE \E o \in Ends :
                 /\ Counted(o) /\ Written(r, m, o)
                 /\ IF o = "ok" \/ next = "reconcile" THEN Go(p, At(p, next)) ELSE Raises(p)
       /\ UNCHANGED <<world, marker, records, outbox, lock, owner, counts>>

\* The reconcile command publishes a committed candidate that has no record; an external
\* memory delivery cannot be repeated and stops it.
Publish(p) ==
    LET r == proc[p].run IN
    /\ proc[p].pc = "publish"
    /\ \/ /\ Status(r) = "committed"
          /\ Go(p, At(p, "complete")) /\ UNCHANGED <<outbox, faults>>
       \/ /\ Status(r) = "failed" \/ (Status(r) = "none" /\ Writer = "notion")
          /\ Go(p, At(p, "reconcile")) /\ UNCHANGED <<outbox, faults>>
       \/ /\ Status(r) = "none" /\ Writer # "notion"
          /\ \E o \in Ends :
               /\ Counted(o)
               /\ Delivered(r, o)
               /\ Go(p, At(p, IF o = "ok" THEN "create_record" ELSE "reconcile"))
    /\ UNCHANGED <<world, disk, marker, records, lock, owner, counts>>

CreateRecord(p) ==
    /\ proc[p].pc = "create_record"
    /\ \E o \in Ends :
         /\ Counted(o)
         /\ IF o = "before" THEN UNCHANGED records ELSE Save(proc[p].run, "committed")
         /\ Go(p, At(p, IF o = "ok" THEN "complete" ELSE "reconcile"))
    /\ UNCHANGED <<world, disk, marker, outbox, lock, owner, counts>>

\* The lock is released; a run that raised then looks for the record it left.
End(p) ==
    LET s == proc[p]
        stop == [Idle EXCEPT !.pc = "stopped", !.claimed = s.claimed]
    IN /\ s.pc = "end"
       /\ lock' = "free"
       /\ Go(p, CASE s.task = "reconcile" -> [Idle EXCEPT !.step = s.step, !.claimed = s.claimed]
                  [] s.how = "raised" -> [s EXCEPT !.pc = "claim"]
                  [] s.how = "failed" -> [stop EXCEPT !.claimed = @ \cup {s.run}]
                  [] OTHER -> [Idle EXCEPT !.step = s.step, !.claimed = s.claimed \cup {s.run}])
       /\ UNCHANGED <<world, disk, marker, records, outbox, owner, faults, counts>>

\* The newest record the step did not know becomes the failed step's run.
ClaimRecord(p) ==
    LET new == SelectSeq(records, LAMBDA e : e.run \notin proc[p].known)
        found == IF new = <<>> THEN {} ELSE {new[Len(new)].run}
    IN /\ proc[p].pc = "claim"
       /\ Go(p, [Idle EXCEPT !.pc = "stopped", !.claimed = proc[p].claimed \cup found])
       /\ UNCHANGED <<world, disk, marker, records, outbox, lock, owner, faults, counts>>

-----------------------------------------------------------------------------
(* The others.                                                             *)

Crash(p) ==
    /\ proc[p].pc \notin {"idle", "stopped"} /\ crashes < MaxCrashes
    /\ Go(p, [Idle EXCEPT !.step = proc[p].step, !.claimed = proc[p].claimed])
    /\ lock' = IF lock = p THEN "free" ELSE lock
    /\ crashes' = crashes + 1
    /\ UNCHANGED <<world, disk, marker, records, outbox, owner, faults, edited, raced, edits>>

\* The runs whose process has checked and not written yet.
Between(pcs, i) == {proc[p].run : p \in {q \in Procs : proc[q].pc \in pcs /\ i \in {0, proc[q].i}}}

EditTarget(t) ==
    /\ edits < MaxEdits
    /\ edits' = edits + 1
    /\ file' = [file EXCEPT ![t] = MaxRuns + edits'] /\ edited' = [edited EXCEPT ![t] = MaxRuns + edits']
    /\ raced' = raced \cup (Between({"replace", "restore"}, t) \X {MaxRuns + edits'})
    /\ UNCHANGED <<source, disk, marker, records, outbox, lock, proc, owner, faults, crashes>>

EditSource ==
    /\ edits < MaxEdits
    /\ edits' = edits + 1 /\ source' = MaxRuns + edits'
    /\ raced' = raced \cup (Between({"mark"}, 0) \X {MaxRuns + edits'})
    /\ UNCHANGED <<file, disk, marker, records, outbox, lock, proc, owner, edited, faults, crashes>>

Step(p) ==
    \/ Reconcile(p) \/ Generate(p) \/ ContextFails(p) \/ GenerateFails(p)
    \/ Prepare(p) \/ Stage(p) \/ PreApply(p) \/ Apply(p) \/ CheckReplace(p) \/ Replace(p) \/ Verify(p)
    \/ CheckAll(p) \/ Mark(p) \/ Marked(p) \/ RollBack(p) \/ CheckRestore(p) \/ Restore(p)
    \/ VerifyRestored(p) \/ Undone(p) \/ RecordFailed(p) \/ Deliver(p)
    \/ Record(p) \/ Complete(p) \/ Publish(p) \/ CreateRecord(p) \/ End(p) \/ ClaimRecord(p)

Init ==
    /\ file = [t \in Files |-> None] /\ source = 0
    /\ disk = [r \in Transactions |-> NoManifest] /\ marker = {} /\ records = <<>>
    /\ outbox = {} /\ lock = "free"
    /\ proc = [p \in Procs |-> Idle] /\ owner = [r \in Transactions |-> "none"]
    /\ edited = file /\ raced = {} /\ edits = 0 /\ faults = 0 /\ crashes = 0

Next == \/ \E p \in Procs : \/ BeginStep(p) \/ BeginReconcile(p) \/ TakeLock(p)
                            \/ Step(p) \/ Crash(p)
        \/ \E t \in Files : EditTarget(t)
        \/ EditSource

Spec == Init /\ [][Next]_vars

\* A process that runs goes on, and somebody keeps giving the reconcile command.
FairSpec ==
    /\ Spec
    /\ \A p \in Procs : WF_vars(Step(p)) /\ SF_vars(TakeLock(p)) /\ WF_vars(BeginReconcile(p))
-----------------------------------------------------------------------------
(* Properties.                                                             *)

TypeOK ==
    /\ file \in [Files -> 0 .. MaxRuns + MaxEdits] /\ source \in Nat
    /\ marker \subseteq Transactions /\ outbox \subseteq Transactions
    /\ lock \in Procs \cup {"free"} /\ Recorded \subseteq Transactions
    /\ \A r \in Transactions : disk[r].state \in {"none", "preparing", "prepared", "applying", "commit_marked",
                                         "rolling_back", "rolled_back", "recovery_required", "completed"}
    /\ \A p \in Procs : proc[p].run \in Transactions \cup {None} /\ proc[p].claimed \subseteq Transactions

Settled == lock = "free" /\ \A r \in Transactions : disk[r].state = "none" \/ Terminal(r)

\* When every journal is settled the targets hold together the last committed run, whatever
\* failed or crashed on the way.
AllOrNothing ==
    (Settled /\ edits = 0) =>
        \A t \in Files : file[t] = IF marker = {} THEN None ELSE CHOOSE r \in marker : \A s \in marker : s <= r

\* No run reads what a transaction wrote that did not commit, although that transaction's
\* process may have died between two of its targets.
BuiltOnCommitted ==
    \A r \in Transactions : disk[r].state # "none" =>
        \A t \in Files : disk[r].before[t] \in marker \/ disk[r].before[t] \notin Transactions

\* The sources a run was generated from are still the ones there when its marker appears,
\* although no target rewrites them and nothing else would notice; or else they changed
\* between the check that is made last and the marker.
CommittedFromReadSources ==
    [][\A r \in marker' \ marker : source = disk[r].read \/ <<r, source>> \in raced]_vars

\* What an editor last put into a target is there once everything is settled, or a committed
\* run had it as its base, or it was written between a check and its rename: no other
\* replacement and no other rollback loses it.
EditsKept ==
    Settled => \A t \in Files : edited[t] = None \/ file[t] = edited[t]
                               \/ \E r \in Transactions :
                                      \/ <<r, edited[t]>> \in raced
                                      \/ r \in marker /\ disk[r].before[t] = edited[t]

\* A completed journal has its committed record and its memory updates, and no record says
\* "committed" without a marker or "failed" with one.
RecordsTruthful ==
    \A r \in Transactions :
        /\ Status(r) = "committed" => r \in marker
        /\ Status(r) = "failed" => r \notin marker
        /\ disk[r].state = "completed" =>
             Status(r) = "committed" /\ (Writer = "file" => r \in outbox)

\* A transaction with its marker is completed, by its own process or by a reconciliation.
MarkedIsCompleted == \A r \in Transactions : r \in marker ~> disk[r].state = "completed"

\* A settled journal says what its marker says: a transaction with a marker is never rolled
\* back (docstring of LocalPersistenceTransaction).
MarkerAuthoritative == \A r \in marker : disk[r].state \notin {"rolling_back", "rolled_back"}

\* A failing step reports no run but its own (docs/architecture.md).
ClaimsOwn == \A p \in Procs : \A r \in proc[p].claimed : owner[r] = p
=============================================================================
