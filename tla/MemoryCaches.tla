---------------------------- MODULE MemoryCaches ----------------------------
(***************************************************************************)
(* The Memory 2.2 event authority and its caches.  A generation run        *)
(* (core/engine/executor.py, core/memory_v2/runtime.py) appends one batch  *)
(* to the event store in a transaction that also rewrites the caches and   *)
(* the project identity, which pins the head of the events; a preflight    *)
(* and every run rebuild stale caches from the events first                *)
(* (core/memory_v2/recovery.py).  A run holds the authority fence, a       *)
(* preflight holds nothing.                                                *)
(*                                                                         *)
(* A history is the sequence of the chapters committed to it; a head hash, *)
(* a projection and each cache are the history they were made from.  Of    *)
(* Persistence V2 this module keeps the order of the targets, their        *)
(* compare-and-swap, the marker, the rollback and the publication.         *)
(***************************************************************************)
EXTENDS Integers, Sequences, SequencesExt, FiniteSets

CONSTANTS Runs,         \* processes of the command line that generate
          Preflights,   \* processes that only check the project
          Steps,        \* the chapters a run is asked for
          Interval,     \* a checkpoint every so many chapters
          MaxChapters, MaxCrashes, MaxLosses  \* bounds

CachesAssumption ==
    /\ {Steps, Interval} \subseteq Nat \ {0} /\ {MaxChapters, MaxCrashes, MaxLosses} \subseteq Nat
    /\ "nobody" \notin Runs \cup Preflights

VARIABLES files,      \* every file of the authority: the history it holds
          tx,         \* the transaction: its state, its base and its history
          fence,      \* who holds the authority fence
          pc, at,     \* where a process is, and at which target
          pinned,     \* the identity a process has read
          seen,       \* the history a process has replayed
          left,       \* the steps a run has left
          committed,  \* history variable: the chapters whose marker was written
          chapters, crashes, losses

vars == <<files, tx, fence, pc, at, pinned, seen, left, committed, chapters, crashes, losses>>
bounds == <<chapters, crashes, losses>>
Procs == Runs \cup Preflights

Lost == <<0>>     \* no history: chapters are numbered from 1
Nobody == "nobody"
Caches == {"canonical", "projections", "snapshot"}
Targets == <<"batch", "canonical", "checkpoint", "projections", "snapshot", "identity">>
NoTx == [state |-> "none", before |-> <<>>, after |-> <<>>]

Init ==
    /\ files = [f \in ToSet(Targets) |-> <<>>]
    /\ tx = NoTx /\ fence = Nobody
    /\ pc = [p \in Procs |-> "start"] /\ at = [p \in Procs |-> 0]
    /\ pinned = [p \in Procs |-> <<>>] /\ seen = [p \in Procs |-> <<>>]
    /\ left = [p \in Procs |-> Steps]
    /\ committed = <<>> /\ chapters = 0 /\ crashes = 0 /\ losses = 0

Goto(p, label) == pc' = [pc EXCEPT ![p] = label]
Release(p) == fence' = IF fence = p THEN Nobody ELSE fence

\* A process that fails gives up what it holds; it may be started again.
Fail(p) == /\ Goto(p, "start") /\ Release(p)
           /\ UNCHANGED <<files, tx, at, pinned, seen, left, committed, bounds>>

\* A replay with the newest checkpoint needs its anchor in the store.
Readable == IsPrefix(files["checkpoint"], files["batch"])

-----------------------------------------------------------------------------
(* The start of a command: a pending transaction is settled first, then the *)
(* identity is read, which the context loader keeps for all its steps.      *)

Pending == tx.state # "none"
Drifted == \E i \in DOMAIN Targets :
             files[Targets[i]] # (IF Targets[i] = "checkpoint" THEN tx.checkpoint ELSE tx.after)

Start(p) ==
    /\ pc[p] = "start" /\ ~(p \in Runs /\ Pending)
    /\ pinned' = [pinned EXCEPT ![p] = files["identity"]]
    /\ left' = [left EXCEPT ![p] = Steps]
    /\ Goto(p, IF p \in Runs THEN "enter" ELSE "validate")
    /\ UNCHANGED <<files, tx, fence, at, seen, committed, bounds>>

StartPending(p) ==
    /\ pc[p] = "start" /\ p \in Runs /\ Pending /\ fence = Nobody
    /\ fence' = p
    /\ Goto(p, IF tx.state = "marked" THEN "publish" ELSE "undo")
    /\ at' = [at EXCEPT ![p] = Len(Targets)]
    /\ left' = [left EXCEPT ![p] = 1]
    /\ UNCHANGED <<files, tx, pinned, seen, committed, bounds>>

Enter(p) ==
    /\ pc[p] = "enter" /\ fence = Nobody
    /\ IF Pending THEN Fail(p)
       ELSE /\ fence' = p /\ Goto(p, "validate")
            /\ UNCHANGED <<files, tx, at, pinned, seen, left, committed, bounds>>

-----------------------------------------------------------------------------
(* ensure_event_authority_caches                                            *)

Authorised(p) == Readable /\ files["batch"] = pinned[p]

Validate(p) ==
    /\ pc[p] = "validate"
    /\ IF Authorised(p)
       THEN /\ seen' = [seen EXCEPT ![p] = files["batch"]]
            /\ Goto(p, "verify")
            /\ UNCHANGED <<files, tx, fence, at, pinned, left, committed, bounds>>
       ELSE Fail(p)

Ensured(p) == IF p \in Runs THEN "prepare" ELSE "start"

\* Mutant: the snapshot is not looked at.
VerifySome(p) ==
    /\ pc[p] = "verify"
    /\ Goto(p, IF files["canonical"] = seen[p] /\ files["projections"] = seen[p]
               THEN Ensured(p) ELSE "rebuild")
    /\ UNCHANGED <<files, tx, fence, at, pinned, seen, left, committed, bounds>>

Verify(p) ==
    /\ pc[p] = "verify"
    /\ Goto(p, IF \A c \in Caches : files[c] = seen[p] THEN Ensured(p) ELSE "rebuild")
    /\ UNCHANGED <<files, tx, fence, at, pinned, seen, left, committed, bounds>>

\* The rebuild validates the events once more and then writes what it has validated.
Rebuild(p) ==
    /\ pc[p] = "rebuild"
    /\ IF Authorised(p)
       THEN /\ seen' = [seen EXCEPT ![p] = files["batch"]]
            /\ Goto(p, "canonical")
            /\ UNCHANGED <<files, tx, fence, at, pinned, left, committed, bounds>>
       ELSE Fail(p)

RebuildOrder == <<"canonical", "projections", "snapshot", "confirm">>
RebuildCache(p) ==
    \E i \in 1..3 :
      /\ pc[p] = RebuildOrder[i]
      /\ files' = [files EXCEPT ![RebuildOrder[i]] = seen[p]]
      /\ Goto(p, RebuildOrder[i + 1])
      /\ UNCHANGED <<tx, fence, at, pinned, seen, left, committed, bounds>>

Confirm(p) ==
    /\ pc[p] = "confirm"
    /\ IF files["canonical"] = seen[p] /\ files["projections"] = seen[p]
       THEN Goto(p, Ensured(p)) /\ UNCHANGED <<files, tx, fence, at, pinned, seen, left, committed, bounds>>
       ELSE Fail(p)

-----------------------------------------------------------------------------
(* A run: it prepares a chapter on the verified base and applies its        *)
(* targets.  Beyond the bound the generation fails.                         *)

Prepare(p) ==
    /\ pc[p] = "prepare"
    /\ IF /\ chapters < MaxChapters /\ Readable /\ files["canonical"] = files["batch"]
          /\ files["batch"] = files["identity"]
       THEN LET after == Append(files["batch"], chapters + 1) IN
            /\ chapters' = chapters + 1
            /\ tx' = [state |-> "applying", before |-> files, after |-> after,
                      checkpoint |-> IF Len(after) % Interval = 0 THEN after ELSE files["checkpoint"]]
            /\ Goto(p, "apply") /\ at' = [at EXCEPT ![p] = 1]
            /\ UNCHANGED <<files, fence, pinned, seen, left, committed, crashes, losses>>
       ELSE Fail(p)

After(target) == IF target = "checkpoint" THEN tx.checkpoint ELSE tx.after

RollBack(p) == /\ Goto(p, "undo") /\ at' = [at EXCEPT ![p] = Len(Targets)]
               /\ UNCHANGED <<files, tx, fence, pinned, seen, left, committed, bounds>>

Apply(p) ==
    /\ pc[p] = "apply"
    /\ LET target == Targets[at[p]] IN
       IF files[target] # tx.before[target] THEN RollBack(p)
       ELSE /\ files' = [files EXCEPT ![target] = After(target)]
            /\ at' = [at EXCEPT ![p] = @ + 1]
            /\ Goto(p, IF at[p] = Len(Targets) THEN "mark" ELSE "apply")
            /\ UNCHANGED <<tx, fence, pinned, seen, left, committed, bounds>>

Mark(p) ==
    /\ pc[p] = "mark"
    /\ IF Drifted THEN RollBack(p)
       ELSE /\ tx' = [tx EXCEPT !.state = "marked"]
            /\ committed' = tx.after
            /\ Goto(p, "publish")
            /\ UNCHANGED <<files, fence, at, pinned, seen, left, bounds>>

\* complete_publication: a target that no longer holds what was committed stops it.
Publish(p) ==
    /\ pc[p] = "publish"
    /\ IF Drifted THEN Fail(p)
       ELSE /\ tx' = NoTx /\ Release(p)
            /\ left' = [left EXCEPT ![p] = @ - 1]
            /\ Goto(p, IF left[p] > 1 THEN "enter" ELSE "start")
            /\ UNCHANGED <<files, at, pinned, seen, committed, bounds>>

\* Mutant: the first target is left as it is.
UndoLater(p) ==
    /\ pc[p] = "undo"
    /\ LET target == Targets[at[p]] IN
       /\ files' = IF at[p] > 1 /\ files[target] = After(target)
                   THEN [files EXCEPT ![target] = tx.before[target]] ELSE files
       /\ at' = [at EXCEPT ![p] = @ - 1]
       /\ IF at[p] > 1 THEN UNCHANGED <<pc, tx, fence>>
          ELSE tx' = NoTx /\ Goto(p, "start") /\ Release(p)
    /\ UNCHANGED <<pinned, seen, left, committed, bounds>>

\* _rollback_pre_marker: in reverse order; a target that holds neither image is left and the
\* transaction stays pending.
Undo(p) ==
    /\ pc[p] = "undo"
    /\ LET target == Targets[at[p]] IN
       /\ files' = IF files[target] = After(target)
                   THEN [files EXCEPT ![target] = tx.before[target]] ELSE files
       /\ at' = [at EXCEPT ![p] = @ - 1]
       /\ IF at[p] > 1 THEN UNCHANGED <<pc, tx, fence>>
          ELSE /\ tx' = IF files'= tx.before THEN NoTx ELSE tx
               /\ Goto(p, "start") /\ Release(p)
    /\ UNCHANGED <<pinned, seen, left, committed, bounds>>

-----------------------------------------------------------------------------
Crash(p) ==
    /\ pc[p] # "start" /\ crashes < MaxCrashes
    /\ crashes' = crashes + 1
    /\ Goto(p, "start") /\ Release(p)
    /\ UNCHANGED <<files, tx, at, pinned, seen, left, committed, chapters, losses>>

\* Somebody deletes a cache.
Lose ==
    /\ losses < MaxLosses
    /\ losses' = losses + 1
    /\ \E c \in Caches : files' = [files EXCEPT ![c] = Lost]
    /\ UNCHANGED <<tx, fence, pc, at, pinned, seen, left, committed, chapters, crashes>>

Step(p) == \/ Start(p) \/ StartPending(p) \/ Enter(p)
           \/ Validate(p) \/ Verify(p) \/ Rebuild(p) \/ RebuildCache(p) \/ Confirm(p)
           \/ Prepare(p) \/ Apply(p) \/ Mark(p) \/ Publish(p) \/ Undo(p)
Next == Lose \/ \E p \in Procs : Step(p) \/ Crash(p)
Spec == Init /\ [][Next]_vars
\* A command that was started goes on, and a command is started again and again.
FairSpec == Spec /\ \A p \in Procs : WF_vars(Step(p))

-----------------------------------------------------------------------------
(* Properties.                                                             *)

Histories == {h \in UNION {[1..n -> 1..MaxChapters] : n \in 0..MaxChapters} :
                \A i, j \in DOMAIN h : i < j => h[i] < h[j]}

\* Type invariant.
TypeOK ==
    /\ files \in [ToSet(Targets) -> Histories \cup {Lost}]
    /\ tx.state \in {"none", "applying", "marked"}
    /\ fence \in Runs \cup {Nobody}
    /\ committed \in Histories
    /\ \A p \in Procs : at[p] \in 0..(Len(Targets) + 1) /\ left[p] \in 0..Steps

\* Whatever is lost, rebuilt, rolled back or crashed: once no transaction is pending the events
\* and the identity that pins them are exactly the committed chapters, each once and in order,
\* and the checkpoint is an earlier state of them (commit order of executor.py, recovery.py).
AuthorityHolds ==
    tx.state = "none" =>
        /\ files["batch"] = committed /\ files["identity"] = committed
        /\ IsPrefix(files["checkpoint"], committed)

\* Every marker adds exactly one chapter to what was committed, however many runs, stale rebuilds
\* and rollbacks there are (compare-and-swap of the targets, identity pinned before the fence).
OneChapterPerMarker ==
    [][committed' # committed => Len(committed') = Len(committed) + 1 /\ IsPrefix(committed, committed')]_vars

\* A transaction that was begun is published or undone, and a cache that is lost is rebuilt, since
\* "only canonical/projection/runtime-snapshot cache failures are recoverable" (recovery.py).
TxSettles == Pending ~> ~Pending

\* A cache that holds neither the image before the transaction nor the one after it, or not the
\* latter once the marker is there: it was lost, or somebody without the fence rebuilt it.
Harmed ==
    Pending /\ \E c \in Caches :
        files[c] \notin {tx.after} \cup (IF tx.state = "marked" THEN {} ELSE {tx.before[c]})

\* Nothing but a harmed cache holds a transaction up for ever: no crash, no other run, no preflight
\* that rebuilds what it reads, and never the events, the checkpoint or the identity.
HeldUpByCacheOnly == []<>~Pending \/ <>[]Harmed

\* A lost cache is rebuilt by the next command unless it was lost to a transaction
\* (ensure_event_authority_caches).
CachesHeal == \A c \in Caches : []<>(files[c] # Lost) \/ <>[]Harmed

\* A run asked for several chapters commits them all when nothing crashes, nothing is lost and
\* nobody else is there (the loop of main.py).
LoopKeepsUp ==
    [][\A p \in Runs : pc[p] # "start" /\ pc'[p] = "start" /\ chapters < MaxChapters => left'[p] = 0]_vars
=============================================================================
