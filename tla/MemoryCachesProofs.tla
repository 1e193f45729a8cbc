------------------------- MODULE MemoryCachesProofs -------------------------
(***************************************************************************)
(* Proofs about MemoryCaches, for any runs, preflights and bounds: once no *)
(* transaction is pending the events and the identity are the committed    *)
(* chapters, and each marker adds one chapter to them.                     *)
(*                                                                         *)
(* Preflights rebuild caches without the fence, and caches may be lost at  *)
(* any time.  The invariant says what keeps them out of the authority: a   *)
(* process moves a transaction only while it holds the fence, the base of  *)
(* a transaction is what is committed, and it ends only when every target  *)
(* is the one image or the other.                                          *)
(***************************************************************************)
EXTENDS MemoryCaches, TLAPS

TargetFiles == ToSet(Targets)

\* Where a process may be, and what it holds there.
Moving == {"apply", "mark", "undo"}
Placed(p) ==
    /\ p \notin Runs => pc[p] \notin Moving \cup {"enter", "prepare", "publish"}
    /\ p \in Runs /\ pc[p] \notin {"start", "enter"} =>
           /\ fence = p
           /\ pc[p] \in Moving => tx.state = "applying"
           /\ pc[p] = "publish" => tx.state = "marked"
           /\ pc[p] \notin Moving \cup {"publish"} => tx.state = "none"

\* The transaction was begun on what is committed, and adds a chapter to it.
OnCommitted ==
    /\ tx = [state |-> "applying", before |-> tx.before, after |-> tx.after, checkpoint |-> tx.checkpoint]
    /\ tx.before["batch"] = committed /\ tx.before["identity"] = committed
    /\ IsPrefix(tx.before["checkpoint"], committed)
    /\ \E c \in Nat : tx.after = Append(committed, c)
    /\ tx.checkpoint \in {tx.after, tx.before["checkpoint"]}

CInv ==
    /\ CachesAssumption
    /\ files = [f \in TargetFiles |-> files[f]] /\ pc = [p \in Procs |-> pc[p]]
    /\ committed \in Seq(Nat) /\ chapters \in Nat
    /\ AuthorityHolds
    /\ tx.state \in {"none", "applying", "marked"}
    /\ tx.state = "applying" => OnCommitted
    /\ tx.state = "marked" => tx.after = committed /\ IsPrefix(tx.checkpoint, committed)
    /\ \A p \in Procs : Placed(p)

-----------------------------------------------------------------------------

LEMMA TheTargets ==
  /\ TargetFiles = {"batch", "canonical", "checkpoint", "projections", "snapshot", "identity"}
  /\ DOMAIN Targets = 1..6
  /\ Targets[1] = "batch" /\ Targets[3] = "checkpoint" /\ Targets[6] = "identity"
  BY DEF TargetFiles, Targets, ToSet

LEMMA PrefixOfItself ==
  ASSUME NEW h \in Seq(Nat)
  PROVE  IsPrefix(<<>>, h) /\ IsPrefix(h, h)
  BY DEF IsPrefix

LEMMA PrefixOfMore ==
  ASSUME NEW h \in Seq(Nat), NEW c \in Nat
  PROVE  /\ Append(h, c) \in Seq(Nat) /\ Len(Append(h, c)) = Len(h) + 1
         /\ IsPrefix(h, Append(h, c))
         /\ \A g : IsPrefix(g, h) /\ Len(g) \in Nat => IsPrefix(g, Append(h, c))
  BY DEF IsPrefix

\* A step of p leaves the others where they may be, since who moves a transaction has the fence.
LEMMA OthersStay ==
  ASSUME CInv, NEW p \in Procs, NEW label, Goto(p, label),
         (tx' = tx /\ fence' = fence) \/ fence \in {p, Nobody},
         Placed(p)'
  PROVE  pc' = [q \in Procs |-> pc'[q]] /\ \A q \in Procs : Placed(q)'
<1>1. pc'[p] = label /\ pc' = [q \in Procs |-> pc'[q]] /\ \A q \in Procs \ {p} : pc'[q] = pc[q]
  BY DEF CInv, Goto
<1>2. ASSUME NEW q \in Procs, q # p PROVE Placed(q)'
  <2>1. Placed(q) /\ pc'[q] = pc[q] /\ q # Nobody
    BY <1>1, <1>2 DEF CInv, CachesAssumption, Nobody, Procs
  <2> QED
    BY <2>1, <1>2 DEF Placed
<1> QED
  BY <1>1, <1>2

\* A step that leaves the authority alone.
LEMMA AloneStep ==
  ASSUME CInv, NEW p \in Procs, NEW label, Goto(p, label),
         tx' = tx, committed' = committed, chapters' = chapters,
         fence' = fence \/ fence \in {p, Nobody}, Placed(p)',
         \/ files' = files
         \/ \E c \in Caches : \E h : files' = [files EXCEPT ![c] = h]
  PROVE  CInv'
<1>1. pc' = [q \in Procs |-> pc'[q]] /\ \A q \in Procs : Placed(q)'
  BY OthersStay
<1>2. /\ files' = [f \in TargetFiles |-> files'[f]]
      /\ files'["batch"] = files["batch"] /\ files'["identity"] = files["identity"]
      /\ files'["checkpoint"] = files["checkpoint"]
  <2>1. CASE files' = files
    BY <2>1 DEF CInv
  <2>2. ASSUME NEW c \in Caches, NEW h, files' = [files EXCEPT ![c] = h]
        PROVE  <1>2!1 /\ <1>2!2 /\ <1>2!3
    BY <2>2, TheTargets DEF CInv, Caches
  <2> QED
    BY <2>1, <2>2
<1> QED
  BY <1>1, <1>2 DEF CInv, AuthorityHolds, OnCommitted

LEMMA FailStep ==
  ASSUME CInv, NEW p \in Procs, Goto(p, "start"), Release(p),
         files' = files, tx' = tx, committed' = committed, chapters' = chapters
  PROVE  CInv'
<1>1. pc'[p] = "start"
  BY DEF Goto, CInv
<1>2. Placed(p)' /\ (fence' = fence \/ fence = p)
  BY <1>1 DEF Placed, Release, Moving
<1> QED
  BY <1>2, AloneStep

LEMMA StartStep ==
  ASSUME CInv, NEW p \in Procs, Start(p) \/ StartPending(p) \/ Enter(p)
  PROVE  CInv'
<1>1. CASE Start(p)
  <2> DEFINE label == IF p \in Runs THEN "enter" ELSE "validate"
  <2>1. Goto(p, label) /\ UNCHANGED <<files, tx, fence, committed, chapters>>
    BY <1>1 DEF Start, bounds
  <2>2. Placed(p)'
    BY <2>1 DEF Placed, Moving, CInv, Goto
  <2> QED
    BY <2>1, <2>2, AloneStep
<1>2. CASE StartPending(p)
  <2> DEFINE label == IF tx.state = "marked" THEN "publish" ELSE "undo"
  <2>1. /\ Goto(p, label) /\ UNCHANGED <<files, tx, committed, chapters>> /\ fence = Nobody /\ fence' = p
        /\ tx.state # "none"
    BY <1>2 DEF StartPending, bounds, Pending
  <2>2. tx.state \in {"none", "applying", "marked"}
    BY DEF CInv
  <2>3. Placed(p)'
    BY <1>2, <2>1, <2>2 DEF Placed, Moving, CInv, Goto, StartPending
  <2> QED
    BY <2>1, <2>3, AloneStep
<1>3. CASE Enter(p)
  <2>1. CASE Pending
    BY <1>3, <2>1, FailStep DEF Enter, Fail, bounds
  <2>2. CASE ~Pending
    <3>1. Goto(p, "validate") /\ UNCHANGED <<files, tx, committed, chapters>> /\ fence = Nobody /\ fence' = p
      BY <1>3, <2>2 DEF Enter, bounds
    <3>2. Placed(p)'
      BY <2>2, <3>1 DEF Placed, Moving, CInv, Goto, Pending
    <3> QED
      BY <3>1, <3>2, AloneStep
  <2> QED
    BY <2>1, <2>2
<1> QED
  BY <1>1, <1>2, <1>3

\* Validating, rebuilding and confirming the caches: nobody has a transaction that is not p's.
LEMMA CacheStep ==
  ASSUME CInv, NEW p \in Procs,
         Validate(p) \/ Verify(p) \/ Rebuild(p) \/ RebuildCache(p) \/ Confirm(p)
  PROVE  CInv'
<1> DEFINE Here == {"validate", "verify", "rebuild", "canonical", "projections", "snapshot", "confirm"}
<1>1. ASSUME NEW label \in Here \cup {"start"} \cup (IF p \in Runs THEN {"prepare"} ELSE {}), Goto(p, label), pc[p] \in Here,
             UNCHANGED <<tx, fence, committed, chapters>>
      PROVE  Placed(p)'
  <2>1. pc'[p] = label /\ Placed(p)
    BY <1>1 DEF CInv, Goto
  <2> QED
    BY <1>1, <2>1 DEF Placed, Moving
<1>2. CASE Fail(p)
  BY <1>2, FailStep DEF Fail, bounds
<1>3. Ensured(p) \in {"start"} \cup (IF p \in Runs THEN {"prepare"} ELSE {})
  BY DEF Ensured
<1>4. CASE RebuildCache(p)
  <2>1. PICK i \in 1..3 : /\ pc[p] = RebuildOrder[i]
                          /\ files' = [files EXCEPT ![RebuildOrder[i]] = seen[p]]
                          /\ Goto(p, RebuildOrder[i + 1])
                          /\ UNCHANGED <<tx, fence, committed, chapters>>
    BY <1>4 DEF RebuildCache, bounds
  <2>2. RebuildOrder[i] \in Caches /\ RebuildOrder[i] \in Here /\ RebuildOrder[i + 1] \in Here
    BY DEF RebuildOrder, Caches
  <2>3. Placed(p)'
    BY <1>1, <2>1, <2>2
  <2>4. \E c \in Caches : \E h : files' = [files EXCEPT ![c] = h]
    BY <2>1, <2>2
  <2> QED
    BY <2>1, <2>3, <2>4, AloneStep
<1>5. CASE ~Fail(p) /\ ~RebuildCache(p)
  <2>1. PICK label \in Here \cup {Ensured(p)} :
           Goto(p, label) /\ pc[p] \in Here /\ UNCHANGED <<files, tx, fence, committed, chapters>>
    BY <1>5 DEF Validate, Verify, Rebuild, Confirm, bounds
  <2>2. Placed(p)'
    BY <1>1, <1>3, <2>1
  <2> QED
    BY <2>1, <2>2, AloneStep
<1> QED
  BY <1>2, <1>4, <1>5

LEMMA PrepareStep ==
  ASSUME CInv, NEW p \in Procs, Prepare(p)
  PROVE  CInv'
<1> DEFINE after == Append(files["batch"], chapters + 1)
<1>1. pc[p] = "prepare" /\ p \in Runs /\ fence = p /\ tx.state = "none"
  BY DEF Prepare, CInv, Placed, Moving
<1>2. CASE Fail(p)
  BY <1>2, FailStep DEF Fail, bounds
<1>3. CASE ~Fail(p)
  <2>1. /\ chapters' = chapters + 1 /\ Goto(p, "apply") /\ UNCHANGED <<files, fence, committed>>
        /\ tx' = [state |-> "applying", before |-> files, after |-> after,
                  checkpoint |-> IF Len(after) % Interval = 0 THEN after ELSE files["checkpoint"]]
    BY <1>3 DEF Prepare
  <2>2. OnCommitted'
    <3>1. files["batch"] = committed /\ files["identity"] = committed /\ IsPrefix(files["checkpoint"], committed)
      BY <1>1 DEF CInv, AuthorityHolds
    <3>2. chapters + 1 \in Nat
      BY DEF CInv
    <3>3. tx'.after = Append(committed, chapters + 1)
      BY <2>1, <3>1
    <3>4. tx'.before = files /\ tx'.checkpoint \in {tx'.after, files["checkpoint"]} /\ committed' = committed
      BY <2>1
    <3>5. tx' = [state |-> "applying", before |-> tx'.before, after |-> tx'.after, checkpoint |-> tx'.checkpoint]
      BY <2>1
    <3> QED
      BY <3>1, <3>2, <3>3, <3>4, <3>5 DEF OnCommitted
  <2>3. Placed(p)'
    BY <1>1, <2>1 DEF Placed, Moving, CInv, Goto
  <2>4. pc' = [q \in Procs |-> pc'[q]] /\ \A q \in Procs : Placed(q)'
    BY <1>1, <2>1, <2>3, OthersStay
  <2> QED
    BY <2>1, <2>2, <2>4 DEF CInv, AuthorityHolds
<1> QED
  BY <1>2, <1>3

\* A step of the transaction that leaves it where it was.
LEMMA ApplyingStep ==
  ASSUME CInv, NEW p \in Procs, pc[p] \in Moving,
         NEW label \in Moving \cup {"start"}, Goto(p, label),
         tx' = tx, committed' = committed, chapters' = chapters,
         fence' = fence \/ label = "start",
         files' = files \/ \E c, h : files' = [files EXCEPT ![c] = h]
  PROVE  CInv'
<1>1. p \in Runs /\ fence = p /\ tx.state = "applying" /\ pc'[p] = label
  BY DEF CInv, Placed, Moving, Goto
<1>2. Placed(p)'
  BY <1>1 DEF Placed, Moving
<1>3. pc' = [q \in Procs |-> pc'[q]] /\ \A q \in Procs : Placed(q)'
  BY <1>1, <1>2, OthersStay
<1>4. files' = [f \in TargetFiles |-> files'[f]]
  BY DEF CInv
<1> QED
  BY <1>1, <1>3, <1>4 DEF CInv, AuthorityHolds, OnCommitted

LEMMA ApplyStep ==
  ASSUME CInv, NEW p \in Procs, Apply(p)
  PROVE  CInv'
<1>1. PICK label \in Moving :
         /\ pc[p] \in Moving /\ Goto(p, label) /\ UNCHANGED <<tx, fence, committed, chapters>>
         /\ files' = files \/ \E c, h : files' = [files EXCEPT ![c] = h]
  <2> DEFINE target == Targets[at[p]]
  <2>1. CASE files[target] # tx.before[target]
    BY <2>1 DEF Apply, RollBack, Moving, bounds
  <2>2. CASE files[target] = tx.before[target]
    <3>1. files' = [files EXCEPT ![target] = After(target)]
      BY <2>2 DEF Apply
    <3> QED
      BY <2>2, <3>1 DEF Apply, Moving, bounds
  <2> QED
    BY <2>1, <2>2
<1> QED
  BY <1>1, ApplyingStep

\* The marker is written on every target of the transaction, which is then what is committed.
LEMMA MarkStep ==
  ASSUME CInv, NEW p \in Procs, Mark(p)
  PROVE  CInv' /\ (committed' # committed =>
                     Len(committed') = Len(committed) + 1 /\ IsPrefix(committed, committed'))
<1>1. pc[p] = "mark" /\ p \in Runs /\ fence = p /\ tx.state = "applying" /\ OnCommitted
  BY DEF Mark, CInv, Placed, Moving
<1>2. CASE Drifted
  <2>1. Goto(p, "undo") /\ UNCHANGED <<files, tx, fence, committed, chapters>>
    BY <1>2 DEF Mark, RollBack, bounds
  <2> QED
    BY <1>1, <2>1, ApplyingStep DEF Moving
<1>3. CASE ~Drifted
  <2>1. /\ tx' = [tx EXCEPT !.state = "marked"] /\ committed' = tx.after /\ Goto(p, "publish")
        /\ UNCHANGED <<files, fence, chapters>>
    BY <1>3 DEF Mark, bounds
  <2>2. PICK c \in Nat : tx.after = Append(committed, c)
    BY <1>1 DEF OnCommitted
  <2>3. /\ committed' \in Seq(Nat) /\ Len(committed') = Len(committed) + 1 /\ IsPrefix(committed, committed')
        /\ IsPrefix(tx.before["checkpoint"], committed') /\ IsPrefix(committed', committed')
    <3>1. Len(tx.before["checkpoint"]) \in Nat
      BY <1>1 DEF OnCommitted, IsPrefix
    <3>2. committed \in Seq(Nat) /\ IsPrefix(tx.before["checkpoint"], committed) /\ committed' = Append(committed, c)
      BY <1>1, <2>1, <2>2 DEF CInv, OnCommitted
    <3> QED
      BY <3>1, <3>2, PrefixOfMore, PrefixOfItself
  <2>4. tx'.state = "marked" /\ tx'.after = committed' /\ IsPrefix(tx'.checkpoint, committed')
    BY <1>1, <2>1, <2>3 DEF OnCommitted
  <2>5. Placed(p)'
    BY <1>1, <2>1, <2>4 DEF Placed, Moving, CInv, Goto
  <2>6. pc' = [q \in Procs |-> pc'[q]] /\ \A q \in Procs : Placed(q)'
    BY <1>1, <2>1, <2>5, OthersStay
  <2> QED
    BY <2>1, <2>3, <2>4, <2>6 DEF CInv, AuthorityHolds
<1> QED
  BY <1>2, <1>3

LEMMA PublishStep ==
  ASSUME CInv, NEW p \in Procs, Publish(p)
  PROVE  CInv'
<1>1. pc[p] = "publish" /\ p \in Runs /\ fence = p /\ tx.state = "marked"
  BY DEF Publish, CInv, Placed, Moving
<1>2. CASE Drifted
  BY <1>2, FailStep DEF Publish, Fail, bounds
<1>3. CASE ~Drifted
  <2> DEFINE label == IF left[p] > 1 THEN "enter" ELSE "start"
  <2>1. tx' = NoTx /\ Goto(p, label) /\ UNCHANGED <<files, committed, chapters>>
    BY <1>3 DEF Publish, bounds
  <2>2. files["batch"] = tx.after /\ files["checkpoint"] = tx.checkpoint /\ files["identity"] = tx.after
    BY <1>3, TheTargets DEF Drifted
  <2>3. AuthorityHolds'
    BY <1>1, <2>1, <2>2 DEF AuthorityHolds, CInv
  <2>4. Placed(p)'
    BY <1>1, <2>1 DEF Placed, Moving, CInv, Goto
  <2>5. pc' = [q \in Procs |-> pc'[q]] /\ \A q \in Procs : Placed(q)'
    BY <1>1, <2>1, <2>4, OthersStay
  <2> QED
    BY <2>1, <2>3, <2>5 DEF CInv, NoTx
<1> QED
  BY <1>2, <1>3

\* A transaction is given up only when every file is as it was.
LEMMA UndoStep ==
  ASSUME CInv, NEW p \in Procs, Undo(p)
  PROVE  CInv'
<1> DEFINE target == Targets[at[p]]
<1>1. pc[p] = "undo" /\ p \in Runs /\ fence = p /\ tx.state = "applying" /\ OnCommitted
  BY DEF Undo, CInv, Placed, Moving
<1>2. /\ files' = IF files[target] = After(target) THEN [files EXCEPT ![target] = tx.before[target]] ELSE files
      /\ committed' = committed /\ chapters' = chapters
  BY DEF Undo, bounds
<1>3. files' = files \/ \E c, h : files' = [files EXCEPT ![c] = h]
  BY <1>2
<1>4. CASE at[p] > 1
  <2>1. Goto(p, "undo") /\ UNCHANGED <<tx, fence>>
    BY <1>1, <1>4 DEF Undo, Goto, CInv
  <2> QED
    BY <1>1, <1>2, <1>3, <2>1, ApplyingStep DEF Moving
<1>5. CASE ~(at[p] > 1) /\ files' # tx.before
  <2>1. Goto(p, "start") /\ tx' = tx
    BY <1>5 DEF Undo
  <2> QED
    BY <1>1, <1>2, <1>3, <2>1, ApplyingStep DEF Moving
<1>6. CASE ~(at[p] > 1) /\ files' = tx.before
  <2>1. Goto(p, "start") /\ tx' = NoTx
    BY <1>6 DEF Undo
  <2>2. AuthorityHolds'
    BY <1>1, <1>2, <1>6, <2>1 DEF AuthorityHolds, OnCommitted
  <2>3. Placed(p)'
    BY <2>1 DEF Placed, Moving, CInv, Goto
  <2>4. pc' = [q \in Procs |-> pc'[q]] /\ \A q \in Procs : Placed(q)'
    BY <1>1, <2>1, <2>3, OthersStay
  <2>5. files' = [f \in TargetFiles |-> files'[f]]
    BY <1>3 DEF CInv
  <2> QED
    BY <1>2, <2>1, <2>2, <2>4, <2>5 DEF CInv, NoTx
<1> QED
  BY <1>4, <1>5, <1>6

LEMMA LoseStep ==
  ASSUME CInv, Lose
  PROVE  CInv'
<1>1. PICK c \in Caches : files' = [files EXCEPT ![c] = Lost]
  BY DEF Lose
<1>2. UNCHANGED <<tx, fence, pc, committed, chapters>>
  BY DEF Lose
<1>3. /\ files' = [f \in TargetFiles |-> files'[f]]
      /\ files'["batch"] = files["batch"] /\ files'["identity"] = files["identity"]
      /\ files'["checkpoint"] = files["checkpoint"]
  BY <1>1, TheTargets DEF CInv, Caches
<1> QED
  BY <1>2, <1>3 DEF CInv, AuthorityHolds, OnCommitted, Placed

LEMMA CachesNext ==
  ASSUME CInv, [Next]_vars
  PROVE  /\ CInv'
         /\ committed' # committed => Len(committed') = Len(committed) + 1 /\ IsPrefix(committed, committed')
<1>1. CASE UNCHANGED vars
  BY <1>1 DEF vars, bounds, CInv, AuthorityHolds, OnCommitted, Placed
<1>2. CASE Lose
  BY <1>2, LoseStep DEF Lose
<1>3. ASSUME NEW p \in Procs, Crash(p) PROVE CInv' /\ committed' = committed
  BY <1>3, FailStep DEF Crash
<1>4. ASSUME NEW p \in Procs, Step(p), ~Mark(p) PROVE CInv' /\ committed' = committed
  <2>1. CInv'
    BY <1>4, StartStep, CacheStep, PrepareStep, ApplyStep, PublishStep, UndoStep DEF Step
  <2>2. committed' = committed
    BY <1>4 DEF Step, Start, StartPending, Enter, Validate, Verify, Rebuild, RebuildCache, Confirm, Prepare, Apply,
       RollBack, Publish, Undo, Fail
  <2> QED
    BY <2>1, <2>2
<1> QED
  BY <1>1, <1>2, <1>3, <1>4, MarkStep DEF Next

LEMMA CachesInit == CachesAssumption /\ Init => CInv
<1> SUFFICES ASSUME CachesAssumption, Init PROVE CInv
  OBVIOUS
<1>1. <<>> \in Seq(Nat)
  OBVIOUS
<1>3. IsPrefix(<<>>, <<>>)
  BY <1>1, PrefixOfItself
<1>2. files = [f \in TargetFiles |-> <<>>] /\ "batch" \in TargetFiles /\ "identity" \in TargetFiles
      /\ "checkpoint" \in TargetFiles
  BY TheTargets DEF Init, TargetFiles
<1> QED
  BY <1>1, <1>2, <1>3 DEF Init, CInv, AuthorityHolds, NoTx, Placed, Moving

\* Whatever is lost, rebuilt, rolled back or crashed: once no transaction is pending the events and
\* the identity that pins them are exactly the committed chapters, and the checkpoint is an earlier
\* state of them (executor.py, recovery.py).
THEOREM AuthorityIsCommitted == CachesAssumption /\ Spec => []AuthorityHolds
<1>1. CInv => AuthorityHolds
  BY DEF CInv
<1>2. CInv /\ [Next]_vars => CInv'
  BY CachesNext
<1> QED
  BY <1>1, <1>2, CachesInit, PTL DEF Spec

\* Every marker adds exactly one chapter to what was committed, however many runs, stale rebuilds and
\* rollbacks there are (compare-and-swap of the targets, identity pinned before the fence).
THEOREM OneChapterEach == CachesAssumption /\ Spec => OneChapterPerMarker
<1>1. CInv /\ [Next]_vars => CInv'
  BY CachesNext
<1>2. CInv /\ [Next]_vars =>
          [committed' # committed => Len(committed') = Len(committed) + 1 /\ IsPrefix(committed, committed')]_vars
  BY CachesNext
<1> QED
  BY <1>1, <1>2, CachesInit, PTL DEF Spec, OneChapterPerMarker
=============================================================================
