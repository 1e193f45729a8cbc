-------------------------- MODULE AuthorityBarrier --------------------------
(***************************************************************************)
(* The StoryProject-global barrier of core/story_project/                  *)
(* authority_persistence.py around PersistenceV2: a chapter run (executor  *)
(* _invoke_once) owns one writer lock from before it reads the books until *)
(* its commit is settled, and before it starts it reconciles every run     *)
(* whose global entry is pending or recovery_required.  An operator's      *)
(* --reconcile-persistence takes only the local lock.                      *)
(***************************************************************************)
EXTENDS PersistenceV2, FiniteSets

VARIABLES
    global,   \* the barrier's registry: the entries of each run
    gate      \* the writer's pass over the unsettled entries

barrierVars == <<vars, global, gate>>

Unsettled == {"pending", "recovery_required"}
Settled == {"completed", "rolled_back", "abandoned"}

NoGate == [entries |-> {}, entry |-> <<NoRun, "pending">>, blocked |-> FALSE]

BarrierInit ==
    /\ Init
    /\ global = [r \in Runs |-> {}]
    /\ gate = NoGate

\* A step of the writer on the barrier's own files.
Advance(a, rec, g) ==
    /\ Become(a, rec)
    /\ gate' = g
    /\ UNCHANGED <<file, disk, global, spent>>

Leave(a) == Advance(a, Idle, NoGate)

\* The writer lock is exclusive and non-blocking, and held until Leave.
Enter(a) ==
    /\ At(a, "idle") /\ \A b \in Writers : act[b] = Idle
    /\ Advance(a, [Step(a, "gate") EXCEPT !.site = "gate"],
               [NoGate EXCEPT !.entries =
                   {e \in Runs \X Unsettled : e[2] \in global[e[1]]}])

\* Mutant: an entry whose run left nothing local is passed over.
NextEntryLocalOnly(a) ==
    /\ At(a, "gate")
    /\ \E e \in gate.entries :
        /\ e[2] = "pending" \/ \A f \in gate.entries : f[2] # "pending"
        /\ LET g == [gate EXCEPT !.entries = @ \ {e}] IN
            IF disk[e[1]].manifest # "new" \/ disk[e[1]].staging # "none"
            THEN Advance(a, [act[a] EXCEPT !.tx = e[1], !.report = NoReport,
                                           !.pc = "discover", !.goal = "pending"],
                         [g EXCEPT !.entry = e])
            ELSE Advance(a, act[a], g)

\* _reconcile_entry_locked, pending entries first.
NextEntry(a) ==
    /\ At(a, "gate")
    /\ \E e \in gate.entries :
        /\ e[2] = "pending" \/ \A f \in gate.entries : f[2] # "pending"
        /\ LET known == disk[e[1]].manifest # "new" \/ disk[e[1]].staging # "none" IN
            Advance(a, [act[a] EXCEPT !.tx = e[1], !.report = NoReport,
                                      !.pc = IF known THEN "discover" ELSE "settle",
                                      !.goal = IF known THEN "pending" ELSE "abandoned"],
                    [gate EXCEPT !.entries = @ \ {e}, !.entry = e])

\* The state of the entry's run: what reconciliation reported first, or, when it
\* had nothing to do for that run, what the manifest says.
LocalState(a, r) ==
    LET said == act[a].report[r] IN
    IF said = {} THEN disk[r].manifest
    ELSE IF "rolled_back" \in said THEN "rolled_back" ELSE CHOOSE s \in said : TRUE

EntryReconciled(a) ==
    /\ At(a, "returned") /\ act[a].site \in {"gate", "cleanup"}
    /\ LET r == gate.entry[1]
           state == LocalState(a, r) IN
        /\ act[a].report[r] = {} /\ "completed" \in disk[r].registry /\ state = "completed"
               => ~Busy(a)
        /\ Advance(a, [Step(a, "settle") EXCEPT
                       !.tx = r, !.report = NoReport,
                       !.goal = IF state \in Settled THEN state ELSE "recovery_required"], gate)

\* A global entry that could not be handled blocks this writer; the others are
\* still looked at.  After a failed prepare the exception just leaves.
Block(a) ==
    IF act[a].site = "gate"
    THEN [Idle EXCEPT !.pc = "gate", !.site = "gate"] ELSE Idle

EntryRaised(a) ==
    /\ At(a, "raised") /\ act[a].site \in {"gate", "cleanup"}
    /\ Advance(a, Block(a), IF act[a].site = "gate" THEN [gate EXCEPT !.blocked = TRUE] ELSE NoGate)

\* A completed run is verified under the local lock, which the operator may hold.
VerifyBusy(a) ==
    /\ At(a, "returned") /\ act[a].site \in {"gate", "cleanup"}
    /\ LET r == gate.entry[1] IN
        /\ act[a].report[r] = {} /\ disk[r].manifest = "completed"
        /\ "completed" \in disk[r].registry
        /\ Busy(a) /\ Advance(a, Step(a, "raised"), gate)

\* One write of the barrier's registry.
WriteGlobal(a, entries, then, caught) ==
    \E o \in Outcomes :
        /\ global' = IF Took(o) THEN [global EXCEPT ![act[a].tx] = entries] ELSE global
        /\ LET next == IF Raised(o) THEN caught ELSE then IN
            /\ Become(a, next)
            /\ gate' = IF next = Idle THEN NoGate
                       ELSE [gate EXCEPT !.blocked =
                                @ \/ (next.pc = "gate" /\ (Raised(o) \/ act[a].goal = "recovery_required"))]
        /\ Tally(o)
        /\ UNCHANGED <<file, disk>>

\* _settle_entry and _mark_entry_recovery_required.
Settle(a) ==
    /\ At(a, "settle")
    /\ WriteGlobal(a, global[act[a].tx] \cup {act[a].goal}, Step(a, "settleUnlink"), Block(a))

SettleUnlink(a) ==
    /\ At(a, "settleUnlink")
    /\ WriteGlobal(a, global[act[a].tx] \ ({gate.entry[2]} \ {act[a].goal}), Block(a), Block(a))

\* Mutant: an entry that blocks is not remembered.
EndGateAnyway(a) ==
    /\ At(a, "gate") /\ gate.entries = {}
    /\ Advance(a, [Idle EXCEPT !.pc = "discover", !.site = "ready"], NoGate)

EndGate(a) ==
    /\ At(a, "gate") /\ gate.entries = {}
    /\ IF gate.blocked THEN Leave(a)
       ELSE Advance(a, [Idle EXCEPT !.pc = "discover", !.site = "ready"], NoGate)

\* PersistenceCoordinator.assert_ready
Ready(a) ==
    /\ At(a, "returned") /\ act[a].site = "ready"
    /\ IF \E r \in Runs : act[a].report[r] \cap {"commit_marked", "recovery_required"} # {}
       THEN Leave(a)
       ELSE Advance(a, [Idle EXCEPT !.pc = "generate", !.site = "ready"], gate)

\* The run reads the books and generates; its result may be rejected.
Generate(a) ==
    /\ At(a, "generate")
    /\ Begin(a, "drafting")
    /\ UNCHANGED <<global, gate>>

Reject(a) == (At(a, "generate") \/ At(a, "drafting")) /\ Leave(a)

\* prepare_transaction: the global entry comes before anything local.
Register(a) ==
    /\ At(a, "drafting")
    /\ WriteGlobal(a, {"pending"}, Step(a, "prepare"), Idle)

PreparedOrNot(a) ==
    /\ act[a].site = "prepare"
    /\ \/ At(a, "returned") /\ Advance(a, [Step(a, "commit") EXCEPT !.site = "commit"], gate)
       \/ /\ At(a, "raised")
          /\ Advance(a, [Idle EXCEPT !.pc = "gate", !.site = "cleanup"],
                     [NoGate EXCEPT !.entries = {<<act[a].tx, "pending">>}])

\* commit_transaction first takes the dependency fence, which a session or an
\* outline writer may own.
FenceBusy(a) == At(a, "returned") /\ act[a].site = "prepare" /\ Leave(a)

\* commit_transaction: a run that is only commit_marked stays pending.
CommittedOrNot(a) ==
    /\ act[a].site = "commit" /\ (At(a, "returned") \/ At(a, "raised"))
    /\ LET result == act[a].report[act[a].tx] \ {"commit_marked"} IN
        IF At(a, "raised") \/ result = {} THEN Leave(a)
        ELSE Advance(a, [Step(a, "settle") EXCEPT !.goal = CHOOSE s \in result : TRUE,
                                                  !.report = NoReport],
                     [NoGate EXCEPT !.entry = <<act[a].tx, "pending">>])

NotReady(a) == At(a, "raised") /\ act[a].site = "ready" /\ Leave(a)

BarrierStep(a) ==
    \/ Enter(a) \/ NextEntry(a) \/ EntryReconciled(a) \/ VerifyBusy(a) \/ EntryRaised(a)
    \/ Settle(a) \/ SettleUnlink(a) \/ EndGate(a)
    \/ Ready(a) \/ NotReady(a) \/ Generate(a) \/ Reject(a) \/ Register(a)
    \/ PreparedOrNot(a) \/ FenceBusy(a) \/ CommittedOrNot(a)

Local(step) == step /\ UNCHANGED <<global, gate>>

BarrierCrash(a) ==
    /\ Crash(a)
    /\ gate' = IF a \in Writers THEN NoGate ELSE gate
    /\ UNCHANGED global

BarrierNext ==
    \/ \E a \in Writers : BarrierStep(a)
    \/ \E a \in Reconcilers : Local(ReconcilerStep(a))
    \/ \E a \in Actors : Local(Section(a)) \/ BarrierCrash(a)
    \/ \E t \in Targets : Local(Edit(t))

BarrierSpec == BarrierInit /\ [][BarrierNext]_barrierVars

\* Somebody goes on starting chapter runs, and a process that is scheduled runs on.
FairBarrierSpec ==
    /\ BarrierSpec
    /\ \A a \in Writers : WF_barrierVars(BarrierStep(a) \/ Local(Section(a)))
    /\ \A a \in Reconcilers : WF_barrierVars(Local(ReconcilerStep(a) \/ Section(a)))

-----------------------------------------------------------------------------
(* Properties. *)

\* What the barrier has settled is what happened: a completed run has its
\* receipt, and of a rolled back or abandoned one no marker and no text is left.
SettledTruthfully ==
    \A r \in Runs :
        /\ "completed" \in global[r] => disk[r].receipt
        /\ global[r] \cap {"rolled_back", "abandoned"} # {} =>
               /\ ~disk[r].marker
               /\ \A t \in Targets : file[t] # r

\* "before any descendant authority write starts": when a run reads the books
\* to generate from, every text in them is published, and unless the author
\* has edited them they are one whole version.
GeneratesFromWholeBooks ==
    \A a \in Writers : At(a, "generate") =>
        /\ \A t \in Targets : file[t] \in Runs => disk[file[t]].receipt
        /\ spent.edits = 0 => \A t, u \in Targets : file[t] = file[u]

\* No run starts to write while another is unsettled, whatever was killed.
OneUnsettled ==
    \A r, s \in Runs : global[r] \cap Unsettled # {} /\ global[s] \cap Unsettled # {} => r = s

\* "Busy is not evidence of corruption and must not mutate the registry state":
\* when nothing raises, dies or edits, no run is ever marked recovery_required.
BusyIsNotCorruption ==
    spent.errors + spent.crashes + spent.edits = 0 =>
        \A r \in Runs : "recovery_required" \notin disk[r].registry

\* A run that died before, in or after its commit is settled one way or the other.
AllSettle == \A r \in Runs : "pending" \in global[r] ~> global[r] \cap Settled # {}

\* "After the marker, recovery must finish publication."
MarkedCompletes == \A r \in Runs : disk[r].marker ~> "completed" \in global[r]

\* What the barrier says of a run is what happened, no run writes while another is unsettled, a
\* journal it does not know is uncommitted, and what is generated from is published and whole.
BarrierIsTruthful == SettledTruthfully /\ OneUnsettled /\ UnknownIsPrepared /\ GeneratesFromWholeBooks
=============================================================================
