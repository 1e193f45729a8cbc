-------------------------- MODULE ProjectRelocation --------------------------
(***************************************************************************)
(* The root registries of a StoryProject and its relocation.               *)
(*                                                                         *)
(* A project keeps up to four registries inside its own tree, each binds   *)
(* the logical roots of one control plane to absolute paths.  A writer     *)
(* ensures its registry before it writes (core/engine/root_registry.py),   *)
(* and a pending transaction names the revision it was prepared under.     *)
(* The operator renames the whole tree; remap_story_project_roots          *)
(* (core/engine/project_root_remap.py) then binds every registry to the    *)
(* new path, forward only, the main registry last.                         *)
(*                                                                         *)
(* Writers and the relocation exclude each other by the dependency fence,  *)
(* the operator's rename and a crash of the process are excluded by none.  *)
(* Abstracted: the logical roots of a registry (they move with the tree),  *)
(* directory identities (a copied tree is another project), the layout of  *)
(* the journal, autonomy sessions, journals of Persistence V1.             *)
(***************************************************************************)
EXTENDS Integers, Sequences, FiniteSets, SequencesExt

CONSTANTS Places,      \* the paths the tree may have
          Home,        \* where the project was made
          Starts,      \* the registries it may have before it is first moved
          Restless,    \* the tree is renamed with work or a relocation unfinished
          MaxMoves, MaxKills, MaxWrites   \* bounds

\* In the order of their relative paths: .novelagent/migration-v2/tx, runtime/ea,
\* runtime/memory/v2/history_revision_execution/persistence, runtime/persistence.
Kinds == {"migration", "ea", "history", "main"}
WriterKinds == Kinds \ {"ea"}

RelocationAssumption ==
    /\ Home \in Places /\ "nowhere" \notin Places /\ Starts \subseteq SUBSET Kinds /\ Restless \in BOOLEAN
    /\ {MaxMoves, MaxKills, MaxWrites} \subseteq Nat

VARIABLES place,    \* the path of the tree
          reg,      \* of a kind: its registry
          held,     \* of a writer: its transaction, with the registries it was prepared under
          txns,     \* the transactions of the remap journal
          mover,    \* the relocating process
          trespass, \* whether writers are started before the relocation is complete
          moves, kills, writes

relocationVars == <<place, reg, held, txns, mover, trespass, moves, kills, writes>>

\* A registry that is not there is nowhere, which is no path of the tree.
Absent == [at |-> "nowhere", rev |-> 0, armed |-> FALSE]
NoWork == [state |-> "none", own |-> Absent, ea |-> Absent]
AtRest == [pc |-> "idle", txn |-> 0, next |-> 0]

RelocationInit ==
    /\ place = Home
    /\ \E have \in Starts, armed \in BOOLEAN :
         reg = [k \in Kinds |-> IF k \in have THEN [at |-> Home, rev |-> 1, armed |-> armed] ELSE Absent]
    /\ held = [k \in WriterKinds |-> NoWork]
    /\ txns = <<>> /\ mover = AtRest
    /\ trespass \in BOOLEAN
    /\ moves = 0 /\ kills = 0 /\ writes = 0

\* The registries found in the tree, in the order in which they are rebound.
Found(k) == IF reg[k] # Absent THEN <<k>> ELSE <<>>
Inventory == Found("migration") \o Found("ea") \o Found("history") \o Found("main")
Present == {k \in Kinds : reg[k] # Absent}
Bound(k) == reg[k].at = place

\* No transaction of this control plane is unsettled; the barrier's has an entry of each.
IdleAt(k) == IF k = "ea" THEN \A w \in WriterKinds : held[w].state = "none" ELSE held[k].state = "none"

\* Every registry in the tree is asked (the sessions and V1 journals are not modelled).
ProjectIdle == \A k \in Present : IdleAt(k)

UnfinishedRemaps == {i \in DOMAIN txns : ~txns[i].done}
Relocated == UnfinishedRemaps = {} /\ \A k \in Present : Bound(k)

-----------------------------------------------------------------------------
(* Writers.  All of them hold the barrier, and it lets none in while a      *)
(* transaction is unsettled.                                                *)

MayWrite == mover = AtRest /\ (trespass \/ (Relocated /\ "main" \in Present) \/ moves = 0)

\* A registry that is absent is bound to where the tree is, one from before the identities
\* and the fence were recorded is completed, one of another path is refused.
Ensured(k) ==
    CASE reg[k] = Absent -> [at |-> place, rev |-> 1, armed |-> TRUE]
      [] OTHER -> [reg[k] EXCEPT !.armed = TRUE, !.rev = @ + 1]

Ensure(k) ==
    /\ reg[k] = Absent \/ (Bound(k) /\ ~reg[k].armed)
    /\ IdleAt(k)
    /\ reg' = [reg EXCEPT ![k] = Ensured(k)]
    /\ UNCHANGED <<place, held, txns, mover, trespass, moves, kills, writes>>

\* A writer opens its control plane; only then it comes to the barrier's registry.
Open(k) == MayWrite /\ IdleAt("ea") /\ Ensure(k)
OpenBarrier == MayWrite /\ (\E k \in WriterKinds : Bound(k)) /\ Ensure("ea")

PrepareUnder(k) ==
    /\ MayWrite /\ writes < MaxWrites
    /\ IdleAt("ea") /\ Bound(k) /\ Bound("ea")
    /\ held' = [held EXCEPT ![k] = [state |-> "pending", own |-> reg[k], ea |-> reg["ea"]]]
    /\ writes' = writes + 1
    /\ UNCHANGED <<place, reg, txns, mover, trespass, moves, kills>>

\* The transaction is completed or rolled back, by its process or by a reconciliation.
SettleBound(k) ==
    /\ mover = AtRest
    /\ held[k].state = "pending"
    /\ held[k].own = reg[k] /\ Bound(k) /\ held[k].ea = reg["ea"] /\ Bound("ea")
    /\ held' = [held EXCEPT ![k] = NoWork]
    /\ UNCHANGED <<place, reg, txns, mover, trespass, moves, kills, writes>>

\* The start of a generation reconciles the main control plane without the barrier: an
\* entry whose paths it cannot resolve is put among those that nothing tries again.
ReconcileElsewhere ==
    /\ mover = AtRest /\ trespass
    /\ held["main"].state = "pending" /\ ~(held["main"].own = reg["main"] /\ Bound("main"))
    /\ held' = [held EXCEPT !["main"].state = "stuck"]
    /\ UNCHANGED <<place, reg, txns, mover, trespass, moves, kills, writes>>

-----------------------------------------------------------------------------
(* The relocation.                                                          *)

Rebound(t, k) == [t.before[k] EXCEPT !.at = t.to, !.rev = @ + 1]

\* The request of the operator: the main registry he has seen, by revision and digest.
Prepared(seen) ==
    [from |-> seen.at, to |-> place, seen |-> seen, order |-> Inventory,
     before |-> [k \in ToSet(Inventory) |-> reg[k]], marked |-> FALSE, done |-> FALSE]

\* A new transaction is prepared: every registry has the old path and is complete.
MayPrepare(seen) ==
    /\ UnfinishedRemaps = {}
    /\ seen = reg["main"] /\ ~Bound("main")
    /\ \A k \in ToSet(Inventory) : reg[k].at = seen.at /\ reg[k].armed

\* An unfinished one is resumed by the request that began it.
MayResume(i, seen) == UnfinishedRemaps = {i} /\ txns[i].to = place /\ txns[i].seen = seen

Start ==
    /\ mover = AtRest /\ "main" \in Present
    /\ ProjectIdle
    /\ \E seen \in {reg["main"]} \cup {txns[i].seen : i \in DOMAIN txns} :
         \/ /\ MayPrepare(seen)
            /\ txns' = Append(txns, Prepared(seen))
            /\ mover' = [pc |-> "check", txn |-> Len(txns'), next |-> 1]
         \/ \E i \in DOMAIN txns :
              /\ MayResume(i, seen)
              /\ mover' = [pc |-> "check", txn |-> i, next |-> 1]
              /\ UNCHANGED txns
    /\ UNCHANGED <<place, reg, held, trespass, moves, kills, writes>>

txn == txns[mover.txn]

\* Mutant: registries that were already rebound are taken for drifted ones.
ValidBefore == txn.to = place /\ Inventory = txn.order /\ \A k \in ToSet(txn.order) : reg[k] = txn.before[k]
\* Mutant: the inventory is not taken again.
ValidKnown == txn.to = place /\ \A k \in ToSet(txn.order) : reg[k] \in {txn.before[k], Rebound(txn, k)}

\* Nothing but this transaction has touched the project.
Valid ==
    /\ txn.to = place
    /\ Inventory = txn.order
    /\ \A k \in ToSet(txn.order) : reg[k] \in {txn.before[k], Rebound(txn, k)}

\* The point of no return.
Mark ==
    /\ mover.pc = "check" /\ Valid
    /\ txn.marked \/ \A k \in ToSet(txn.order) : reg[k] = txn.before[k]
    /\ txns' = [txns EXCEPT ![mover.txn].marked = TRUE]
    /\ mover' = [mover EXCEPT !.pc = "apply"]
    /\ UNCHANGED <<place, reg, held, trespass, moves, kills, writes>>

Replace ==
    /\ mover.pc = "apply" /\ mover.next <= Len(txn.order) /\ Valid
    /\ LET k == txn.order[mover.next] IN reg' = [reg EXCEPT ![k] = Rebound(txn, k)]
    /\ mover' = [mover EXCEPT !.next = @ + 1]
    /\ UNCHANGED <<place, held, txns, trespass, moves, kills, writes>>

CompleteRemap ==
    /\ mover.pc = "apply" /\ mover.next > Len(txn.order) /\ Valid
    /\ txns' = [txns EXCEPT ![mover.txn].done = TRUE]
    /\ mover' = AtRest
    /\ UNCHANGED <<place, reg, held, trespass, moves, kills, writes>>

\* The project proof fails: the command ends with an error.
FailProof ==
    /\ mover # AtRest /\ ~Valid
    /\ mover' = AtRest
    /\ UNCHANGED <<place, reg, held, txns, trespass, moves, kills, writes>>

Kill ==
    /\ mover # AtRest /\ kills < MaxKills
    /\ mover' = AtRest /\ kills' = kills + 1
    /\ UNCHANGED <<place, reg, held, txns, trespass, moves, writes>>

-----------------------------------------------------------------------------
(* The operator renames the tree.                                           *)
Move(p) ==
    /\ moves < MaxMoves /\ p # place
    /\ Restless \/ (mover = AtRest /\ Relocated /\ "main" \in Present
                    /\ ProjectIdle /\ \A k \in Present : reg[k].armed)
    /\ place' = p /\ moves' = moves + 1
    /\ UNCHANGED <<reg, held, txns, mover, trespass, kills, writes>>

RelocationNext ==
    \/ \E k \in WriterKinds : Open(k) \/ PrepareUnder(k) \/ SettleBound(k)
    \/ OpenBarrier
    \/ ReconcileElsewhere
    \/ Start \/ Mark \/ Replace \/ CompleteRemap \/ FailProof
    \/ Kill
    \/ \E p \in Places : Move(p)

\* The operator repeats the command until it has succeeded, and a writer that is started
\* settles its transaction; renames and crashes are bounded by the constants.
RelocationFairness ==
    /\ WF_relocationVars(Start) /\ WF_relocationVars(Mark \/ Replace \/ CompleteRemap \/ FailProof)
    /\ \A k \in WriterKinds : WF_relocationVars(SettleBound(k))

RelocationSpec == RelocationInit /\ [][RelocationNext]_relocationVars /\ RelocationFairness

-----------------------------------------------------------------------------
(* Properties.                                                             *)

\* Type invariant.
RelocationTypeOK ==
    /\ place \in Places
    /\ \A k \in Kinds : reg[k] = Absent \/ (reg[k].at \in Places /\ reg[k].rev \in 1..(2 + MaxMoves))
    /\ \A k \in WriterKinds : held[k].state \in {"none", "pending", "stuck"} /\ (held[k] = NoWork <=> held[k].state = "none")
    /\ \A i \in DOMAIN txns : txns[i].done => txns[i].marked
    /\ Cardinality(UnfinishedRemaps) <= 1
    /\ mover # AtRest => mover.txn \in UnfinishedRemaps

\* Recovery finds its files through the registries a transaction was prepared under: no
\* registry is created anew, completed or rebound while one that names it is unsettled
\* (_assert_pending_persistence_idle, _assert_project_idle).
PendingBound ==
    [][\A k \in WriterKinds :
         held[k].state # "none" /\ held'[k].state # "none" =>
             reg'[k] = reg[k] /\ reg'["ea"] = reg["ea"]]_relocationVars

\* When a relocation reports completion, every registry in the tree is bound to its path, also
\* one that was created since the relocation was begun (_verify_all_after, _report).
AllRebound ==
    [][\A i \in DOMAIN txns : txns'[i].done /\ ~txns[i].done =>
           \A k \in Present : reg[k].at = txns[i].to]_relocationVars

\* The main registry is rebound last (_application_order): a chapter that finds it bound finds
\* every registry of the relocation bound, wherever the process was killed.
MainLast ==
    \A i \in DOMAIN txns :
        txns[i].marked /\ reg["main"] = Rebound(txns[i], "main") =>
            \A k \in DOMAIN txns[i].before : reg[k].rev > txns[i].before[k].rev

\* Between relocations all registries of a project are bound to one path, unless somebody works
\* at a path the project has not been relocated to yet.
Together ==
    UnfinishedRemaps = {} /\ ~trespass => \A k, j \in Present : reg[k].at = reg[j].at

\* No registry is rebound while a transaction that names it is unsettled; a relocation that
\* reports completion has rebound all, the main one last; and between relocations they are
\* bound together (root_registry.py, project_root_remap.py).
RebindsTogether == PendingBound /\ AllRebound /\ []MainLast /\ []Together

\* The tree stays somewhere in the end, and the operator's relocation completes: every registry
\* is bound to where the tree is (remap_story_project_roots).
Relocates == <>[](\A k \in Present : Bound(k))
=============================================================================
