--------------------------- MODULE AutonomySession ---------------------------
(***************************************************************************)
(* The autonomous sessions of one book (core/autonomy): the append-only    *)
(* lease chain, the session event chains, the operation journal that ties  *)
(* a lease to an event, the stage receipts with their lease fences, the    *)
(* completion ledger, and the runner that drives a session chapter by      *)
(* chapter.                                                                *)
(*                                                                         *)
(* Every journalled operation holds the remap fence from its recovery to   *)
(* its result; the stage and ledger appends take the root lock only, which *)
(* is one step.  Every write is a step, and a process may stop after any.  *)
(* A command's process ends when the command raises, so the set of         *)
(* operations whose recovery its next status() defers dies with it.        *)
(*                                                                         *)
(* A hash is what it identifies: a lease is its generation, an event its   *)
(* place in the chain, a source snapshot the length of the book's history. *)
(***************************************************************************)
EXTENDS Integers, Sequences, FiniteSets, SequencesExt

CONSTANTS
    Sessions,     \* one InstructionPlan each, all for this book
    Procs,        \* processes: CLI commands and runners
    Requested,    \* requested_chapter_count of every plan
    Stages,       \* stages per chapter (outline ... validator)
    LeaseTicks,   \* lease_ttl_seconds
    MaxGen,       \* bound on lease generations
    MaxOps,       \* bound on journalled operations
    MaxBook,      \* bound on changes to the StoryProject
    MaxFaults,    \* bound on crashes
    Commands      \* which commands are given, a subset of AllCommands

AllCommands == {"open", "execute", "resume", "cancel", "abandon"}

AutonomyAssumption ==
    /\ Requested \in Nat \ {0} /\ Stages \in Nat \ {0} /\ LeaseTicks \in Nat \ {0}
    /\ MaxGen \in Nat /\ MaxOps \in Nat /\ MaxBook \in Nat /\ MaxFaults \in Nat
    /\ Commands \subseteq AllCommands
    /\ {"none", "edit"} \cap Sessions = {}

VARIABLES
    history,      \* leases/<book>/history: the lease generations
    current,      \* the generation in leases/<book>/current.json
    leaseLeft,    \* time until the newest lease expires
    ops,          \* operations/<id>: intent, commit marker and result
    events,       \* sessions/<id>/events
    born,         \* sessions with genesis and plan on disk
    indexed,      \* sessions the plan index points to
    plan,         \* the source snapshot each plan was made from, NoPlan before
    book,         \* who made each change to the StoryProject
    undelivered,  \* changes whose required delivery has not succeeded
    stages,       \* stage receipts of each chapter: the lease each is fenced by
    ledger,       \* completion ledgers: source snapshot after, delivery owed
    proc,         \* what each process is doing and remembers
    faults        \* history: crashes so far

vars == <<history, current, leaseLeft, ops, events, born, indexed, plan, book,
          undelivered, stages, ledger, proc, faults>>
lease == <<history, current, leaseLeft>>
files == <<ops, events, born, indexed>>
work == <<plan, book, undelivered, stages, ledger>>

NoPlan == -1
Chapters == 1 .. Requested

Idle == [pc |-> "idle", cmd |-> "none", s |-> "none", own |-> FALSE,
         op |-> 0, gen |-> 0, base |-> 0, cursor |-> 0, ok |-> FALSE]

Init ==
    /\ history = <<>> /\ current = 0 /\ leaseLeft = 0 /\ ops = <<>>
    /\ events = [s \in Sessions |-> <<>>] /\ born = {} /\ indexed = {}
    /\ plan = [s \in Sessions |-> NoPlan] /\ book = <<>> /\ undelivered = {}
    /\ stages = [s \in Sessions |-> [c \in Chapters |-> <<>>]]
    /\ ledger = [s \in Sessions |-> <<>>]
    /\ proc = [p \in Procs |-> Idle] /\ faults = 0

-----------------------------------------------------------------------------
(* The lease chain (lease.py).                                             *)

Newest == Len(history)
\* _reconcile_history_head: current.json is rolled forward to the newest generation.
Repaired == current' = Newest /\ UNCHANGED <<history, leaseLeft>>
\* status "active" and owned by s, expired or not
Owned(s) == Newest > 0 /\ history[Newest].owner = s /\ history[Newest].active
Foreign(s) == Newest > 0 /\ history[Newest].owner # s /\ history[Newest].active
Live == Newest > 0 /\ history[Newest].active /\ leaseLeft > 0
\* _assert_held_fenced: it may not repair current.json, so it refuses a newer history.
Held(s) == Owned(s) /\ leaseLeft > 0 /\ current = Newest

\* _publish: history first, current.json after it.
Publish(s, active) ==
    /\ Newest < MaxGen
    /\ history' = Append(history, [owner |-> s, active |-> active])
    /\ current' = Newest + 1
    /\ leaseLeft' = IF active THEN LeaseTicks ELSE 0

\* A mutant: the chain is only checked at its two ends.
EndsOnly(s, g) == history[g].owner = s /\ history[Newest].owner = s

\* assert_descends_from: no other writer between the two generations.
Descends(s, g) == \A k \in g .. Newest : history[k].owner = s

-----------------------------------------------------------------------------
(* Derived state of a session (session.py, receipts.py).                   *)

State(s) ==
    IF events[s] = <<>> THEN "absent"
    ELSE CASE Last(events[s]) \in {"started", "resumed"} -> "active"
           [] OTHER -> Last(events[s])

\* _assert_transition
Allowed(s, e) ==
    CASE State(s) = "absent" -> e = "started"
      [] State(s) = "active" -> e \in {"cancelled", "abandoned", "completed"}
      [] State(s) = "cancelled" -> e \in {"resumed", "abandoned"}
      [] OTHER -> FALSE

\* Positions in the book of the chapters session s published, oldest first.
Published(s) ==
    LET mine == {i \in 1 .. Len(book) : book[i] = s} IN
    [k \in 1 .. Cardinality(mine) |-> CHOOSE i \in mine : Cardinality({j \in mine : j <= i}) = k]
NumberOf(n) == Cardinality({i \in 1 .. n : book[i] # "edit"})
\* The book's last chapter is the k-th of s's plan.
AtChapter(s, k) == NumberOf(Len(book)) = NumberOf(plan[s]) + k

ExpectedSource(s) == IF ledger[s] = <<>> THEN plan[s] ELSE Last(ledger[s]).after
\* A mutant: a chapter in debt does not stop the session.
NeverBlocked(s) == FALSE

Blocked(s) == \E k \in 1 .. Len(ledger[s]) :
                ledger[s][k].owed /\ Published(s)[k] \in undelivered

Pending == {i \in 1 .. Len(ops) : ops[i].result = "none"}

-----------------------------------------------------------------------------
(* Taking the fence, and recovery of what earlier processes left.          *)

Fenced == {"recover", "begin", "acquire", "boundary", "source", "mark", "forward",
           "index", "release", "finish", "back", "undo"}
FenceFree == \A p \in Procs : proc[p].pc \notin Fenced

Goto(p, pc) == proc' = [proc EXCEPT ![p].pc = pc]
Leave(p) == proc' = [proc EXCEPT ![p] = Idle]

\* A command starts: it opens the store, which recovers.
Command(p, c, s) ==
    /\ proc[p].pc = "idle" /\ FenceFree /\ c \in Commands
    /\ c = "execute" => plan[s] # NoPlan
    /\ c \in {"resume", "cancel", "abandon"} => s \in born
    /\ proc' = [proc EXCEPT ![p] = [Idle EXCEPT !.pc = "recover", !.cmd = c, !.s = s]]
    /\ UNCHANGED <<lease, files, work, faults>>

\* The runner calls status() in its loop, before a stage, for the arc of a chapter it has
\* recorded and before it returns, or complete().
Call(p) ==
    /\ proc[p].pc \in {"loop", "gate", "arc", "return", "complete"} /\ FenceFree
    /\ proc' = [proc EXCEPT ![p].pc = "recover", ![p].cmd = proc[p].pc, ![p].own = FALSE]
    /\ UNCHANGED <<lease, files, work, faults>>

\* _reconcile_orphans_fenced: the oldest pending operation goes forward or back.
Recover(p) ==
    /\ proc[p].pc = "recover"
    /\ IF Pending = {} THEN Goto(p, "begin")
       ELSE LET i == CHOOSE i \in Pending : \A j \in Pending : i <= j IN
            proc' = [proc EXCEPT ![p].op = i, ![p].pc = IF ops[i].marker THEN "forward" ELSE "back"]
    /\ UNCHANGED <<lease, files, work, faults>>

-----------------------------------------------------------------------------
(* Intents (operations.py) and the steps up to the commit marker.          *)

Source == {"execute", "resume"}

Begin(p, target) ==
    LET s == proc[p].s IN
    /\ Len(ops) < MaxOps
    /\ ops' = Append(ops, [type |-> proc[p].cmd, s |-> s, from |-> State(s),
                 event |-> Len(events[s]), lease |-> Newest, target |-> target,
                 marker |-> FALSE, source |-> 0, result |-> "none"])
    /\ proc' = [proc EXCEPT ![p].op = Len(ops) + 1, ![p].own = TRUE,
                 ![p].pc = IF proc[p].cmd \in Source THEN "acquire" ELSE "mark"]

\* execute_plan, resume: a plan already executed is resumed if it is active.
BeginSource(p) ==
    LET s == proc[p].s IN
    /\ proc[p].pc = "begin" /\ proc[p].cmd \in Source
    /\ CASE State(s) = "absent" /\ proc[p].cmd = "execute" -> Begin(p, "started")
         [] State(s) = "active" -> Begin(p, "none")
         [] State(s) = "cancelled" /\ proc[p].cmd = "resume" -> Begin(p, "resumed")
         [] OTHER -> Leave(p) /\ UNCHANGED ops
    /\ Repaired
    /\ UNCHANGED <<events, born, indexed, work, faults>>

Completable(s) == Len(ledger[s]) = Requested /\ ~Blocked(s)

\* cancel, abandon, complete; an operation already in effect only frees its lease.
BeginTerminal(p) ==
    LET s == proc[p].s
        target == CASE proc[p].cmd = "cancel" -> "cancelled"
                    [] proc[p].cmd = "abandon" -> "abandoned"
                    [] OTHER -> "completed" IN
    /\ proc[p].pc = "begin" /\ proc[p].cmd \in {"cancel", "abandon", "complete"}
    /\ IF State(s) = target
       THEN /\ IF Owned(s) /\ leaseLeft > 0 THEN Publish(s, FALSE) ELSE Repaired
            /\ Leave(p) /\ UNCHANGED ops
       ELSE /\ Repaired
            /\ IF Allowed(s, target) /\ (target = "completed" => Completable(s))
               THEN Begin(p, target)
               ELSE Leave(p) /\ UNCHANGED ops
    /\ UNCHANGED <<events, born, indexed, work, faults>>

\* An open, or a status(): the loop of _drive, the gate before a stage, or the arc of a
\* chapter, after which the runner looks for the next one or tries what is undelivered.
BeginStatus(p) ==
    LET s == proc[p].s
        go == State(s) = "active" /\ ~Blocked(s) IN
    /\ proc[p].pc = "begin" /\ proc[p].cmd \in {"open", "loop", "gate", "arc", "return"}
    /\ IF proc[p].cmd = "open" THEN UNCHANGED lease ELSE Repaired
    /\ CASE proc[p].cmd = "loop" /\ go ->
              proc' = [proc EXCEPT ![p].gen = Newest, ![p].cursor = 0,
                ![p].pc = IF Len(ledger[s]) = Requested THEN "complete" ELSE "choose"]
         [] proc[p].cmd = "gate" /\ go /\ Owned(s) /\ leaseLeft > 0 -> Goto(p, "stage")
         [] proc[p].cmd = "arc" -> Goto(p, IF proc[p].ok THEN "drive" ELSE "retry")
         [] OTHER -> Leave(p)
    /\ UNCHANGED <<files, work, faults>>

\* acquire: a live lease of the same session is taken over as it is, a foreign one
\* raises outside the try block and leaves the intent pending.
Acquire(p) ==
    LET s == proc[p].s IN
    /\ proc[p].pc = "acquire"
    /\ IF Live
       THEN /\ IF history[Newest].owner = s
               THEN proc' = [proc EXCEPT ![p].gen = Newest, ![p].pc = "boundary"]
               ELSE Leave(p)
            /\ Repaired
       ELSE /\ Publish(s, TRUE)
            /\ proc' = [proc EXCEPT ![p].gen = Newest + 1, ![p].pc = "boundary"]
    /\ UNCHANGED <<files, work, faults>>

SourceCurrent(p) == Len(book) = ExpectedSource(proc[p].s)

\* The source check; a drift raises and rolls the intent back.
CheckSource(p) ==
    /\ proc[p].pc = "source"
    /\ IF SourceCurrent(p)
       THEN proc' = [proc EXCEPT ![p].base = Len(book), ![p].pc = "mark"]
       ELSE Goto(p, "back")
    /\ UNCHANGED <<lease, files, work, faults>>

\* _recover_expected_event: the target event is missing, or it is the last one.
EventNeeded(o) == o.target # "none" /\ Len(events[o.s]) = o.event
EventMatches(o) ==
    \/ Len(events[o.s]) = o.event
    \/ Len(events[o.s]) = o.event + 1 /\ o.target # "none" /\ Last(events[o.s]) = o.target

\* _assert_terminal_transition_ready
TerminalReady(o) ==
    /\ ~Foreign(o.s)
    /\ o.type = "complete" /\ EventNeeded(o) => Completable(o.s)

\* A terminal operation that is not ready raises and leaves its intent pending;
\* otherwise the commit marker is written, with the source a resume has verified.
Mark(p) ==
    LET i == proc[p].op IN
    /\ proc[p].pc = "mark"
    /\ IF ops[i].type \notin Source THEN Repaired ELSE UNCHANGED lease
    /\ IF ops[i].type \notin Source /\ ~TerminalReady(ops[i])
       THEN Leave(p) /\ UNCHANGED ops
       ELSE /\ ops' = [ops EXCEPT ![i].marker = TRUE, ![i].source = proc[p].base]
            /\ Goto(p, "forward")
    /\ UNCHANGED <<events, born, indexed, work, faults>>

-----------------------------------------------------------------------------
(* Roll forward: the rest of the operation, or its recovery.               *)

\* Every reason the roll forward of a committed operation can raise.
ForwardRaises(o) ==
    /\ o.from # "absent"
    /\ \/ IF o.type \in Source THEN o.source # ExpectedSource(o.s) ELSE ~TerminalReady(o)
       \/ ~EventMatches(o)

Forward(p) ==
    LET i == proc[p].op
        o == ops[i] IN
    /\ proc[p].pc = "forward"
    /\ IF ForwardRaises(o)
       THEN Leave(p) /\ UNCHANGED <<events, born>>
       ELSE /\ IF o.from = "absent" /\ o.s \notin born
               THEN born' = born \cup {o.s} /\ UNCHANGED <<events, proc>>
               ELSE /\ UNCHANGED born
                    /\ events' = IF EventNeeded(o)
                                 THEN [events EXCEPT ![o.s] = Append(@, o.target)] ELSE events
                    /\ Goto(p, CASE o.from = "absent" -> "index"
                                 [] o.from # "absent" /\ o.type \in Source -> "finish"
                                 [] OTHER -> "release")
    /\ IF o.type \in Source THEN UNCHANGED lease ELSE Repaired
    /\ UNCHANGED <<ops, indexed, work, faults>>

\* The plan index and latest.json of a new session.
Index(p) ==
    /\ proc[p].pc = "index"
    /\ indexed' = indexed \cup {ops[proc[p].op].s}
    /\ Goto(p, "finish")
    /\ UNCHANGED <<lease, ops, events, born, work, faults>>

\* A mutant: a terminal transition leaves the lease to expire by itself.
LeaseLeftBehind(s) == Repaired

ReleaseOwned(s) == IF Owned(s) THEN Publish(s, FALSE) ELSE Repaired

\* A terminal transition gives the lease back, expired or not.
Release(p) ==
    /\ proc[p].pc = "release"
    /\ ReleaseOwned(ops[proc[p].op].s)
    /\ Goto(p, "finish")
    /\ UNCHANGED <<files, work, faults>>

\* Where a process goes when the operation it drove has its result.
AfterResult(p) ==
    IF ~proc[p].own THEN Goto(p, "recover")
    ELSE IF proc[p].cmd \in Source /\ ops'[proc[p].op].result = "completed"
    THEN Goto(p, "drive") ELSE Leave(p)

\* The result file is the last write of an operation.
Finish(p) ==
    LET i == proc[p].op IN
    /\ proc[p].pc = "finish"
    /\ ops' = [ops EXCEPT ![i].result = "completed"]
    /\ AfterResult(p)
    /\ UNCHANGED <<lease, events, born, indexed, work, faults>>

-----------------------------------------------------------------------------
(* Roll back of an operation that has no commit marker.                    *)

\* A mutant: no operation whose lease has moved on is rolled back.
BackStrictly(o) == Len(events[o.s]) # o.event \/ Newest # o.lease

\* Every reason the roll back of an unmarked operation can raise.
BackRaises(o) ==
    IF o.type \in Source
    THEN IF o.from = "absent" THEN o.s \in born ELSE Len(events[o.s]) # o.event
    ELSE Len(events[o.s]) # o.event \/ Newest # o.lease

\* A source operation gives back the lease it may have acquired.
GivesBack(o) == /\ o.type \in Source /\ Owned(o.s)
                /\ o.from # "absent" \/ Newest # o.lease

Back(p) ==
    LET o == ops[proc[p].op] IN
    /\ proc[p].pc = "back"
    /\ IF BackRaises(o)
       THEN Leave(p) /\ Repaired
       ELSE /\ IF GivesBack(o) THEN Publish(o.s, FALSE) ELSE Repaired
            /\ Goto(p, "undo")
    /\ UNCHANGED <<files, work, faults>>

Undo(p) ==
    LET i == proc[p].op IN
    /\ proc[p].pc = "undo"
    /\ ops' = [ops EXCEPT ![i].result = "rolled_back"]
    /\ AfterResult(p)
    /\ UNCHANGED <<lease, events, born, indexed, work, faults>>

-----------------------------------------------------------------------------
(* The runner (runner.py, runtime.py) and the two receipt chains.          *)

\* CompletionLedger.append refuses a process whose session does not hold the lease, or
\* whose lease does not descend from the fence of the chapter's last stage.
MayComplete(s, k) ==
    /\ Held(s) /\ AtChapter(s, k)
    /\ Len(stages[s][k]) = Stages /\ Descends(s, Last(stages[s][k]))

\* The receipt says whether the chapter's delivery, just tried, is still owed.
Complete(s, k) ==
    ledger' = [ledger EXCEPT ![s] = Append(@,
        [after |-> Len(book), owed |-> Published(s)[k] \in undelivered'])]

Unrecorded(s) == (Len(ledger[s]) + 1 .. Requested) \cap 1 .. Len(Published(s))

\* _recover_committed_boundary tries the delivery of a chapter an earlier run published and
\* appends its receipt, unless the attempt or the ledger refuses.
Recovers(s) ==
    LET k == Len(ledger[s]) + 1 IN
    /\ undelivered' \in {undelivered, undelivered \ {Published(s)[k]}}
    /\ UNCHANGED ledger \/ (MayComplete(s, k) /\ Complete(s, k))

\* Inside execute or resume, which hold the fence: after a receipt is appended the status()
\* of _record_arc_fulfillment waits for that fence, gives up and raises, so the command that
\* finds a chapter to record is rolled back either way.
Boundary(p) ==
    LET s == proc[p].s IN
    /\ proc[p].pc = "boundary"
    /\ IF Len(ledger[s]) + 1 \in Unrecorded(s)
       THEN Recovers(s) /\ Goto(p, "back")
       ELSE Goto(p, "source") /\ UNCHANGED <<ledger, undelivered>>
    /\ UNCHANGED <<lease, files, plan, book, stages, faults>>

\* The runner, which holds no fence, looks for such chapters until none is left or the last
\* one is undelivered; after each, and at the end, it brings the arc up to date.
Drive(p) ==
    LET s == proc[p].s
        k == Len(ledger[s]) + 1 IN
    /\ proc[p].pc = "drive"
    /\ IF k \in Unrecorded(s)
       THEN /\ Recovers(s)
            /\ IF ledger' = ledger THEN Leave(p)
               ELSE proc' = [proc EXCEPT ![p].pc = "arc", ![p].ok = Published(s)[k] \notin undelivered']
       ELSE /\ proc' = [proc EXCEPT ![p].pc = "arc", ![p].ok = FALSE]
            /\ UNCHANGED <<ledger, undelivered>>
    /\ UNCHANGED <<lease, files, plan, book, stages, faults>>

\* The chapters whose delivery the ledger owes.
Owes(s) == {Published(s)[k] : k \in {j \in 1 .. Len(ledger[s]) : ledger[s][j].owed}} \cap undelivered

\* _retry_blocked_deliveries: the attempts succeed or not, and one may raise.
Retry(p) ==
    /\ proc[p].pc = "retry"
    /\ undelivered' \in {undelivered \ done : done \in SUBSET Owes(proc[p].s)}
    /\ Goto(p, "loop") \/ Leave(p)
    /\ UNCHANGED <<lease, files, plan, book, stages, ledger, faults>>

\* The loop of _drive: the source must be where the ledger left it.
Choose(p) ==
    /\ proc[p].pc = "choose"
    /\ IF SourceCurrent(p)
       THEN proc' = [proc EXCEPT ![p].base = Len(book), ![p].pc = "renew"]
       ELSE Leave(p)
    /\ UNCHANGED <<lease, files, work, faults>>

CanRenew(p) == Owned(proc[p].s) /\ leaseLeft > 0 /\ Newest = proc[p].gen

\* renew: compare and swap on the lease the process knows.
Renew(p) ==
    /\ proc[p].pc = "renew" /\ FenceFree
    /\ IF CanRenew(p)
       THEN /\ Publish(proc[p].s, TRUE)
            /\ proc' = [proc EXCEPT ![p].gen = Newest + 1, ![p].pc = "gate"]
       ELSE Leave(p) /\ Repaired
    /\ UNCHANGED <<files, work, faults>>

FenceCurrent(p) == Held(proc[p].s) /\ Newest = proc[p].gen

\* after_stage: append the receipt with its fence, or find it there (a replay).
Stage(p) ==
    LET s == proc[p].s
        k == Len(ledger[s]) + 1
        next == [proc EXCEPT ![p].cursor = @ + 1,
                   ![p].pc = IF proc[p].cursor + 1 = Stages THEN "commit" ELSE "renew"] IN
    /\ proc[p].pc = "stage"
    /\ IF k \notin Chapters \/ proc[p].cursor > Len(stages[s][k])
       THEN Leave(p) /\ UNCHANGED stages
       ELSE IF proc[p].cursor < Len(stages[s][k])
       THEN proc' = next /\ UNCHANGED stages
       ELSE IF FenceCurrent(p) /\ (stages[s][k] # <<>> => Descends(s, Last(stages[s][k])))
       THEN stages' = [stages EXCEPT ![s][k] = Append(@, Newest)] /\ proc' = next
       ELSE Leave(p) /\ UNCHANGED stages
    /\ UNCHANGED <<lease, files, plan, book, undelivered, ledger, faults>>

\* The executor commits the chapter (AuthorityBarrier, PersistenceV2): it fails if the
\* books changed since they were read.  It does not look at the lease again.
Commit(p) ==
    /\ proc[p].pc = "commit"
    /\ IF Len(book) = proc[p].base
       THEN /\ Len(book) < MaxBook
            /\ book' = Append(book, proc[p].s)
            /\ undelivered' = undelivered \cup {Len(book) + 1}
            /\ Goto(p, "deliver")
       ELSE Leave(p) /\ UNCHANGED <<book, undelivered>>
    /\ UNCHANGED <<lease, files, plan, stages, ledger, faults>>

\* The required file delivery succeeds or does not, or its attempt raises (DeliveryQueue).
Deliver(p) ==
    LET mine == proc[p].base + 1 IN
    /\ proc[p].pc = "deliver"
    /\ undelivered' \in {undelivered, undelivered \ {mine}}
    /\ \/ proc' = [proc EXCEPT ![p].ok = mine \notin undelivered', ![p].pc = "ledger"]
       \/ Leave(p)
    /\ UNCHANGED <<lease, files, plan, book, stages, ledger, faults>>

\* The completion receipt; an earlier recovery may have written it.
Record(p) ==
    LET s == proc[p].s
        k == Len(Published(s)) IN
    /\ proc[p].pc = "ledger"
    /\ UNCHANGED <<lease, files, plan, book, undelivered, stages, faults>>
    /\ IF /\ Last(Published(s)) = proc[p].base + 1
          /\ MayComplete(s, k) /\ k <= Len(ledger[s]) + 1
       THEN /\ IF k = Len(ledger[s]) + 1 THEN Complete(s, k) ELSE UNCHANGED ledger
            /\ Goto(p, IF proc[p].ok THEN "loop" ELSE "return")
       ELSE Leave(p) /\ UNCHANGED ledger

-----------------------------------------------------------------------------
(* The operator, the clock and crashes.                                    *)

Preview(s) ==
    /\ plan[s] = NoPlan
    /\ plan' = [plan EXCEPT ![s] = Len(book)]
    /\ UNCHANGED <<lease, files, book, undelivered, stages, ledger, proc, faults>>

Edit ==
    /\ Len(book) < MaxBook
    /\ book' = Append(book, "edit")
    /\ UNCHANGED <<lease, files, plan, undelivered, stages, ledger, proc, faults>>

Tick ==
    /\ leaseLeft > 0 /\ leaseLeft' = leaseLeft - 1
    /\ UNCHANGED <<history, current, files, work, proc, faults>>

Crash(p) ==
    /\ proc[p].pc # "idle" /\ faults < MaxFaults
    /\ faults' = faults + 1 /\ Leave(p)
    /\ UNCHANGED <<lease, files, work>>

\* The process dies between the two writes of _publish: current.json stays behind, and
\* is repaired by the next call that may (_reconcile_history_head).
CrashInPublish(p) ==
    LET o == ops[proc[p].op]
        Written(s, active) ==
            /\ history' = Append(history, [owner |-> s, active |-> active])
            /\ leaseLeft' = IF active THEN LeaseTicks ELSE 0 IN
    /\ faults < MaxFaults /\ faults' = faults + 1 /\ Newest < MaxGen
    /\ CASE proc[p].pc = "acquire" -> ~Live /\ Written(proc[p].s, TRUE)
         [] proc[p].pc = "renew" -> FenceFree /\ CanRenew(p) /\ Written(proc[p].s, TRUE)
         [] proc[p].pc = "release" -> Owned(o.s) /\ Written(o.s, FALSE)
         [] proc[p].pc = "back" -> ~BackRaises(o) /\ GivesBack(o) /\ Written(o.s, FALSE)
         [] OTHER -> FALSE
    /\ Leave(p)
    /\ UNCHANGED <<current, files, work>>

\* The steps under the fence, which a running command takes without waiting for anyone.
FencedStep(p) ==
    \/ Recover(p) \/ BeginSource(p) \/ BeginTerminal(p) \/ BeginStatus(p)
    \/ Acquire(p) \/ Boundary(p) \/ CheckSource(p) \/ Mark(p) \/ Forward(p) \/ Index(p)
    \/ Release(p) \/ Finish(p) \/ Back(p) \/ Undo(p)

RunnerStep(p) ==
    \/ Drive(p) \/ Retry(p) \/ Call(p) \/ Choose(p) \/ Renew(p) \/ Stage(p) \/ Commit(p)
    \/ Deliver(p) \/ Record(p)

Next ==
    \/ Edit \/ Tick
    \/ \E s \in Sessions : Preview(s)
    \/ \E p \in Procs : \/ FencedStep(p) \/ RunnerStep(p) \/ Crash(p) \/ CrashInPublish(p)
                        \/ \E c \in Commands, s \in Sessions : Command(p, c, s)

Spec == Init /\ [][Next]_vars

\* The store is opened again and again, and a command goes on while it has the fence;
\* nothing forces a runner to go on to its next chapter.
Fairness == \A p \in Procs :
    WF_vars(\E s \in Sessions : Command(p, "open", s)) /\ WF_vars(FencedStep(p))

FairSpec == Spec /\ Fairness

-----------------------------------------------------------------------------
(* Properties.                                                             *)

EventTypes == {"started", "resumed", "cancelled", "abandoned", "completed"}
OpTypes == {"execute", "resume", "cancel", "abandon", "complete"}
PCs == {"idle", "loop", "gate", "complete", "choose", "renew", "stage", "commit",
        "deliver", "ledger", "drive", "arc", "retry", "return"} \cup Fenced

\* Every variable has its shape, and current.json never runs ahead of the history.
TypeOK ==
    /\ history \in Seq([owner : Sessions, active : BOOLEAN]) /\ Newest <= MaxGen
    /\ current \in 0 .. Newest /\ leaseLeft \in 0 .. LeaseTicks
    /\ ops \in Seq([type : OpTypes, s : Sessions, from : {"absent", "active", "cancelled"},
                     event : Nat, lease : 0 .. MaxGen, target : EventTypes \cup {"none"},
                     marker : BOOLEAN, source : 0 .. MaxBook,
                     result : {"none", "completed", "rolled_back"}])
    /\ events \in [Sessions -> Seq(EventTypes)]
    /\ indexed \subseteq born /\ born \subseteq Sessions
    /\ plan \in [Sessions -> NoPlan .. MaxBook]
    /\ book \in Seq(Sessions \cup {"edit"}) /\ undelivered \subseteq 1 .. Len(book)
    /\ stages \in [Sessions -> [Chapters -> Seq(1 .. MaxGen)]]
    /\ ledger \in [Sessions -> Seq([after : 0 .. MaxBook, owed : BOOLEAN])]
    /\ proc \in [Procs -> [pc : PCs, cmd : AllCommands \cup {"none", "loop", "gate", "arc", "return", "complete"},
                           s : Sessions \cup {"none"}, own : BOOLEAN, op : 0 .. MaxOps, gen : 0 .. MaxGen,
                           base : 0 .. MaxBook, cursor : 0 .. Stages, ok : BOOLEAN]]
    /\ faults \in 0 .. MaxFaults

\* However processes crash and overtake each other, the journal never holds two operations
\* without a result, and no event is recorded that a committed operation did not intend
\* (session.py:_reconcile_orphans_fenced, operations.py).
JournalIsSerial ==
    /\ \A i \in 1 .. Len(ops) : ops[i].result = "none" => i = Len(ops)
    /\ \A s \in Sessions : \A n \in 1 .. Len(events[s]) : \E i \in 1 .. Len(ops) :
          /\ ops[i].s = s /\ ops[i].event = n - 1 /\ ops[i].target = events[s][n]
          /\ ops[i].marker /\ ops[i].result # "rolled_back"

\* The stage receipts of one chapter are fenced by one writer: no other session held the
\* lease between two of them, whoever crashed, expired or took over (receipts.py:91).
OneWriterPerChapter ==
    \A s \in Sessions, c \in Chapters : \A i, j \in 1 .. Len(stages[s][c]) :
        i <= j => \A g \in stages[s][c][i] .. stages[s][c][j] : history[g].owner = s

\* Once its operations are settled, a session that is cancelled, abandoned or completed
\* does not keep the book from other sessions (session.py:_roll_forward_terminal_transition).
InactiveHoldsNoLease ==
    (FenceFree /\ Pending = {}) => \A s \in Sessions : State(s) # "active" => ~Owned(s)

\* A completed session has published every chapter it was asked for and delivered them all.
CompletedInFull ==
    \A s \in Sessions : State(s) = "completed" =>
        /\ Len(ledger[s]) = Requested /\ Len(Published(s)) = Requested
        /\ \A k \in Chapters : Published(s)[k] \notin undelivered

\* The k-th chapter a session publishes is the k-th chapter of its plan, and no chapter is
\* published twice or skipped, whatever other sessions, editors and crashes do; the ledger
\* is at most one chapter behind.
PublishedAsPlanned ==
    \A s \in Sessions :
        /\ Len(Published(s)) <= Requested /\ Len(Published(s)) <= Len(ledger[s]) + 1
        /\ \A k \in 1 .. Len(Published(s)) :
              NumberOf(Published(s)[k]) = NumberOf(plan[s]) + k

\* What a session publishes is its plan, and all of it when it completes (completion.py).
ChaptersAsPlanned == PublishedAsPlanned /\ CompletedInFull

\* The operation recovery would take first, or none.
Oldest == {i \in Pending : \A j \in Pending : i <= j}

\* A pending source operation without a marker can be rolled back, and a committed
\* terminal one rolled forward, at any time.
RecoverableHalves ==
    FenceFree => \A i \in Oldest :
        /\ ops[i].type \in Source /\ ~ops[i].marker => ~BackRaises(ops[i])
        /\ ops[i].type \notin Source /\ ops[i].marker => ~ForwardRaises(ops[i])

\* The journal of a book's sessions: serial, settled without a lease left over, and the
\* halves recovery can always take (session.py:_reconcile_orphans_fenced).
JournalHolds == JournalIsSerial /\ InactiveHoldsNoLease /\ RecoverableHalves

\* Whatever operation a crashed or refused command leaves behind, opening the store again
\* settles it, when one process works on the book (session.py:_reconcile_orphans_fenced).
RecoverySettles == (Pending # {}) ~> (Pending = {} \/ Newest = MaxGen)

\* session.py:170 says that reconcile_orphans will `Recover or safely roll back incomplete
\* cross-artifact operations': no state makes it raise.
RecoveryPossible ==
    FenceFree => \A i \in Oldest :
        IF ops[i].marker THEN ~ForwardRaises(ops[i]) ELSE ~BackRaises(ops[i])

\* docs/reliability-autonomy-upgrade-plan.md:241 says that executing the same plan again
\* resumes its session: a command that gives up an active session and rolls itself back leaves
\* a StoryProject which is not where the session's ledger says.
ExecutionResumes ==
    [][\A p \in Procs, i \in 1 .. Len(ops) :
          proc[p].pc = "undo" /\ proc[p].own /\ proc[p].op = i /\ ops[i].from = "active"
          /\ ops'[i].result = "rolled_back" => Len(book) # ExpectedSource(ops[i].s)]_vars

\* docs/reliability-autonomy-upgrade-plan.md says that a book has one writing session at
\* any time: no session publishes a chapter while another one holds the book's lease.
OneWritingSession ==
    [][\A s \in Sessions : Len(Published(s)') > Len(Published(s)) => ~(Live /\ Foreign(s))]_vars
=============================================================================
