---------------------------- MODULE SessionProofs ----------------------------
(***************************************************************************)
(* Proofs about autonomous sessions.                                       *)
(*                                                                         *)
(* AutonomySession: one writer per chapter, a serial journal whose halves  *)
(* can be settled, no lease left behind, and a completed session that      *)
(* published the chapters of its plan, each one once.  The fence carries   *)
(* the journal: its holder has found no operation pending before it began  *)
(* one, so the pending operation is the newest and only the holder moves   *)
(* it (Placed, Journalled, Unsettled).  The source check carries the plan: *)
(* while the book has the length a runner saw, it ends where the session's *)
(* ledger does (InTurn, Counted).                                          *)
(*                                                                         *)
(* ChapterStages: the evidence of a published chapter tells how its body   *)
(* came about, and nothing durable is taken back.  The walk carries the    *)
(* evidence: up to its cursor the runner has given every stage what its    *)
(* receipt says (Walked), and no receipt follows a validator that accepted *)
(* (Linked), so at publication the walk is over all of them.               *)
(***************************************************************************)
EXTENDS AutonomySession, ChapterStages, FiniteSetTheorems, SequenceTheorems, TLAPS

Latest == ops[Len(ops)]
Unfinished == ops # <<>> /\ Latest.result = "none"

\* The process that holds the fence, and the one that drives the latest operation.
OneFence == \A p, q \in Procs : proc[p].pc \in Fenced /\ proc[q].pc \in Fenced => p = q
Driving == Fenced \ {"recover", "begin"}

\* Where a process is, against the operation it drives.
Placed(p) ==
  LET pc == proc[p].pc IN
  /\ pc # "idle" => proc[p].s \in Sessions
  /\ pc = "begin" => Pending = {}
  /\ pc \in Driving => ops # <<>> /\ proc[p].op = Len(ops) /\ Latest.result = "none"
  /\ pc \in {"acquire", "boundary", "source"} => Latest.type \in Source
  /\ pc \in {"acquire", "boundary", "source", "mark"} => Latest.s = proc[p].s
  /\ pc \in {"acquire", "boundary", "source", "mark", "back", "undo"} => ~Latest.marker
  /\ pc \in {"forward", "index", "release", "finish"} => Latest.marker
  /\ pc = "index" => Latest.s \in born /\ State(Latest.s) = "active"
  /\ pc = "release" => Latest.type \notin Source
  /\ pc \in {"index", "release", "finish"} => events[Latest.s] # <<>>

\* What an intent asks for, by the state it was made in.
Targeted(o) ==
  /\ o.from = "absent" => o.type = "execute" /\ o.target = "started"
  /\ o.from = "active" /\ o.type \in Source => o.target = "none"
  /\ o.from = "cancelled" /\ o.type \in Source => o.target = "resumed"
  /\ o.type = "cancel" => o.target = "cancelled"
  /\ o.type = "abandon" => o.target = "abandoned"
  /\ o.type = "complete" => o.target = "completed"

Intended(s, n) ==
  \E i \in 1 .. Len(ops) :
    /\ ops[i].s = s /\ ops[i].event = n - 1 /\ ops[i].target = events[s][n]
    /\ ops[i].marker /\ ops[i].result # "rolled_back"

\* The journal as a whole: only its newest operation may be pending.
Journalled ==
  /\ \A i \in 1 .. Len(ops) :
       /\ Targeted(ops[i]) /\ ops[i].lease <= Newest
       /\ ops[i].result = "none" => i = Len(ops)
       /\ ops[i].result # "none" => (ops[i].marker <=> ops[i].result = "completed")
  /\ \A s \in born : events[s] = <<>> =>
       Unfinished /\ Latest.marker /\ Latest.s = s /\ Latest.from = "absent"
  /\ \A s \in Sessions : \A n \in 1 .. Len(events[s]) : Intended(s, n)

\* What the pending operation can still rely on.
Unsettled ==
  Unfinished => LET o == Latest IN
    /\ \/ Len(events[o.s]) = o.event /\ State(o.s) = o.from
       \/ o.marker /\ Len(events[o.s]) = o.event + 1 /\ o.target # "none" /\ Last(events[o.s]) = o.target
    /\ ~o.marker /\ o.from = "absent" => o.s \notin born
    /\ o.marker /\ o.type \notin Source => ~Foreign(o.s)

\* A session that is not active has the lease only for the pending operation, which will
\* give it back or make the session active.
Loose(s) == Owned(s) /\ State(s) # "active"
Freed ==
  \A s \in Sessions : Loose(s) =>
    /\ Unfinished /\ Latest.s = s
    /\ \/ Latest.marker
       \/ Latest.type \in Source /\ (Latest.from = "absent" => Newest # Latest.lease)
    /\ \A p \in Procs : proc[p].pc \notin {"undo", "finish"}

\* A runner between the source check and the commit of its chapter.
InChapter(p) ==
  \/ proc[p].pc \in {"renew", "gate", "stage", "commit"}
  \/ proc[p].pc \in Fenced /\ proc[p].cmd = "gate"

Sized ==
  /\ Len(book) <= MaxBook /\ Len(ops) <= MaxOps
  /\ \A s \in Sessions, c \in Chapters : \A i \in 1 .. Len(stages[s][c]) : stages[s][c][i] <= Newest
  /\ \A p \in Procs :
       proc[p].pc # "commit" /\ (proc[p].pc = "choose" \/ InChapter(p)) => proc[p].cursor < Stages

IInv ==
  /\ TypeOK /\ Sized /\ OneFence /\ \A p \in Procs : Placed(p)
  /\ Journalled /\ Unsettled /\ Freed /\ OneWriterPerChapter

-----------------------------------------------------------------------------
(* The parts of the type invariant.                                        *)

Generation == [owner : Sessions, active : BOOLEAN]
Operation == [type : OpTypes, s : Sessions, from : {"absent", "active", "cancelled"},
              event : Nat, lease : 0 .. MaxGen, target : EventTypes \cup {"none"},
              marker : BOOLEAN, source : 0 .. MaxBook,
              result : {"none", "completed", "rolled_back"}]
Process == [pc : PCs, cmd : AllCommands \cup {"none", "loop", "gate", "arc", "return", "complete"},
            s : Sessions \cup {"none"}, own : BOOLEAN, op : 0 .. MaxOps, gen : 0 .. MaxGen,
            base : 0 .. MaxBook, cursor : 0 .. Stages, ok : BOOLEAN]

LeaseType ==
  /\ history \in Seq(Generation) /\ Newest <= MaxGen
  /\ current \in 0 .. Newest /\ leaseLeft \in 0 .. LeaseTicks
FilesType ==
  /\ ops \in Seq(Operation) /\ events \in [Sessions -> Seq(EventTypes)]
  /\ indexed \subseteq born /\ born \subseteq Sessions
WorkType ==
  /\ plan \in [Sessions -> NoPlan .. MaxBook]
  /\ book \in Seq(Sessions \cup {"edit"}) /\ undelivered \subseteq 1 .. Len(book)
  /\ stages \in [Sessions -> [Chapters -> Seq(1 .. MaxGen)]]
  /\ ledger \in [Sessions -> Seq([after : 0 .. MaxBook, owed : BOOLEAN])]

LEMMA TypeParts ==
  TypeOK <=> /\ LeaseType /\ FilesType /\ WorkType
             /\ proc \in [Procs -> Process] /\ faults \in 0 .. MaxFaults
BY DEF TypeOK, LeaseType, FilesType, WorkType, Generation, Operation, Process

\* The lease is left alone, repaired or run down, or it gets one more generation.
NoGeneration == history' = history
NewGeneration(s, active) ==
  /\ Newest < MaxGen
  /\ history' = Append(history, [owner |-> s, active |-> active])

LEMMA NewGenerationFacts ==
  ASSUME AutonomyAssumption, LeaseType,
         NEW s \in Sessions, NEW active \in BOOLEAN, NewGeneration(s, active)
  PROVE  /\ history' \in Seq(Generation) /\ Newest' = Newest + 1 /\ Newest' <= MaxGen
         /\ history'[Newest'] = [owner |-> s, active |-> active]
         /\ \A g \in 1 .. Newest : history'[g] = history[g]
         /\ \A t : Owned(t)' <=> t = s /\ active
         /\ \A t : Foreign(t)' <=> t # s /\ active
<1> DEFINE g == [owner |-> s, active |-> active]
<1>1. g \in Generation
  BY DEF Generation
<1>2. /\ history \in Seq(Generation) /\ Len(history) \in Nat /\ MaxGen \in Nat
      /\ history' = Append(history, g) /\ Len(history) < MaxGen
  BY DEF LeaseType, NewGeneration, Newest, AutonomyAssumption
<1>3. history' \in Seq(Generation) /\ Len(history') = Len(history) + 1
  BY <1>1, <1>2, AppendProperties
<1>4. /\ history'[Len(history) + 1] = g
      /\ \A k \in 1 .. Len(history) : history'[k] = history[k]
  BY <1>1, <1>2, AppendProperties
<1>5. /\ Newest' = Newest + 1 /\ Newest' <= MaxGen /\ Newest' > 0
      /\ history'[Newest'] = g /\ g.owner = s /\ g.active = active
  BY <1>2, <1>3, <1>4 DEF Newest
<1> HIDE DEF g
<1>6. \A t : (Owned(t)' <=> t = s /\ active) /\ (Foreign(t)' <=> t # s /\ active)
  BY <1>5 DEF Owned, Foreign
<1> QED BY <1>3, <1>4, <1>5, <1>6 DEF Newest, g

LEMMA LeaseKept ==
  ASSUME history' = history
  PROVE  /\ Newest' = Newest
         /\ \A t : (Owned(t)' <=> Owned(t)) /\ (Foreign(t)' <=> Foreign(t))
BY DEF Newest, Owned, Foreign

LEMMA PlacedFacts ==
  ASSUME IInv, NEW p \in Procs
  PROVE  /\ proc[p] \in Process
         /\ proc[p].pc # "idle" => proc[p].s \in Sessions
         /\ ops \in Seq(Operation) /\ Len(ops) \in Nat
         /\ \A i \in 1 .. Len(ops) : ops[i] \in Operation
         /\ ops # <<>> => Latest \in Operation /\ Len(ops) \in 1 .. Len(ops)
         /\ proc[p].pc \in Driving => ops[proc[p].op] = Latest /\ ops # <<>>
<1>1. proc[p] \in Process /\ ops \in Seq(Operation) /\ Placed(p)
  BY TypeParts DEF IInv, FilesType
<1>2. Len(ops) \in Nat /\ \A i \in 1 .. Len(ops) : ops[i] \in Operation
  BY <1>1
<1>3. ops # <<>> => Len(ops) \in 1 .. Len(ops)
  BY <1>1
<1> QED BY <1>1, <1>2, <1>3 DEF Placed, Latest

-----------------------------------------------------------------------------
(* The lease.                                                              *)

LeaseMoves ==
  /\ LeaseType'
  /\ NoGeneration \/ \E s \in Sessions, active \in BOOLEAN : NewGeneration(s, active)

LEMMA LeaseStays ==
  ASSUME AutonomyAssumption, LeaseType, UNCHANGED lease \/ Repaired
  PROVE  LeaseMoves
<1>1. history' = history /\ leaseLeft' = leaseLeft /\ Newest' = Newest
  BY DEF lease, Repaired, Newest
<1>2. current' \in 0 .. Newest
  BY DEF lease, Repaired, Newest, LeaseType
<1> QED BY <1>1, <1>2 DEF LeaseMoves, NoGeneration, LeaseType

LEMMA LeasePublished ==
  ASSUME AutonomyAssumption, LeaseType, NEW s \in Sessions, NEW active \in BOOLEAN,
         NewGeneration(s, active),
         current' \in {current, Newest + 1}, leaseLeft' = IF active THEN LeaseTicks ELSE 0
  PROVE  LeaseMoves
<1>1. history' \in Seq(Generation) /\ Newest' = Newest + 1 /\ Newest' <= MaxGen
  BY NewGenerationFacts
<1>2. Newest \in Nat /\ current \in 0 .. Newest /\ LeaseTicks \in Nat
  BY DEF LeaseType, Newest, AutonomyAssumption
<1>3. current' \in 0 .. Newest' /\ leaseLeft' \in 0 .. LeaseTicks
  BY <1>1, <1>2
<1> QED BY <1>1, <1>3 DEF LeaseMoves, LeaseType

LEMMA PublishMoves ==
  ASSUME AutonomyAssumption, LeaseType, NEW s \in Sessions, NEW active \in BOOLEAN, Publish(s, active)
  PROVE  LeaseMoves /\ NewGeneration(s, active)
<1>1. NewGeneration(s, active) /\ current' = Newest + 1 /\ leaseLeft' = IF active THEN LeaseTicks ELSE 0
  BY DEF Publish, NewGeneration
<1> QED BY <1>1, LeasePublished

LEMMA LeaseStep ==
  ASSUME AutonomyAssumption, IInv, Next
  PROVE  LeaseMoves
<1>0. LeaseType
  BY TypeParts DEF IInv
<1>1. CASE Edit \/ \E s \in Sessions : Preview(s)
  BY <1>0, <1>1, LeaseStays DEF Edit, Preview
<1>2. CASE Tick
  <2>1. history' = history /\ current' = current /\ Newest' = Newest /\ leaseLeft' \in 0 .. LeaseTicks
    BY <1>0, <1>2 DEF Tick, LeaseType, Newest, AutonomyAssumption
  <2> QED BY <1>0, <2>1 DEF LeaseMoves, LeaseType, NoGeneration
<1>3. ASSUME NEW p \in Procs, FencedStep(p) \/ RunnerStep(p) \/ Crash(p) \/ CrashInPublish(p)
                \/ \E c \in Commands, s \in Sessions : Command(p, c, s)
      PROVE  LeaseMoves
  <2> DEFINE o == ops[proc[p].op]
  <2>0. /\ proc[p].pc # "idle" => proc[p].s \in Sessions
        /\ proc[p].pc \in Driving => o.s \in Sessions
    BY PlacedFacts DEF Operation
  <2>1. CASE Recover(p) \/ Boundary(p) \/ CheckSource(p) \/ Index(p) \/ Finish(p) \/ Undo(p)
    BY <1>0, <2>1, LeaseStays DEF Recover, Boundary, CheckSource, Index, Finish, Undo
  <2>2. CASE \/ Drive(p) \/ Retry(p) \/ Call(p) \/ Choose(p) \/ Stage(p) \/ Commit(p)
             \/ Deliver(p) \/ Record(p) \/ Crash(p)
    BY <1>0, <2>2, LeaseStays DEF Drive, Retry, Call, Choose, Stage, Commit, Deliver, Record, Crash
  <2>3. CASE BeginSource(p) \/ BeginStatus(p) \/ Mark(p) \/ Forward(p)
    BY <1>0, <2>3, LeaseStays DEF BeginSource, BeginStatus, Mark, Forward
  <2>4. CASE \E c \in Commands, s \in Sessions : Command(p, c, s)
    BY <1>0, <2>4, LeaseStays DEF Command
  <2>5. CASE BeginTerminal(p)
    <3>1. Repaired \/ Publish(proc[p].s, FALSE)
      BY <2>5 DEF BeginTerminal
    <3>2. proc[p].s \in Sessions
      BY <2>0, <2>5 DEF BeginTerminal
    <3> QED BY <1>0, <3>1, <3>2, LeaseStays, PublishMoves
  <2>6. CASE Acquire(p)
    <3>1. Repaired \/ Publish(proc[p].s, TRUE)
      BY <2>6 DEF Acquire
    <3>2. proc[p].s \in Sessions
      BY <2>0, <2>6 DEF Acquire
    <3> QED BY <1>0, <3>1, <3>2, LeaseStays, PublishMoves
  <2>7. CASE Release(p) \/ Back(p)
    <3>1. Repaired \/ Publish(o.s, FALSE)
      BY <2>7 DEF Release, Back, ReleaseOwned
    <3>2. o.s \in Sessions
      BY <2>0, <2>7 DEF Release, Back, Driving, Fenced
    <3> QED BY <1>0, <3>1, <3>2, LeaseStays, PublishMoves
  <2>8. CASE Renew(p)
    <3>1. Repaired \/ Publish(proc[p].s, TRUE)
      BY <2>8 DEF Renew
    <3>2. proc[p].s \in Sessions
      BY <2>0, <2>8 DEF Renew
    <3> QED BY <1>0, <3>1, <3>2, LeaseStays, PublishMoves
  <2>9. CASE CrashInPublish(p)
    <3>1. /\ Newest < MaxGen /\ current' = current
          /\ proc[p].pc # "idle"
          /\ proc[p].pc \in {"release", "back"} \/
             (history' = Append(history, [owner |-> proc[p].s, active |-> TRUE]) /\ leaseLeft' = LeaseTicks)
          /\ proc[p].pc \in {"release", "back"} =>
             (history' = Append(history, [owner |-> o.s, active |-> FALSE]) /\ leaseLeft' = 0)
      BY <2>9 DEF CrashInPublish, lease
    <3>2. CASE proc[p].pc \in {"release", "back"}
      <4>1. o.s \in Sessions /\ NewGeneration(o.s, FALSE) /\ leaseLeft' = 0
        BY <2>0, <3>1, <3>2 DEF NewGeneration, Driving, Fenced
      <4> QED BY <1>0, <3>1, <4>1, LeasePublished
    <3>3. CASE proc[p].pc \notin {"release", "back"}
      <4>1. proc[p].s \in Sessions /\ NewGeneration(proc[p].s, TRUE) /\ leaseLeft' = LeaseTicks
        BY <2>0, <3>1, <3>3 DEF NewGeneration
      <4> QED BY <1>0, <3>1, <4>1, LeasePublished
    <3> QED BY <3>2, <3>3
  <2> QED BY <1>3, <2>1, <2>2, <2>3, <2>4, <2>5, <2>6, <2>7, <2>8, <2>9 DEF FencedStep, RunnerStep
<1> QED BY <1>1, <1>2, <1>3 DEF Next

-----------------------------------------------------------------------------
(* What each step does to its process.                                     *)

Only(p) == proc' \in [Procs -> Process] /\ \A q \in Procs : q # p => proc'[q] = proc[q]
Becomes(p, r) == Only(p) /\ proc'[p] = r

LEMMA ProcChange ==
  ASSUME proc \in [Procs -> Process], NEW p \in Procs, NEW r \in Process, proc' = [proc EXCEPT ![p] = r]
  PROVE  Becomes(p, r)
BY DEF Becomes, Only

LEMMA IdleType ==
  ASSUME AutonomyAssumption
  PROVE  Idle \in Process
BY DEF Idle, Process, PCs, AutonomyAssumption

LEMMA LeaveChange ==
  ASSUME AutonomyAssumption, proc \in [Procs -> Process], NEW p \in Procs, Leave(p)
  PROVE  Becomes(p, Idle)
<1> QED BY IdleType, ProcChange DEF Leave

LEMMA GotoChange ==
  ASSUME proc \in [Procs -> Process], NEW p \in Procs, NEW pc \in PCs, Goto(p, pc)
  PROVE  Becomes(p, [proc[p] EXCEPT !.pc = pc])
<1> DEFINE r == [proc[p] EXCEPT !.pc = pc]
<1>1. r \in Process
  BY DEF Process
<1>2. proc' = [proc EXCEPT ![p] = r]
  BY DEF Goto
<1> HIDE DEF r
<1>3. Becomes(p, r)
  BY <1>1, <1>2, ProcChange
<1> QED BY <1>3 DEF r

LEMMA CommandChange ==
  ASSUME AutonomyAssumption, IInv, NEW p \in Procs, NEW c \in Commands, NEW s \in Sessions, Command(p, c, s)
  PROVE  Becomes(p, [Idle EXCEPT !.pc = "recover", !.cmd = c, !.s = s])
<1> DEFINE r == [Idle EXCEPT !.pc = "recover", !.cmd = c, !.s = s]
<1>1. c \in AllCommands /\ Idle \in Process
  BY IdleType DEF AutonomyAssumption
<1>4. r \in Process
  BY <1>1 DEF Process, PCs, Fenced
<1>2. proc' = [proc EXCEPT ![p] = r] /\ proc \in [Procs -> Process]
  BY TypeParts DEF Command, IInv
<1> HIDE DEF r
<1>3. Becomes(p, r)
  BY <1>2, <1>4, ProcChange
<1> QED BY <1>3 DEF r

LEMMA CallChange ==
  ASSUME IInv, NEW p \in Procs, Call(p)
  PROVE  Becomes(p, [proc[p] EXCEPT !.pc = "recover", !.cmd = proc[p].pc, !.own = FALSE])
<1> DEFINE r == [proc[p] EXCEPT !.pc = "recover", !.cmd = proc[p].pc, !.own = FALSE]
<1>0. proc \in [Procs -> Process] /\ proc[p].pc \in {"loop", "gate", "arc", "return", "complete"}
  BY TypeParts DEF Call, IInv
<1>4. /\ proc[p] \in Process /\ "recover" \in PCs
      /\ proc[p].pc \in AllCommands \cup {"none", "loop", "gate", "arc", "return", "complete"}
  BY <1>0 DEF PCs, Fenced
<1>1. r \in Process
  BY <1>4, ZenonT(60) DEF Process
<1>2. proc' = [proc EXCEPT ![p] = r]
  BY DEF Call
<1> HIDE DEF r
<1>3. Becomes(p, r)
  BY <1>0, <1>1, <1>2, ProcChange
<1> QED BY <1>3 DEF r

LEMMA PendingIsLatest ==
  ASSUME IInv
  PROVE  /\ ~Unfinished => Pending = {}
         /\ Unfinished => Pending = {Len(ops)}
<1>1. ops \in Seq(Operation) /\ \A i \in 1 .. Len(ops) : ops[i].result = "none" => i = Len(ops)
  BY TypeParts DEF IInv, FilesType, Journalled
<1>2. \A i \in Pending : i = Len(ops) /\ ops # <<>>
  BY <1>1 DEF Pending
<1>3. ops # <<>> => Len(ops) \in 1 .. Len(ops)
  BY <1>1
<1>4. CASE Unfinished
  BY <1>2, <1>3, <1>4 DEF Unfinished, Latest, Pending
<1>5. CASE ~Unfinished
  BY <1>2, <1>5 DEF Unfinished, Latest, Pending
<1> QED BY <1>4, <1>5

LEMMA RecoverChange ==
  ASSUME IInv, NEW p \in Procs, Recover(p)
  PROVE  \/ ~Unfinished /\ Becomes(p, [proc[p] EXCEPT !.pc = "begin"])
         \/ /\ Unfinished
            /\ Becomes(p, [proc[p] EXCEPT !.op = Len(ops), !.pc = IF Latest.marker THEN "forward" ELSE "back"])
<1>0. proc \in [Procs -> Process]
  BY TypeParts DEF IInv
<1>1. CASE ~Unfinished
  <2>1. Goto(p, "begin")
    BY <1>1, PendingIsLatest DEF Recover
  <2>2. "begin" \in PCs
    BY DEF PCs, Fenced
  <2> QED BY <1>0, <1>1, <2>1, <2>2, GotoChange
<1>2. CASE Unfinished
  <2> DEFINE r == [proc[p] EXCEPT !.op = Len(ops), !.pc = IF Latest.marker THEN "forward" ELSE "back"]
  <2>1. Pending = {Len(ops)} /\ Len(ops) \in Nat
    BY <1>2, PendingIsLatest, PlacedFacts
  <2>2. (CHOOSE i \in Pending : \A j \in Pending : i <= j) = Len(ops)
    BY <2>1
  <2>3. proc' = [proc EXCEPT ![p] = r]
    BY <2>1, <2>2 DEF Recover, Latest
  <2>4. Len(ops) \in 0 .. MaxOps
    BY <2>1 DEF IInv, Sized
  <2> DEFINE pc == IF Latest.marker THEN "forward" ELSE "back"
  <2>7. pc \in PCs /\ proc[p] \in Process
    BY <1>0 DEF PCs, Fenced
  <2> HIDE DEF pc
  <2>8. [proc[p] EXCEPT !.op = Len(ops), !.pc = pc] \in Process
    BY <2>4, <2>7, ZenonT(60) DEF Process
  <2>5. r \in Process
    BY <2>8 DEF pc
  <2> HIDE DEF r
  <2>6. Becomes(p, r)
    BY <1>0, <2>3, <2>5, ProcChange
  <2> QED BY <1>2, <2>6 DEF r
<1> QED BY <1>1, <1>2

\* The intent a process writes, and what it does then.
Intent(p, target) ==
  [type |-> proc[p].cmd, s |-> proc[p].s, from |-> State(proc[p].s),
   event |-> Len(events[proc[p].s]), lease |-> Newest, target |-> target,
   marker |-> FALSE, source |-> 0, result |-> "none"]
Begun(p, target) ==
  /\ proc[p].pc = "begin" /\ proc[p].cmd \in OpTypes /\ proc[p].s \in Sessions /\ Len(ops) < MaxOps
  /\ Intent(p, target) \in Operation /\ Targeted(Intent(p, target))
  /\ ops' = Append(ops, Intent(p, target))
  /\ Becomes(p, [proc[p] EXCEPT !.op = Len(ops) + 1, !.own = TRUE,
                   !.pc = IF proc[p].cmd \in Source THEN "acquire" ELSE "mark"])

LEMMA BeginChange ==
  ASSUME AutonomyAssumption, IInv, NEW p \in Procs, NEW target \in EventTypes \cup {"none"},
         Begin(p, target), proc[p].pc = "begin", proc[p].cmd \in OpTypes,
         State(proc[p].s) \in {"absent", "active", "cancelled"}, Targeted(Intent(p, target))
  PROVE  Begun(p, target)
<1> DEFINE next == IF proc[p].cmd \in Source THEN "acquire" ELSE "mark"
           r == [proc[p] EXCEPT !.op = Len(ops) + 1, !.own = TRUE, !.pc = next]
<1>1. /\ proc \in [Procs -> Process] /\ proc[p].s \in Sessions /\ Len(ops) \in Nat
      /\ events \in [Sessions -> Seq(EventTypes)] /\ history \in Seq(Generation) /\ Newest <= MaxGen
  BY TypeParts, PlacedFacts DEF IInv, LeaseType, FilesType
<1>2. /\ Len(ops) < MaxOps /\ ops' = Append(ops, Intent(p, target)) /\ proc' = [proc EXCEPT ![p] = r]
  BY DEF Begin, Intent
<1>3. Len(ops) + 1 \in 0 .. MaxOps
  BY <1>1, <1>2 DEF AutonomyAssumption
<1>8. next \in PCs
  BY DEF PCs, Fenced
<1> HIDE DEF next
<1>4. r \in Process
  BY <1>1, <1>3, <1>8, ZenonT(60) DEF Process
<1> HIDE DEF r
<1>5. Becomes(p, r)
  BY <1>1, <1>2, <1>4, ProcChange
<1>6. Newest \in 0 .. MaxGen /\ Len(events[proc[p].s]) \in Nat /\ 0 \in 0 .. MaxBook
  BY <1>1 DEF AutonomyAssumption, Newest
<1>7. Intent(p, target) \in Operation
  BY <1>1, <1>6 DEF Intent, Operation
<1> QED BY <1>1, <1>2, <1>5, <1>7 DEF Begun, r, next

LEMMA BeginSourceChange ==
  ASSUME AutonomyAssumption, IInv, NEW p \in Procs, BeginSource(p)
  PROVE  \/ UNCHANGED ops /\ Becomes(p, Idle)
         \/ \E target \in EventTypes \cup {"none"} : Begun(p, target)
<1> DEFINE st == State(proc[p].s)
           cmd == proc[p].cmd
<1>0. proc \in [Procs -> Process]
  BY TypeParts DEF IInv
<1>1. proc[p].pc = "begin" /\ cmd \in {"execute", "resume"}
  BY DEF BeginSource, Source
<1>2. CASE Leave(p) /\ UNCHANGED ops
  BY <1>0, <1>2, LeaveChange
<1>3. CASE st = "absent" /\ cmd = "execute" /\ Begin(p, "started")
  <2>1. Targeted(Intent(p, "started"))
    BY <1>3 DEF Targeted, Intent
  <2> QED BY <1>1, <1>3, <2>1, BeginChange DEF OpTypes, EventTypes
<1>4. CASE st = "active" /\ Begin(p, "none")
  <2>1. Targeted(Intent(p, "none"))
    BY <1>1, <1>4 DEF Targeted, Intent
  <2> QED BY <1>1, <1>4, <2>1, BeginChange DEF OpTypes, EventTypes
<1>5. CASE st = "cancelled" /\ Begin(p, "resumed")
  <2>1. Targeted(Intent(p, "resumed"))
    BY <1>1, <1>5 DEF Targeted, Intent
  <2> QED BY <1>1, <1>5, <2>1, BeginChange DEF OpTypes, EventTypes
<1>6. \/ st = "absent" /\ cmd = "execute" /\ Begin(p, "started")
      \/ st = "active" /\ Begin(p, "none")
      \/ st = "cancelled" /\ Begin(p, "resumed")
      \/ Leave(p) /\ UNCHANGED ops
  BY DEF BeginSource
<1> QED BY <1>2, <1>3, <1>4, <1>5, <1>6

LEMMA BeginTerminalChange ==
  ASSUME AutonomyAssumption, IInv, NEW p \in Procs, BeginTerminal(p)
  PROVE  /\ proc[p].pc = "begin" /\ proc[p].cmd \in {"cancel", "abandon", "complete"}
         /\ \/ UNCHANGED ops /\ Becomes(p, Idle)
            \/ \E target \in {"cancelled", "abandoned", "completed"} :
                 /\ Begun(p, target) /\ State(proc[p].s) \in {"active", "cancelled"} /\ Repaired
                 /\ target = "completed" => Completable(proc[p].s)
<1> DEFINE s == proc[p].s
           cmd == proc[p].cmd
           target == CASE cmd = "cancel" -> "cancelled"
                       [] cmd = "abandon" -> "abandoned"
                       [] OTHER -> "completed"
<1>0. proc \in [Procs -> Process]
  BY TypeParts DEF IInv
<1>1. proc[p].pc = "begin" /\ cmd \in {"cancel", "abandon", "complete"}
  BY DEF BeginTerminal
<1>2. CASE Leave(p) /\ UNCHANGED ops
  BY <1>0, <1>1, <1>2, LeaveChange
<1>3. CASE Repaired /\ Allowed(s, target) /\ (target = "completed" => Completable(s)) /\ Begin(p, target)
  <2>1. target \in {"cancelled", "abandoned", "completed"}
    BY <1>1
  <2>2. State(s) \in {"active", "cancelled"}
    BY <1>3, <2>1 DEF Allowed
  <2>3. Targeted(Intent(p, target))
    BY <1>1, <2>2 DEF Targeted, Intent, Source
  <2>4. Begun(p, target)
    BY <1>1, <1>3, <2>1, <2>2, <2>3, BeginChange DEF OpTypes, EventTypes
  <2> QED BY <1>1, <1>3, <2>1, <2>2, <2>4
<1>4. (Leave(p) /\ UNCHANGED ops) \/
      (Repaired /\ Allowed(s, target) /\ (target = "completed" => Completable(s)) /\ Begin(p, target))
  BY DEF BeginTerminal
<1> QED BY <1>1, <1>2, <1>3, <1>4

LEMMA BeginStatusChange ==
  ASSUME AutonomyAssumption, IInv, NEW p \in Procs, BeginStatus(p)
  PROVE  \/ Becomes(p, Idle)
         \/ /\ State(proc[p].s) = "active" /\ ~Blocked(proc[p].s) /\ proc[p].cmd = "loop"
            /\ Becomes(p, [proc[p] EXCEPT !.gen = Newest, !.cursor = 0,
                 !.pc = IF Len(ledger[proc[p].s]) = Requested THEN "complete" ELSE "choose"])
         \/ /\ State(proc[p].s) = "active" /\ ~Blocked(proc[p].s) /\ proc[p].cmd = "gate"
            /\ Becomes(p, [proc[p] EXCEPT !.pc = "stage"])
         \/ /\ proc[p].cmd = "arc"
            /\ Becomes(p, [proc[p] EXCEPT !.pc = "drive"]) \/ Becomes(p, [proc[p] EXCEPT !.pc = "retry"])
<1>0. proc \in [Procs -> Process] /\ LeaseType
  BY TypeParts DEF IInv
<1>1. CASE Leave(p)
  BY <1>0, <1>1, LeaveChange
<1>2. CASE proc[p].cmd = "gate" /\ State(proc[p].s) = "active" /\ ~Blocked(proc[p].s) /\ Goto(p, "stage")
  <2>1. "stage" \in PCs
    BY DEF PCs
  <2> QED BY <1>0, <1>2, <2>1, GotoChange
<1> DEFINE r == [proc[p] EXCEPT !.gen = Newest, !.cursor = 0,
                   !.pc = IF Len(ledger[proc[p].s]) = Requested THEN "complete" ELSE "choose"]
<1>3. CASE /\ proc[p].cmd = "loop" /\ State(proc[p].s) = "active" /\ ~Blocked(proc[p].s)
           /\ proc' = [proc EXCEPT ![p] = r]
  <2>1. Newest \in 0 .. MaxGen /\ 0 \in 0 .. Stages
    BY <1>0 DEF LeaseType, Newest, AutonomyAssumption
  <2>2. r \in Process
    BY <1>0, <2>1, ZenonT(60) DEF Process, PCs
  <2> HIDE DEF r
  <2>3. Becomes(p, r)
    BY <1>0, <1>3, <2>2, ProcChange
  <2> QED BY <1>3, <2>3 DEF r
<1>5. CASE proc[p].cmd = "arc" /\ (Goto(p, "drive") \/ Goto(p, "retry"))
  <2>1. {"drive", "retry"} \subseteq PCs
    BY DEF PCs
  <2> QED BY <1>0, <1>5, <2>1, GotoChange
<1>4. \/ Leave(p)
      \/ proc[p].cmd = "arc" /\ (Goto(p, "drive") \/ Goto(p, "retry"))
      \/ proc[p].cmd = "gate" /\ State(proc[p].s) = "active" /\ ~Blocked(proc[p].s) /\ Goto(p, "stage")
      \/ /\ proc[p].cmd = "loop" /\ State(proc[p].s) = "active" /\ ~Blocked(proc[p].s)
         /\ proc' = [proc EXCEPT ![p] = r]
  BY DEF BeginStatus
<1> QED BY <1>1, <1>2, <1>3, <1>4, <1>5

LEMMA AcquireChange ==
  ASSUME AutonomyAssumption, IInv, NEW p \in Procs, Acquire(p)
  PROVE  \/ NoGeneration /\ Becomes(p, Idle)
         \/ \E g \in 0 .. MaxGen :
              /\ Becomes(p, [proc[p] EXCEPT !.gen = g, !.pc = "boundary"])
              /\ NoGeneration \/ NewGeneration(proc[p].s, TRUE)
<1>0. proc \in [Procs -> Process] /\ LeaseType /\ Newest \in Nat
  BY TypeParts DEF IInv, LeaseType, Newest
<1>1. CASE Leave(p) /\ Repaired
  BY <1>0, <1>1, LeaveChange DEF Repaired, NoGeneration
<1>2. ASSUME NEW g \in 0 .. MaxGen, proc' = [proc EXCEPT ![p].gen = g, ![p].pc = "boundary"]
      PROVE  Becomes(p, [proc[p] EXCEPT !.gen = g, !.pc = "boundary"])
  <2> DEFINE r == [proc[p] EXCEPT !.gen = g, !.pc = "boundary"]
  <2>4. "boundary" \in PCs /\ proc[p] \in Process
    BY <1>0 DEF PCs, Fenced
  <2>1. r \in Process
    BY <2>4, ZenonT(60) DEF Process
  <2>2. proc' = [proc EXCEPT ![p] = r]
    BY <1>2
  <2> HIDE DEF r
  <2>3. Becomes(p, r)
    BY <1>0, <2>1, <2>2, ProcChange
  <2> QED BY <2>3 DEF r
<1>3. CASE proc' = [proc EXCEPT ![p].gen = Newest, ![p].pc = "boundary"] /\ Repaired
  <2>1. Newest \in 0 .. MaxGen
    BY <1>0 DEF LeaseType
  <2> QED BY <1>2, <1>3, <2>1 DEF Repaired, NoGeneration
<1>4. CASE proc' = [proc EXCEPT ![p].gen = Newest + 1, ![p].pc = "boundary"] /\ Publish(proc[p].s, TRUE)
  <2>1. Newest + 1 \in 0 .. MaxGen
    BY <1>0, <1>4 DEF Publish, AutonomyAssumption
  <2>2. NewGeneration(proc[p].s, TRUE)
    BY <1>4 DEF Publish, NewGeneration
  <2> QED BY <1>2, <1>4, <2>1, <2>2
<1>5. \/ Leave(p) /\ Repaired
      \/ proc' = [proc EXCEPT ![p].gen = Newest, ![p].pc = "boundary"] /\ Repaired
      \/ proc' = [proc EXCEPT ![p].gen = Newest + 1, ![p].pc = "boundary"] /\ Publish(proc[p].s, TRUE)
  BY DEF Acquire
<1> QED BY <1>1, <1>3, <1>4, <1>5

LEMMA BoundaryChange ==
  ASSUME AutonomyAssumption, IInv, NEW p \in Procs, Boundary(p)
  PROVE  /\ proc[p].pc = "boundary"
         /\ Becomes(p, [proc[p] EXCEPT !.pc = "back"]) \/ Becomes(p, [proc[p] EXCEPT !.pc = "source"])
<1>0. proc \in [Procs -> Process] /\ {"back", "source"} \subseteq PCs
  BY TypeParts DEF IInv, PCs, Fenced
<1>1. proc[p].pc = "boundary" /\ (Goto(p, "back") \/ Goto(p, "source"))
  BY DEF Boundary
<1> QED BY <1>0, <1>1, GotoChange

LEMMA DriveChange ==
  ASSUME AutonomyAssumption, IInv, NEW p \in Procs
  PROVE  /\ Drive(p) => Becomes(p, Idle) \/ \E ok \in BOOLEAN : Becomes(p, [proc[p] EXCEPT !.ok = ok, !.pc = "arc"])
         /\ Retry(p) => Becomes(p, Idle) \/ Becomes(p, [proc[p] EXCEPT !.pc = "loop"])
<1>0. proc \in [Procs -> Process] /\ {"arc", "loop"} \subseteq PCs
  BY TypeParts DEF IInv, PCs
<1>1. ASSUME Drive(p), ~Leave(p) PROVE \E ok \in BOOLEAN : Becomes(p, [proc[p] EXCEPT !.ok = ok, !.pc = "arc"])
  <2>1. PICK ok \in BOOLEAN : proc' = [proc EXCEPT ![p].pc = "arc", ![p].ok = ok]
    BY <1>1 DEF Drive
  <2> DEFINE r == [proc[p] EXCEPT !.ok = ok, !.pc = "arc"]
  <2>2. r \in Process
    BY <1>0 DEF Process
  <2>3. proc' = [proc EXCEPT ![p] = r]
    BY <1>0, <2>1 DEF Process
  <2> HIDE DEF r
  <2>4. Becomes(p, r)
    BY <1>0, <2>2, <2>3, ProcChange
  <2> QED BY <2>4 DEF r
<1>2. Retry(p) => Leave(p) \/ Goto(p, "loop")
  BY DEF Retry
<1> QED BY <1>0, <1>1, <1>2, LeaveChange, GotoChange

LEMMA CheckSourceChange ==
  ASSUME AutonomyAssumption, IInv, NEW p \in Procs, CheckSource(p)
  PROVE  \/ SourceCurrent(p) /\ Becomes(p, [proc[p] EXCEPT !.base = Len(book), !.pc = "mark"])
         \/ Becomes(p, [proc[p] EXCEPT !.pc = "back"])
<1>0. proc \in [Procs -> Process] /\ "back" \in PCs
  BY TypeParts DEF IInv, PCs, Fenced
<1>1. CASE SourceCurrent(p) /\ proc' = [proc EXCEPT ![p].base = Len(book), ![p].pc = "mark"]
  <2> DEFINE r == [proc[p] EXCEPT !.base = Len(book), !.pc = "mark"]
  <2>1. Len(book) \in 0 .. MaxBook
    BY TypeParts DEF IInv, WorkType, Sized, AutonomyAssumption
  <2>5. "mark" \in PCs /\ proc[p] \in Process
    BY <1>0 DEF PCs, Fenced
  <2>2. r \in Process
    BY <2>1, <2>5, ZenonT(60) DEF Process
  <2>3. proc' = [proc EXCEPT ![p] = r]
    BY <1>1
  <2> HIDE DEF r
  <2>4. Becomes(p, r)
    BY <1>0, <2>2, <2>3, ProcChange
  <2> QED BY <1>1, <2>4 DEF r
<1>2. CASE Goto(p, "back")
  BY <1>0, <1>2, GotoChange
<1> QED BY <1>1, <1>2 DEF CheckSource

LEMMA MarkChange ==
  ASSUME AutonomyAssumption, IInv, NEW p \in Procs, Mark(p)
  PROVE  /\ Latest \in Operation /\ NoGeneration
         /\ \/ UNCHANGED ops /\ Becomes(p, Idle)
            \/ /\ ops' = [ops EXCEPT ![Len(ops)] = [Latest EXCEPT !.marker = TRUE, !.source = proc[p].base]]
               /\ Latest.type \notin Source => TerminalReady(Latest)
               /\ Becomes(p, [proc[p] EXCEPT !.pc = "forward"])
<1>0. proc \in [Procs -> Process] /\ "forward" \in PCs
  BY TypeParts DEF IInv, PCs, Fenced
<1>1. proc[p].pc \in Driving /\ proc[p].op = Len(ops) /\ Latest \in Operation /\ ops[proc[p].op] = Latest
  BY PlacedFacts DEF Mark, Driving, Fenced, IInv, Placed
<1>2. NoGeneration
  BY DEF Mark, Repaired, lease, NoGeneration
<1>3. CASE Leave(p) /\ UNCHANGED ops
  BY <1>0, <1>1, <1>2, <1>3, LeaveChange
<1>4. CASE ~(Leave(p) /\ UNCHANGED ops)
  <2>1. /\ ops' = [ops EXCEPT ![Len(ops)].marker = TRUE, ![Len(ops)].source = proc[p].base]
        /\ Latest.type \notin Source => TerminalReady(Latest)
        /\ Goto(p, "forward")
    BY <1>1, <1>4 DEF Mark
  <2>2. ops' = [ops EXCEPT ![Len(ops)] = [Latest EXCEPT !.marker = TRUE, !.source = proc[p].base]]
    BY <2>1 DEF Latest
  <2> QED BY <1>0, <1>1, <1>2, <2>1, <2>2, GotoChange
<1> QED BY <1>3, <1>4

\* Where the roll forward of an operation goes when its event is there.
AfterForward(o) ==
  IF o.from = "absent" THEN "index" ELSE IF o.type \in Source THEN "finish" ELSE "release"

LEMMA ForwardChange ==
  ASSUME AutonomyAssumption, IInv, NEW p \in Procs, Forward(p)
  PROVE  /\ Latest \in Operation /\ Unfinished /\ Latest.marker /\ NoGeneration
         /\ \/ UNCHANGED <<events, born>> /\ Becomes(p, Idle)
            \/ /\ UNCHANGED <<events, proc>> /\ born' = born \cup {Latest.s}
               /\ Latest.from = "absent" /\ Latest.s \notin born
            \/ /\ UNCHANGED born /\ ~ForwardRaises(Latest) /\ (Latest.from = "absent" => Latest.s \in born)
               /\ events' = IF EventNeeded(Latest)
                            THEN [events EXCEPT ![Latest.s] = Append(@, Latest.target)] ELSE events
               /\ Becomes(p, [proc[p] EXCEPT !.pc = AfterForward(Latest)])
<1>0. proc \in [Procs -> Process] /\ AfterForward(Latest) \in PCs
  BY TypeParts DEF IInv, PCs, Fenced, AfterForward
<1>1. /\ Latest \in Operation /\ ops[proc[p].op] = Latest /\ Unfinished /\ Latest.marker
  BY PlacedFacts DEF Forward, Driving, Fenced, IInv, Placed, Unfinished
<1>2. NoGeneration
  BY DEF Forward, Repaired, lease, NoGeneration
<1>3. CASE Leave(p) /\ UNCHANGED <<events, born>>
  BY <1>0, <1>1, <1>2, <1>3, LeaveChange
<1>4. CASE ~(Leave(p) /\ UNCHANGED <<events, born>>)
  <2>1. ~ForwardRaises(Latest)
    BY <1>1, <1>4 DEF Forward
  <2>2. CASE Latest.from = "absent" /\ Latest.s \notin born
    BY <1>1, <1>2, <2>1, <2>2 DEF Forward
  <2>3. CASE ~(Latest.from = "absent" /\ Latest.s \notin born)
    <3>1. /\ UNCHANGED born
          /\ events' = IF EventNeeded(Latest)
                       THEN [events EXCEPT ![Latest.s] = Append(@, Latest.target)] ELSE events
      BY <1>1, <2>1, <2>3 DEF Forward
    <3>2. Goto(p, CASE Latest.from = "absent" -> "index"
                    [] Latest.from # "absent" /\ Latest.type \in Source -> "finish"
                    [] OTHER -> "release")
      BY <1>1, <2>1, <2>3 DEF Forward
    <3>3. Goto(p, AfterForward(Latest))
      BY <3>2 DEF AfterForward, Goto
    <3> QED BY <1>0, <1>1, <1>2, <2>1, <2>3, <3>1, <3>3, GotoChange
  <2> QED BY <2>2, <2>3
<1> QED BY <1>3, <1>4

LEMMA IndexChange ==
  ASSUME AutonomyAssumption, IInv, NEW p \in Procs, Index(p)
  PROVE  Becomes(p, [proc[p] EXCEPT !.pc = "finish"]) /\ indexed' = indexed \cup {Latest.s} /\ Latest.s \in born
<1>0. proc \in [Procs -> Process] /\ "finish" \in PCs
  BY TypeParts DEF IInv, PCs, Fenced
<1>1. ops[proc[p].op] = Latest /\ Latest.s \in born
  BY PlacedFacts DEF Index, Driving, Fenced, IInv, Placed
<1> QED BY <1>0, <1>1, GotoChange DEF Index

LEMMA ReleaseChange ==
  ASSUME AutonomyAssumption, IInv, NEW p \in Procs, Release(p)
  PROVE  /\ Becomes(p, [proc[p] EXCEPT !.pc = "finish"]) /\ Latest \in Operation
         /\ \/ NoGeneration /\ ~Owned(Latest.s)
            \/ NewGeneration(Latest.s, FALSE)
<1>0. proc \in [Procs -> Process] /\ "finish" \in PCs
  BY TypeParts DEF IInv, PCs, Fenced
<1>1. ops[proc[p].op] = Latest /\ Latest \in Operation
  BY PlacedFacts DEF Release, Driving, Fenced
<1>2. \/ NoGeneration /\ ~Owned(Latest.s)
      \/ NewGeneration(Latest.s, FALSE)
  BY <1>1 DEF Release, ReleaseOwned, Publish, Repaired, NoGeneration, NewGeneration
<1> QED BY <1>0, <1>1, <1>2, GotoChange DEF Release

LEMMA ResultChange ==
  ASSUME AutonomyAssumption, IInv, NEW p \in Procs, Finish(p) \/ Undo(p)
  PROVE  /\ proc[p].pc \in Driving /\ Latest \in Operation /\ Unfinished
         /\ Finish(p) => ops' = [ops EXCEPT ![Len(ops)] = [Latest EXCEPT !.result = "completed"]]
         /\ Undo(p) => ops' = [ops EXCEPT ![Len(ops)] = [Latest EXCEPT !.result = "rolled_back"]]
         /\ \/ Becomes(p, Idle)
            \/ Becomes(p, [proc[p] EXCEPT !.pc = "recover"])
            \/ Becomes(p, [proc[p] EXCEPT !.pc = "drive"]) /\ proc[p].cmd \in Source
<1>0. proc \in [Procs -> Process] /\ "recover" \in PCs /\ "drive" \in PCs
  BY TypeParts DEF IInv, PCs, Fenced
<1>1. proc[p].pc \in Driving /\ ops[proc[p].op] = Latest /\ Latest \in Operation /\ Unfinished /\ proc[p].op = Len(ops)
  BY PlacedFacts DEF Finish, Undo, Driving, Fenced, IInv, Placed, Unfinished
<1>2. /\ Finish(p) => ops' = [ops EXCEPT ![Len(ops)] = [Latest EXCEPT !.result = "completed"]]
      /\ Undo(p) => ops' = [ops EXCEPT ![Len(ops)] = [Latest EXCEPT !.result = "rolled_back"]]
  BY <1>1 DEF Finish, Undo, Latest
<1>3. Leave(p) \/ Goto(p, "recover") \/ (Goto(p, "drive") /\ proc[p].cmd \in Source)
  BY DEF Finish, Undo, AfterResult
<1> QED BY <1>0, <1>1, <1>2, <1>3, LeaveChange, GotoChange

LEMMA BackChange ==
  ASSUME AutonomyAssumption, IInv, NEW p \in Procs, Back(p)
  PROVE  /\ Latest \in Operation
         /\ \/ NoGeneration /\ Becomes(p, Idle)
            \/ /\ Becomes(p, [proc[p] EXCEPT !.pc = "undo"])
               /\ \/ NoGeneration /\ ~GivesBack(Latest)
                  \/ NewGeneration(Latest.s, FALSE)
<1>0. proc \in [Procs -> Process] /\ "undo" \in PCs
  BY TypeParts DEF IInv, PCs, Fenced
<1>1. ops[proc[p].op] = Latest /\ Latest \in Operation
  BY PlacedFacts DEF Back, Driving, Fenced
<1>2. \/ Leave(p) /\ NoGeneration
      \/ Goto(p, "undo") /\ \/ NoGeneration /\ ~GivesBack(Latest)
                            \/ NewGeneration(Latest.s, FALSE)
  BY <1>1 DEF Back, Publish, Repaired, NoGeneration, NewGeneration
<1> QED BY <1>0, <1>1, <1>2, LeaveChange, GotoChange

LEMMA ChooseChange ==
  ASSUME AutonomyAssumption, IInv, NEW p \in Procs, Choose(p)
  PROVE  \/ Becomes(p, Idle)
         \/ SourceCurrent(p) /\ Becomes(p, [proc[p] EXCEPT !.base = Len(book), !.pc = "renew"])
<1>0. proc \in [Procs -> Process]
  BY TypeParts DEF IInv
<1>1. CASE SourceCurrent(p) /\ proc' = [proc EXCEPT ![p].base = Len(book), ![p].pc = "renew"]
  <2> DEFINE r == [proc[p] EXCEPT !.base = Len(book), !.pc = "renew"]
  <2>1. Len(book) \in 0 .. MaxBook
    BY TypeParts DEF IInv, WorkType, Sized, AutonomyAssumption
  <2>2. r \in Process
    BY <1>0, <2>1, ZenonT(60) DEF Process, PCs
  <2>3. proc' = [proc EXCEPT ![p] = r]
    BY <1>1
  <2> HIDE DEF r
  <2>4. Becomes(p, r)
    BY <1>0, <2>2, <2>3, ProcChange
  <2> QED BY <1>1, <2>4 DEF r
<1>2. CASE Leave(p)
  BY <1>0, <1>2, LeaveChange
<1> QED BY <1>1, <1>2 DEF Choose

LEMMA RenewChange ==
  ASSUME AutonomyAssumption, IInv, NEW p \in Procs, Renew(p)
  PROVE  \/ NoGeneration /\ Becomes(p, Idle)
         \/ /\ Owned(proc[p].s) /\ NewGeneration(proc[p].s, TRUE)
            /\ Becomes(p, [proc[p] EXCEPT !.gen = Newest + 1, !.pc = "gate"])
<1>0. proc \in [Procs -> Process] /\ Newest \in Nat
  BY TypeParts DEF IInv, LeaseType, Newest
<1>1. CASE Leave(p) /\ Repaired
  BY <1>0, <1>1, LeaveChange DEF Repaired, NoGeneration
<1>2. CASE /\ CanRenew(p) /\ Publish(proc[p].s, TRUE)
           /\ proc' = [proc EXCEPT ![p].gen = Newest + 1, ![p].pc = "gate"]
  <2> DEFINE r == [proc[p] EXCEPT !.gen = Newest + 1, !.pc = "gate"]
  <2>1. Newest + 1 \in 0 .. MaxGen
    BY <1>0, <1>2 DEF Publish, AutonomyAssumption
  <2>2. r \in Process
    BY <1>0, <2>1, ZenonT(60) DEF Process, PCs
  <2>3. proc' = [proc EXCEPT ![p] = r]
    BY <1>2
  <2> HIDE DEF r
  <2>4. Becomes(p, r)
    BY <1>0, <2>2, <2>3, ProcChange
  <2> QED BY <1>2, <2>4 DEF r, CanRenew, Publish, NewGeneration
<1> QED BY <1>1, <1>2 DEF Renew

\* The chapter a runner is at, the end of one of its stages, and the receipt of it.
NextChapter(p) == Len(ledger[proc[p].s]) + 1
AfterStage(p) ==
  [proc[p] EXCEPT !.cursor = @ + 1, !.pc = IF proc[p].cursor + 1 = Stages THEN "commit" ELSE "renew"]
Receipted(p) ==
  LET s == proc[p].s
      k == NextChapter(p) IN
  /\ Owned(s) /\ (stages[s][k] # <<>> => Descends(s, Last(stages[s][k])))
  /\ stages' = [stages EXCEPT ![s][k] = Append(@, Newest)]

LEMMA StageChange ==
  ASSUME AutonomyAssumption, IInv, NEW p \in Procs, Stage(p)
  PROVE  \/ UNCHANGED stages /\ Becomes(p, Idle)
         \/ /\ NextChapter(p) \in Chapters /\ Becomes(p, AfterStage(p))
            /\ UNCHANGED stages \/ Receipted(p)
<1>0. proc \in [Procs -> Process] /\ proc[p].pc = "stage"
  BY TypeParts DEF IInv, Stage
<1>1. proc[p].cursor < Stages
  BY <1>0 DEF IInv, Sized, InChapter
<1> DEFINE pc == IF proc[p].cursor + 1 = Stages THEN "commit" ELSE "renew"
           Moved == proc' = [proc EXCEPT ![p].cursor = @ + 1, ![p].pc = pc]
<1>2. ASSUME Moved PROVE Becomes(p, AfterStage(p))
  <2>1. pc \in PCs
    BY DEF PCs
  <2>2. proc[p] \in Process /\ proc[p].cursor + 1 \in 0 .. Stages
    BY <1>0, <1>1 DEF Process, AutonomyAssumption
  <2>3. proc' = [proc EXCEPT ![p] = AfterStage(p)]
    BY <1>0, <1>2 DEF AfterStage
  <2>4. AfterStage(p) = [proc[p] EXCEPT !.cursor = @ + 1, !.pc = pc]
    BY DEF AfterStage
  <2> HIDE DEF pc
  <2>5. AfterStage(p) \in Process
    BY <2>1, <2>2, <2>4 DEF Process
  <2> QED BY <1>0, <2>3, <2>5, ProcChange
<1>4. \/ Leave(p) /\ UNCHANGED stages
      \/ NextChapter(p) \in Chapters /\ UNCHANGED stages /\ Moved
      \/ NextChapter(p) \in Chapters /\ Receipted(p) /\ Moved
  BY DEF Stage, FenceCurrent, Held, NextChapter, Receipted
<1> HIDE DEF Moved
<1> QED BY <1>0, <1>2, <1>4, LeaveChange

LEMMA RunnerChange ==
  ASSUME AutonomyAssumption, IInv, NEW p \in Procs
  PROVE  /\ Commit(p) => Becomes(p, Idle) \/ Becomes(p, [proc[p] EXCEPT !.pc = "deliver"])
         /\ Deliver(p) => Becomes(p, Idle) \/ \E ok \in BOOLEAN : Becomes(p, [proc[p] EXCEPT !.ok = ok, !.pc = "ledger"])
         /\ Record(p) => \/ Becomes(p, Idle) \/ Becomes(p, [proc[p] EXCEPT !.pc = "loop"])
                         \/ Becomes(p, [proc[p] EXCEPT !.pc = "return"])
         /\ Crash(p) \/ CrashInPublish(p) => Becomes(p, Idle)
<1>0. proc \in [Procs -> Process] /\ {"deliver", "ledger", "loop", "return"} \subseteq PCs
  BY TypeParts DEF IInv, PCs
<1>1. Commit(p) => Leave(p) \/ Goto(p, "deliver")
  BY DEF Commit
<1>2. Record(p) => Leave(p) \/ Goto(p, "loop") \/ Goto(p, "return")
  BY DEF Record
<1>3. ASSUME Deliver(p), ~Leave(p) PROVE \E ok \in BOOLEAN : Becomes(p, [proc[p] EXCEPT !.ok = ok, !.pc = "ledger"])
  <2>1. PICK ok \in BOOLEAN : proc' = [proc EXCEPT ![p].ok = ok, ![p].pc = "ledger"]
    BY <1>3 DEF Deliver
  <2> DEFINE r == [proc[p] EXCEPT !.ok = ok, !.pc = "ledger"]
  <2>2. r \in Process
    BY <1>0 DEF Process
  <2>3. proc' = [proc EXCEPT ![p] = r]
    BY <2>1
  <2> HIDE DEF r
  <2>4. Becomes(p, r)
    BY <1>0, <2>2, <2>3, ProcChange
  <2> QED BY <2>4 DEF r
<1>4. Crash(p) \/ CrashInPublish(p) => Leave(p)
  BY DEF Crash, CrashInPublish
<1> QED BY <1>0, <1>1, <1>2, <1>3, <1>4, LeaveChange, GotoChange

-----------------------------------------------------------------------------
(* Every step as a step of one process.                                    *)

ProcStep(p) ==
  \/ FencedStep(p) \/ RunnerStep(p) \/ Crash(p) \/ CrashInPublish(p)
  \/ \E c \in Commands, s \in Sessions : Command(p, c, s)

\* What a process may become: it enters the fence only when it is free, keeps its session
\* while it works, and has a stage to go before the commit.
Turns(p) ==
  /\ Only(p)
  /\ proc'[p].pc \in Fenced => proc[p].pc \in Fenced \/ FenceFree
  /\ proc'[p].pc # "idle" => proc'[p].s \in Sessions
  /\ proc'[p].pc # "commit" /\ (proc'[p].pc = "choose" \/ InChapter(p)') => proc'[p].cursor < Stages

\* The process works on for the same session and command, somewhere else.
Onward(p, places) ==
  /\ Only(p) /\ proc'[p].pc \in places /\ proc'[p].s = proc[p].s
  /\ proc'[p].cmd = proc[p].cmd /\ proc'[p].cursor = proc[p].cursor

LEMMA OnwardSteps ==
  ASSUME AutonomyAssumption, IInv, NEW p \in Procs
  PROVE  /\ Recover(p) => Onward(p, {"begin", "forward", "back"})
         /\ Acquire(p) => Becomes(p, Idle) \/ Onward(p, {"boundary"})
         /\ CheckSource(p) => Onward(p, {"mark", "back"})
         /\ Commit(p) \/ Deliver(p) \/ Record(p) \/ Drive(p) \/ Retry(p) =>
              Becomes(p, Idle) \/ Onward(p, {"deliver", "loop", "ledger", "arc", "return"})
         /\ Call(p) => /\ Only(p) /\ proc'[p].pc = "recover" /\ proc'[p].s = proc[p].s
                       /\ proc'[p].cmd = proc[p].pc /\ proc'[p].cursor = proc[p].cursor
         /\ \A c \in Commands, s \in Sessions : Command(p, c, s) =>
              Only(p) /\ proc'[p].pc = "recover" /\ proc'[p].s = s /\ proc'[p].cmd = c
<1>0. proc[p] \in Process /\ Idle \in Process
  BY PlacedFacts, IdleType
<1>1. ASSUME NEW places, NEW pc \in places, NEW x, NEW y,
             NEW q \in { [proc[p] EXCEPT !.pc = pc], [proc[p] EXCEPT !.op = x, !.pc = pc],
                         [proc[p] EXCEPT !.gen = x, !.pc = pc], [proc[p] EXCEPT !.base = x, !.pc = pc],
                         [proc[p] EXCEPT !.ok = x, !.pc = pc] },
             Becomes(p, q)
      PROVE  Onward(p, places)
  <2>1. q.pc = pc /\ q.s = proc[p].s /\ q.cmd = proc[p].cmd /\ q.cursor = proc[p].cursor
    BY <1>0, <1>1 DEF Process
  <2> QED BY <1>1, <2>1 DEF Becomes, Onward
<1>2. Recover(p) => Onward(p, {"begin", "forward", "back"})
  <2>1. SUFFICES ASSUME Recover(p) PROVE Onward(p, {"begin", "forward", "back"})
    OBVIOUS
  <2>2. CASE Becomes(p, [proc[p] EXCEPT !.pc = "begin"])
    BY <1>1, <2>2
  <2>3. CASE Becomes(p, [proc[p] EXCEPT !.op = Len(ops), !.pc = IF Latest.marker THEN "forward" ELSE "back"])
    <3> DEFINE pc == IF Latest.marker THEN "forward" ELSE "back"
    <3>1. pc \in {"begin", "forward", "back"} /\ Becomes(p, [proc[p] EXCEPT !.op = Len(ops), !.pc = pc])
      BY <2>3
    <3> HIDE DEF pc
    <3> QED BY <1>1, <3>1
  <2> QED BY <2>1, <2>2, <2>3, RecoverChange
<1>3. Acquire(p) => Becomes(p, Idle) \/ Onward(p, {"boundary"})
  BY <1>1, AcquireChange
<1>4. CheckSource(p) => Onward(p, {"mark", "back"})
  BY <1>1, CheckSourceChange
<1>5. Commit(p) \/ Deliver(p) \/ Record(p) \/ Drive(p) \/ Retry(p) =>
        Becomes(p, Idle) \/ Onward(p, {"deliver", "loop", "ledger", "arc", "return"})
  BY <1>1, RunnerChange, DriveChange
<1>6. ASSUME Call(p)
      PROVE  /\ Only(p) /\ proc'[p].pc = "recover" /\ proc'[p].s = proc[p].s
             /\ proc'[p].cmd = proc[p].pc /\ proc'[p].cursor = proc[p].cursor
  <2> DEFINE r == [proc[p] EXCEPT !.pc = "recover", !.cmd = proc[p].pc, !.own = FALSE]
  <2>1. r.pc = "recover" /\ r.s = proc[p].s /\ r.cmd = proc[p].pc /\ r.cursor = proc[p].cursor
    BY <1>0, ZenonT(60) DEF Process
  <2>2. Becomes(p, r)
    BY <1>6, CallChange
  <2> HIDE DEF r
  <2> QED BY <2>1, <2>2 DEF Becomes
<1>7. ASSUME NEW c \in Commands, NEW s \in Sessions, Command(p, c, s)
      PROVE  Only(p) /\ proc'[p].pc = "recover" /\ proc'[p].s = s /\ proc'[p].cmd = c
  <2> DEFINE r == [Idle EXCEPT !.pc = "recover", !.cmd = c, !.s = s]
  <2>1. r.pc = "recover" /\ r.s = s /\ r.cmd = c
    BY DEF Idle
  <2>2. Becomes(p, r)
    BY <1>7, CommandChange
  <2> HIDE DEF r
  <2> QED BY <2>1, <2>2 DEF Becomes
<1> QED BY <1>2, <1>3, <1>4, <1>5, <1>6, <1>7

LEMMA FencedTurns ==
  ASSUME AutonomyAssumption, IInv, NEW p \in Procs, FencedStep(p)
  PROVE  Turns(p)
<1> USE DEF Turns, Becomes, Only, InChapter
<1>0. /\ proc \in [Procs -> Process] /\ proc[p] \in Process /\ Idle.pc = "idle"
      /\ proc[p].pc # "idle" => proc[p].s \in Sessions
      /\ proc[p].pc # "commit" /\ (proc[p].pc = "choose" \/ InChapter(p)) => proc[p].cursor < Stages
  BY PlacedFacts, TypeParts DEF IInv, Sized, Idle
<1>1. ASSUME NEW pc \in Fenced \cup {"drive", "retry", "stage"}, proc[p].pc \in Fenced,
             Becomes(p, [proc[p] EXCEPT !.pc = pc]),
             pc \in Fenced => proc[p].pc \in Fenced, pc = "stage" => proc[p].cmd = "gate" /\ proc[p].pc \in Fenced
      PROVE  Turns(p)
  BY <1>0, <1>1 DEF Process, Fenced
<1>2. CASE proc[p].pc \notin Fenced
  BY <1>2 DEF FencedStep, Recover, BeginSource, BeginTerminal, BeginStatus, Acquire, Boundary,
       CheckSource, Mark, Forward, Index, Release, Finish, Back, Undo, Fenced
<1>3. CASE Becomes(p, Idle) \/ proc' = proc
  BY <1>0, <1>3 DEF Fenced
<1>15. ASSUME Only(p), proc[p].pc \in Fenced, proc'[p].pc \in Fenced,
              proc'[p].s = proc[p].s, proc'[p].cmd = proc[p].cmd, proc'[p].cursor = proc[p].cursor
       PROVE  Turns(p)
  BY <1>0, <1>15 DEF Fenced
<1>4. CASE Recover(p)
  <2>1. proc[p].pc = "recover"
    BY <1>4 DEF Recover
  <2>2. /\ Only(p) /\ proc'[p].pc \in {"begin", "forward", "back"}
        /\ proc'[p].s = proc[p].s /\ proc'[p].cmd = proc[p].cmd /\ proc'[p].cursor = proc[p].cursor
    BY <1>4, OnwardSteps DEF Onward
  <2> QED BY <1>15, <2>1, <2>2 DEF Fenced
<1>5. CASE BeginSource(p) \/ BeginTerminal(p)
  <2>1. \/ Becomes(p, Idle)
        \/ proc[p].pc = "begin" /\ \E target : Begun(p, target)
    BY <1>5, BeginSourceChange, BeginTerminalChange DEF BeginSource
  <2> QED BY <1>0, <1>3, <2>1, ZenonT(60) DEF Begun, Process, Fenced
<1>6. CASE BeginStatus(p)
  <2>1. proc[p].pc = "begin"
    BY <1>6 DEF BeginStatus
  <2>2. 0 < Stages
    BY DEF AutonomyAssumption
  <2> QED BY <1>0, <1>1, <1>3, <1>6, <2>1, <2>2, BeginStatusChange DEF Process, Fenced
<1>7. CASE Acquire(p)
  <2>1. proc[p].pc = "acquire"
    BY <1>7 DEF Acquire
  <2>2. CASE \E g \in 0 .. MaxGen : Becomes(p, [proc[p] EXCEPT !.gen = g, !.pc = "boundary"])
    <3>1. /\ Only(p) /\ proc'[p].pc = "boundary"
          /\ proc'[p].s = proc[p].s /\ proc'[p].cmd = proc[p].cmd /\ proc'[p].cursor = proc[p].cursor
      BY <1>0, <2>2 DEF Process
    <3> QED BY <1>15, <2>1, <3>1 DEF Fenced
  <2> QED BY <1>3, <1>7, <2>2, AcquireChange
<1>8. CASE Boundary(p)
  <2> QED BY <1>1, <1>8, BoundaryChange DEF Fenced
<1>9. CASE CheckSource(p)
  <2>1. proc[p].pc = "source"
    BY <1>9 DEF CheckSource
  <2>2. /\ Only(p) /\ proc'[p].pc \in {"mark", "back"}
        /\ proc'[p].s = proc[p].s /\ proc'[p].cmd = proc[p].cmd /\ proc'[p].cursor = proc[p].cursor
    BY <1>9, OnwardSteps DEF Onward
  <2> QED BY <1>15, <2>1, <2>2 DEF Fenced
<1>10. CASE Mark(p)
  <2>1. proc[p].pc = "mark"
    BY <1>10 DEF Mark
  <2> QED BY <1>1, <1>3, <1>10, <2>1, MarkChange DEF Fenced
<1>11. CASE Forward(p)
  <2>1. proc[p].pc = "forward" /\ AfterForward(Latest) \in Fenced
    BY <1>11 DEF Forward, AfterForward, Fenced
  <2> QED BY <1>1, <1>3, <1>11, <2>1, ForwardChange DEF Fenced
<1>12. CASE Index(p) \/ Release(p)
  <2>1. proc[p].pc \in {"index", "release"}
    BY <1>12 DEF Index, Release
  <2> QED BY <1>1, <1>12, <2>1, IndexChange, ReleaseChange DEF Fenced
<1>13. CASE Finish(p) \/ Undo(p)
  <2>1. proc[p].pc \in {"finish", "undo"}
    BY <1>13 DEF Finish, Undo
  <2> QED BY <1>1, <1>3, <1>13, <2>1, ResultChange DEF Fenced
<1>14. CASE Back(p)
  <2>1. proc[p].pc = "back"
    BY <1>14 DEF Back
  <2> QED BY <1>1, <1>3, <1>14, <2>1, BackChange DEF Fenced
<1> QED BY <1>4, <1>5, <1>6, <1>7, <1>8, <1>9, <1>10, <1>11, <1>12, <1>13, <1>14 DEF FencedStep

LEMMA RunnerTurns ==
  ASSUME AutonomyAssumption, IInv, NEW p \in Procs, ProcStep(p), ~FencedStep(p)
  PROVE  Turns(p)
<1> USE DEF Turns, Becomes, Only, InChapter
<1>0. /\ proc \in [Procs -> Process] /\ proc[p] \in Process /\ Idle.pc = "idle"
      /\ proc[p].pc # "idle" => proc[p].s \in Sessions
      /\ proc[p].pc # "commit" /\ (proc[p].pc = "choose" \/ InChapter(p)) => proc[p].cursor < Stages
  BY PlacedFacts, TypeParts DEF IInv, Sized, Idle
<1>1. CASE Becomes(p, Idle)
  BY <1>0, <1>1 DEF Fenced
<1>2. CASE \E c \in Commands, s \in Sessions : Command(p, c, s)
  <2>1. PICK c \in Commands, s \in Sessions : Command(p, c, s)
    BY <1>2
  <2>2. FenceFree /\ c \in AllCommands
    BY <2>1 DEF Command, AutonomyAssumption
  <2>3. Only(p) /\ proc'[p].pc = "recover" /\ proc'[p].s = s /\ proc'[p].cmd = c
    BY <2>1, OnwardSteps
  <2> QED BY <2>2, <2>3 DEF Fenced, AllCommands
<1>3. CASE Call(p)
  <2>1. FenceFree /\ proc[p].pc \in {"loop", "gate", "arc", "return", "complete"}
    BY <1>3 DEF Call
  <2>2. /\ Only(p) /\ proc'[p].pc = "recover" /\ proc'[p].s = proc[p].s
        /\ proc'[p].cmd = proc[p].pc /\ proc'[p].cursor = proc[p].cursor
    BY <1>3, OnwardSteps
  <2> QED BY <1>0, <2>1, <2>2 DEF Fenced
<1>4. CASE Choose(p)
  <2>1. proc[p].pc = "choose"
    BY <1>4 DEF Choose
  <2> DEFINE r == [proc[p] EXCEPT !.base = Len(book), !.pc = "renew"]
  <2>2. r.pc = "renew" /\ r.s = proc[p].s /\ r.cursor = proc[p].cursor
    BY <1>0, ZenonT(60) DEF Process
  <2>3. Becomes(p, Idle) \/ Becomes(p, r)
    BY <1>4, ChooseChange
  <2> HIDE DEF r
  <2>4. ASSUME Becomes(p, r) PROVE Turns(p)
    BY <1>0, <2>1, <2>2, <2>4 DEF Fenced
  <2> QED BY <1>1, <2>3, <2>4
<1>5. CASE Renew(p)
  <2>1. proc[p].pc = "renew"
    BY <1>5 DEF Renew
  <2> DEFINE r == [proc[p] EXCEPT !.gen = Newest + 1, !.pc = "gate"]
  <2>2. r.pc = "gate" /\ r.s = proc[p].s /\ r.cursor = proc[p].cursor
    BY <1>0, ZenonT(60) DEF Process
  <2>3. Becomes(p, Idle) \/ Becomes(p, r)
    BY <1>5, RenewChange
  <2> HIDE DEF r
  <2>4. ASSUME Becomes(p, r) PROVE Turns(p)
    BY <1>0, <2>1, <2>2, <2>4 DEF Fenced
  <2> QED BY <1>1, <2>3, <2>4
<1>6. CASE Stage(p)
  <2>1. proc[p].pc = "stage" /\ proc[p].cursor \in 0 .. Stages /\ Stages \in Nat
    BY <1>0, <1>6 DEF Stage, Process, AutonomyAssumption
  <2>2. CASE Becomes(p, AfterStage(p))
    <3>1. proc[p].cursor < Stages
      BY <1>0, <2>1
    <3>2. /\ proc'[p].cursor = proc[p].cursor + 1 /\ proc'[p].s = proc[p].s
          /\ proc'[p].pc = IF proc[p].cursor + 1 = Stages THEN "commit" ELSE "renew"
      BY <1>0, <2>2 DEF AfterStage, Process
    <3>3. proc'[p].pc # "commit" => proc'[p].cursor < Stages
      BY <2>1, <3>1, <3>2
    <3> QED BY <1>0, <2>1, <2>2, <3>2, <3>3 DEF Fenced
  <2> QED BY <1>1, <1>6, <2>2, StageChange
<1>7. CASE Commit(p) \/ Record(p) \/ Deliver(p) \/ Drive(p) \/ Retry(p)
  <2>1. proc[p].pc \in {"commit", "ledger", "deliver", "drive", "retry"}
    BY <1>7 DEF Commit, Record, Deliver, Drive, Retry
  <2>2. \/ Becomes(p, Idle)
        \/ /\ Only(p) /\ proc'[p].pc \in {"deliver", "loop", "ledger", "arc", "return"}
           /\ proc'[p].s = proc[p].s
    BY <1>7, OnwardSteps DEF Onward
  <2> QED BY <1>0, <1>1, <2>1, <2>2 DEF Fenced
<1>8. CASE Crash(p) \/ CrashInPublish(p)
  BY <1>1, <1>8, RunnerChange
<1> QED BY <1>2, <1>3, <1>4, <1>5, <1>6, <1>7, <1>8 DEF ProcStep, RunnerStep

LEMMA Steps ==
  ASSUME AutonomyAssumption, IInv, Next
  PROVE  \/ UNCHANGED <<proc, files, stages, ledger, history>> /\ (Edit \/ Tick \/ \E s \in Sessions : Preview(s))
         \/ \E p \in Procs : ProcStep(p) /\ Turns(p)
<1>1. ASSUME NEW p \in Procs, ProcStep(p) PROVE Turns(p)
  BY <1>1, FencedTurns, RunnerTurns
<1>2. ASSUME Edit \/ Tick \/ \E s \in Sessions : Preview(s)
      PROVE  UNCHANGED <<proc, files, stages, ledger, history>>
  BY <1>2 DEF Edit, Tick, Preview, lease, work
<1> QED BY <1>1, <1>2 DEF Next, ProcStep

LEMMA FenceStep ==
  ASSUME AutonomyAssumption, IInv, Next
  PROVE  OneFence'
<1>1. OneFence
  BY DEF IInv
<1>2. CASE UNCHANGED proc
  BY <1>1, <1>2 DEF OneFence
<1>3. ASSUME NEW p \in Procs, Turns(p) PROVE OneFence'
  BY <1>1, <1>3 DEF OneFence, Turns, Only, FenceFree
<1> QED BY <1>2, <1>3, Steps

-----------------------------------------------------------------------------
(* The journal and the events.                                             *)

LEMMA LatestReplaced ==
  ASSUME ops \in Seq(Operation), ops # <<>>, NEW o \in Operation, ops' = [ops EXCEPT ![Len(ops)] = o]
  PROVE  /\ ops' \in Seq(Operation) /\ Len(ops') = Len(ops) /\ ops' # <<>> /\ Latest' = o
         /\ \A i \in 1 .. Len(ops) : i # Len(ops) => ops'[i] = ops[i]
         /\ ops'[Len(ops)] = o
<1>1. Len(ops) \in 1 .. Len(ops)
  OBVIOUS
<1>2. ops' \in Seq(Operation) /\ Len(ops') = Len(ops)
  OBVIOUS
<1>3. ops'[Len(ops)] = o /\ \A i \in 1 .. Len(ops) : i # Len(ops) => ops'[i] = ops[i]
  BY <1>1
<1>4. ops' # <<>>
  BY <1>1, <1>2
<1>5. Latest' = o
  BY <1>2, <1>3 DEF Latest
<1> QED BY <1>2, <1>3, <1>4, <1>5

LEMMA LatestAdded ==
  ASSUME ops \in Seq(Operation), NEW o \in Operation, ops' = Append(ops, o)
  PROVE  /\ ops' \in Seq(Operation) /\ Len(ops') = Len(ops) + 1 /\ ops' # <<>> /\ Latest' = o
         /\ \A i \in 1 .. Len(ops) : ops'[i] = ops[i]
         /\ \A i \in 1 .. Len(ops') : i \in 1 .. Len(ops) \/ i = Len(ops')
BY AppendProperties DEF Latest

\* The steps that change the journal or the events, and the others.
JournalSteps(p) == BeginSource(p) \/ BeginTerminal(p) \/ Mark(p) \/ Forward(p) \/ Finish(p) \/ Undo(p)
FilesQuiet ==
  /\ UNCHANGED <<ops, events, born>>
  /\ indexed' = indexed \/ (Latest.s \in born /\ indexed' = indexed \cup {Latest.s})

LEMMA QuietSteps ==
  ASSUME AutonomyAssumption, IInv, NEW p \in Procs, ProcStep(p)
  PROVE  FilesQuiet \/ JournalSteps(p)
<1>1. CASE Index(p)
  BY <1>1, IndexChange DEF Index, FilesQuiet
<1>2. CASE Recover(p) \/ BeginStatus(p) \/ Acquire(p) \/ Boundary(p) \/ CheckSource(p) \/ Release(p) \/ Back(p)
  BY <1>2 DEF Recover, BeginStatus, Acquire, Boundary, CheckSource, Release, Back, files, FilesQuiet
<1>3. CASE RunnerStep(p)
  BY <1>3 DEF RunnerStep, Drive, Retry, Call, Choose, Renew, Stage, Commit, Deliver, Record, files, FilesQuiet
<1>4. CASE Crash(p) \/ CrashInPublish(p) \/ \E c \in Commands, s \in Sessions : Command(p, c, s)
  BY <1>4 DEF Crash, CrashInPublish, Command, files, FilesQuiet
<1> QED BY <1>1, <1>2, <1>3, <1>4 DEF ProcStep, FencedStep, JournalSteps

\* What a step of the journal does to it.
Marked(p) ==
  LET o == [Latest EXCEPT !.marker = TRUE, !.source = proc[p].base] IN
  /\ proc[p].pc = "mark" /\ ops # <<>> /\ Latest.result = "none" /\ o \in Operation
  /\ ops' = [ops EXCEPT ![Len(ops)] = o] /\ UNCHANGED <<events, born>>
  /\ Latest.type \notin Source => TerminalReady(Latest)
  /\ Becomes(p, [proc[p] EXCEPT !.pc = "forward"])
Born(p) ==
  /\ proc[p].pc = "forward" /\ ops # <<>> /\ Latest.result = "none" /\ Latest.marker /\ Latest.from = "absent"
  /\ Latest.s \notin born /\ born' = born \cup {Latest.s} /\ UNCHANGED <<ops, events, proc>>
Forwarded(p) ==
  /\ proc[p].pc = "forward" /\ ops # <<>> /\ Latest.result = "none" /\ Latest.marker /\ UNCHANGED <<ops, born>>
  /\ ~ForwardRaises(Latest) /\ (Latest.from = "absent" => Latest.s \in born)
  /\ events' = IF EventNeeded(Latest)
               THEN [events EXCEPT ![Latest.s] = Append(@, Latest.target)] ELSE events
  /\ Becomes(p, [proc[p] EXCEPT !.pc = AfterForward(Latest)])
Settled(p, result) ==
  LET o == [Latest EXCEPT !.result = result] IN
  /\ ops # <<>> /\ Latest.result = "none" /\ o \in Operation
  /\ proc[p].pc = IF result = "completed" THEN "finish" ELSE "undo"
  /\ ops' = [ops EXCEPT ![Len(ops)] = o] /\ UNCHANGED <<events, born>>
  /\ Only(p) /\ proc'[p].pc \in {"idle", "recover", "drive"}

JournalMoves(p) ==
  \/ (\E target \in EventTypes \cup {"none"} : Begun(p, target)) /\ UNCHANGED <<events, born>>
  \/ Marked(p) \/ Born(p) \/ Forwarded(p) \/ Settled(p, "completed") \/ Settled(p, "rolled_back")

LEMMA Journals ==
  ASSUME AutonomyAssumption, IInv, NEW p \in Procs, JournalSteps(p)
  PROVE  /\ (JournalMoves(p) /\ NoGeneration) \/ (UNCHANGED <<ops, events, born>> /\ Becomes(p, Idle))
         /\ indexed' = indexed
<1>0. /\ proc[p] \in Process /\ proc[p].pc # "idle"
      /\ proc[p].pc \in Driving => ops # <<>> /\ Latest \in Operation /\ Latest.result = "none"
  BY PlacedFacts DEF JournalSteps, BeginSource, BeginTerminal, Mark, Forward, Finish, Undo, IInv, Placed
<1>1. CASE BeginSource(p)
  <2>1. UNCHANGED <<events, born, indexed>> /\ NoGeneration
    BY <1>1 DEF BeginSource, Repaired, NoGeneration
  <2> QED BY <1>1, <2>1, BeginSourceChange DEF JournalMoves
<1>2. CASE BeginTerminal(p)
  <2>1. UNCHANGED <<events, born, indexed>>
    BY <1>2 DEF BeginTerminal
  <2>2. {"cancelled", "abandoned", "completed"} \subseteq EventTypes
    BY DEF EventTypes
  <2> QED BY <1>2, <2>1, <2>2, BeginTerminalChange DEF JournalMoves, Repaired, NoGeneration
<1>3. CASE Mark(p)
  <2> DEFINE o == [Latest EXCEPT !.marker = TRUE, !.source = proc[p].base]
  <2>1. UNCHANGED <<events, born, indexed>> /\ NoGeneration /\ proc[p].pc = "mark"
    BY <1>3, MarkChange DEF Mark
  <2>2. o \in Operation
    BY <1>0, <2>1 DEF Operation, Process, Driving, Fenced
  <2> QED BY <1>0, <1>3, <2>1, <2>2, MarkChange DEF JournalMoves, Marked, Driving, Fenced
<1>4. CASE Forward(p)
  <2>1. UNCHANGED <<ops, indexed>> /\ NoGeneration /\ proc[p].pc = "forward"
    BY <1>4, ForwardChange DEF Forward
  <2> QED BY <1>4, <2>1, ForwardChange DEF JournalMoves, Born, Forwarded, Unfinished
<1>5. ASSUME NEW result \in {"completed", "rolled_back"},
             IF result = "completed" THEN Finish(p) ELSE Undo(p)
      PROVE  Settled(p, result) /\ indexed' = indexed /\ NoGeneration
  <2> DEFINE o == [Latest EXCEPT !.result = result]
  <2>1. /\ UNCHANGED <<events, born, indexed>> /\ NoGeneration
        /\ proc[p].pc = IF result = "completed" THEN "finish" ELSE "undo"
    BY <1>5 DEF Finish, Undo, lease, NoGeneration
  <2>2. o \in Operation
    BY <1>0, <2>1 DEF Operation, Driving, Fenced
  <2>3. /\ Latest \in Operation /\ Unfinished /\ ops' = [ops EXCEPT ![Len(ops)] = o]
        /\ \/ Becomes(p, Idle)
           \/ Becomes(p, [proc[p] EXCEPT !.pc = "recover"])
           \/ Becomes(p, [proc[p] EXCEPT !.pc = "drive"])
    BY <1>5, ResultChange
  <2>4. Only(p) /\ proc'[p].pc \in {"idle", "recover", "drive"}
    BY <1>0, <2>3 DEF Becomes, Idle, Process
  <2> QED BY <2>1, <2>2, <2>3, <2>4 DEF Settled, Unfinished
<1> QED BY <1>1, <1>2, <1>3, <1>4, <1>5 DEF JournalSteps, JournalMoves

LEMMA FilesStep ==
  ASSUME AutonomyAssumption, IInv, Next
  PROVE  FilesType' /\ Len(ops)' <= MaxOps
<1>0. FilesType /\ Len(ops) \in Nat /\ Len(ops) <= MaxOps /\ MaxOps \in Nat
  BY TypeParts DEF IInv, FilesType, Sized, AutonomyAssumption
<1>1. CASE UNCHANGED <<ops, events, born>> /\ indexed' \subseteq indexed \cup born
  BY <1>0, <1>1 DEF FilesType
<1>2. ASSUME NEW p \in Procs, JournalMoves(p), indexed' = indexed
      PROVE  FilesType' /\ Len(ops)' <= MaxOps
  <2>1. ASSUME NEW target, Begun(p, target), UNCHANGED <<events, born>>
        PROVE  FilesType' /\ Len(ops)' <= MaxOps
    <3>1. Intent(p, target) \in Operation /\ ops' = Append(ops, Intent(p, target)) /\ Len(ops) < MaxOps
      BY <2>1 DEF Begun
    <3>2. ops' \in Seq(Operation) /\ Len(ops') = Len(ops) + 1
      BY <1>0, <3>1, LatestAdded DEF FilesType
    <3> QED BY <1>0, <1>2, <2>1, <3>1, <3>2 DEF FilesType
  <2>2. ASSUME NEW o \in Operation, ops # <<>>, ops' = [ops EXCEPT ![Len(ops)] = o], UNCHANGED <<events, born>>
        PROVE  FilesType' /\ Len(ops)' <= MaxOps
    <3>1. ops' \in Seq(Operation) /\ Len(ops') = Len(ops)
      BY <1>0, <2>2, LatestReplaced DEF FilesType
    <3> QED BY <1>0, <1>2, <2>2, <3>1 DEF FilesType
  <2>3. CASE Marked(p) \/ Settled(p, "completed") \/ Settled(p, "rolled_back")
    BY <2>2, <2>3 DEF Marked, Settled
  <2>4. CASE Born(p) \/ Forwarded(p)
    <3>1. Latest \in Operation /\ ops' = ops
      BY <2>4, PlacedFacts DEF Born, Forwarded
    <3>2. Latest.s \in Sessions /\ (Latest.target # "none" => Latest.target \in EventTypes)
      BY <3>1 DEF Operation
    <3>3. CASE Born(p)
      BY <1>0, <1>2, <3>2, <3>3 DEF Born, FilesType
    <3>4. CASE Forwarded(p)
      <4>1. events' \in [Sessions -> Seq(EventTypes)]
        BY <1>0, <3>2, <3>4 DEF Forwarded, FilesType, EventNeeded
      <4> QED BY <1>0, <1>2, <3>4, <4>1 DEF Forwarded, FilesType
    <3> QED BY <2>4, <3>3, <3>4
  <2> QED BY <1>2, <2>1, <2>3, <2>4 DEF JournalMoves
<1>3. ASSUME NEW p \in Procs, ProcStep(p) PROVE FilesType' /\ Len(ops)' <= MaxOps
  BY <1>1, <1>2, <1>3, QuietSteps, Journals DEF FilesQuiet
<1> QED BY <1>1, <1>3, Steps DEF files

-----------------------------------------------------------------------------
(* Plans, the book, stage receipts and ledgers.                            *)

\* What a step does to the work of the sessions.
Changes(s) == book' = Append(book, s) /\ Len(book) < MaxBook
WorkMoves(p) ==
  \/ UNCHANGED work
  \/ /\ proc[p].pc = "commit" /\ Len(book) = proc[p].base /\ Changes(proc[p].s)
     /\ undelivered' = undelivered \cup {Len(book) + 1} /\ UNCHANGED <<plan, stages, ledger>>
     /\ Becomes(p, [proc[p] EXCEPT !.pc = "deliver"])
  \/ /\ NextChapter(p) \in Chapters /\ Receipted(p) /\ proc[p].s \in Sessions
     /\ UNCHANGED <<plan, book, undelivered, ledger>>
  \/ /\ undelivered' \subseteq undelivered /\ UNCHANGED <<plan, book, stages>>
     /\ \/ UNCHANGED ledger
        \/ LET k == NextChapter(p) IN
           /\ proc[p].s \in Sessions /\ MayComplete(proc[p].s, k) /\ Complete(proc[p].s, k)
           /\ k \in 1 .. Len(Published(proc[p].s))

LEMMA WorkSteps ==
  ASSUME AutonomyAssumption, IInv, NEW p \in Procs, ProcStep(p)
  PROVE  WorkMoves(p)
<1>0. proc[p].pc # "idle" => proc[p].s \in Sessions
  BY PlacedFacts
<1>1. CASE Recover(p) \/ BeginSource(p) \/ BeginTerminal(p) \/ BeginStatus(p)
  BY <1>1 DEF Recover, BeginSource, BeginTerminal, BeginStatus, WorkMoves
<1>2. CASE Acquire(p) \/ CheckSource(p) \/ Mark(p) \/ Forward(p) \/ Index(p)
  BY <1>2 DEF Acquire, CheckSource, Mark, Forward, Index, WorkMoves
<1>3. CASE Release(p) \/ Finish(p) \/ Back(p) \/ Undo(p)
  BY <1>3 DEF Release, Finish, Back, Undo, WorkMoves
<1>4. CASE Call(p) \/ Choose(p) \/ Renew(p) \/ Crash(p) \/ CrashInPublish(p)
  BY <1>4 DEF Call, Choose, Renew, Crash, CrashInPublish, WorkMoves
<1>5. CASE \E c \in Commands, s \in Sessions : Command(p, c, s)
  BY <1>5 DEF Command, WorkMoves
<1>6. CASE Stage(p)
  <2>1. UNCHANGED <<plan, book, undelivered, ledger>> /\ proc[p].s \in Sessions
    BY <1>0, <1>6 DEF Stage
  <2> QED BY <1>6, <2>1, StageChange DEF WorkMoves, work
<1>7. CASE Commit(p)
  <2>1. UNCHANGED <<plan, stages, ledger>> /\ proc \in [Procs -> Process] /\ "deliver" \in PCs
    BY <1>7, TypeParts DEF Commit, IInv, PCs
  <2> QED BY <1>7, <2>1, GotoChange DEF Commit, WorkMoves, work, Changes
<1>8. CASE Boundary(p) \/ Drive(p)
  <2>1. UNCHANGED <<plan, book, stages>> /\ proc[p].s \in Sessions
    BY <1>0, <1>8 DEF Boundary, Drive
  <2>2. CASE UNCHANGED <<ledger, undelivered>>
    BY <2>1, <2>2 DEF WorkMoves
  <2>3. CASE NextChapter(p) \in Unrecorded(proc[p].s) /\ Recovers(proc[p].s)
    <3>1. /\ undelivered' \subseteq undelivered
          /\ UNCHANGED ledger \/ (MayComplete(proc[p].s, NextChapter(p)) /\ Complete(proc[p].s, NextChapter(p)))
      BY <2>3 DEF Recovers, NextChapter
    <3> QED BY <2>1, <2>3, <3>1 DEF WorkMoves, Unrecorded
  <2> QED BY <1>8, <2>2, <2>3 DEF Boundary, Drive, NextChapter
<1>10. CASE Deliver(p) \/ Retry(p)
  BY <1>10 DEF Deliver, Retry, WorkMoves
<1>9. CASE Record(p)
  <2>1. UNCHANGED <<plan, book, undelivered, stages>> /\ proc[p].s \in Sessions
    BY <1>0, <1>9 DEF Record
  <2>2. \/ UNCHANGED ledger
        \/ /\ MayComplete(proc[p].s, NextChapter(p)) /\ Complete(proc[p].s, NextChapter(p))
           /\ Len(Published(proc[p].s)) = NextChapter(p)
    BY <1>9 DEF Record, NextChapter
  <2>3. NextChapter(p) \in Nat \ {0}
    <3>1. Len(ledger[proc[p].s]) \in Nat
      BY <2>1, TypeParts DEF IInv, WorkType
    <3> QED BY <3>1 DEF NextChapter
  <2>4. NextChapter(p) \in 1 .. NextChapter(p)
    BY <2>3
  <2> QED BY <2>1, <2>2, <2>4 DEF WorkMoves
<1> QED BY <1>1, <1>2, <1>3, <1>4, <1>5, <1>6, <1>7, <1>8, <1>9, <1>10 DEF ProcStep, FencedStep, RunnerStep

LEMMA WorkStep ==
  ASSUME AutonomyAssumption, IInv, Next
  PROVE  WorkType' /\ Len(book)' <= MaxBook
<1>8. WorkType /\ LeaseType
  BY TypeParts DEF IInv
<1>9. book \in Seq(Sessions \cup {"edit"}) /\ history \in Seq(Generation)
  BY <1>8 DEF WorkType, LeaseType
<1>7. /\ WorkType /\ LeaseType /\ Newest \in Nat /\ Len(book) \in Nat
  BY <1>8, <1>9 DEF Newest
<1>0. /\ WorkType /\ Len(book) \in 0 .. MaxBook /\ Len(book) <= MaxBook /\ MaxBook \in Nat
      /\ LeaseType /\ Newest \in Nat
  BY <1>7 DEF IInv, Sized, AutonomyAssumption
<1>1. CASE UNCHANGED work
  BY <1>0, <1>1 DEF work, WorkType
<1>2. ASSUME NEW s \in Sessions \cup {"edit"}, Changes(s), undelivered' \subseteq undelivered \cup {Len(book) + 1},
             UNCHANGED <<plan, stages, ledger>>
      PROVE  WorkType' /\ Len(book)' <= MaxBook
  <2>1. book' \in Seq(Sessions \cup {"edit"}) /\ Len(book') = Len(book) + 1 /\ Len(book') <= MaxBook
    BY <1>0, <1>2, AppendProperties DEF Changes, WorkType
  <2>2. undelivered' \subseteq 1 .. Len(book')
    <3>1. undelivered \subseteq 1 .. Len(book) /\ Len(book) \in Nat
      BY <1>7 DEF WorkType
    <3>2. \A i \in undelivered' : i \in 1 .. Len(book) \/ i = Len(book) + 1
      BY <1>2, <3>1
    <3> QED BY <2>1, <3>1, <3>2
  <2> QED BY <1>0, <1>2, <2>1, <2>2 DEF WorkType
<1>3. CASE Edit
  BY <1>2, <1>3 DEF Edit, Changes
<1>4. CASE Tick
  BY <1>1, <1>4 DEF Tick
<1>5. ASSUME NEW s \in Sessions, Preview(s) PROVE WorkType' /\ Len(book)' <= MaxBook
  <2>1. plan' \in [Sessions -> NoPlan .. MaxBook]
    BY <1>0, <1>5 DEF Preview, WorkType, NoPlan
  <2> QED BY <1>0, <1>5, <2>1 DEF Preview, WorkType
<1>6. ASSUME NEW p \in Procs, ProcStep(p) PROVE WorkType' /\ Len(book)' <= MaxBook
  <2> DEFINE s == proc[p].s
             k == NextChapter(p)
  <2>0. proc[p].pc # "idle" => s \in Sessions
    BY PlacedFacts
  <2>1. CASE /\ proc[p].pc = "commit" /\ Changes(s) /\ undelivered' = undelivered \cup {Len(book) + 1}
             /\ UNCHANGED <<plan, stages, ledger>>
    BY <1>2, <2>0, <2>1
  <2>2. CASE k \in Chapters /\ Receipted(p) /\ s \in Sessions /\ UNCHANGED <<plan, book, undelivered, ledger>>
    <3>1. Newest \in 1 .. MaxGen
      BY <1>0, <2>2 DEF Receipted, Owned, LeaseType
    <3>3. stages[s][k] \in Seq(1 .. MaxGen) /\ stages \in [Sessions -> [Chapters -> Seq(1 .. MaxGen)]]
      BY <1>0, <2>2 DEF WorkType
    <3>4. Append(stages[s][k], Newest) \in Seq(1 .. MaxGen)
      BY <3>1, <3>3, AppendProperties
    <3>5. stages' = [stages EXCEPT ![s][k] = Append(stages[s][k], Newest)]
      BY <2>2, <3>3 DEF Receipted
    <3>2. stages' \in [Sessions -> [Chapters -> Seq(1 .. MaxGen)]]
      BY <2>2, <3>3, <3>4, <3>5
    <3> QED BY <1>0, <2>2, <3>2 DEF WorkType
  <2>3. CASE /\ undelivered' \subseteq undelivered /\ UNCHANGED <<plan, book, stages>>
             /\ UNCHANGED ledger \/ (s \in Sessions /\ Complete(s, k))
    <3> DEFINE owed == Published(s)[k] \in undelivered'
               r == [after |-> Len(book), owed |-> owed]
           Recorded == [after : 0 .. MaxBook, owed : BOOLEAN]
    <3>6. owed \in BOOLEAN
      OBVIOUS
    <3>7. UNCHANGED ledger \/ (s \in Sessions /\ Complete(s, k))
      BY <2>3
    <3>8. Complete(s, k) => ledger' = [ledger EXCEPT ![s] = Append(@, r)]
      BY DEF Complete
    <3> HIDE DEF owed
    <3>1. r \in Recorded /\ ledger \in [Sessions -> Seq(Recorded)]
      BY <1>0, <3>6 DEF WorkType
    <3>2. UNCHANGED ledger \/ (s \in Sessions /\ ledger' = [ledger EXCEPT ![s] = Append(ledger[s], r)])
      BY <3>1, <3>7, <3>8
    <3> HIDE DEF r, Recorded
    <3>4. s \in Sessions => Append(ledger[s], r) \in Seq(Recorded)
      BY <3>1, AppendProperties
    <3>5. ledger' \in [Sessions -> Seq(Recorded)]
      BY <3>1, <3>2, <3>4
    <3>3. ledger' \in [Sessions -> Seq([after : 0 .. MaxBook, owed : BOOLEAN])]
      BY <3>5 DEF Recorded
    <3> QED BY <1>0, <2>3, <3>3 DEF WorkType
  <2> QED BY <1>1, <1>6, <2>1, <2>2, <2>3, WorkSteps DEF WorkMoves
<1> QED BY <1>3, <1>4, <1>5, <1>6 DEF Next, ProcStep

LEMMA TypeStep ==
  ASSUME AutonomyAssumption, IInv, Next
  PROVE  TypeOK' /\ Sized'
<1>1. LeaseType' /\ LeaseMoves /\ FilesType' /\ WorkType' /\ Len(book)' <= MaxBook /\ Len(ops)' <= MaxOps
  BY LeaseStep, FilesStep, WorkStep DEF LeaseMoves
<1>2. proc' \in [Procs -> Process]
  <2>1. proc \in [Procs -> Process]
    BY TypeParts DEF IInv
  <2> QED BY <2>1, Steps DEF Turns, Only
<1>3. faults' \in 0 .. MaxFaults
  <2>1. faults \in 0 .. MaxFaults /\ MaxFaults \in Nat
    BY TypeParts DEF IInv, AutonomyAssumption
  <2>2. CASE Edit \/ Tick \/ \E s \in Sessions : Preview(s)
    BY <2>1, <2>2 DEF Edit, Tick, Preview
  <2>3. ASSUME NEW p \in Procs, ProcStep(p)
        PROVE  faults' = faults \/ (faults < MaxFaults /\ faults' = faults + 1)
    <3>1. CASE FencedStep(p)
      BY <3>1 DEF FencedStep, Recover, BeginSource, BeginTerminal, BeginStatus, Acquire, Boundary, CheckSource,
         Mark, Forward, Index, Release, Finish, Back, Undo
    <3>2. CASE RunnerStep(p)
      BY <3>2 DEF RunnerStep, Drive, Retry, Call, Choose, Renew, Stage, Commit, Deliver, Record
    <3>3. CASE Crash(p) \/ CrashInPublish(p) \/ \E c \in Commands, s \in Sessions : Command(p, c, s)
      BY <3>3 DEF Crash, CrashInPublish, Command
    <3> QED BY <2>3, <3>1, <3>2, <3>3 DEF ProcStep
  <2> QED BY <2>1, <2>2, <2>3 DEF Next, ProcStep
<1>4. TypeOK'
  BY <1>1, <1>2, <1>3, TypeParts DEF TypeOK, LeaseType, FilesType, WorkType, Generation, Operation, Process
<1>5. \A s \in Sessions, c \in Chapters : \A i \in 1 .. Len(stages'[s][c]) : stages'[s][c][i] <= Newest'
  <2>5. WorkType /\ LeaseType /\ Sized
    BY TypeParts DEF IInv
  <2>6. Newest \in Nat /\ Newest' \in Nat /\ Newest <= MaxGen
    BY <1>1, <2>5 DEF LeaseType, Newest
  <2>0. /\ stages \in [Sessions -> [Chapters -> Seq(1 .. MaxGen)]] /\ Newest \in Nat /\ Newest' \in Nat
        /\ \A s \in Sessions, c \in Chapters : \A i \in 1 .. Len(stages[s][c]) : stages[s][c][i] <= Newest
    BY <2>5, <2>6 DEF Sized, WorkType
  <2>1. Newest <= Newest'
    <3>1. CASE NoGeneration
      BY <2>6, <3>1, LeaseKept DEF NoGeneration
    <3>2. CASE \E s \in Sessions, active \in BOOLEAN : NewGeneration(s, active)
      <4>1. PICK s \in Sessions, active \in BOOLEAN : NewGeneration(s, active)
        BY <3>2
      <4>2. Newest' = Newest + 1
        BY <2>5, <4>1, NewGenerationFacts
      <4> QED BY <2>6, <4>2
    <3> QED BY <1>1, <3>1, <3>2 DEF LeaseMoves
  <2>7. ASSUME NEW s \in Sessions, NEW c \in Chapters, NEW i \in 1 .. Len(stages[s][c])
        PROVE  stages[s][c][i] <= Newest'
    <3>2. stages[s][c] \in Seq(1 .. MaxGen) /\ stages[s][c][i] <= Newest
      BY <2>0
    <3>1. stages[s][c][i] \in 1 .. MaxGen /\ stages[s][c][i] <= Newest
      BY <3>2, ElementOfSeq
    <3> QED BY <2>1, <2>6, <3>1
  <2>2. CASE UNCHANGED stages
    BY <2>2, <2>7
  <2>3. ASSUME NEW p \in Procs, NextChapter(p) \in Chapters, Receipted(p)
        PROVE  \A s \in Sessions, c \in Chapters : \A i \in 1 .. Len(stages'[s][c]) : stages'[s][c][i] <= Newest'
    <3> SUFFICES ASSUME NEW s \in Sessions, NEW c \in Chapters, NEW i \in 1 .. Len(stages'[s][c])
                 PROVE  stages'[s][c][i] <= Newest'
      OBVIOUS
    <3>1. stages[s][c] \in Seq(1 .. MaxGen) /\ Newest \in 1 .. MaxGen
      BY <2>0, <2>3, <2>6 DEF Receipted, Owned
    <3>2. stages'[s][c] = stages[s][c] \/ stages'[s][c] = Append(stages[s][c], Newest)
      BY <2>0, <2>3 DEF Receipted
    <3>3. (i \in 1 .. Len(stages[s][c]) /\ stages'[s][c][i] = stages[s][c][i]) \/ stages'[s][c][i] = Newest
      BY <3>1, <3>2, AppendProperties
    <3> QED BY <2>1, <2>7, <3>3
  <2>4. UNCHANGED stages \/ \E p \in Procs : NextChapter(p) \in Chapters /\ Receipted(p)
    BY Steps, WorkSteps DEF WorkMoves, work
  <2> QED BY <2>2, <2>3, <2>4
<1>6. \A p \in Procs :
        proc'[p].pc # "commit" /\ (proc'[p].pc = "choose" \/ InChapter(p)') => proc'[p].cursor < Stages
  <2>1. \A p \in Procs :
          proc[p].pc # "commit" /\ (proc[p].pc = "choose" \/ InChapter(p)) => proc[p].cursor < Stages
    BY DEF IInv, Sized
  <2> QED BY <2>1, Steps DEF Turns, Only, InChapter
<1> QED BY <1>1, <1>4, <1>5, <1>6 DEF Sized

-----------------------------------------------------------------------------
(* Where processes are.                                                    *)

LEMMA StateFacts ==
  ASSUME events \in [Sessions -> Seq(EventTypes)], NEW s \in Sessions
  PROVE  /\ events[s] \in Seq(EventTypes) /\ Len(events[s]) \in Nat
         /\ State(s) = "absent" <=> events[s] = <<>>
         /\ events[s] # <<>> => Last(events[s]) \in EventTypes
         /\ State(s) = "active" <=> (events[s] # <<>> /\ Last(events[s]) \in {"started", "resumed"})
         /\ State(s) # "absent" /\ State(s) # "active" => State(s) = Last(events[s])
<1>1. events[s] \in Seq(EventTypes) /\ Len(events[s]) \in Nat
  OBVIOUS
<1>2. events[s] # <<>> => Last(events[s]) \in EventTypes
  BY <1>1 DEF Last
<1> QED BY <1>1, <1>2 DEF State, EventTypes

LEMMA NextStateFacts ==
  ASSUME events' \in [Sessions -> Seq(EventTypes)], NEW s \in Sessions
  PROVE  /\ events'[s] \in Seq(EventTypes) /\ Len(events'[s]) \in Nat
         /\ State(s)' = "absent" <=> events'[s] = <<>>
         /\ State(s)' = "active" <=> (events'[s] # <<>> /\ Last(events'[s]) \in {"started", "resumed"})
         /\ State(s)' # "absent" /\ State(s)' # "active" => State(s)' = Last(events'[s])
<1>1. events'[s] \in Seq(EventTypes) /\ Len(events'[s]) \in Nat
  OBVIOUS
<1>2. events'[s] # <<>> => Last(events'[s]) \in EventTypes
  BY <1>1 DEF Last
<1> QED BY <1>1, <1>2 DEF State, EventTypes

LEMMA LatestFacts ==
  ASSUME AutonomyAssumption, IInv, ops # <<>>
  PROVE  LET o == Latest IN
         /\ o \in Operation /\ Targeted(o) /\ o.s \in Sessions /\ o.event \in Nat /\ o.type \in OpTypes
         /\ o.target \in EventTypes \cup {"none"} /\ o.from \in {"absent", "active", "cancelled"}
         /\ o.lease \in Nat /\ o.lease <= Newest /\ o.marker \in BOOLEAN
         /\ o.target = "none" => o.from = "active" /\ o.type \in Source
         /\ o.type \in Source /\ o.target # "none" => o.target \in {"started", "resumed"}
         /\ o.type \notin Source => o.from # "absent" /\ o.target \in {"cancelled", "abandoned", "completed"}
<1> DEFINE o == Latest
<1>1. ops \in Seq(Operation) /\ Len(ops) \in 1 .. Len(ops)
  BY TypeParts DEF IInv, FilesType
<1>2. o \in Operation /\ Targeted(o) /\ o.lease <= Newest
  BY <1>1 DEF IInv, Journalled, Latest
<1> HIDE DEF o
<1>3. /\ o.s \in Sessions /\ o.event \in Nat /\ o.type \in OpTypes /\ o.marker \in BOOLEAN
      /\ o.target \in EventTypes \cup {"none"} /\ o.from \in {"absent", "active", "cancelled"}
  BY <1>2 DEF Operation
<1>4. o.lease \in Nat
  BY <1>2 DEF Operation
<1>5. /\ o.target = "none" => o.from = "active" /\ o.type \in Source
      /\ o.type \in Source /\ o.target # "none" => o.target \in {"started", "resumed"}
      /\ o.type \notin Source => o.from # "absent" /\ o.target \in {"cancelled", "abandoned", "completed"}
  BY <1>2, <1>3 DEF Targeted, OpTypes, Source
<1> QED BY <1>2, <1>3, <1>4, <1>5 DEF o

\* When the roll forward of the latest operation is done, its event is the session's last one.
LEMMA ForwardedFacts ==
  ASSUME AutonomyAssumption, IInv, NEW p \in Procs, Forwarded(p), NEW s, s = Latest.s
  PROVE  LET o == Latest IN
         /\ o \in Operation /\ s \in Sessions /\ events' \in [Sessions -> Seq(EventTypes)]
         /\ \A t \in Sessions : t # s => events'[t] = events[t]
         /\ events'[s] = events[s] \/ (Len(events[s]) = o.event /\ events'[s] = Append(events[s], o.target))
         /\ o.target = "none" => events'[s] = events[s] /\ Len(events[s]) = o.event
         /\ o.target # "none" =>
              o.target \in EventTypes /\ Len(events'[s]) = o.event + 1 /\ Last(events'[s]) = o.target
         /\ events'[s] # <<>> /\ (o.type \in Source => State(s)' = "active")
<1> DEFINE o == Latest
<1>1. /\ events \in [Sessions -> Seq(EventTypes)] /\ Unfinished /\ o.marker
  BY TypeParts DEF IInv, FilesType, Forwarded, Unfinished
<1>2. o \in Operation /\ s \in Sessions
  BY <1>1, LatestFacts DEF Unfinished
<1>3. /\ o.event \in Nat /\ o.target \in EventTypes \cup {"none"} /\ o.from # "none"
      /\ o.target = "none" => o.from = "active"
      /\ o.type \in Source /\ o.target # "none" => o.target \in {"started", "resumed"}
  BY <1>1, LatestFacts DEF Unfinished
<1>4. \/ Len(events[s]) = o.event /\ State(s) = o.from
      \/ Len(events[s]) = o.event + 1 /\ o.target # "none" /\ Last(events[s]) = o.target
  BY <1>1 DEF IInv, Unsettled
<1>10. s = o.s
  OBVIOUS
<1>5. "none" \notin EventTypes
  BY DEF EventTypes
<1> HIDE DEF o
<1>6. /\ o.target # "none" /\ Len(events[s]) = o.event => events' = [events EXCEPT ![s] = Append(@, o.target)]
      /\ ~(o.target # "none" /\ Len(events[s]) = o.event) => events' = events
  BY <1>10 DEF Forwarded, EventNeeded, o
<1>7. events[s] \in Seq(EventTypes) /\ Len(events[s]) \in Nat
  BY <1>1, <1>2
<1>8. CASE o.target # "none" /\ Len(events[s]) = o.event
  <2>1. o.target \in EventTypes
    BY <1>3, <1>8
  <2>2. events' = [events EXCEPT ![s] = Append(events[s], o.target)]
    BY <1>6, <1>8
  <2>3. Append(events[s], o.target) \in Seq(EventTypes)
    BY <1>7, <2>1, AppendProperties
  <2>4. events' \in [Sessions -> Seq(EventTypes)] /\ events'[s] = Append(events[s], o.target)
        /\ \A t \in Sessions : t # s => events'[t] = events[t]
    BY <1>1, <1>2, <2>2, <2>3
  <2>5. Len(events'[s]) = o.event + 1 /\ Last(events'[s]) = o.target /\ events'[s] # <<>>
    BY <1>7, <1>8, <2>1, <2>4, AppendProperties DEF Last
  <2>6. o.type \in Source => State(s)' = "active"
    BY <1>2, <1>3, <1>8, <2>4, <2>5, NextStateFacts
  <2> QED BY <1>2, <1>8, <2>1, <2>4, <2>5, <2>6 DEF o
<1>9. CASE ~(o.target # "none" /\ Len(events[s]) = o.event)
  <2>1. events' = events
    BY <1>6, <1>9
  <2>2. o.target = "none" => Len(events[s]) = o.event /\ State(s) = o.from
    BY <1>4
  <2>3. o.target # "none" => Len(events[s]) = o.event + 1 /\ Last(events[s]) = o.target
    BY <1>4, <1>9
  <2>5. events[s] # <<>>
    BY <1>1, <1>2, <1>3, <1>7, <2>2, <2>3, StateFacts
  <2>6. o.type \in Source => State(s) = "active"
    BY <1>1, <1>2, <1>3, <2>2, <2>3, <2>5, StateFacts
  <2>7. State(s)' = State(s)
    BY <2>1 DEF State
  <2>8. o.target # "none" => o.target \in EventTypes
    BY <1>3
  <2>9. o.target = "none" => events'[s] = events[s] /\ Len(events[s]) = o.event
    BY <2>1, <2>2
  <2>10. o.target # "none" => Len(events'[s]) = o.event + 1 /\ Last(events'[s]) = o.target
    BY <2>1, <2>3
  <2> QED BY <1>1, <1>2, <2>1, <2>5, <2>6, <2>7, <2>8, <2>9, <2>10 DEF o
<1> QED BY <1>8, <1>9

LEMMA PlacedQuiet ==
  ASSUME UNCHANGED <<ops, events, born>>, NEW q \in Procs, Placed(q), proc'[q] = proc[q]
  PROVE  Placed(q)'
<1>1. Pending' = Pending /\ Latest' = Latest /\ State(Latest.s)' = State(Latest.s)
  BY DEF Pending, Latest, State
<1> QED BY <1>1 DEF Placed

LEMMA PlacedUnfenced ==
  ASSUME NEW p \in Procs, Turns(p), proc'[p].pc \notin Fenced \/ proc'[p].pc = "recover"
  PROVE  Placed(p)'
BY DEF Placed, Turns, Driving, Fenced

\* The moves of the process that drives the latest operation which leave the files alone.
Passes == {<<"acquire", "boundary">>, <<"boundary", "source">>, <<"boundary", "back">>,
           <<"source", "mark">>, <<"source", "back">>, <<"index", "finish">>,
           <<"release", "finish">>, <<"back", "undo">>}

LEMMA PlacedOnward ==
  ASSUME UNCHANGED <<ops, events, born>>, NEW p \in Procs, Placed(p),
         proc'[p].s = proc[p].s, proc'[p].op = proc[p].op, <<proc[p].pc, proc'[p].pc>> \in Passes
  PROVE  Placed(p)'
<1>1. Latest' = Latest /\ State(Latest.s)' = State(Latest.s)
  BY DEF Latest, State
<1>2. proc[p].pc \in Driving /\ proc'[p].pc \in Driving /\ proc[p].pc # "idle" /\ proc'[p].pc # "begin"
  BY DEF Passes, Driving, Fenced
<1>3. /\ proc'[p].pc \in {"boundary", "source"} => proc[p].pc \in {"acquire", "boundary"}
      /\ proc'[p].pc = "mark" => proc[p].pc = "source"
      /\ proc'[p].pc = "undo" => proc[p].pc = "back"
      /\ proc'[p].pc = "back" => proc[p].pc \in {"boundary", "source"}
      /\ proc'[p].pc = "finish" => proc[p].pc \in {"index", "release"}
      /\ proc'[p].pc \in {"boundary", "source", "mark", "undo", "back", "finish"}
  BY DEF Passes
<1> QED BY <1>1, <1>2, <1>3 DEF Placed

LEMMA PlacedBegun ==
  ASSUME IInv, NEW p \in Procs, NEW target, Begun(p, target), UNCHANGED <<events, born>>
  PROVE  Placed(p)'
<1>1. proc[p] \in Process /\ ops \in Seq(Operation)
  BY PlacedFacts
<1>2. /\ Latest' = Intent(p, target) /\ Len(ops') = Len(ops) + 1 /\ ops' # <<>>
  BY <1>1, LatestAdded DEF Begun
<1>3. /\ Latest'.type = proc[p].cmd /\ Latest'.s = proc[p].s /\ ~Latest'.marker /\ Latest'.result = "none"
  BY <1>2 DEF Intent
<1>4. /\ proc'[p].op = Len(ops') /\ proc'[p].s = proc[p].s /\ proc[p].s \in Sessions
      /\ proc'[p].pc \in {"acquire", "mark"} /\ (proc'[p].pc = "acquire" => proc[p].cmd \in Source)
  BY <1>1, <1>2 DEF Begun, Becomes, Process
<1> QED BY <1>2, <1>3, <1>4 DEF Placed

LEMMA PlacedJournals ==
  ASSUME AutonomyAssumption, IInv, NEW p \in Procs, JournalMoves(p), Turns(p)
  PROVE  Placed(p)'
<1>0. proc[p] \in Process /\ ops \in Seq(Operation) /\ Placed(p)
  BY PlacedFacts DEF IInv
<1>1. CASE (\E target \in EventTypes \cup {"none"} : Begun(p, target)) /\ UNCHANGED <<events, born>>
  BY <1>1, PlacedBegun
<1>2. CASE Marked(p)
  <2>1. /\ ops' # <<>> /\ Len(ops') = Len(ops) /\ Latest'.marker /\ Latest'.result = "none"
    BY <1>0, <1>2, LatestReplaced DEF Marked, Operation
  <2>2. /\ proc'[p].pc = "forward" /\ proc'[p].s = proc[p].s /\ proc'[p].op = proc[p].op
        /\ proc[p].op = Len(ops) /\ proc[p].s \in Sessions
    BY <1>0, <1>2 DEF Marked, Becomes, Process, Placed, Driving, Fenced
  <2> QED BY <2>1, <2>2 DEF Placed
<1>3. CASE Born(p)
  <2>1. proc[p].pc = "forward" /\ UNCHANGED <<proc, ops>>
    BY <1>3 DEF Born
  <2>2. Latest' = Latest
    BY <2>1 DEF Latest
  <2> QED BY <1>0, <2>1, <2>2 DEF Placed
<1>4. CASE Forwarded(p)
  <2>1. ops # <<>> /\ proc[p].pc = "forward" /\ Latest.marker /\ Latest.result = "none"
        /\ UNCHANGED <<ops, born>> /\ (Latest.from = "absent" => Latest.s \in born)
    BY <1>4 DEF Forwarded
  <2>2. PICK s \in Sessions : s = Latest.s
    BY <2>1, LatestFacts
  <2>3. Latest' = Latest
    BY <2>1 DEF Latest
  <2>4. events'[s] # <<>> /\ (Latest.type \in Source => State(s)' = "active")
    BY <1>4, <2>2, ForwardedFacts
  <2>5. /\ proc'[p].pc = AfterForward(Latest) /\ proc'[p].s = proc[p].s /\ proc'[p].op = proc[p].op
        /\ proc[p].op = Len(ops) /\ proc[p].s \in Sessions
    BY <1>0, <1>4, <2>1 DEF Forwarded, Becomes, Process, Placed, Driving, Fenced
  <2>6. Targeted(Latest)
    BY <2>1, LatestFacts
  <2>7. Latest.from = "absent" => Latest.type \in Source
    BY <2>6 DEF Targeted, Source
  <2>8. /\ proc'[p].pc \in {"index", "finish", "release"}
        /\ proc'[p].pc = "index" => Latest.from = "absent"
        /\ proc'[p].pc = "release" => Latest.type \notin Source
    BY <2>5 DEF AfterForward
  <2> QED BY <2>1, <2>2, <2>3, <2>4, <2>5, <2>7, <2>8 DEF Placed
<1>5. CASE Settled(p, "completed") \/ Settled(p, "rolled_back")
  <2>1. proc'[p].pc \in {"idle", "recover", "drive"}
    BY <1>5 DEF Settled
  <2> QED BY <2>1, PlacedUnfenced DEF Fenced
<1> QED BY <1>1, <1>2, <1>3, <1>4, <1>5 DEF JournalMoves

LEMMA PlacedQuietly ==
  ASSUME AutonomyAssumption, IInv, NEW p \in Procs, ProcStep(p), ~JournalSteps(p), Turns(p)
  PROVE  Placed(p)'
<1>0. proc[p] \in Process /\ Placed(p) /\ UNCHANGED <<ops, events, born>> /\ Idle.pc = "idle"
  BY PlacedFacts, QuietSteps DEF IInv, FilesQuiet, Idle
<1>1. CASE Becomes(p, Idle)
  BY <1>0, <1>1, PlacedUnfenced DEF Becomes, Fenced
<1>2. CASE proc'[p].pc \notin Fenced \/ proc'[p].pc = "recover"
  BY <1>2, PlacedUnfenced
<1>3. CASE Recover(p)
  <2>1. Latest' = Latest /\ Pending' = Pending
    BY <1>0 DEF Latest, Pending
  <2>2. proc[p].s \in Sessions
    BY <1>0, <1>3 DEF Placed, Recover
  <2>3. CASE ~Unfinished /\ Becomes(p, [proc[p] EXCEPT !.pc = "begin"])
    <3>1. proc'[p].pc = "begin" /\ proc'[p].s = proc[p].s /\ Pending = {}
      BY <1>0, <2>3, PendingIsLatest DEF Becomes, Process
    <3> QED BY <2>1, <2>2, <3>1 DEF Placed, Driving, Fenced
  <2>4. CASE /\ Unfinished
             /\ Becomes(p, [proc[p] EXCEPT !.op = Len(ops), !.pc = IF Latest.marker THEN "forward" ELSE "back"])
    <3>1. /\ proc'[p].s = proc[p].s /\ proc'[p].op = Len(ops)
          /\ proc'[p].pc = IF Latest.marker THEN "forward" ELSE "back"
      BY <1>0, <2>4 DEF Becomes, Process
    <3> QED BY <1>0, <2>1, <2>2, <2>4, <3>1 DEF Placed, Unfinished
  <2> QED BY <1>3, <2>3, <2>4, RecoverChange
<1>4. ASSUME NEW pc \in {"boundary", "source", "back", "mark", "finish", "undo"}, NEW x,
             NEW q \in {[proc[p] EXCEPT !.pc = pc], [proc[p] EXCEPT !.gen = x, !.pc = pc],
                        [proc[p] EXCEPT !.base = x, !.pc = pc]},
             Becomes(p, q), <<proc[p].pc, pc>> \in Passes
      PROVE  Placed(p)'
  <2>1. q.pc = pc /\ q.s = proc[p].s /\ q.op = proc[p].op
    BY <1>0, <1>4 DEF Process
  <2> QED BY <1>0, <1>4, <2>1, PlacedOnward DEF Becomes
<1>5. CASE Acquire(p)
  <2>1. proc[p].pc = "acquire" /\ <<"acquire", "boundary">> \in Passes
    BY <1>5 DEF Acquire, Passes
  <2>2. CASE \E g \in 0 .. MaxGen : Becomes(p, [proc[p] EXCEPT !.gen = g, !.pc = "boundary"])
    BY <1>4, <2>1, <2>2
  <2> QED BY <1>1, <1>5, <2>2, AcquireChange
<1>6. CASE Boundary(p)
  <2>1. <<"boundary", "back">> \in Passes /\ <<"boundary", "source">> \in Passes
    BY DEF Passes
  <2> QED BY <1>4, <1>6, <2>1, BoundaryChange
<1>7. CASE CheckSource(p)
  <2>1. proc[p].pc = "source" /\ <<"source", "mark">> \in Passes /\ <<"source", "back">> \in Passes
    BY <1>7 DEF CheckSource, Passes
  <2> QED BY <1>4, <1>7, <2>1, CheckSourceChange
<1>8. CASE Index(p) \/ Release(p)
  <2>1. proc[p].pc \in {"index", "release"} /\ <<proc[p].pc, "finish">> \in Passes
    BY <1>8 DEF Index, Release, Passes
  <2> QED BY <1>4, <1>8, <2>1, IndexChange, ReleaseChange
<1>9. CASE Back(p)
  <2>1. proc[p].pc = "back" /\ <<"back", "undo">> \in Passes
    BY <1>9 DEF Back, Passes
  <2> QED BY <1>1, <1>4, <1>9, <2>1, BackChange
<1>10. CASE BeginStatus(p)
  BY <1>0, <1>1, <1>2, <1>10, BeginStatusChange, ZenonT(60) DEF Becomes, Process, Fenced
<1>11. CASE Call(p) \/ \E c \in Commands, s \in Sessions : Command(p, c, s)
  BY <1>2, <1>11, OnwardSteps
<1>12. CASE Choose(p) \/ Renew(p)
  BY <1>0, <1>1, <1>2, <1>12, ChooseChange, RenewChange, ZenonT(60) DEF Becomes, Process, Fenced
<1>13. CASE Stage(p)
  BY <1>0, <1>1, <1>2, <1>13, StageChange DEF Becomes, AfterStage, Process, Fenced
<1>14. CASE Commit(p) \/ Deliver(p) \/ Record(p) \/ Drive(p) \/ Retry(p)
  BY <1>1, <1>2, <1>14, OnwardSteps DEF Onward, Fenced
<1>15. CASE Crash(p) \/ CrashInPublish(p)
  BY <1>1, <1>15, RunnerChange
<1> QED BY <1>3, <1>5, <1>6, <1>7, <1>8, <1>9, <1>10, <1>11, <1>12, <1>13, <1>14, <1>15
        DEF ProcStep, FencedStep, RunnerStep, JournalSteps

LEMMA PlacedStep ==
  ASSUME AutonomyAssumption, IInv, Next
  PROVE  \A q \in Procs : Placed(q)'
<1>0. OneFence /\ \A q \in Procs : Placed(q)
  BY DEF IInv
<1>1. CASE UNCHANGED <<proc, files>>
  BY <1>0, <1>1, PlacedQuiet DEF files
<1>2. ASSUME NEW p \in Procs, ProcStep(p), Turns(p), NEW q \in Procs PROVE Placed(q)'
  <2>1. CASE q = p
    <3>1. CASE JournalSteps(p)
      <4>1. JournalMoves(p) \/ (UNCHANGED <<ops, events, born>> /\ Becomes(p, Idle))
        BY <3>1, Journals
      <4>2. CASE Becomes(p, Idle)
        <5>1. proc'[p].pc = "idle"
          BY <4>2 DEF Becomes, Idle
        <5> QED BY <1>2, <2>1, <5>1, PlacedUnfenced DEF Fenced
      <4> QED BY <1>2, <2>1, <4>1, <4>2, PlacedJournals
    <3>2. CASE ~JournalSteps(p)
      BY <1>2, <2>1, <3>2, PlacedQuietly
    <3> QED BY <3>1, <3>2
  <2>2. CASE q # p
    <3>1. proc'[q] = proc[q]
      BY <1>2, <2>2 DEF Turns, Only
    <3>2. CASE proc[q].pc \notin Fenced
      BY <1>0, <3>1, <3>2 DEF Placed, Driving, Fenced
    <3>3. CASE proc[q].pc \in Fenced
      <4>1. proc[p].pc \notin Fenced
        BY <1>0, <2>2, <3>3 DEF OneFence
      <4>2. ~JournalSteps(p)
        BY <4>1 DEF JournalSteps, BeginSource, BeginTerminal, Mark, Forward, Finish, Undo, Fenced
      <4> QED BY <1>0, <1>2, <3>1, <4>2, QuietSteps, PlacedQuiet DEF FilesQuiet
    <3> QED BY <3>2, <3>3
  <2> QED BY <2>1, <2>2
<1> QED BY <1>1, <1>2, Steps

-----------------------------------------------------------------------------
(* The journal stays serial.                                               *)

LEMMA NewestGrows ==
  ASSUME AutonomyAssumption, IInv, Next
  PROVE  Newest \in Nat /\ Newest' \in Nat /\ Newest <= Newest'
<1>1. LeaseMoves /\ LeaseType /\ LeaseType'
  BY LeaseStep, TypeParts DEF IInv, LeaseMoves
<1>2. Newest \in Nat /\ Newest' \in Nat
  BY <1>1 DEF LeaseType, Newest
<1>3. CASE NoGeneration
  BY <1>2, <1>3, LeaseKept DEF NoGeneration
<1>4. ASSUME NEW s \in Sessions, NEW active \in BOOLEAN, NewGeneration(s, active) PROVE Newest' = Newest + 1
  BY <1>1, <1>4, NewGenerationFacts
<1> QED BY <1>1, <1>2, <1>3, <1>4 DEF LeaseMoves

\* The three parts of Journalled.
Entry(i) ==
  /\ Targeted(ops[i]) /\ ops[i].lease <= Newest
  /\ ops[i].result = "none" => i = Len(ops)
  /\ ops[i].result # "none" => (ops[i].marker <=> ops[i].result = "completed")
Entries == \A i \in 1 .. Len(ops) : Entry(i)
Newborn == \A s \in born : events[s] = <<>> =>
             Unfinished /\ Latest.marker /\ Latest.s = s /\ Latest.from = "absent"
Intentions == \A s \in Sessions : \A n \in 1 .. Len(events[s]) : Intended(s, n)

LEMMA JournalParts ==
  Journalled <=> Entries /\ Newborn /\ Intentions
BY DEF Journalled, Entries, Entry, Newborn, Intentions

LEMMA EntryFacts ==
  ASSUME AutonomyAssumption, IInv, NEW i \in 1 .. Len(ops)
  PROVE  ops[i] \in Operation /\ ops[i].lease \in Nat /\ Entry(i)
<1>1. ops \in Seq(Operation)
  BY TypeParts DEF IInv, FilesType
<1>2. ops[i] \in Operation
  BY <1>1
<1>3. ops[i].lease \in 0 .. MaxGen /\ MaxGen \in Nat
  BY <1>2 DEF Operation, AutonomyAssumption
<1>4. Entry(i)
  BY JournalParts DEF IInv, Entries
<1> QED BY <1>2, <1>3, <1>4

\* The latest entry gets a marker or its result.
Revised(o) ==
  /\ ops # <<>> /\ o \in Operation /\ ops' = [ops EXCEPT ![Len(ops)] = o] /\ UNCHANGED <<events, born>>
  /\ o.type = Latest.type /\ o.s = Latest.s /\ o.from = Latest.from /\ o.event = Latest.event
  /\ o.lease = Latest.lease /\ o.target = Latest.target
  /\ Latest.marker => o.marker /\ o.result # "rolled_back"
  /\ o.result # "none" => (o.marker <=> o.result = "completed")
  /\ o.result # "none" => \A s \in born : events[s] # <<>>

LEMMA JournalRevised ==
  ASSUME AutonomyAssumption, IInv, Newest' \in Nat, Newest \in Nat, Newest <= Newest', NEW o, Revised(o)
  PROVE  Journalled'
<1>0. ops \in Seq(Operation) /\ ops # <<>> /\ o \in Operation /\ ops' = [ops EXCEPT ![Len(ops)] = o]
  BY TypeParts DEF IInv, FilesType, Revised
<1>1. /\ Len(ops') = Len(ops) /\ ops' # <<>> /\ Latest' = o /\ Latest = ops[Len(ops)]
      /\ \A i \in 1 .. Len(ops) : i # Len(ops) => ops'[i] = ops[i]
      /\ ops'[Len(ops)] = o
  BY <1>0, LatestReplaced DEF Latest
<1>2. Entries'
  <2> SUFFICES ASSUME NEW i \in 1 .. Len(ops) PROVE Entry(i)'
    BY <1>1 DEF Entries
  <2>1. Entry(i) /\ ops[i].lease \in Nat
    BY EntryFacts
  <2>2. CASE i # Len(ops)
    BY <1>1, <2>1, <2>2 DEF Entry
  <2>3. CASE i = Len(ops)
    <3>1. ops[i] = Latest /\ ops'[i] = o
      BY <1>1, <2>3
    <3>2. Targeted(o)
      BY <2>1, <3>1 DEF Revised, Targeted, Entry
    <3>3. o.lease <= Newest'
      BY <2>1, <3>1 DEF Revised, Entry
    <3> QED BY <1>1, <2>3, <3>1, <3>2, <3>3 DEF Entry, Revised
  <2> QED BY <2>2, <2>3
<1>3. Newborn'
  <2> SUFFICES ASSUME NEW s \in born, events[s] = <<>>
               PROVE  Unfinished' /\ Latest'.marker /\ Latest'.s = s /\ Latest'.from = "absent"
    BY DEF Newborn, Revised
  <2>1. Unfinished /\ Latest.marker /\ Latest.s = s /\ Latest.from = "absent"
    BY DEF IInv, Journalled
  <2> QED BY <1>1, <2>1 DEF Revised, Unfinished
<1>4. Intentions'
  <2> SUFFICES ASSUME NEW s \in Sessions, NEW n \in 1 .. Len(events[s]) PROVE Intended(s, n)'
    BY DEF Intentions, Revised
  <2>1. Intended(s, n)
    BY JournalParts DEF IInv, Intentions
  <2>2. PICK i \in 1 .. Len(ops) :
          /\ ops[i].s = s /\ ops[i].event = n - 1 /\ ops[i].target = events[s][n]
          /\ ops[i].marker /\ ops[i].result # "rolled_back"
    BY <2>1 DEF Intended
  <2>3. /\ ops'[i].s = s /\ ops'[i].event = n - 1 /\ ops'[i].target = events'[s][n]
        /\ ops'[i].marker /\ ops'[i].result # "rolled_back"
    BY <1>1, <2>2 DEF Revised
  <2> QED BY <1>1, <2>3 DEF Intended
<1> QED BY <1>2, <1>3, <1>4 DEF Journalled, Entries, Entry, Newborn, Intentions

LEMMA JournalBegun ==
  ASSUME AutonomyAssumption, IInv, Newest' \in Nat, Newest \in Nat, Newest <= Newest',
         NEW p \in Procs, NEW target, Begun(p, target), UNCHANGED <<events, born>>
  PROVE  Journalled'
<1> DEFINE o == Intent(p, target)
<1>0. ops \in Seq(Operation) /\ Len(ops) \in Nat /\ o \in Operation /\ ops' = Append(ops, o) /\ Targeted(o)
  BY TypeParts DEF IInv, FilesType, Begun
<1>1. /\ Len(ops') = Len(ops) + 1 /\ ops' # <<>> /\ Latest' = o
      /\ \A i \in 1 .. Len(ops) : ops'[i] = ops[i]
      /\ \A i \in 1 .. Len(ops') : i \in 1 .. Len(ops) \/ i = Len(ops')
  BY <1>0, LatestAdded
<1>2. o.lease = Newest /\ o.result = "none" /\ ops'[Len(ops')] = o
  BY <1>1 DEF Intent, Latest
<1>3. Pending = {}
  BY DEF Begun, IInv, Placed
<1>4. \A i \in 1 .. Len(ops) : ops[i].result # "none"
  BY <1>3 DEF Pending
<1>5. ~Unfinished
  BY <1>0, <1>4 DEF Unfinished, Latest
<1> HIDE DEF o
<1>6. Entries'
  <2> SUFFICES ASSUME NEW i \in 1 .. Len(ops') PROVE Entry(i)'
    BY DEF Entries
  <2>1. CASE i \in 1 .. Len(ops)
    <3>1. ops'[i] = ops[i] /\ Entry(i) /\ ops[i].lease \in Nat /\ ops[i].result # "none"
      BY <1>1, <1>4, <2>1, EntryFacts
    <3> QED BY <3>1 DEF Entry
  <2>2. CASE i = Len(ops')
    BY <1>0, <1>2, <2>2 DEF Entry
  <2> QED BY <1>1, <2>1, <2>2
<1>7. Newborn'
  BY <1>5 DEF IInv, Journalled, Newborn
<1>8. Intentions'
  <2> SUFFICES ASSUME NEW s \in Sessions, NEW n \in 1 .. Len(events[s]) PROVE Intended(s, n)'
    BY DEF Intentions
  <2>1. Intended(s, n)
    BY JournalParts DEF IInv, Intentions
  <2>2. PICK i \in 1 .. Len(ops) :
          /\ ops[i].s = s /\ ops[i].event = n - 1 /\ ops[i].target = events[s][n]
          /\ ops[i].marker /\ ops[i].result # "rolled_back"
    BY <2>1 DEF Intended
  <2>3. i \in 1 .. Len(ops') /\ ops'[i] = ops[i]
    BY <1>0, <1>1
  <2> QED BY <2>2, <2>3 DEF Intended
<1> QED BY <1>6, <1>7, <1>8 DEF Journalled, Entries, Entry, Newborn, Intentions

LEMMA EntriesKept ==
  ASSUME AutonomyAssumption, IInv, Newest' \in Nat, Newest \in Nat, Newest <= Newest', ops' = ops
  PROVE  Entries'
<1> SUFFICES ASSUME NEW i \in 1 .. Len(ops) PROVE Entry(i)'
  BY DEF Entries
<1>1. Entry(i) /\ ops[i].lease \in Nat
  BY EntryFacts
<1> QED BY <1>1 DEF Entry

LEMMA JournalForwarded ==
  ASSUME AutonomyAssumption, IInv, Newest' \in Nat, Newest \in Nat, Newest <= Newest',
         NEW p \in Procs, Forwarded(p)
  PROVE  Journalled'
<1>0. /\ ops # <<>> /\ ops' = ops /\ born' = born /\ Latest' = Latest /\ Latest.marker /\ Latest.result = "none"
      /\ born \subseteq Sessions /\ events \in [Sessions -> Seq(EventTypes)]
  BY TypeParts DEF Forwarded, Latest, IInv, FilesType
<1>1. PICK s \in Sessions : s = Latest.s
  BY <1>0, LatestFacts
<1>2. /\ \A t \in Sessions : t # s => events'[t] = events[t]
      /\ events'[s] = events[s] \/ (Len(events[s]) = Latest.event /\ events'[s] = Append(events[s], Latest.target))
      /\ events'[s] # <<>> /\ Latest.target \in EventTypes \cup {"none"} /\ Latest.event \in Nat
  BY <1>0, <1>1, ForwardedFacts, LatestFacts
<1>3. Newborn'
  BY <1>0, <1>1, <1>2 DEF IInv, Journalled, Newborn
<1>4. Intentions'
  <2> SUFFICES ASSUME NEW t \in Sessions, NEW n \in 1 .. Len(events'[t]) PROVE Intended(t, n)'
    BY DEF Intentions
  <2>1. CASE n \in 1 .. Len(events[t]) /\ events'[t][n] = events[t][n]
    <3>1. Intended(t, n)
      BY <2>1, JournalParts DEF IInv, Intentions
    <3> QED BY <1>0, <2>1, <3>1 DEF Intended
  <2>2. CASE t = s /\ n = Latest.event + 1 /\ events'[t][n] = Latest.target
    <3>1. Len(ops) \in 1 .. Len(ops) /\ ops[Len(ops)] = Latest
      BY <1>0, PlacedFacts DEF Latest
    <3>2. Latest.event = n - 1
      BY <1>2, <2>2
    <3> QED BY <1>0, <1>1, <2>2, <3>1, <3>2 DEF Intended
  <2>3. events[t] \in Seq(EventTypes)
    BY <1>0
  <2>4. CASE events'[t] = events[t]
    BY <2>1, <2>4
  <2>5. CASE t = s /\ Len(events[s]) = Latest.event /\ events'[s] = Append(events[s], Latest.target)
    <3>1. n \in 1 .. Len(events[s]) \/ n = Len(events[s]) + 1
      BY <2>3, <2>5
    <3>2. n \in 1 .. Len(events[s]) => events'[s][n] = events[s][n]
      BY <2>3, <2>5
    <3>3. events'[s][Len(events[s]) + 1] = Latest.target
      BY <2>3, <2>5
    <3> QED BY <2>1, <2>2, <2>5, <3>1, <3>2, <3>3
  <2> QED BY <1>2, <2>4, <2>5
<1> QED BY <1>0, <1>3, <1>4, EntriesKept DEF Journalled, Entries, Entry, Newborn, Intentions

LEMMA JournalStep ==
  ASSUME AutonomyAssumption, IInv, Next
  PROVE  Journalled'
<1>0. Newest \in Nat /\ Newest' \in Nat /\ Newest <= Newest'
  BY NewestGrows
<1>1. CASE UNCHANGED <<ops, events, born>>
  <2>1. Entries' /\ Newborn /\ Intentions /\ Latest' = Latest
    BY <1>0, <1>1, EntriesKept, JournalParts DEF IInv, Latest
  <2>2. Newborn'
    BY <1>1, <2>1 DEF Newborn, Unfinished
  <2>3. Intentions'
    <3>1. \A s \in Sessions : \A n \in 1 .. Len(events[s]) : Intended(s, n)' <=> Intended(s, n)
      BY <1>1 DEF Intended
    <3> QED BY <1>1, <2>1, <3>1 DEF Intentions
  <2> QED BY <2>1, <2>2, <2>3 DEF Journalled, Entries, Entry, Newborn, Intentions
<1>2. ASSUME NEW p \in Procs, JournalMoves(p) PROVE Journalled'
  <2>0. Placed(p) /\ Journalled
    BY DEF IInv
  <2>1. CASE (\E target \in EventTypes \cup {"none"} : Begun(p, target)) /\ UNCHANGED <<events, born>>
    BY <1>0, <2>1, JournalBegun
  <2>2. CASE Marked(p)
    <3> DEFINE o == [Latest EXCEPT !.marker = TRUE, !.source = proc[p].base]
    <3>1. Latest \in Operation /\ Latest.result = "none"
      BY <2>2, PlacedFacts DEF Marked
    <3>2. /\ o.type = Latest.type /\ o.s = Latest.s /\ o.from = Latest.from /\ o.event = Latest.event
          /\ o.lease = Latest.lease /\ o.target = Latest.target /\ o.marker /\ o.result = "none"
      BY <3>1 DEF Operation
    <3>3. ops # <<>> /\ o \in Operation /\ ops' = [ops EXCEPT ![Len(ops)] = o] /\ UNCHANGED <<events, born>>
      BY <2>2 DEF Marked
    <3> HIDE DEF o
    <3>4. Revised(o)
      BY <3>2, <3>3 DEF Revised
    <3> QED BY <1>0, <3>4, JournalRevised
  <2>3. CASE Born(p)
    <3>1. /\ UNCHANGED <<ops, events>> /\ born' = born \cup {Latest.s} /\ Latest' = Latest
          /\ Unfinished /\ Latest.marker /\ Latest.from = "absent"
      BY <2>3 DEF Born, Latest, Unfinished
    <3>2. Newborn'
      BY <2>0, <3>1 DEF Newborn, Journalled, Unfinished
    <3>3. Intentions'
      BY <2>0, <3>1 DEF Intentions, Journalled, Intended
    <3> QED BY <1>0, <3>1, <3>2, <3>3, EntriesKept DEF Journalled, Entries, Entry, Newborn, Intentions
  <2>4. CASE Forwarded(p)
    BY <1>0, <2>4, JournalForwarded
  <2>5. ASSUME NEW result \in {"completed", "rolled_back"}, Settled(p, result) PROVE Journalled'
    <3> DEFINE o == [Latest EXCEPT !.result = result]
    <3>1. Latest \in Operation /\ ops # <<>> /\ proc[p].pc = IF result = "completed" THEN "finish" ELSE "undo"
      BY <2>5, PlacedFacts DEF Settled
    <3>2. /\ o.type = Latest.type /\ o.s = Latest.s /\ o.from = Latest.from /\ o.event = Latest.event
          /\ o.lease = Latest.lease /\ o.target = Latest.target /\ o.marker = Latest.marker /\ o.result = result
      BY <3>1 DEF Operation
    <3>3. o \in Operation /\ ops' = [ops EXCEPT ![Len(ops)] = o] /\ UNCHANGED <<events, born>>
      BY <2>5 DEF Settled
    <3> HIDE DEF o
    <3>4. Latest.marker <=> result = "completed"
      BY <2>0, <3>1 DEF Placed
    <3>5. \A s \in born : events[s] # <<>>
      BY <2>0, <3>1, <3>4 DEF Placed, Journalled
    <3>6. Revised(o)
      BY <3>1, <3>2, <3>3, <3>4, <3>5 DEF Revised
    <3> QED BY <1>0, <3>6, JournalRevised
  <2> QED BY <1>2, <2>1, <2>2, <2>3, <2>4, <2>5 DEF JournalMoves
<1>3. ASSUME NEW p \in Procs, ProcStep(p) PROVE Journalled'
  BY <1>1, <1>2, <1>3, QuietSteps, Journals DEF FilesQuiet
<1> QED BY <1>1, <1>3, Steps DEF files

-----------------------------------------------------------------------------
(* The lease and the pending operation.                                    *)

\* A new active generation comes from a session that has the lease, or from the process
\* that acquires it for the pending source operation.
LEMMA Generations ==
  ASSUME AutonomyAssumption, IInv, NEW p \in Procs, ProcStep(p)
  PROVE  \/ NoGeneration
         \/ \E s \in Sessions : NewGeneration(s, FALSE)
         \/ \E s \in Sessions :
              /\ NewGeneration(s, TRUE) /\ UNCHANGED <<ops, events, born>>
              /\ Only(p) /\ proc'[p].pc \in {"boundary", "gate", "idle"}
              /\ Owned(s) \/ (proc[p].pc = "acquire" /\ s = proc[p].s)
<1>0. /\ proc[p] \in Process /\ (proc[p].pc # "idle" => proc[p].s \in Sessions)
      /\ proc[p].pc \in Driving => ops[proc[p].op] = Latest /\ Latest.s \in Sessions
      /\ Idle.pc = "idle"
  BY PlacedFacts DEF Operation, Idle
<1>1. CASE Recover(p) \/ Boundary(p) \/ CheckSource(p) \/ Index(p) \/ Finish(p) \/ Undo(p)
  BY <1>1 DEF Recover, Boundary, CheckSource, Index, Finish, Undo, lease, NoGeneration
<1>2. CASE \/ Drive(p) \/ Retry(p) \/ Call(p) \/ Choose(p) \/ Stage(p) \/ Commit(p)
           \/ Deliver(p) \/ Record(p) \/ Crash(p)
  BY <1>2 DEF Drive, Retry, Call, Choose, Stage, Commit, Deliver, Record, Crash, lease, NoGeneration
<1>3. CASE BeginSource(p) \/ BeginStatus(p) \/ Mark(p) \/ Forward(p)
  BY <1>3 DEF BeginSource, BeginStatus, Mark, Forward, lease, Repaired, NoGeneration
<1>4. CASE \E c \in Commands, s \in Sessions : Command(p, c, s)
  BY <1>4 DEF Command, lease, NoGeneration
<1>5. CASE BeginTerminal(p)
  <2>1. proc[p].s \in Sessions /\ (Repaired \/ Publish(proc[p].s, FALSE))
    BY <1>0, <1>5 DEF BeginTerminal
  <2> QED BY <2>1 DEF Repaired, NoGeneration, Publish, NewGeneration
<1>6. CASE Release(p) \/ Back(p)
  <2>1. Latest.s \in Sessions
    BY <1>0, <1>6 DEF Release, Back, Driving, Fenced
  <2> QED BY <1>6, <2>1, ReleaseChange, BackChange
<1>7. CASE Acquire(p)
  <2>1. UNCHANGED <<ops, events, born>> /\ proc[p].pc = "acquire" /\ proc[p].s \in Sessions
    BY <1>0, <1>7 DEF Acquire, files
  <2>2. ASSUME NEW g \in 0 .. MaxGen, Becomes(p, [proc[p] EXCEPT !.gen = g, !.pc = "boundary"])
        PROVE  Only(p) /\ proc'[p].pc = "boundary"
    BY <1>0, <2>2 DEF Becomes, Process
  <2> QED BY <1>7, <2>1, <2>2, AcquireChange
<1>8. CASE Renew(p)
  <2>1. UNCHANGED <<ops, events, born>> /\ proc[p].s \in Sessions
    BY <1>0, <1>8 DEF Renew, files
  <2>2. Becomes(p, [proc[p] EXCEPT !.gen = Newest + 1, !.pc = "gate"]) => Only(p) /\ proc'[p].pc = "gate"
    BY <1>0 DEF Becomes, Process
  <2> QED BY <1>8, <2>1, <2>2, RenewChange
<1>9. CASE CrashInPublish(p)
  <2>1. UNCHANGED <<ops, events, born>> /\ Becomes(p, Idle) /\ Newest < MaxGen
    BY <1>9, RunnerChange DEF CrashInPublish, files
  <2>2. Only(p) /\ proc'[p].pc = "idle"
    BY <1>0, <2>1 DEF Becomes
  <2>3. \/ proc[p].pc = "acquire" /\ history' = Append(history, [owner |-> proc[p].s, active |-> TRUE])
        \/ /\ proc[p].pc = "renew" /\ Owned(proc[p].s)
           /\ history' = Append(history, [owner |-> proc[p].s, active |-> TRUE])
        \/ /\ proc[p].pc \in {"release", "back"}
           /\ history' = Append(history, [owner |-> ops[proc[p].op].s, active |-> FALSE])
    BY <1>9 DEF CrashInPublish, CanRenew
  <2>4. proc[p].pc \in {"release", "back"} => ops[proc[p].op] = Latest /\ Latest.s \in Sessions
    BY <1>0 DEF Driving, Fenced
  <2> QED BY <1>0, <2>1, <2>2, <2>3, <2>4 DEF NewGeneration
<1> QED BY <1>1, <1>2, <1>3, <1>4, <1>5, <1>6, <1>7, <1>8, <1>9 DEF ProcStep, FencedStep, RunnerStep

\* The two parts of Unsettled.
Rests ==
  Unfinished => LET o == Latest IN
    /\ \/ Len(events[o.s]) = o.event /\ State(o.s) = o.from
       \/ o.marker /\ Len(events[o.s]) = o.event + 1 /\ o.target # "none" /\ Last(events[o.s]) = o.target
    /\ ~o.marker /\ o.from = "absent" => o.s \notin born
Ours == Unfinished /\ Latest.marker /\ Latest.type \notin Source => ~Foreign(Latest.s)

LEMMA UnsettledParts ==
  Unsettled <=> Rests /\ Ours
BY DEF Unsettled, Rests, Ours

LEMMA OursQuiet ==
  ASSUME AutonomyAssumption, IInv, NEW p \in Procs, ProcStep(p), UNCHANGED <<ops, events, born>>
  PROVE  Ours'
<1>0. Ours /\ LeaseType /\ Latest' = Latest /\ (Unfinished' <=> Unfinished)
  BY TypeParts, UnsettledParts DEF IInv, Latest, Unfinished
<1>1. CASE NoGeneration
  BY <1>0, <1>1, LeaseKept DEF Ours, NoGeneration
<1>2. CASE \E s \in Sessions : NewGeneration(s, FALSE)
  BY <1>0, <1>2, NewGenerationFacts DEF Ours
<1>3. ASSUME NEW s \in Sessions, NewGeneration(s, TRUE), Owned(s) \/ (proc[p].pc = "acquire" /\ s = proc[p].s)
      PROVE  Ours'
  <2> SUFFICES ASSUME Unfinished, Latest.marker, Latest.type \notin Source, Latest.s # s PROVE FALSE
    BY <1>0, <1>3, NewGenerationFacts DEF Ours
  <2>1. proc[p].pc # "acquire"
    BY DEF IInv, Placed
  <2>2. ~Foreign(Latest.s)
    BY <1>0 DEF Ours
  <2> QED BY <1>3, <2>1, <2>2 DEF Owned, Foreign
<1> QED BY <1>1, <1>2, <1>3, Generations

LEMMA UnsettledMoves ==
  ASSUME AutonomyAssumption, IInv, NEW p \in Procs, JournalMoves(p), NoGeneration
  PROVE  Unsettled'
<1>0. /\ Placed(p) /\ Journalled /\ Rests /\ Ours /\ \A t : Foreign(t)' <=> Foreign(t)
      /\ ops \in Seq(Operation) /\ events \in [Sessions -> Seq(EventTypes)]
  BY TypeParts, UnsettledParts, LeaseKept DEF IInv, FilesType, NoGeneration
<1>1. ASSUME NEW target, Begun(p, target), UNCHANGED <<events, born>> PROVE Rests' /\ Ours'
  <2> DEFINE o == Intent(p, target)
  <2>1. Latest' = o /\ proc[p].s \in Sessions
    BY <1>0, <1>1, LatestAdded DEF Begun
  <2>2. PICK s \in Sessions : s = proc[p].s
    BY <2>1
  <2>3. o.s = s /\ o.from = State(s) /\ o.event = Len(events[s]) /\ ~o.marker
    BY <2>2 DEF Intent
  <2>4. State(s)' = State(s)
    BY <1>1 DEF State
  <2>5. ~Unfinished
    BY <1>0, <1>1, PendingIsLatest DEF Begun, Placed
  <2>6. State(s) = "absent" => s \notin born
    BY <1>0, <2>5, StateFacts DEF Journalled
  <2> HIDE DEF o
  <2> QED BY <1>1, <2>1, <2>3, <2>4, <2>6 DEF Rests, Ours
<1>2. CASE Marked(p)
  <2> DEFINE o == [Latest EXCEPT !.marker = TRUE, !.source = proc[p].base]
  <2>1. /\ ops # <<>> /\ o \in Operation /\ ops' = [ops EXCEPT ![Len(ops)] = o] /\ UNCHANGED <<events, born>>
        /\ Latest.type \notin Source => TerminalReady(Latest)
    BY <1>2 DEF Marked
  <2>2. Latest \in Operation /\ Unfinished
    BY <1>2, PlacedFacts DEF Marked, Unfinished
  <2>3. o.s = Latest.s /\ o.from = Latest.from /\ o.event = Latest.event /\ o.target = Latest.target
        /\ o.marker /\ o.type = Latest.type
    BY <2>2 DEF Operation
  <2> HIDE DEF o
  <2>4. Latest' = o
    BY <1>0, <2>1, LatestReplaced
  <2>5. PICK s \in Sessions : s = Latest.s
    BY <2>2 DEF Operation
  <2>6. State(s)' = State(s)
    BY <2>1 DEF State
  <2>7. Rests'
    BY <1>0, <2>1, <2>2, <2>3, <2>4, <2>5, <2>6 DEF Rests
  <2>8. Ours'
    BY <1>0, <2>1, <2>3, <2>4 DEF Ours, TerminalReady, NoGeneration, Foreign, Newest
  <2> QED BY <2>7, <2>8 DEF Unsettled, Rests, Ours
<1>3. CASE Born(p)
  <2>1. UNCHANGED <<ops, events>> /\ Latest' = Latest /\ Latest.marker /\ Unfinished /\ (Unfinished' <=> Unfinished)
    BY <1>3 DEF Born, Latest, Unfinished
  <2>2. PICK s : s = Latest.s
    OBVIOUS
  <2>3. State(s)' = State(s)
    BY <2>1 DEF State
  <2>4. Rests'
    BY <1>0, <2>1, <2>2, <2>3 DEF Rests
  <2>5. Ours'
    BY <1>0, <2>1 DEF Ours, NoGeneration, Foreign, Newest
  <2> QED BY <2>4, <2>5 DEF Unsettled, Rests, Ours
<1>4. CASE Forwarded(p)
  <2>1. ops # <<>> /\ ops' = ops /\ Latest' = Latest /\ Latest.marker /\ Unfinished /\ (Unfinished' <=> Unfinished)
    BY <1>4 DEF Forwarded, Latest, Unfinished
  <2>2. PICK s \in Sessions : s = Latest.s
    BY <2>1, LatestFacts
  <2>3. /\ Latest.target = "none" => events'[s] = events[s] /\ Len(events[s]) = Latest.event
        /\ Latest.target # "none" => Len(events'[s]) = Latest.event + 1 /\ Last(events'[s]) = Latest.target
    BY <1>4, <2>2, ForwardedFacts
  <2>4. events'[s] = events[s] => State(s)' = State(s)
    BY DEF State
  <2>5. Latest.target = "none" => State(s) = Latest.from
    BY <1>0, <2>1, <2>2 DEF Rests
  <2>6. Rests'
    BY <2>1, <2>2, <2>3, <2>4, <2>5 DEF Rests
  <2>7. Ours'
    BY <1>0, <2>1 DEF Ours, NoGeneration, Foreign, Newest
  <2> QED BY <2>6, <2>7 DEF Unsettled, Rests, Ours
<1>5. ASSUME NEW result \in {"completed", "rolled_back"}, Settled(p, result) PROVE Rests' /\ Ours'
  <2> DEFINE o == [Latest EXCEPT !.result = result]
  <2>1. ops # <<>> /\ o \in Operation /\ ops' = [ops EXCEPT ![Len(ops)] = o]
    BY <1>5 DEF Settled
  <2>2. Latest \in Operation
    BY <2>1, PlacedFacts
  <2>3. o.result = result
    BY <2>2 DEF Operation
  <2> HIDE DEF o
  <2>4. Latest' = o
    BY <1>0, <2>1, LatestReplaced
  <2> QED BY <2>3, <2>4 DEF Unfinished, Rests, Ours
<1> QED BY <1>1, <1>2, <1>3, <1>4, <1>5 DEF JournalMoves, Unsettled, Rests, Ours

LEMMA UnsettledStep ==
  ASSUME AutonomyAssumption, IInv, Next
  PROVE  Unsettled'
<1>0. Rests /\ Ours
  BY UnsettledParts DEF IInv
<1>1. ASSUME UNCHANGED <<ops, events, born>> PROVE Rests'
  <2>1. Latest' = Latest /\ (Unfinished' <=> Unfinished) /\ State(Latest.s)' = State(Latest.s)
    BY <1>1 DEF Latest, Unfinished, State
  <2> QED BY <1>0, <1>1, <2>1 DEF Rests
<1>2. ASSUME UNCHANGED <<ops, history>> PROVE Ours'
  <2>1. Latest' = Latest /\ (Unfinished' <=> Unfinished) /\ \A t : Foreign(t)' <=> Foreign(t)
    BY <1>2, LeaseKept DEF Latest, Unfinished
  <2> QED BY <1>0, <2>1 DEF Ours
<1>3. CASE UNCHANGED <<files, history>>
  BY <1>1, <1>2, <1>3 DEF files, Unsettled, Rests, Ours
<1>4. ASSUME NEW p \in Procs, ProcStep(p) PROVE Unsettled'
  <2>1. CASE UNCHANGED <<ops, events, born>>
    BY <1>1, <1>4, <2>1, OursQuiet DEF Unsettled, Rests, Ours
  <2>2. CASE JournalMoves(p) /\ NoGeneration
    BY <2>2, UnsettledMoves
  <2> QED BY <1>4, <2>1, <2>2, QuietSteps, Journals DEF FilesQuiet
<1> QED BY <1>3, <1>4, Steps

\* Only these steps bring a process to the last write of an operation.
LEMMA Settles ==
  ASSUME AutonomyAssumption, IInv, NEW p \in Procs, ProcStep(p), ~JournalSteps(p),
         proc'[p].pc \in {"undo", "finish"}
  PROVE  Back(p) \/ Index(p) \/ Release(p) \/ proc'[p].pc = proc[p].pc
<1>0. proc[p] \in Process /\ Idle.pc = "idle"
  BY PlacedFacts DEF Idle
<1>1. ~Becomes(p, Idle)
  BY <1>0 DEF Becomes
<1>2. ~(\/ Recover(p) \/ CheckSource(p) \/ Commit(p) \/ Deliver(p) \/ Record(p) \/ Call(p)
        \/ Drive(p) \/ Retry(p))
  BY <1>1, OnwardSteps DEF Onward
<1>3. ~(Acquire(p) \/ \E c \in Commands, s \in Sessions : Command(p, c, s))
  BY <1>1, OnwardSteps DEF Onward
<1>4. ~(BeginStatus(p) \/ Stage(p) \/ Choose(p))
  BY <1>0, <1>1, BeginStatusChange, StageChange, ChooseChange, ZenonT(60) DEF Becomes, AfterStage, Process
<1>5. ~(Renew(p) \/ Crash(p) \/ CrashInPublish(p))
  BY <1>0, <1>1, RenewChange, RunnerChange DEF Becomes, Process
<1>6. ~Boundary(p)
  BY <1>0, BoundaryChange DEF Becomes, Process
<1> QED BY <1>2, <1>3, <1>4, <1>5, <1>6 DEF ProcStep, FencedStep, RunnerStep, JournalSteps

LEMMA FreedQuiet ==
  ASSUME AutonomyAssumption, IInv, NEW p \in Procs, ProcStep(p), ~JournalSteps(p), Turns(p)
  PROVE  Freed'
<1> SUFFICES ASSUME NEW s \in Sessions, Loose(s)'
             PROVE  /\ Unfinished' /\ Latest'.s = s
                    /\ \/ Latest'.marker
                       \/ Latest'.type \in Source /\ (Latest'.from = "absent" => Newest' # Latest'.lease)
                    /\ \A q \in Procs : proc'[q].pc \notin {"undo", "finish"}
  BY DEF Freed
<1>0. /\ UNCHANGED <<ops, events, born>> /\ LeaseType /\ Freed /\ OneFence /\ Only(p) /\ Placed(p)
  BY TypeParts, QuietSteps DEF IInv, FilesQuiet, Turns
<1>1. /\ Latest' = Latest /\ (Unfinished' <=> Unfinished) /\ (State(s) # "active" <=> State(s)' # "active")
  BY <1>0 DEF Latest, Unfinished, State
<1>2. Owned(s)' /\ State(s) # "active"
  BY <1>1 DEF Loose
<1>3. CASE NoGeneration
  <2>1. Newest' = Newest /\ Owned(s)
    BY <1>2, <1>3, LeaseKept DEF NoGeneration
  <2>2. Loose(s)
    BY <1>2, <2>1 DEF Loose
  <2>3. /\ Unfinished /\ Latest.s = s
        /\ \/ Latest.marker
           \/ Latest.type \in Source /\ (Latest.from = "absent" => Newest # Latest.lease)
        /\ \A q \in Procs : proc[q].pc \notin {"undo", "finish"}
    BY <1>0, <2>2 DEF Freed
  <2>4. ASSUME proc'[p].pc \in {"undo", "finish"} PROVE FALSE
    <3>1. CASE Back(p)
      <4>1. proc[p].pc = "back" /\ ~Latest.marker
        BY <1>0, <3>1 DEF Back, Placed
      <4>2. GivesBack(Latest)
        BY <2>1, <2>3, <4>1 DEF GivesBack
      <4>3. ~Becomes(p, Idle)
        BY <2>4 DEF Becomes, Idle
      <4>4. Latest \in Operation /\ NewGeneration(Latest.s, FALSE)
        BY <3>1, <4>2, <4>3, BackChange
      <4>5. Latest.s \in Sessions
        BY <4>4 DEF Operation
      <4> QED BY <1>0, <1>2, <4>4, <4>5, NewGenerationFacts
    <3>2. CASE Index(p)
      BY <1>0, <1>2, <2>3, <3>2 DEF Index, Placed
    <3>3. CASE Release(p)
      <4>1. Latest \in Operation /\ (~Owned(Latest.s) \/ NewGeneration(Latest.s, FALSE))
        BY <3>3, ReleaseChange
      <4>2. Latest.s \in Sessions
        BY <4>1 DEF Operation
      <4> QED BY <1>0, <1>2, <2>1, <2>3, <4>1, <4>2, NewGenerationFacts
    <3> QED BY <2>3, <2>4, <3>1, <3>2, <3>3, Settles
  <2> QED BY <1>0, <1>1, <2>1, <2>3, <2>4 DEF Only
<1>4. CASE \E t \in Sessions : NewGeneration(t, FALSE)
  BY <1>0, <1>2, <1>4, NewGenerationFacts
<1>5. ASSUME NEW t \in Sessions, NewGeneration(t, TRUE), proc'[p].pc \in {"boundary", "gate", "idle"},
             Owned(t) \/ (proc[p].pc = "acquire" /\ t = proc[p].s)
      PROVE  /\ Unfinished' /\ Latest'.s = s
             /\ \/ Latest'.marker
                \/ Latest'.type \in Source /\ (Latest'.from = "absent" => Newest' # Latest'.lease)
             /\ \A q \in Procs : proc'[q].pc \notin {"undo", "finish"}
  <2>1. t = s /\ Newest' = Newest + 1
    BY <1>0, <1>2, <1>5, NewGenerationFacts
  <2>2. Newest \in Nat
    BY <1>0 DEF LeaseType, Newest
  <2>3. ops # <<>> => Latest.lease \in Nat /\ Latest.lease <= Newest
    BY LatestFacts
  <2>4. CASE Owned(s)
    <3>1. Loose(s)
      BY <1>2, <2>4 DEF Loose
    <3> QED BY <1>0, <1>1, <1>5, <2>1, <2>2, <2>3, <3>1 DEF Freed, Only, Unfinished
  <2>5. CASE proc[p].pc = "acquire" /\ s = proc[p].s
    <3>1. Unfinished /\ Latest.s = s /\ Latest.type \in Source
      BY <1>0, <2>5 DEF Placed, Driving, Fenced, Unfinished
    <3>2. \A q \in Procs : q # p => proc[q].pc \notin Fenced
      BY <1>0, <2>5 DEF OneFence, Fenced
    <3>3. \A q \in Procs : proc'[q].pc \notin {"undo", "finish"}
      BY <1>0, <1>5, <3>2 DEF Only, Fenced
    <3> QED BY <1>1, <2>1, <2>2, <2>3, <3>1, <3>3 DEF Unfinished
  <2> QED BY <1>5, <2>1, <2>4, <2>5
<1> QED BY <1>3, <1>4, <1>5, Generations

LEMMA FreedMoves ==
  ASSUME AutonomyAssumption, IInv, NEW p \in Procs, JournalMoves(p), NoGeneration, Turns(p)
  PROVE  Freed'
<1> SUFFICES ASSUME NEW s \in Sessions, Loose(s)'
             PROVE  /\ Unfinished' /\ Latest'.s = s
                    /\ \/ Latest'.marker
                       \/ Latest'.type \in Source /\ (Latest'.from = "absent" => Newest' # Latest'.lease)
                    /\ \A q \in Procs : proc'[q].pc \notin {"undo", "finish"}
  BY DEF Freed
<1>0. /\ Freed /\ OneFence /\ Only(p) /\ Placed(p) /\ Owned(s) /\ State(s)' # "active"
      /\ ops \in Seq(Operation) /\ events \in [Sessions -> Seq(EventTypes)]
  BY TypeParts, LeaseKept DEF IInv, FilesType, Turns, NoGeneration, Loose
<1>1. events' = events => Loose(s)
  BY <1>0 DEF Loose, State
<1>2. Loose(s) => /\ Unfinished /\ Latest.s = s
                  /\ \A q \in Procs : proc[q].pc \notin {"undo", "finish"}
  BY <1>0 DEF Freed
<1>3. ASSUME NEW target, Begun(p, target), UNCHANGED events PROVE FALSE
  BY <1>0, <1>1, <1>2, <1>3, PendingIsLatest DEF Begun, Placed
<1>4. CASE Marked(p)
  <2> DEFINE o == [Latest EXCEPT !.marker = TRUE, !.source = proc[p].base]
  <2>1. /\ ops # <<>> /\ o \in Operation /\ ops' = [ops EXCEPT ![Len(ops)] = o] /\ events' = events
    BY <1>4 DEF Marked
  <2>2. Latest \in Operation /\ Unfinished
    BY <1>4, PlacedFacts DEF Marked, Unfinished
  <2>3. o.s = Latest.s /\ o.marker /\ o.result = "none"
    BY <2>2 DEF Operation, Unfinished
  <2> HIDE DEF o
  <2>4. Latest' = o /\ ops' # <<>>
    BY <1>0, <2>1, LatestReplaced
  <2>5. proc[p] \in Process
    BY PlacedFacts
  <2>6. proc'[p].pc = "forward"
    BY <1>4, <2>5 DEF Marked, Becomes, Process
  <2> QED BY <1>0, <1>1, <1>2, <2>1, <2>3, <2>4, <2>6 DEF Only, Unfinished
<1>5. CASE Born(p)
  <2>1. UNCHANGED <<ops, events, proc>> /\ Latest' = Latest /\ Latest.marker /\ Unfinished
    BY <1>5 DEF Born, Latest, Unfinished
  <2> QED BY <1>1, <1>2, <2>1 DEF Unfinished
<1>6. CASE Forwarded(p)
  <2>1. ops # <<>> /\ ops' = ops /\ Latest' = Latest /\ Latest.marker /\ Unfinished /\ proc[p].pc = "forward"
    BY <1>6 DEF Forwarded, Latest, Unfinished
  <2>2. PICK t \in Sessions : t = Latest.s
    BY <2>1, LatestFacts
  <2>3. s # t => events'[s] = events[s]
    BY <1>6, <2>2, ForwardedFacts
  <2>4. s # t => Loose(s)
    BY <1>0, <2>3 DEF Loose, State
  <2>5. s = t
    BY <1>2, <2>2, <2>4
  <2>6. Latest.type \notin Source
    BY <1>0, <1>6, <2>2, <2>5, ForwardedFacts
  <2>7. proc[p] \in Process
    BY PlacedFacts
  <2>8. proc'[p].pc = AfterForward(Latest)
    BY <1>6, <2>7 DEF Forwarded, Becomes, Process
  <2>9. proc'[p].pc \notin {"undo", "finish"}
    BY <2>6, <2>8 DEF AfterForward
  <2>10. \A q \in Procs : q # p => proc[q].pc \notin Fenced
    BY <1>0, <2>1 DEF OneFence, Fenced
  <2>11. \A q \in Procs : proc'[q].pc \notin {"undo", "finish"}
    BY <1>0, <2>9, <2>10 DEF Only, Fenced
  <2> QED BY <2>1, <2>2, <2>5, <2>11 DEF Unfinished
<1>7. ASSUME NEW result \in {"completed", "rolled_back"}, Settled(p, result) PROVE FALSE
  BY <1>1, <1>2, <1>7 DEF Settled
<1> QED BY <1>3, <1>4, <1>5, <1>6, <1>7 DEF JournalMoves

LEMMA FreedStep ==
  ASSUME AutonomyAssumption, IInv, Next
  PROVE  Freed'
<1>0. Freed
  BY DEF IInv
<1>1. CASE UNCHANGED <<proc, files, history>>
  BY <1>0, <1>1 DEF files, Freed, Loose, Owned, Newest, State, Unfinished, Latest
<1>2. ASSUME NEW p \in Procs, ProcStep(p), Turns(p) PROVE Freed'
  <2>1. CASE JournalMoves(p) /\ NoGeneration
    BY <1>2, <2>1, FreedMoves
  <2>2. CASE JournalSteps(p) /\ UNCHANGED <<ops, events, born>> /\ Becomes(p, Idle)
    <3> SUFFICES ASSUME NEW s \in Sessions, Loose(s)'
                 PROVE  /\ Unfinished' /\ Latest'.s = s
                        /\ \/ Latest'.marker
                           \/ Latest'.type \in Source /\ (Latest'.from = "absent" => Newest' # Latest'.lease)
                        /\ \A q \in Procs : proc'[q].pc \notin {"undo", "finish"}
      BY DEF Freed
    <3>1. NoGeneration
      <4>1. LeaseType
        BY TypeParts DEF IInv
      <4>2. Owned(s)'
        BY DEF Loose
      <4>3. proc[p].pc # "renew" /\ proc[p].pc # "acquire"
        BY <2>2 DEF JournalSteps, BeginSource, BeginTerminal, Mark, Forward, Finish, Undo
      <4>4. NoGeneration \/ BeginTerminal(p)
        BY <2>2 DEF JournalSteps, BeginSource, Mark, Forward, Finish, Undo, lease, Repaired, NoGeneration
      <4>5. CASE BeginTerminal(p)
        <5>1. proc[p].s \in Sessions
          BY PlacedFacts, <4>5 DEF BeginTerminal
        <5>2. Repaired \/ NewGeneration(proc[p].s, FALSE)
          BY <4>5 DEF BeginTerminal, Publish, NewGeneration
        <5> QED BY <4>1, <4>2, <5>1, <5>2, NewGenerationFacts DEF Repaired, NoGeneration
      <4> QED BY <4>4, <4>5
    <3>2. Latest' = Latest /\ (Unfinished' <=> Unfinished) /\ Newest' = Newest /\ (Loose(s)' <=> Loose(s))
      BY <2>2, <3>1 DEF Latest, Unfinished, Newest, NoGeneration, Loose, Owned, State
    <3>3. proc'[p].pc = "idle" /\ Only(p)
      BY <2>2 DEF Becomes, Idle
    <3> QED BY <1>0, <3>2, <3>3 DEF Freed, Only
  <2>3. CASE ~JournalSteps(p)
    BY <1>2, <2>3, FreedQuiet
  <2> QED BY <2>1, <2>2, <2>3, Journals
<1> QED BY <1>1, <1>2, Steps

-----------------------------------------------------------------------------
(* The receipts of a chapter have one writer.                              *)

LEMMA HistoryKept ==
  ASSUME AutonomyAssumption, IInv, Next
  PROVE  \A g \in 1 .. Newest : history'[g] = history[g]
<1>1. LeaseMoves /\ LeaseType
  BY LeaseStep, TypeParts DEF IInv
<1>2. ASSUME NEW s \in Sessions, NEW active \in BOOLEAN, NewGeneration(s, active)
      PROVE  \A g \in 1 .. Newest : history'[g] = history[g]
  BY <1>1, <1>2, NewGenerationFacts
<1> QED BY <1>1, <1>2 DEF LeaseMoves, NoGeneration

OneWriter(s, c) ==
  \A i, j \in 1 .. Len(stages[s][c]) :
    i <= j => \A g \in stages[s][c][i] .. stages[s][c][j] : history[g].owner = s

LEMMA WriterStep ==
  ASSUME AutonomyAssumption, IInv, Next
  PROVE  OneWriterPerChapter'
<1>0. /\ stages \in [Sessions -> [Chapters -> Seq(1 .. MaxGen)]] /\ Newest \in Nat
      /\ \A s \in Sessions, c \in Chapters :
           OneWriter(s, c) /\ \A i \in 1 .. Len(stages[s][c]) : stages[s][c][i] <= Newest
      /\ \A g \in 1 .. Newest : history'[g] = history[g]
  BY TypeParts, NewestGrows, HistoryKept DEF IInv, WorkType, Sized, OneWriterPerChapter, OneWriter
<1> SUFFICES ASSUME NEW s \in Sessions, NEW c \in Chapters PROVE OneWriter(s, c)'
  BY DEF OneWriterPerChapter, OneWriter
<1> DEFINE fences == stages[s][c]
<1>1. fences \in Seq(1 .. MaxGen) /\ Len(fences) \in Nat
  BY <1>0
<1>2. \A i \in 1 .. Len(fences) : fences[i] \in 1 .. Newest
  <2> SUFFICES ASSUME NEW i \in 1 .. Len(fences) PROVE fences[i] \in 1 .. Newest
    OBVIOUS
  <2>1. fences[i] \in 1 .. MaxGen
    BY <1>1, ElementOfSeq
  <2>2. fences[i] <= Newest
    BY <1>0
  <2> QED BY <1>0, <2>1, <2>2
<1>3. \A i, j \in 1 .. Len(fences) : i <= j => \A g \in fences[i] .. fences[j] : g \in 1 .. Newest /\ history'[g].owner = s
  <2> SUFFICES ASSUME NEW i \in 1 .. Len(fences), NEW j \in 1 .. Len(fences), i <= j, NEW g \in fences[i] .. fences[j]
               PROVE  g \in 1 .. Newest /\ history'[g].owner = s
    OBVIOUS
  <2>1. g \in 1 .. Newest
    BY <1>0, <1>2
  <2>2. history[g].owner = s
    BY <1>0 DEF OneWriter
  <2> QED BY <1>0, <2>1, <2>2
<1>4. CASE stages'[s][c] = fences
  BY <1>3, <1>4 DEF OneWriter
<1>5. CASE /\ stages'[s][c] = Append(fences, Newest) /\ Owned(s)
           /\ fences # <<>> => Descends(s, Last(fences))
  <2> DEFINE n == Len(fences) + 1
             next == stages'[s][c]
  <2>1. Len(next) = n /\ next[n] = Newest /\ \A i \in 1 .. Len(fences) : next[i] = fences[i]
    BY <1>1, <1>5
  <2>2. history[Newest].owner = s /\ Newest \in 1 .. Newest
    BY <1>0, <1>5 DEF Owned
  <2> SUFFICES ASSUME NEW i \in 1 .. n, NEW j \in 1 .. n, i <= j, NEW g \in next[i] .. next[j]
               PROVE  history'[g].owner = s
    BY <2>1 DEF OneWriter
  <2> HIDE DEF fences
  <2>3. CASE j # n
    <3>1. i \in 1 .. Len(fences) /\ j \in 1 .. Len(fences)
      BY <1>1, <2>3
    <3> QED BY <1>3, <2>1, <3>1
  <2>4. CASE i = n
    <3>1. j = n
      BY <1>1, <2>4
    <3>2. g = Newest
      BY <1>0, <2>1, <2>4, <3>1
    <3> QED BY <1>0, <2>2, <3>2
  <2>5. CASE i # n /\ j = n
    <3>1. i \in 1 .. Len(fences) /\ Len(fences) \in 1 .. Len(fences) /\ i <= Len(fences)
      BY <1>1, <2>5
    <3>2. fences # <<>> /\ Last(fences) = fences[Len(fences)]
      BY <1>1, <3>1 DEF Last
    <3>3. \A k \in fences[Len(fences)] .. Newest : history[k].owner = s
      BY <1>5, <3>2 DEF Descends
    <3>4. fences[i] \in 1 .. Newest /\ fences[Len(fences)] \in 1 .. Newest
      BY <1>2, <3>1
    <3>5. g \in fences[i] .. Newest /\ g \in 1 .. Newest
      BY <1>0, <2>1, <2>5, <3>1, <3>4
    <3>6. CASE g <= fences[Len(fences)]
      <4>1. g \in fences[i] .. fences[Len(fences)]
        BY <1>0, <3>4, <3>5, <3>6
      <4> QED BY <1>3, <3>1, <4>1
    <3>7. CASE ~(g <= fences[Len(fences)])
      <4>1. g \in fences[Len(fences)] .. Newest
        BY <1>0, <3>4, <3>5, <3>7
      <4> QED BY <1>0, <3>3, <3>5, <4>1
    <3> QED BY <3>6, <3>7
  <2> QED BY <2>3, <2>4, <2>5
<1>6. ASSUME NEW p \in Procs, NextChapter(p) \in Chapters, Receipted(p)
      PROVE  \/ stages'[s][c] = fences
             \/ /\ stages'[s][c] = Append(fences, Newest) /\ Owned(s)
                /\ fences # <<>> => Descends(s, Last(fences))
  <2>1. stages' = [stages EXCEPT ![proc[p].s][NextChapter(p)] = Append(@, Newest)]
    BY <1>6 DEF Receipted
  <2>2. CASE s = proc[p].s /\ c = NextChapter(p)
    <3>1. stages'[s][c] = Append(fences, Newest)
      BY <1>0, <2>1, <2>2
    <3>2. Owned(s) /\ (fences # <<>> => Descends(s, Last(fences)))
      BY <1>6, <2>2 DEF Receipted
    <3> QED BY <3>1, <3>2
  <2>3. CASE ~(s = proc[p].s /\ c = NextChapter(p))
    BY <1>0, <2>1, <2>3
  <2> QED BY <2>2, <2>3
<1>7. UNCHANGED stages \/ \E p \in Procs : NextChapter(p) \in Chapters /\ Receipted(p)
  BY Steps, WorkSteps DEF WorkMoves, work
<1> QED BY <1>4, <1>5, <1>6, <1>7

-----------------------------------------------------------------------------
(* The invariant.                                                          *)

LEMMA Initially ==
  ASSUME AutonomyAssumption, Init
  PROVE  IInv
<1>1. TypeOK /\ Sized
  <2>1. LeaseType /\ FilesType
    BY DEF Init, LeaseType, FilesType, Newest, AutonomyAssumption
  <2>2. WorkType
    BY DEF Init, WorkType, NoPlan, AutonomyAssumption
  <2>3. proc \in [Procs -> Process] /\ faults \in 0 .. MaxFaults
    BY IdleType DEF Init, AutonomyAssumption
  <2>4. Sized
    BY DEF Init, Sized, InChapter, Fenced, Idle, AutonomyAssumption
  <2> QED BY <2>1, <2>2, <2>3, <2>4, TypeParts
<1>2. OneFence /\ \A p \in Procs : Placed(p)
  BY DEF Init, OneFence, Placed, Driving, Fenced, Idle
<1>3. Journalled /\ Unsettled
  BY DEF Init, Journalled, Unsettled, Unfinished
<1>4. Freed
  BY DEF Init, Freed, Loose, Owned, Newest
<1>5. OneWriterPerChapter
  BY DEF Init, OneWriterPerChapter
<1> QED BY <1>1, <1>2, <1>3, <1>4, <1>5 DEF IInv

LEMMA Stutters ==
  ASSUME IInv, UNCHANGED vars
  PROVE  IInv'
<1> USE DEF vars
<1>1. TypeOK'
  BY DEF IInv, TypeOK, Newest
<1>2. Sized'
  BY DEF IInv, Sized, Newest, InChapter
<1>3. OneFence'
  BY DEF IInv, OneFence
<1>4. \A p \in Procs : Placed(p)'
  BY PlacedQuiet DEF IInv
<1>5. Journalled'
  BY DEF IInv, Journalled, Intended, Unfinished, Latest, Newest
<1>6. Unsettled'
  BY DEF IInv, Unsettled, Unfinished, Latest, Newest, State, Foreign
<1>7. Freed'
  BY DEF IInv, Freed, Loose, Owned, Newest, State, Unfinished, Latest
<1>8. OneWriterPerChapter'
  BY DEF IInv, OneWriterPerChapter
<1> QED BY <1>1, <1>2, <1>3, <1>4, <1>5, <1>6, <1>7, <1>8 DEF IInv

LEMMA Inductive ==
  ASSUME AutonomyAssumption, IInv, [Next]_vars
  PROVE  IInv'
<1>1. CASE Next
  BY <1>1, TypeStep, FenceStep, PlacedStep, JournalStep, UnsettledStep, FreedStep, WriterStep DEF IInv
<1>2. CASE UNCHANGED vars
  BY <1>2, Stutters
<1> QED BY <1>1, <1>2

LEMMA Invariance ==
  ASSUME AutonomyAssumption
  PROVE  Spec => []IInv
<1>1. Init => IInv
  BY Initially
<1>2. IInv /\ [Next]_vars => IInv'
  BY Inductive
<1> QED BY <1>1, <1>2, PTL DEF Spec

-----------------------------------------------------------------------------
(* The chapters of a session in the book.                                  *)

\* The positions that are s's, the rank of one, and their list; NumberOf of any book.
Of(b, s) == {i \in 1 .. Len(b) : b[i] = s}
Rank(b, s, i) == Cardinality({j \in Of(b, s) : j <= i})
Listed(b, s) == [k \in 1 .. Cardinality(Of(b, s)) |-> CHOOSE i \in Of(b, s) : Rank(b, s, i) = k]
Numbered(b, n) == Cardinality({i \in 1 .. n : b[i] # "edit"})

LEMMA Ranks ==
  ASSUME NEW S, NEW b \in Seq(S), NEW s
  PROVE  /\ IsFiniteSet(Of(b, s)) /\ Cardinality(Of(b, s)) \in Nat
         /\ \A i \in Of(b, s) : i \in 1 .. Len(b) /\ Rank(b, s, i) \in 1 .. Cardinality(Of(b, s))
         /\ \A i, j \in Of(b, s) : i < j => Rank(b, s, i) < Rank(b, s, j)
<1> DEFINE M == Of(b, s)
           Upto(i) == {j \in M : j <= i}
<1>1. Len(b) \in Nat /\ IsFiniteSet(1 .. Len(b)) /\ M \in SUBSET (1 .. Len(b))
  BY FS_Interval DEF Of
<1>2. IsFiniteSet(M) /\ Cardinality(M) \in Nat
  BY <1>1, FS_Subset, FS_CardinalityType
<1>3. ASSUME NEW i \in Int PROVE /\ Rank(b, s, i) = Cardinality(Upto(i)) /\ Upto(i) \in SUBSET M
                                 /\ IsFiniteSet(Upto(i)) /\ Cardinality(Upto(i)) \in Nat
                                 /\ Cardinality(Upto(i)) <= Cardinality(M)
  BY <1>2, FS_Subset, FS_CardinalityType DEF Rank
<1>4. ASSUME NEW i \in M PROVE i \in 1 .. Len(b) /\ Rank(b, s, i) \in 1 .. Cardinality(M)
  <2>1. i \in 1 .. Len(b) /\ i \in Int /\ i \in Upto(i)
    BY <1>1
  <2>2. Cardinality(Upto(i)) # 0
    BY <1>3, <2>1, FS_EmptySet
  <2> HIDE DEF M, Upto
  <2> QED BY <1>2, <1>3, <2>1, <2>2
<1>5. ASSUME NEW i \in M, NEW j \in M, i < j PROVE Rank(b, s, i) < Rank(b, s, j)
  <2>1. i \in Int /\ j \in Int
    BY <1>1
  <2>2. Upto(i) \in SUBSET Upto(j) /\ j \in Upto(j) /\ j \notin Upto(i)
    BY <1>1, <1>5, <2>1
  <2>3. IsFiniteSet(Upto(j)) /\ Cardinality(Upto(j)) \in Nat /\ Cardinality(Upto(i)) \in Nat
        /\ Rank(b, s, i) = Cardinality(Upto(i)) /\ Rank(b, s, j) = Cardinality(Upto(j))
    BY <1>3, <2>1
  <2> HIDE DEF M, Upto
  <2>4. Upto(i) # Upto(j) /\ Cardinality(Upto(i)) <= Cardinality(Upto(j)) /\ Cardinality(Upto(i)) # Cardinality(Upto(j))
    BY <2>2, <2>3, FS_Subset
  <2> QED BY <2>3, <2>4
<1> QED BY <1>2, <1>4, <1>5

\* Every rank up to the number of chapters is that of one position: the list is increasing.
LEMMA Lists ==
  ASSUME NEW S, NEW b \in Seq(S), NEW s
  PROVE  /\ Listed(b, s) \in Seq(Of(b, s)) /\ Len(Listed(b, s)) = Cardinality(Of(b, s))
         /\ \A k \in 1 .. Len(Listed(b, s)) :
              Listed(b, s)[k] \in 1 .. Len(b) /\ b[Listed(b, s)[k]] = s /\ Rank(b, s, Listed(b, s)[k]) = k
         /\ \A i \in Of(b, s) : \E k \in 1 .. Len(Listed(b, s)) : Listed(b, s)[k] = i
<1> DEFINE M == Of(b, s)
           n == Cardinality(M)
           f == [i \in M |-> Rank(b, s, i)]
<1>1. /\ IsFiniteSet(M) /\ n \in Nat
      /\ \A i \in M : i \in 1 .. Len(b) /\ Rank(b, s, i) \in 1 .. n
      /\ \A i, j \in M : i < j => Rank(b, s, i) < Rank(b, s, j)
  BY Ranks
<1>2. Len(b) \in Nat
  OBVIOUS
<1>3. \A i, j \in M : Rank(b, s, i) = Rank(b, s, j) => i = j
  <2> SUFFICES ASSUME NEW i \in M, NEW j \in M, i # j PROVE Rank(b, s, i) # Rank(b, s, j)
    OBVIOUS
  <2>1. i \in Int /\ j \in Int /\ Rank(b, s, i) \in Int /\ Rank(b, s, j) \in Int
    BY <1>1, <1>2
  <2>2. i < j \/ j < i
    BY <2>1
  <2>3. Rank(b, s, i) < Rank(b, s, j) \/ Rank(b, s, j) < Rank(b, s, i)
    BY <1>1, <2>2
  <2> QED BY <2>1, <2>3
<1>4. f \in Injection(M, 1 .. n)
  BY <1>1, <1>3 DEF Injection, IsInjective
<1>5. IsFiniteSet(1 .. n) /\ Cardinality(1 .. n) = n
  BY <1>1, FS_Interval
<1>6. f \in Surjection(M, 1 .. n)
  <2> HIDE DEF M, n, f
  <2>1. Cardinality(M) = n
    BY DEF n
  <2> QED BY <1>4, <1>5, <2>1, FS_Injection
<1>7. \A k \in 1 .. n : \E i \in M : Rank(b, s, i) = k
  BY <1>6 DEF Surjection
<1>8. \A k \in 1 .. n : Listed(b, s)[k] \in M /\ Rank(b, s, Listed(b, s)[k]) = k
  BY <1>7 DEF Listed
<1>9. Listed(b, s) \in Seq(M) /\ Len(Listed(b, s)) = n
  <2>1. Listed(b, s) = [k \in 1 .. n |-> Listed(b, s)[k]]
    BY DEF Listed
  <2> HIDE DEF M, n
  <2> QED BY <1>1, <1>8, <2>1
<1>10. ASSUME NEW i \in M PROVE \E k \in 1 .. n : Listed(b, s)[k] = i
  <2>1. Rank(b, s, i) \in 1 .. n
    BY <1>1
  <2>2. /\ Listed(b, s)[Rank(b, s, i)] \in M
        /\ Rank(b, s, Listed(b, s)[Rank(b, s, i)]) = Rank(b, s, i)
    BY <1>8, <2>1
  <2>3. Listed(b, s)[Rank(b, s, i)] = i
    BY <1>3, <2>2
  <2> QED BY <2>1, <2>3
<1>11. \A k \in 1 .. n : Listed(b, s)[k] \in 1 .. Len(b) /\ b[Listed(b, s)[k]] = s
  BY <1>8 DEF Of
<1> QED BY <1>8, <1>9, <1>10, <1>11

LEMMA RankGrows ==
  ASSUME NEW S, NEW b \in Seq(S), NEW x \in S, NEW s
  PROVE  LET c == Append(b, x) IN
         /\ x # s => Of(c, s) = Of(b, s)
         /\ x = s => Of(c, s) = Of(b, s) \cup {Len(b) + 1} /\ Cardinality(Of(c, s)) = Cardinality(Of(b, s)) + 1
         /\ \A i \in 1 .. Len(b) : Rank(c, s, i) = Rank(b, s, i)
         /\ x = s => Rank(c, s, Len(b) + 1) = Cardinality(Of(b, s)) + 1
<1> DEFINE c == Append(b, x)
           m == Len(b) + 1
<1>1. /\ Len(b) \in Nat /\ Len(c) = m /\ c[m] = x /\ \A i \in 1 .. Len(b) : c[i] = b[i]
      /\ 1 .. m = 1 .. Len(b) \cup {m}
  BY AppendProperties
<1> HIDE DEF c
<1>2. x # s => Of(c, s) = Of(b, s)
  BY <1>1 DEF Of
<1>3. x = s => Of(c, s) = Of(b, s) \cup {m}
  BY <1>1 DEF Of
<1>4. IsFiniteSet(Of(b, s)) /\ m \notin Of(b, s)
  <2>1. IsFiniteSet(Of(b, s)) /\ \A i \in Of(b, s) : i \in 1 .. Len(b)
    BY Ranks
  <2>2. m \notin 1 .. Len(b)
    BY <1>1
  <2> QED BY <2>1, <2>2
<1>5. x = s => Cardinality(Of(c, s)) = Cardinality(Of(b, s)) + 1
  BY <1>3, <1>4, FS_AddElement
<1>6. ASSUME NEW i \in 1 .. Len(b) PROVE Rank(c, s, i) = Rank(b, s, i)
  <2>1. ~(m <= i)
    BY <1>1
  <2>2. {j \in Of(c, s) : j <= i} = {j \in Of(b, s) : j <= i}
    BY <1>2, <1>3, <2>1
  <2> QED BY <2>2 DEF Rank
<1>7. x = s => Rank(c, s, m) = Cardinality(Of(b, s)) + 1
  <2> SUFFICES ASSUME x = s PROVE Rank(c, s, m) = Cardinality(Of(b, s)) + 1
    OBVIOUS
  <2>1. \A j \in Of(c, s) : j <= m
    BY <1>1 DEF Of
  <2>2. {j \in Of(c, s) : j <= m} = Of(c, s)
    BY <2>1
  <2> QED BY <1>5, <2>2 DEF Rank
<1> QED BY <1>2, <1>3, <1>5, <1>6, <1>7 DEF c

\* Someone else's change leaves the list of s as it is; its own chapter goes to the end.
LEMMA ListGrows ==
  ASSUME NEW S, NEW b \in Seq(S), NEW x \in S, NEW s
  PROVE  /\ x # s => Listed(Append(b, x), s) = Listed(b, s)
         /\ x = s => Listed(Append(b, x), s) = Append(Listed(b, s), Len(b) + 1)
<1> DEFINE c == Append(b, x)
           m == Len(b) + 1
           n == Cardinality(Of(b, s))
<1>1. /\ x # s => Of(c, s) = Of(b, s)
      /\ x = s => Of(c, s) = Of(b, s) \cup {m} /\ Cardinality(Of(c, s)) = n + 1
      /\ \A i \in 1 .. Len(b) : Rank(c, s, i) = Rank(b, s, i)
      /\ x = s => Rank(c, s, m) = n + 1
  BY RankGrows
<1>2. c \in Seq(S) /\ Len(b) \in Nat /\ n \in Nat /\ \A i \in Of(b, s) : i \in 1 .. Len(b) /\ Rank(b, s, i) \in 1 .. n
  BY AppendProperties, Ranks
<1> HIDE DEF c, n, m
<1>3. ASSUME x # s PROVE Listed(c, s) = Listed(b, s)
  <2>1. \A i \in Of(b, s) : Rank(c, s, i) = Rank(b, s, i)
    BY <1>1, <1>2
  <2> DEFINE At(k) == CHOOSE i \in Of(b, s) : Rank(b, s, i) = k
             Then(k) == CHOOSE i \in Of(c, s) : Rank(c, s, i) = k
  <2>2. \A k : Then(k) = At(k)
    BY <1>1, <1>3, <2>1
  <2>3. /\ Listed(c, s) = [k \in 1 .. Cardinality(Of(c, s)) |-> Then(k)]
        /\ Listed(b, s) = [k \in 1 .. Cardinality(Of(b, s)) |-> At(k)]
    BY DEF Listed
  <2> HIDE DEF At, Then
  <2> QED BY <1>1, <1>3, <2>2, <2>3
<1>4. ASSUME x = s PROVE Listed(c, s) = Append(Listed(b, s), m)
  <2>1. /\ Listed(c, s) \in Seq(Of(c, s)) /\ Len(Listed(c, s)) = n + 1
        /\ Listed(b, s) \in Seq(Of(b, s)) /\ Len(Listed(b, s)) = n
        /\ \A k \in 1 .. n + 1 : Listed(c, s)[k] \in Of(c, s) /\ Rank(c, s, Listed(c, s)[k]) = k
        /\ \A k \in 1 .. n : Listed(b, s)[k] \in Of(b, s) /\ Rank(b, s, Listed(b, s)[k]) = k
    BY <1>1, <1>2, <1>4, Lists DEF n
  <2>2. \A i, j \in Of(c, s) : Rank(c, s, i) = Rank(c, s, j) => i = j
    <3> SUFFICES ASSUME NEW i \in Of(c, s), NEW j \in Of(c, s), i # j PROVE Rank(c, s, i) # Rank(c, s, j)
      OBVIOUS
    <3>1. /\ i \in Int /\ j \in Int /\ Rank(c, s, i) \in Int /\ Rank(c, s, j) \in Int
          /\ (i < j => Rank(c, s, i) < Rank(c, s, j)) /\ (j < i => Rank(c, s, j) < Rank(c, s, i))
      BY <1>2, Ranks
    <3> QED BY <3>1
  <2>3. Listed(c, s)[n + 1] = m
    <3>1. m \in Of(c, s) /\ n + 1 \in 1 .. n + 1 /\ Rank(c, s, m) = n + 1
      BY <1>1, <1>2, <1>4
    <3> QED BY <2>1, <2>2, <3>1
  <2>4. ASSUME NEW k \in 1 .. n PROVE Listed(c, s)[k] = Listed(b, s)[k]
    <3>1. k \in 1 .. n + 1 /\ Listed(b, s)[k] \in Of(c, s)
      BY <1>1, <1>2, <1>4, <2>1
    <3>2. Rank(c, s, Listed(b, s)[k]) = k
      BY <1>1, <1>2, <2>1
    <3> QED BY <2>1, <2>2, <3>1, <3>2
  <2>5. /\ Append(Listed(b, s), m) \in Seq(Of(c, s)) /\ Len(Append(Listed(b, s), m)) = n + 1
        /\ Append(Listed(b, s), m)[n + 1] = m
        /\ \A k \in 1 .. n : Append(Listed(b, s), m)[k] = Listed(b, s)[k]
    <3>1. Listed(b, s) \in Seq(Of(c, s)) /\ m \in Of(c, s)
      BY <1>1, <1>4, <2>1
    <3> QED BY <2>1, <3>1, AppendProperties
  <2>6. \A k \in 1 .. n + 1 : Listed(c, s)[k] = Append(Listed(b, s), m)[k]
    <3>1. \A k \in 1 .. n + 1 : k \in 1 .. n \/ k = n + 1
      BY <1>2
    <3> QED BY <2>3, <2>4, <2>5, <3>1
  <2> QED BY <2>1, <2>5, <2>6, SeqEqual
<1> QED BY <1>3, <1>4 DEF c, m

LEMMA Numbers ==
  ASSUME NEW S, NEW b \in Seq(S), NEW m \in Int, NEW n \in Int, m <= n
  PROVE  Numbered(b, m) \in Nat /\ Numbered(b, n) \in Nat /\ Numbered(b, m) <= Numbered(b, n)
<1> DEFINE M(k) == {i \in 1 .. k : b[i] # "edit"}
<1>1. ASSUME NEW k \in Int PROVE IsFiniteSet(M(k)) /\ Cardinality(M(k)) \in Nat
  <2>1. IsFiniteSet(1 .. k) /\ M(k) \in SUBSET (1 .. k)
    BY FS_Interval
  <2> QED BY <2>1, FS_Subset, FS_CardinalityType
<1>2. M(m) \in SUBSET M(n)
  OBVIOUS
<1>3. Numbered(b, m) = Cardinality(M(m)) /\ Numbered(b, n) = Cardinality(M(n))
  BY DEF Numbered
<1> HIDE DEF M
<1> QED BY <1>1, <1>2, <1>3, FS_Subset

LEMMA NumberGrows ==
  ASSUME NEW S, NEW b \in Seq(S), NEW x \in S
  PROVE  /\ \A n \in Int : n <= Len(b) => Numbered(Append(b, x), n) = Numbered(b, n)
         /\ x # "edit" => Numbered(Append(b, x), Len(b) + 1) = Numbered(b, Len(b)) + 1
<1> DEFINE c == Append(b, x)
           m == Len(b) + 1
<1>1. /\ Len(b) \in Nat /\ c[m] = x /\ \A i \in 1 .. Len(b) : c[i] = b[i]
      /\ 1 .. m = 1 .. Len(b) \cup {m}
  BY AppendProperties
<1>2. ASSUME NEW n \in Int, n <= Len(b) PROVE Numbered(c, n) = Numbered(b, n)
  <2>1. \A i \in 1 .. n : c[i] = b[i]
    BY <1>1, <1>2
  <2>2. {i \in 1 .. n : c[i] # "edit"} = {i \in 1 .. n : b[i] # "edit"}
    BY <2>1
  <2> QED BY <2>2 DEF Numbered
<1>3. ASSUME x # "edit" PROVE Numbered(c, m) = Numbered(b, Len(b)) + 1
  <2> DEFINE M == {i \in 1 .. Len(b) : b[i] # "edit"}
  <2>1. IsFiniteSet(M) /\ Cardinality(M) \in Nat /\ m \notin M
    <3>1. IsFiniteSet(1 .. Len(b)) /\ M \in SUBSET (1 .. Len(b)) /\ m \notin 1 .. Len(b)
      BY <1>1, FS_Interval
    <3> QED BY <3>1, FS_Subset, FS_CardinalityType
  <2>2. {i \in 1 .. m : c[i] # "edit"} = M \cup {m}
    BY <1>1, <1>3
  <2> HIDE DEF M
  <2>3. Cardinality(M \cup {m}) = Cardinality(M) + 1
    BY <2>1, FS_AddElement
  <2> QED BY <2>2, <2>3 DEF Numbered, M
<1> QED BY <1>2, <1>3

\* What the book, the plan and the ledger of a session have to do with each other: the
\* chapters it published are the first ones of its plan, and the ledger has all but the last.
Fits(b, s, from, receipts, owing) ==
  LET mine == Listed(b, s) IN
  /\ from <= Len(b)
  /\ Len(receipts) <= Len(mine) /\ Len(mine) <= Len(receipts) + 1 /\ Len(mine) <= Requested
  /\ \A k \in 1 .. Len(mine) : Numbered(b, mine[k]) = Numbered(b, from) + k
  /\ \A k \in 1 .. Len(receipts) :
       /\ receipts[k].after <= Len(b) /\ Numbered(b, receipts[k].after) = Numbered(b, from) + k
       /\ ~receipts[k].owed => mine[k] \notin owing
Receipts == Seq([after : 0 .. MaxBook, owed : BOOLEAN])

LEMMA FitsDelivered ==
  ASSUME NEW b, NEW s, NEW from, NEW receipts, NEW owing, NEW less, less \subseteq owing,
         Fits(b, s, from, receipts, owing)
  PROVE  Fits(b, s, from, receipts, less)
BY DEF Fits

LEMMA FitsGrown ==
  ASSUME NEW S, NEW b \in Seq(S), NEW x \in S, NEW s, NEW from \in Int, NEW receipts \in Receipts,
         NEW owing, NEW more, more \subseteq owing \cup {Len(b) + 1}, Requested \in Nat,
         Fits(b, s, from, receipts, owing),
         x = s => /\ x # "edit" /\ Len(receipts) < Requested
                  /\ Numbered(b, Len(b)) = Numbered(b, from) + Len(receipts)
  PROVE  Fits(Append(b, x), s, from, receipts, more)
<1> DEFINE c == Append(b, x)
           mine == Listed(b, s)
           next == Listed(c, s)
<1>1. /\ Len(b) \in Nat /\ c \in Seq(S) /\ Len(c) = Len(b) + 1 /\ Len(receipts) \in Nat
      /\ \A k \in 1 .. Len(receipts) : receipts[k].after \in Int
  <2>1. ASSUME NEW k \in 1 .. Len(receipts) PROVE receipts[k].after \in Int
    <3>1. receipts[k] \in [after : 0 .. MaxBook, owed : BOOLEAN]
      BY ElementOfSeq DEF Receipts
    <3> QED BY <3>1
  <2> QED BY <2>1, AppendProperties DEF Receipts
<1>2. /\ \A n \in Int : n <= Len(b) => Numbered(c, n) = Numbered(b, n)
      /\ x # "edit" => Numbered(c, Len(b) + 1) = Numbered(b, Len(b)) + 1
  BY NumberGrows
<1>3. /\ x # s => next = mine
      /\ x = s => next = Append(mine, Len(b) + 1)
  BY ListGrows
<1>4. /\ mine \in Seq(Of(b, s)) /\ Len(mine) \in Nat /\ \A k \in 1 .. Len(mine) : mine[k] \in 1 .. Len(b)
  BY Lists
<1>5. /\ from <= Len(b)
      /\ Len(receipts) <= Len(mine) /\ Len(mine) <= Len(receipts) + 1 /\ Len(mine) <= Requested
      /\ \A k \in 1 .. Len(mine) : Numbered(b, mine[k]) = Numbered(b, from) + k
      /\ \A k \in 1 .. Len(receipts) :
           /\ receipts[k].after <= Len(b) /\ Numbered(b, receipts[k].after) = Numbered(b, from) + k
           /\ ~receipts[k].owed => mine[k] \notin owing
  BY DEF Fits
<1>6. Numbered(b, from) \in Nat /\ Numbered(c, from) = Numbered(b, from)
  BY <1>1, <1>2, <1>5, Numbers
<1> HIDE DEF c, mine, next
<1>7. /\ \A k \in 1 .. Len(mine) : mine[k] \in Int /\ mine[k] <= Len(b) /\ Numbered(c, mine[k]) = Numbered(c, from) + k
      /\ \A k \in 1 .. Len(receipts) :
           /\ receipts[k].after <= Len(c) /\ Numbered(c, receipts[k].after) = Numbered(c, from) + k
           /\ ~receipts[k].owed => mine[k] \notin more
  <2>1. ASSUME NEW k \in 1 .. Len(mine)
        PROVE  mine[k] \in Int /\ mine[k] <= Len(b) /\ Numbered(c, mine[k]) = Numbered(c, from) + k
    <3>1. mine[k] \in Int /\ mine[k] <= Len(b)
      BY <1>1, <1>4
    <3> QED BY <1>2, <1>5, <1>6, <3>1
  <2>2. ASSUME NEW k \in 1 .. Len(receipts)
        PROVE  /\ receipts[k].after <= Len(c) /\ Numbered(c, receipts[k].after) = Numbered(c, from) + k
               /\ ~receipts[k].owed => mine[k] \notin more
    <3>1. k \in 1 .. Len(mine)
      BY <1>1, <1>4, <1>5
    <3>2. mine[k] # Len(b) + 1
      BY <1>1, <2>1, <3>1
    <3>3. receipts[k].after \in Int /\ receipts[k].after <= Len(b)
      BY <1>1, <1>5
    <3>4. Numbered(c, receipts[k].after) = Numbered(b, receipts[k].after)
      BY <1>2, <3>3
    <3> QED BY <1>1, <1>5, <1>6, <3>2, <3>3, <3>4
  <2> QED BY <2>1, <2>2
<1>8. from <= Len(c)
  BY <1>1, <1>5
<1>9. CASE x # s
  <2>1. next = mine
    BY <1>3, <1>9
  <2> QED BY <1>5, <1>7, <1>8, <2>1 DEF Fits, next, c
<1>10. CASE x = s
  <2>1. Len(mine) = Len(receipts)
    <3> SUFFICES ASSUME Len(mine) = Len(receipts) + 1 PROVE FALSE
      BY <1>1, <1>4, <1>5
    <3>1. Len(mine) \in 1 .. Len(mine)
      BY <1>1
    <3>2. mine[Len(mine)] \in Int /\ mine[Len(mine)] <= Len(b)
      BY <1>7, <3>1
    <3>3. Numbered(b, mine[Len(mine)]) <= Numbered(b, Len(b)) /\ Numbered(b, Len(b)) \in Nat
      BY <1>1, <3>2, Numbers
    <3>4. Numbered(b, mine[Len(mine)]) = Numbered(b, from) + Len(mine)
      BY <1>5, <3>1
    <3>5. Numbered(b, Len(b)) = Numbered(b, from) + Len(receipts)
      BY <1>10
    <3>6. Len(receipts) \in Nat
      BY <1>1
    <3> QED BY <1>6, <3>3, <3>4, <3>5, <3>6
  <2>2. /\ next = Append(mine, Len(b) + 1) /\ Len(next) = Len(mine) + 1 /\ next[Len(mine) + 1] = Len(b) + 1
        /\ \A k \in 1 .. Len(mine) : next[k] = mine[k]
    BY <1>3, <1>4, <1>10
  <2>3. Numbered(c, Len(b) + 1) = Numbered(c, from) + Len(mine) + 1
    BY <1>1, <1>2, <1>4, <1>6, <1>10, <2>1
  <2>4. \A k \in 1 .. Len(next) : k \in 1 .. Len(mine) \/ k = Len(mine) + 1
    BY <1>4, <2>2
  <2>5. \A k \in 1 .. Len(next) : Numbered(c, next[k]) = Numbered(c, from) + k
    <3> SUFFICES ASSUME NEW k \in 1 .. Len(next) PROVE Numbered(c, next[k]) = Numbered(c, from) + k
      OBVIOUS
    <3>1. CASE k \in 1 .. Len(mine)
      BY <1>7, <2>2, <3>1
    <3>2. CASE k = Len(mine) + 1
      BY <1>4, <1>6, <2>2, <2>3, <3>2
    <3> QED BY <2>4, <3>1, <3>2
  <2>6. Len(receipts) <= Len(next) /\ Len(next) <= Len(receipts) + 1 /\ Len(next) <= Requested
    BY <1>1, <1>4, <1>10, <2>1, <2>2
  <2>7. \A k \in 1 .. Len(receipts) : next[k] = mine[k]
    BY <2>1, <2>2
  <2> QED BY <1>7, <1>8, <2>5, <2>6, <2>7 DEF Fits, next, c
<1> QED BY <1>9, <1>10

LEMMA FitsRecorded ==
  ASSUME NEW S, NEW b \in Seq(S), NEW s, NEW from \in Int, NEW receipts \in Receipts, NEW owing, NEW less,
         less \subseteq owing, Fits(b, s, from, receipts, owing), NEW k, k = Len(receipts) + 1,
         k \in 1 .. Len(Listed(b, s)), Numbered(b, Len(b)) = Numbered(b, from) + k, Len(b) \in 0 .. MaxBook
  PROVE  Fits(b, s, from, Append(receipts, [after |-> Len(b), owed |-> Listed(b, s)[k] \in less]), less)
<1> DEFINE owed == Listed(b, s)[k] \in less
           r == [after |-> Len(b), owed |-> owed]
           more == Append(receipts, r)
           mine == Listed(b, s)
<1>0. owed \in BOOLEAN /\ (~owed => mine[k] \notin less)
  OBVIOUS
<1> HIDE DEF owed
<1>1. r \in [after : 0 .. MaxBook, owed : BOOLEAN] /\ r.after = Len(b) /\ r.owed = owed
  BY <1>0
<1> HIDE DEF r
<1>2. /\ Len(receipts) \in Nat /\ Len(more) = k /\ more[k] = r /\ \A j \in 1 .. Len(receipts) : more[j] = receipts[j]
  BY <1>1, AppendProperties DEF Receipts
<1>3. Len(mine) \in Nat /\ Len(b) \in Nat
  BY Lists
<1>4. /\ from <= Len(b)
      /\ Len(receipts) <= Len(mine) /\ Len(mine) <= Len(receipts) + 1 /\ Len(mine) <= Requested
      /\ \A j \in 1 .. Len(mine) : Numbered(b, mine[j]) = Numbered(b, from) + j
      /\ \A j \in 1 .. Len(receipts) :
           /\ receipts[j].after <= Len(b) /\ Numbered(b, receipts[j].after) = Numbered(b, from) + j
           /\ ~receipts[j].owed => mine[j] \notin owing
  BY DEF Fits
<1> HIDE DEF more, mine
<1>5. \A j \in 1 .. Len(more) : j \in 1 .. Len(receipts) \/ j = k
  BY <1>2
<1>6. Len(more) <= Len(mine) /\ Len(mine) <= Len(more) + 1
  <2>1. k <= Len(mine)
    BY <1>3 DEF mine
  <2> QED BY <1>2, <1>3, <1>4, <2>1
<1>7. \A j \in 1 .. Len(more) :
           /\ more[j].after <= Len(b) /\ Numbered(b, more[j].after) = Numbered(b, from) + j
           /\ ~more[j].owed => mine[j] \notin less
  <2> SUFFICES ASSUME NEW j \in 1 .. Len(more)
               PROVE  /\ more[j].after <= Len(b) /\ Numbered(b, more[j].after) = Numbered(b, from) + j
                      /\ ~more[j].owed => mine[j] \notin less
    OBVIOUS
  <2>1. CASE j \in 1 .. Len(receipts)
    BY <1>2, <1>4, <2>1
  <2>2. CASE j = k
    BY <1>0, <1>1, <1>2, <1>3, <2>2
  <2> QED BY <1>5, <2>1, <2>2
<1> QED BY <1>4, <1>6, <1>7 DEF Fits, mine, more, r, owed

LEMMA FitsPlanned ==
  ASSUME NEW S, NEW b \in Seq(S), NEW s, NEW owing, Listed(b, s) = <<>>, Requested \in Nat
  PROVE  Fits(b, s, Len(b), <<>>, owing)
<1>1. Len(b) \in Nat /\ Len(Listed(b, s)) = 0
  OBVIOUS
<1> QED BY <1>1 DEF Fits

-----------------------------------------------------------------------------
(* The plan of a session: the part of the invariant about what it publishes. *)

LEMMA PublishedIs ==
  /\ \A s : Published(s) = Listed(book, s) /\ Published(s)' = Listed(book', s)
  /\ \A n : NumberOf(n) = Numbered(book, n)
BY DEF Published, Listed, Rank, Of, NumberOf, Numbered

\* A session without a plan has nothing, and no one works for it but to open the store.
Unplanned(s) ==
  plan[s] = NoPlan =>
    /\ Listed(book, s) = <<>> /\ ledger[s] = <<>> /\ s \notin born
    /\ \A i \in 1 .. Len(ops) : ops[i].s # s
    /\ \A p \in Procs : proc[p].s = s => proc[p].cmd = "open" /\ proc[p].pc \in Fenced
Counted(s) == Fits(book, s, plan[s], ledger[s], undelivered)
Ended(s) == State(s) = "completed" => Completable(s)
Ending == Unfinished /\ Latest.marker /\ Latest.type = "complete" => Completable(Latest.s)

\* As long as the book is as a runner in a chapter saw it, it ends where the ledger does.
InTurn(p) ==
  LET s == proc[p].s IN
  /\ proc[p].base <= Len(book)
  /\ InChapter(p) /\ Len(book) = proc[p].base =>
       /\ Numbered(book, Len(book)) = Numbered(book, plan[s]) + Len(ledger[s])
       /\ proc[p].pc = "commit" => Len(ledger[s]) < Requested

PInv ==
  /\ \A s \in Sessions : Unplanned(s) /\ Counted(s) /\ Ended(s)
  /\ \A p \in Procs : InTurn(p)
  /\ Ending

\* What a step means for the source a process saw and the session it works for.
Course(p) ==
  /\ Only(p) /\ proc'[p].base \in {0, proc[p].base, Len(book)}
  /\ InChapter(p)' =>
       /\ proc'[p].s = proc[p].s
       /\ \/ InChapter(p) /\ proc'[p].base = proc[p].base
          \/ SourceCurrent(p) /\ proc'[p].base = Len(book)
  /\ proc'[p].pc = "commit" => NextChapter(p) \in Chapters
  /\ \/ proc'[p].s = "none"
     \/ /\ proc'[p].s = proc[p].s
        /\ proc[p].cmd = "open" /\ proc[p].pc \in Fenced => proc'[p].cmd = "open" /\ proc'[p].pc \in Fenced
     \/ \E c \in Commands, s \in Sessions :
          Command(p, c, s) /\ proc'[p].s = s /\ proc'[p].cmd = c /\ proc'[p].pc = "recover"

LEMMA CourseFacts ==
  ASSUME AutonomyAssumption, IInv, NEW p \in Procs
  PROVE  /\ Becomes(p, Idle) => Course(p)
         /\ proc' = proc /\ proc[p].pc # "commit" => Course(p)
         /\ /\ Only(p) /\ proc[p].pc \in Fenced /\ proc'[p].pc \in Fenced
            /\ proc'[p].s = proc[p].s /\ proc'[p].cmd = proc[p].cmd /\ proc'[p].base = proc[p].base
            => Course(p)
         /\ /\ Only(p) /\ proc'[p].s = proc[p].s /\ proc'[p].base = proc[p].base
            /\ proc'[p].pc \in {"loop", "complete", "choose", "deliver", "ledger", "drive", "arc", "retry", "return"}
            /\ proc[p].cmd = "open" => proc[p].pc \notin Fenced
            => Course(p)
<1>0. proc \in [Procs -> Process] /\ Idle.pc = "idle" /\ Idle.s = "none" /\ Idle.base = 0
  BY TypeParts DEF IInv, Idle
<1>1. ASSUME Becomes(p, Idle) PROVE Course(p)
  BY <1>0, <1>1 DEF Course, Becomes, InChapter, Fenced
<1>2. ASSUME proc' = proc, proc[p].pc # "commit" PROVE Course(p)
  BY <1>0, <1>2 DEF Course, Only, InChapter
<1>3. ASSUME Only(p), proc[p].pc \in Fenced, proc'[p].pc \in Fenced,
             proc'[p].s = proc[p].s, proc'[p].cmd = proc[p].cmd, proc'[p].base = proc[p].base
      PROVE  Course(p)
  BY <1>3 DEF Course, InChapter, Fenced
<1>4. ASSUME Only(p), proc'[p].s = proc[p].s, proc'[p].base = proc[p].base,
             proc'[p].pc \in {"loop", "complete", "choose", "deliver", "ledger", "drive", "arc", "retry", "return"},
             proc[p].cmd = "open" => proc[p].pc \notin Fenced
      PROVE  Course(p)
  BY <1>4 DEF Course, InChapter, Fenced
<1> QED BY <1>1, <1>2, <1>3, <1>4

LEMMA FencedCourse ==
  ASSUME AutonomyAssumption, IInv, NEW p \in Procs, FencedStep(p)
  PROVE  Course(p)
<1>0. proc[p] \in Process
  BY PlacedFacts
<1>1. ASSUME NEW pc \in Fenced, NEW x, NEW y,
             NEW q \in { [proc[p] EXCEPT !.pc = pc], [proc[p] EXCEPT !.op = x, !.pc = pc],
                         [proc[p] EXCEPT !.gen = x, !.pc = pc], [proc[p] EXCEPT !.op = x, !.own = y, !.pc = pc] },
             Becomes(p, q), proc[p].pc \in Fenced
      PROVE  Course(p)
  <2>1. q.pc = pc /\ q.s = proc[p].s /\ q.cmd = proc[p].cmd /\ q.base = proc[p].base
    BY <1>0 DEF Process
  <2> QED BY <1>1, <2>1, CourseFacts DEF Becomes
<1>2. ASSUME NEW pc \in {"drive", "retry"}, Becomes(p, [proc[p] EXCEPT !.pc = pc]),
             proc[p].cmd = "open" => proc[p].pc \notin Fenced
      PROVE  Course(p)
  <2>1. Only(p) /\ proc'[p].pc = pc /\ proc'[p].s = proc[p].s /\ proc'[p].base = proc[p].base
    BY <1>0, <1>2 DEF Becomes, Process
  <2> QED BY <1>2, <2>1, CourseFacts
<1>3. CASE Recover(p)
  <2>1. proc[p].pc \in Fenced /\ {"begin", "forward", "back"} \subseteq Fenced
    BY <1>3 DEF Recover, Fenced
  <2>2. CASE Becomes(p, [proc[p] EXCEPT !.pc = "begin"])
    BY <1>1, <2>1, <2>2
  <2>3. CASE Becomes(p, [proc[p] EXCEPT !.op = Len(ops), !.pc = IF Latest.marker THEN "forward" ELSE "back"])
    <3> DEFINE pc == IF Latest.marker THEN "forward" ELSE "back"
    <3>1. pc \in Fenced /\ Becomes(p, [proc[p] EXCEPT !.op = Len(ops), !.pc = pc])
      BY <2>1, <2>3
    <3> HIDE DEF pc
    <3> QED BY <1>1, <2>1, <3>1
  <2> QED BY <1>3, <2>2, <2>3, RecoverChange
<1>4. CASE BeginSource(p) \/ BeginTerminal(p)
  <2>1. Becomes(p, Idle) \/ \E target : Begun(p, target)
    BY <1>4, BeginSourceChange, BeginTerminalChange
  <2>2. ASSUME NEW target, Begun(p, target) PROVE Course(p)
    <3> DEFINE pc == IF proc[p].cmd \in Source THEN "acquire" ELSE "mark"
    <3>1. pc \in Fenced /\ proc[p].pc \in Fenced
          /\ Becomes(p, [proc[p] EXCEPT !.op = Len(ops) + 1, !.own = TRUE, !.pc = pc])
      BY <2>2 DEF Begun, Fenced
    <3> HIDE DEF pc
    <3> QED BY <1>1, <3>1
  <2> QED BY <2>1, <2>2, CourseFacts
<1>5. CASE BeginStatus(p)
  <2>1. proc[p].pc = "begin"
    BY <1>5 DEF BeginStatus
  <2>2. CASE proc[p].cmd = "loop" /\ Becomes(p, [proc[p] EXCEPT !.gen = Newest, !.cursor = 0,
                 !.pc = IF Len(ledger[proc[p].s]) = Requested THEN "complete" ELSE "choose"])
    <3>1. /\ Only(p) /\ proc'[p].pc \in {"complete", "choose"} /\ proc'[p].s = proc[p].s
          /\ proc'[p].base = proc[p].base
      BY <1>0, <2>2 DEF Becomes, Process
    <3> QED BY <2>2, <3>1, CourseFacts
  <2>3. CASE proc[p].cmd = "gate" /\ Becomes(p, [proc[p] EXCEPT !.pc = "stage"])
    <3>1. Only(p) /\ proc'[p].pc = "stage" /\ proc'[p].s = proc[p].s /\ proc'[p].base = proc[p].base
      BY <1>0, <2>3 DEF Becomes, Process
    <3>2. InChapter(p)
      BY <2>1, <2>3 DEF InChapter, Fenced
    <3> QED BY <2>3, <3>1, <3>2 DEF Course, Fenced
  <2>4. CASE proc[p].cmd = "arc" /\ \E pc \in {"drive", "retry"} : Becomes(p, [proc[p] EXCEPT !.pc = pc])
    <3>1. Only(p) /\ proc'[p].pc \in {"drive", "retry"} /\ proc'[p].s = proc[p].s /\ proc'[p].base = proc[p].base
      BY <1>0, <2>4 DEF Becomes, Process
    <3> QED BY <2>4, <3>1, CourseFacts
  <2> QED BY <1>5, <2>2, <2>3, <2>4, BeginStatusChange, CourseFacts
<1>6. CASE Acquire(p)
  <2>1. proc[p].pc \in Fenced /\ "boundary" \in Fenced
    BY <1>6 DEF Acquire, Fenced
  <2>2. CASE \E g \in 0 .. MaxGen : Becomes(p, [proc[p] EXCEPT !.gen = g, !.pc = "boundary"])
    BY <1>1, <2>1, <2>2
  <2> QED BY <1>6, <2>2, AcquireChange, CourseFacts
<1>7. CASE Boundary(p)
  <2>1. {"boundary", "back", "source"} \subseteq Fenced
    BY DEF Fenced
  <2> QED BY <1>1, <1>7, <2>1, BoundaryChange
<1>8. CASE CheckSource(p)
  <2>1. proc[p].pc \in Fenced /\ {"mark", "back"} \subseteq Fenced
    BY <1>8 DEF CheckSource, Fenced
  <2>2. CASE SourceCurrent(p) /\ Becomes(p, [proc[p] EXCEPT !.base = Len(book), !.pc = "mark"])
    <3>1. Only(p) /\ proc'[p].pc = "mark" /\ proc'[p].s = proc[p].s /\ proc'[p].base = Len(book)
          /\ proc'[p].cmd = proc[p].cmd
      BY <1>0, <2>2 DEF Becomes, Process
    <3> QED BY <2>1, <2>2, <3>1 DEF Course
  <2>3. CASE Becomes(p, [proc[p] EXCEPT !.pc = "back"])
    BY <1>1, <2>1, <2>3
  <2> QED BY <1>8, <2>2, <2>3, CheckSourceChange
<1>9. CASE Mark(p)
  <2>1. proc[p].pc \in Fenced /\ "forward" \in Fenced
    BY <1>9 DEF Mark, Fenced
  <2> QED BY <1>1, <1>9, <2>1, MarkChange, CourseFacts
<1>10. CASE Forward(p)
  <2>1. proc[p].pc = "forward" /\ proc[p].pc \in Fenced /\ AfterForward(Latest) \in Fenced
    BY <1>10 DEF Forward, Fenced, AfterForward
  <2>2. CASE Becomes(p, [proc[p] EXCEPT !.pc = AfterForward(Latest)])
    BY <1>1, <2>1, <2>2
  <2> QED BY <1>10, <2>1, <2>2, ForwardChange, CourseFacts
<1>11. CASE Index(p) \/ Release(p)
  <2>1. proc[p].pc \in Fenced /\ "finish" \in Fenced
    BY <1>11 DEF Index, Release, Fenced
  <2> QED BY <1>1, <1>11, <2>1, IndexChange, ReleaseChange
<1>12. CASE Finish(p) \/ Undo(p)
  <2>1. proc[p].pc \in Fenced /\ "recover" \in Fenced /\ "open" \notin Source
    BY <1>12 DEF Finish, Undo, Fenced, Source
  <2>2. CASE Becomes(p, [proc[p] EXCEPT !.pc = "recover"])
    BY <1>1, <2>1, <2>2
  <2>3. CASE Becomes(p, [proc[p] EXCEPT !.pc = "drive"]) /\ proc[p].cmd \in Source
    BY <1>2, <2>1, <2>3
  <2> QED BY <1>12, <2>2, <2>3, ResultChange, CourseFacts
<1>13. CASE Back(p)
  <2>1. proc[p].pc \in Fenced /\ "undo" \in Fenced
    BY <1>13 DEF Back, Fenced
  <2> QED BY <1>1, <1>13, <2>1, BackChange, CourseFacts
<1> QED BY <1>3, <1>4, <1>5, <1>6, <1>7, <1>8, <1>9, <1>10, <1>11, <1>12, <1>13 DEF FencedStep

LEMMA RunnerCourse ==
  ASSUME AutonomyAssumption, IInv, NEW p \in Procs, ProcStep(p), ~FencedStep(p)
  PROVE  Course(p)
<1>0. proc[p] \in Process
  BY PlacedFacts
<1>1. CASE \E c \in Commands, s \in Sessions : Command(p, c, s)
  <2>1. PICK c \in Commands, s \in Sessions : Command(p, c, s)
    BY <1>1
  <2> DEFINE r == [Idle EXCEPT !.pc = "recover", !.cmd = c, !.s = s]
  <2>2. r.pc = "recover" /\ r.s = s /\ r.cmd = c /\ r.base = 0
    BY DEF Idle
  <2>3. Becomes(p, r)
    BY <2>1, CommandChange
  <2> HIDE DEF r
  <2>4. Only(p) /\ proc'[p].pc = "recover" /\ proc'[p].s = s /\ proc'[p].cmd = c /\ proc'[p].base = 0
    BY <2>2, <2>3 DEF Becomes
  <2>5. c # "gate"
    BY DEF AutonomyAssumption, AllCommands
  <2>6. ~InChapter(p)'
    BY <2>4, <2>5 DEF InChapter
  <2> QED BY <2>1, <2>4, <2>6 DEF Course
<1>2. CASE Call(p)
  <2>1. proc[p].pc \in {"loop", "gate", "arc", "return", "complete"}
    BY <1>2 DEF Call
  <2>2. /\ Only(p) /\ proc'[p].pc = "recover" /\ proc'[p].s = proc[p].s
        /\ proc'[p].cmd = proc[p].pc /\ proc'[p].base = proc[p].base
    BY <1>0, <1>2, CallChange DEF Becomes, Process
  <2> QED BY <2>1, <2>2 DEF Course, InChapter, Fenced
<1>3. CASE Choose(p)
  <2>1. proc[p].pc \notin Fenced
    BY <1>3 DEF Choose, Fenced
  <2>2. CASE SourceCurrent(p) /\ Becomes(p, [proc[p] EXCEPT !.base = Len(book), !.pc = "renew"])
    <3>1. Only(p) /\ proc'[p].pc = "renew" /\ proc'[p].s = proc[p].s /\ proc'[p].base = Len(book)
      BY <1>0, <2>2 DEF Becomes, Process
    <3> QED BY <2>1, <2>2, <3>1 DEF Course
  <2> QED BY <1>3, <2>2, ChooseChange, CourseFacts
<1>4. CASE Renew(p)
  <2>1. proc[p].pc = "renew"
    BY <1>4 DEF Renew
  <2>2. CASE Becomes(p, [proc[p] EXCEPT !.gen = Newest + 1, !.pc = "gate"])
    <3>1. Only(p) /\ proc'[p].pc = "gate" /\ proc'[p].s = proc[p].s /\ proc'[p].base = proc[p].base
      BY <1>0, <2>2 DEF Becomes, Process
    <3> QED BY <2>1, <3>1 DEF Course, InChapter, Fenced
  <2> QED BY <1>4, <2>2, RenewChange, CourseFacts
<1>5. CASE Stage(p)
  <2>1. proc[p].pc = "stage"
    BY <1>5 DEF Stage
  <2>2. CASE NextChapter(p) \in Chapters /\ Becomes(p, AfterStage(p))
    <3>1. Only(p) /\ proc'[p].pc \in {"commit", "renew"} /\ proc'[p].s = proc[p].s /\ proc'[p].base = proc[p].base
      BY <1>0, <2>2 DEF Becomes, AfterStage, Process
    <3> QED BY <2>1, <2>2, <3>1 DEF Course, InChapter, Fenced
  <2> QED BY <1>5, <2>2, StageChange, CourseFacts
<1>6. CASE Commit(p) \/ Deliver(p) \/ Record(p) \/ Drive(p) \/ Retry(p)
  <2>1. proc[p].pc \notin Fenced
    BY <1>6 DEF Commit, Deliver, Record, Drive, Retry, Fenced
  <2>2. \/ Becomes(p, Idle)
        \/ /\ Only(p) /\ proc'[p].pc \in {"deliver", "ledger", "loop", "arc", "return"}
           /\ proc'[p].s = proc[p].s /\ proc'[p].base = proc[p].base
    BY <1>0, <1>6, RunnerChange, DriveChange DEF Becomes, Process
  <2> QED BY <2>1, <2>2, CourseFacts
<1>7. CASE Crash(p) \/ CrashInPublish(p)
  BY <1>7, RunnerChange, CourseFacts
<1> QED BY <1>1, <1>2, <1>3, <1>4, <1>5, <1>6, <1>7 DEF ProcStep, RunnerStep

LEMMA PlanFacts ==
  ASSUME AutonomyAssumption, IInv
  PROVE  /\ book \in Seq(Sessions \cup {"edit"}) /\ Len(book) \in 0 .. MaxBook
         /\ "edit" \notin Sessions /\ "none" \notin Sessions /\ Requested \in Nat \ {0}
         /\ plan \in [Sessions -> Int] /\ ledger \in [Sessions -> Receipts]
         /\ \A s \in Sessions :
              /\ plan[s] \in Int /\ ledger[s] \in Receipts /\ Len(ledger[s]) \in Nat
              /\ \A k \in 1 .. Len(ledger[s]) : ledger[s][k] \in [after : 0 .. MaxBook, owed : BOOLEAN]
<1>1. WorkType /\ Len(book) <= MaxBook /\ MaxBook \in Nat
  BY TypeParts DEF IInv, Sized, AutonomyAssumption
<1>2. book \in Seq(Sessions \cup {"edit"}) /\ Len(book) \in 0 .. MaxBook
  BY <1>1 DEF WorkType
<1>3. plan \in [Sessions -> Int] /\ ledger \in [Sessions -> Receipts]
  <2>1. NoPlan .. MaxBook \subseteq Int
    BY <1>1 DEF NoPlan
  <2> QED BY <1>1, <2>1 DEF WorkType, Receipts
<1>4. ASSUME NEW s \in Sessions
      PROVE  /\ plan[s] \in Int /\ ledger[s] \in Receipts /\ Len(ledger[s]) \in Nat
             /\ \A k \in 1 .. Len(ledger[s]) : ledger[s][k] \in [after : 0 .. MaxBook, owed : BOOLEAN]
  <2>1. plan[s] \in Int /\ ledger[s] \in Receipts
    BY <1>3
  <2>2. Len(ledger[s]) \in Nat
    BY <2>1 DEF Receipts
  <2> QED BY <2>1, <2>2, ElementOfSeq DEF Receipts
<1>5. "edit" \notin Sessions /\ "none" \notin Sessions /\ Requested \in Nat \ {0}
  BY DEF AutonomyAssumption
<1> QED BY <1>2, <1>3, <1>4, <1>5

LEMMA CountedStep ==
  ASSUME AutonomyAssumption, IInv, PInv, Next
  PROVE  \A s \in Sessions : Counted(s)'
<1> SUFFICES ASSUME NEW s \in Sessions PROVE Fits(book', s, plan'[s], ledger'[s], undelivered')
  BY DEF Counted
<1>0. /\ Fits(book, s, plan[s], ledger[s], undelivered) /\ plan[s] \in Int /\ ledger[s] \in Receipts
      /\ book \in Seq(Sessions \cup {"edit"}) /\ s # "edit" /\ Requested \in Nat
      /\ ledger \in [Sessions -> Receipts] /\ plan \in [Sessions -> Int]
  BY PlanFacts DEF PInv, Counted
<1>1. CASE UNCHANGED work
  BY <1>0, <1>1 DEF work
<1>2. ASSUME NEW x \in Sessions \cup {"edit"}, book' = Append(book, x), UNCHANGED <<plan, ledger>>,
             undelivered' \subseteq undelivered \cup {Len(book) + 1},
             x = s => /\ Len(ledger[s]) < Requested
                      /\ Numbered(book, Len(book)) = Numbered(book, plan[s]) + Len(ledger[s])
      PROVE  Fits(book', s, plan'[s], ledger'[s], undelivered')
  BY <1>0, <1>2, FitsGrown
<1>3. CASE Edit
  BY <1>0, <1>2, <1>3 DEF Edit
<1>4. ASSUME NEW t \in Sessions, Preview(t) PROVE Fits(book', s, plan'[s], ledger'[s], undelivered')
  <2>1. /\ UNCHANGED <<book, undelivered, ledger>> /\ plan[t] = NoPlan
        /\ plan'[s] = IF t = s THEN Len(book) ELSE plan[s]
    BY <1>0, <1>4 DEF Preview
  <2>2. CASE t = s
    <3>1. Listed(book, s) = <<>> /\ ledger[s] = <<>>
      BY <2>1, <2>2 DEF PInv, Unplanned
    <3> QED BY <1>0, <2>1, <2>2, <3>1, FitsPlanned
  <2> QED BY <1>0, <2>1, <2>2
<1>5. ASSUME NEW p \in Procs, WorkMoves(p) PROVE Fits(book', s, plan'[s], ledger'[s], undelivered')
  <2>1. CASE /\ proc[p].pc = "commit" /\ Len(book) = proc[p].base /\ Changes(proc[p].s)
             /\ undelivered' = undelivered \cup {Len(book) + 1} /\ UNCHANGED <<plan, stages, ledger>>
    <3>1. InTurn(p) /\ InChapter(p) /\ proc[p].s \in Sessions
      BY <2>1, PlacedFacts DEF PInv, InChapter
    <3>2. proc[p].s = s =>
            /\ Len(ledger[s]) < Requested
            /\ Numbered(book, Len(book)) = Numbered(book, plan[s]) + Len(ledger[s])
      BY <2>1, <3>1 DEF InTurn
    <3> QED BY <1>2, <2>1, <3>1, <3>2 DEF Changes
  <2>2. CASE UNCHANGED <<plan, book, undelivered, ledger>>
    BY <1>0, <2>2
  <2>3. CASE undelivered' \subseteq undelivered /\ UNCHANGED <<plan, book>> /\ ledger'[s] = ledger[s]
    BY <1>0, <2>3, FitsDelivered
  <2>4. CASE /\ undelivered' \subseteq undelivered /\ UNCHANGED <<plan, book, stages>>
             /\ LET k == NextChapter(p) IN
                /\ proc[p].s \in Sessions /\ MayComplete(proc[p].s, k) /\ Complete(proc[p].s, k)
                /\ k \in 1 .. Len(Published(proc[p].s))
    <3> DEFINE k == NextChapter(p)
    <3>1. proc[p].s # s => ledger'[s] = ledger[s]
      BY <1>0, <2>4 DEF Complete
    <3>2. CASE proc[p].s = s
      <4>1. /\ k = Len(ledger[s]) + 1 /\ k \in 1 .. Len(Listed(book, s))
            /\ Numbered(book, Len(book)) = Numbered(book, plan[s]) + k
        BY <2>4, <3>2, PublishedIs DEF NextChapter, MayComplete, AtChapter
      <4>2. ledger'[s] = Append(ledger[s], [after |-> Len(book), owed |-> Listed(book, s)[k] \in undelivered'])
        BY <1>0, <2>4, <3>2, PublishedIs DEF Complete
      <4> HIDE DEF k
      <4>3. /\ book \in Seq(Sessions \cup {"edit"}) /\ plan[s] \in Int /\ ledger[s] \in Receipts
            /\ Fits(book, s, plan[s], ledger[s], undelivered) /\ Len(book) \in 0 .. MaxBook
        BY <1>0, PlanFacts
      <4>4. undelivered' \subseteq undelivered /\ UNCHANGED <<plan, book>>
        BY <2>4
      <4>5. Fits(book, s, plan[s], Append(ledger[s], [after |-> Len(book), owed |-> Listed(book, s)[k] \in undelivered']), undelivered')
        BY <4>1, <4>3, <4>4, FitsRecorded
      <4> QED BY <4>2, <4>4, <4>5
    <3> QED BY <2>3, <2>4, <3>1, <3>2
  <2> QED BY <1>1, <1>5, <2>1, <2>2, <2>3, <2>4 DEF WorkMoves
<1>6. CASE Tick
  BY <1>1, <1>6 DEF Tick
<1> QED BY <1>3, <1>4, <1>5, <1>6, Steps, WorkSteps

LEMMA WorkStill ==
  ASSUME AutonomyAssumption, IInv, NEW p \in Procs, WorkMoves(p), NEW s \in Sessions, book' = book,
         Numbered(book, Len(book)) = Numbered(book, plan[s]) + Len(ledger[s])
  PROVE  ledger'[s] = ledger[s]
<1>1. Numbered(book, Len(book)) # Numbered(book, plan[s]) + (Len(ledger[s]) + 1)
  <2>1. Numbered(book, plan[s]) \in Nat /\ Len(ledger[s]) \in Nat
    <3>1. plan[s] \in Int /\ book \in Seq(Sessions \cup {"edit"}) /\ plan[s] <= plan[s] /\ Len(ledger[s]) \in Nat
      BY PlanFacts
    <3> QED BY <3>1, Numbers
  <2> QED BY <2>1
<1>2. ASSUME proc[p].s = s PROVE ~MayComplete(s, NextChapter(p))
  BY <1>1, <1>2, PublishedIs DEF MayComplete, AtChapter, NextChapter
<1>3. ASSUME NEW t \in Sessions, NEW k, Complete(t, k), t # s PROVE ledger'[s] = ledger[s]
  BY <1>3, PlanFacts DEF Complete
<1>4. \/ ledger' = ledger
      \/ /\ proc[p].s \in Sessions /\ MayComplete(proc[p].s, NextChapter(p))
         /\ Complete(proc[p].s, NextChapter(p))
  BY Zenon DEF WorkMoves, work
<1>5. CASE proc[p].s = s
  BY <1>2, <1>4, <1>5
<1>6. CASE proc[p].s # s
  BY <1>3, <1>4, <1>6
<1> QED BY <1>5, <1>6

LEMMA CompletableStep ==
  ASSUME AutonomyAssumption, IInv, PInv, Next, NEW t \in Sessions, Completable(t)
  PROVE  Completable(t)'
<1>0. /\ Counted(t) /\ Counted(t)' /\ Len(ledger[t]) = Requested /\ Requested \in Nat
      /\ book \in Seq(Sessions \cup {"edit"}) /\ Len(book) \in Nat /\ t # "edit"
      /\ ledger \in [Sessions -> Receipts] /\ ledger[t] \in Receipts
      /\ Len(Listed(book, t)) \in Nat
      /\ \A k \in 1 .. Len(Listed(book, t)) : Listed(book, t)[k] \in 1 .. Len(book)
  <2>1. Counted(t) /\ Counted(t)' /\ Len(ledger[t]) = Requested
    BY CountedStep DEF PInv, Completable
  <2>2. /\ book \in Seq(Sessions \cup {"edit"}) /\ Len(book) \in Nat /\ t # "edit" /\ Requested \in Nat
        /\ ledger \in [Sessions -> Receipts] /\ ledger[t] \in Receipts
    BY PlanFacts
  <2>3. /\ Len(Listed(book, t)) \in Nat
        /\ \A k \in 1 .. Len(Listed(book, t)) : Listed(book, t)[k] \in 1 .. Len(book)
    BY <2>2, Lists
  <2> QED BY <2>1, <2>2, <2>3
<1>1. /\ \A k \in 1 .. Requested : ledger[t][k].owed => Listed(book, t)[k] \notin undelivered
      /\ \A k \in 1 .. Requested : k \in 1 .. Len(Listed(book, t))
  <2>1. Requested <= Len(Listed(book, t))
    BY <1>0 DEF Counted, Fits
  <2> QED BY <1>0, <2>1, PublishedIs DEF Completable, Blocked
<1>2. /\ Completable(t)' <=> /\ Len(ledger'[t]) = Requested
                             /\ ~\E k \in 1 .. Len(ledger'[t]) : ledger'[t][k].owed /\ Listed(book', t)[k] \in undelivered'
  BY PublishedIs DEF Completable, Blocked
<1>3. ASSUME ledger'[t] = ledger[t], Listed(book', t) = Listed(book, t),
             undelivered' \subseteq undelivered \cup {Len(book) + 1}
      PROVE  Completable(t)'
  <2>1. ASSUME NEW k \in 1 .. Requested PROVE Listed(book, t)[k] # Len(book) + 1
    BY <1>0, <1>1
  <2> QED BY <1>0, <1>1, <1>2, <1>3, <2>1
<1>4. CASE Edit
  BY <1>0, <1>3, <1>4, ListGrows DEF Edit
<1>5. CASE Tick \/ \E s \in Sessions : Preview(s)
  BY <1>3, <1>5 DEF Tick, Preview, work
<1>6. ASSUME NEW p \in Procs, WorkMoves(p) PROVE Completable(t)'
  <2>1. CASE UNCHANGED <<book, undelivered, ledger>>
    BY <1>3, <2>1
  <2>2. CASE /\ proc[p].pc = "commit" /\ Len(book) = proc[p].base /\ Changes(proc[p].s)
             /\ undelivered' = undelivered \cup {Len(book) + 1} /\ UNCHANGED <<plan, stages, ledger>>
    <3>1. InTurn(p) /\ InChapter(p) /\ proc[p].s \in Sessions
      BY <2>2, PlacedFacts DEF PInv, InChapter
    <3>2. proc[p].s # t
      BY <1>0, <2>2, <3>1 DEF InTurn
    <3>3. Listed(book', t) = Listed(book, t)
      <4>1. /\ proc[p].s \in Sessions \cup {"edit"} /\ book' = Append(book, proc[p].s)
            /\ book \in Seq(Sessions \cup {"edit"})
        BY <1>0, <2>2, <3>1 DEF Changes
      <4> QED BY <3>2, <4>1, ListGrows
    <3> QED BY <1>3, <2>2, <3>3
  <2>3. CASE undelivered' \subseteq undelivered /\ UNCHANGED book /\ ledger'[t] = ledger[t]
    BY <1>3, <2>3
  <2>4. ASSUME NEW k, proc[p].s \in Sessions, Complete(proc[p].s, k), undelivered' \subseteq undelivered, UNCHANGED book
        PROVE  Completable(t)'
    <3>1. CASE proc[p].s # t
      <4>1. ledger'[t] = ledger[t]
        BY <1>0, <2>4, <3>1 DEF Complete
      <4> QED BY <2>3, <2>4, <4>1
    <3>2. CASE proc[p].s = t
      <4> DEFINE r == [after |-> Len(book), owed |-> Published(t)[k] \in undelivered']
      <4>1. ledger'[t] = Append(ledger[t], r)
        BY <1>0, <2>4, <3>2 DEF Complete
      <4> HIDE DEF r
      <4>2. Len(ledger'[t]) = Requested + 1
        BY <1>0, <4>1 DEF Receipts
      <4>3. Len(ledger'[t]) <= Len(Listed(book', t)) /\ Len(Listed(book', t)) <= Requested
        BY <1>0 DEF Counted, Fits
      <4>4. Len(Listed(book', t)) \in Nat
        BY <1>0, <2>4
      <4> QED BY <1>0, <4>2, <4>3, <4>4
    <3> QED BY <3>1, <3>2
  <2> QED BY <1>6, <2>1, <2>2, <2>3, <2>4 DEF WorkMoves, work
<1> QED BY <1>4, <1>5, <1>6, Steps, WorkSteps

LEMMA EndingStep ==
  ASSUME AutonomyAssumption, IInv, PInv, Next
  PROVE  Ending'
<1>0. /\ ops \in Seq(Operation) /\ Ending /\ \A t \in Sessions : Completable(t) => Completable(t)'
      /\ ops # <<>> => Latest \in Operation /\ Latest.s \in Sessions
  BY TypeParts, CompletableStep, LatestFacts DEF IInv, PInv, FilesType
<1>1. CASE UNCHANGED ops
  <2>1. Latest' = Latest /\ (Unfinished' <=> Unfinished)
    BY <1>1 DEF Latest, Unfinished
  <2> QED BY <1>0, <2>1 DEF Ending, Unfinished
<1>2. ASSUME NEW p \in Procs, JournalMoves(p) PROVE Ending'
  <2>1. ASSUME NEW target, Begun(p, target) PROVE Ending'
    <3>1. Latest' = Intent(p, target)
      BY <1>0, <2>1, LatestAdded DEF Begun
    <3> QED BY <3>1 DEF Intent, Ending
  <2>2. CASE Marked(p)
    <3> DEFINE o == [Latest EXCEPT !.marker = TRUE, !.source = proc[p].base]
    <3>1. Latest' = o /\ o.s = Latest.s /\ o.type = Latest.type /\ Latest.s \in Sessions
      BY <1>0, <2>2, LatestReplaced DEF Marked, Operation
    <3>2. Latest.type = "complete" => Completable(Latest.s)
      <4> SUFFICES ASSUME Latest.type = "complete" PROVE Completable(Latest.s)
        OBVIOUS
      <4>1. Latest.type \notin Source /\ TerminalReady(Latest) /\ Latest.target # "none"
        BY <2>2, LatestFacts DEF Marked, Source
      <4>2. ~Latest.marker
        BY <2>2 DEF Marked, IInv, Placed
      <4>3. Len(events[Latest.s]) = Latest.event
        BY <2>2, <4>2 DEF Marked, IInv, Unsettled, Unfinished
      <4> QED BY <4>1, <4>3 DEF TerminalReady, EventNeeded
    <3> HIDE DEF o
    <3> QED BY <1>0, <3>1, <3>2 DEF Ending
  <2>3. CASE Born(p) \/ Forwarded(p)
    BY <1>1, <2>3 DEF Born, Forwarded
  <2>4. ASSUME NEW result \in {"completed", "rolled_back"}, Settled(p, result) PROVE Ending'
    <3> DEFINE o == [Latest EXCEPT !.result = result]
    <3>1. Latest' = o /\ o.result = result
      BY <1>0, <2>4, LatestReplaced DEF Settled, Operation
    <3> HIDE DEF o
    <3> QED BY <3>1 DEF Ending, Unfinished
  <2> QED BY <1>2, <2>1, <2>2, <2>3, <2>4 DEF JournalMoves
<1> QED BY <1>1, <1>2, Steps, QuietSteps, Journals DEF FilesQuiet, files

LEMMA EndedStep ==
  ASSUME AutonomyAssumption, IInv, PInv, Next
  PROVE  \A s \in Sessions : Ended(s)'
<1> SUFFICES ASSUME NEW s \in Sessions, State(s)' = "completed" PROVE Completable(s)'
  BY DEF Ended
<1>0. /\ Ended(s) /\ Ending
      /\ Completable(s) => Completable(s)'
      /\ events \in [Sessions -> Seq(EventTypes)] /\ events' \in [Sessions -> Seq(EventTypes)]
  BY TypeParts, FilesStep, CompletableStep DEF IInv, PInv, FilesType
<1>1. CASE events'[s] = events[s]
  <2>1. State(s)' = State(s)
    BY <1>1 DEF State
  <2> QED BY <1>0, <2>1 DEF Ended
<1>2. ASSUME NEW p \in Procs, Forwarded(p), events'[s] # events[s] PROVE Completable(s)
  <2>1. Latest \in Operation /\ s = Latest.s /\ Latest.target # "none" /\ Last(events'[s]) = Latest.target
    BY <1>2, ForwardedFacts
  <2>2. Latest.target = "completed"
    BY <1>0, <2>1, NextStateFacts
  <2>3. Latest.type = "complete" /\ Unfinished /\ Latest.marker
    BY <1>2, <2>2, LatestFacts DEF Targeted, Operation, OpTypes, Source, Forwarded, Unfinished
  <2>4. Completable(Latest.s)
    BY <1>0, <2>3 DEF Ending
  <2> QED BY <2>1, <2>4
<1>3. ASSUME NEW p \in Procs, ProcStep(p) PROVE UNCHANGED events \/ Forwarded(p)
  BY <1>3, QuietSteps, Journals DEF FilesQuiet, JournalMoves, Marked, Born, Settled
<1>4. events' = events \/ \E p \in Procs : Forwarded(p)
  BY <1>3, Steps DEF files
<1> QED BY <1>0, <1>1, <1>2, <1>4

LEMMA UnplannedJournal ==
  ASSUME AutonomyAssumption, IInv, NEW p \in Procs, ProcStep(p), NEW s \in Sessions,
         Unplanned(s), plan[s] = NoPlan
  PROVE  s \notin born' /\ \A i \in 1 .. Len(ops') : ops'[i].s # s
<1>0. /\ ops \in Seq(Operation) /\ s \notin born /\ \A i \in 1 .. Len(ops) : ops[i].s # s
      /\ proc[p].s = s => proc[p].cmd = "open"
      /\ ops # <<>> => Len(ops) \in 1 .. Len(ops) /\ Latest \in Operation
  BY TypeParts, PlacedFacts DEF IInv, FilesType, Unplanned
<1>1. ops # <<>> => Latest.s # s
  BY <1>0 DEF Latest
<1>2. CASE UNCHANGED <<ops, born>>
  BY <1>0, <1>2
<1>3. ASSUME NEW target, Begun(p, target), UNCHANGED born
      PROVE  s \notin born' /\ \A i \in 1 .. Len(ops') : ops'[i].s # s
  <2>1. proc[p].s # s /\ Intent(p, target).s = proc[p].s
    BY <1>0, <1>3 DEF Begun, OpTypes, Intent
  <2>2. /\ \A i \in 1 .. Len(ops) : ops'[i] = ops[i]
        /\ Latest' = Intent(p, target)
        /\ \A i \in 1 .. Len(ops') : i \in 1 .. Len(ops) \/ i = Len(ops')
    BY <1>0, <1>3, LatestAdded DEF Begun
  <2>3. ops'[Len(ops')].s # s
    BY <2>1, <2>2 DEF Latest
  <2> QED BY <1>0, <1>3, <2>2, <2>3
<1>4. ASSUME NEW o \in Operation, ops # <<>>, ops' = [ops EXCEPT ![Len(ops)] = o], o.s = Latest.s, UNCHANGED born
      PROVE  s \notin born' /\ \A i \in 1 .. Len(ops') : ops'[i].s # s
  BY <1>0, <1>1, <1>4, LatestReplaced
<1>5. CASE Marked(p)
  <2> DEFINE o == [Latest EXCEPT !.marker = TRUE, !.source = proc[p].base]
  <2>1. o \in Operation /\ o.s = Latest.s /\ ops # <<>> /\ ops' = [ops EXCEPT ![Len(ops)] = o] /\ UNCHANGED born
    BY <1>0, <1>5 DEF Marked, Operation
  <2> HIDE DEF o
  <2> QED BY <1>4, <2>1
<1>6. ASSUME NEW result \in {"completed", "rolled_back"}, Settled(p, result)
      PROVE  s \notin born' /\ \A i \in 1 .. Len(ops') : ops'[i].s # s
  <2> DEFINE o == [Latest EXCEPT !.result = result]
  <2>1. o \in Operation /\ o.s = Latest.s /\ ops # <<>> /\ ops' = [ops EXCEPT ![Len(ops)] = o] /\ UNCHANGED born
    BY <1>0, <1>6 DEF Settled, Operation
  <2> HIDE DEF o
  <2> QED BY <1>4, <2>1
<1>7. CASE Born(p)
  BY <1>0, <1>1, <1>7 DEF Born
<1> QED BY <1>2, <1>3, <1>5, <1>6, <1>7, QuietSteps, Journals DEF FilesQuiet, JournalMoves, Forwarded

LEMMA UnplannedStep ==
  ASSUME AutonomyAssumption, IInv, PInv, Next
  PROVE  \A s \in Sessions : Unplanned(s)'
<1> SUFFICES ASSUME NEW s \in Sessions, plan'[s] = NoPlan PROVE Unplanned(s)'
  BY DEF Unplanned
<1>0. /\ Unplanned(s) /\ s # "edit" /\ s # "none"
      /\ book \in Seq(Sessions \cup {"edit"}) /\ Len(book) \in Nat
      /\ plan \in [Sessions -> Int] /\ ledger \in [Sessions -> Receipts]
  BY PlanFacts DEF PInv
<1>1. ASSUME plan[s] = NoPlan, UNCHANGED <<ops, born, proc, ledger>>, Listed(book', s) = Listed(book, s)
      PROVE  Unplanned(s)'
  BY <1>0, <1>1 DEF Unplanned
<1>2. CASE Edit
  <2>1. Listed(book', s) = Listed(book, s)
    BY <1>0, <1>2, ListGrows DEF Edit
  <2> QED BY <1>1, <1>2, <2>1 DEF Edit, files
<1>3. CASE Tick
  BY <1>1, <1>3 DEF Tick, files, work
<1>4. ASSUME NEW t \in Sessions, Preview(t) PROVE Unplanned(s)'
  <2>1. plan[s] = NoPlan
    BY <1>0, <1>4 DEF Preview, NoPlan
  <2> QED BY <1>1, <1>4, <2>1 DEF Preview, files
<1>5. ASSUME NEW p \in Procs, ProcStep(p) PROVE Unplanned(s)'
  <2>1. WorkMoves(p) /\ Course(p) /\ plan' = plan
    <3>1. WorkMoves(p)
      BY <1>5, WorkSteps
    <3>2. Course(p)
      BY <1>5, FencedCourse, RunnerCourse
    <3>3. plan' = plan
      BY <3>1 DEF WorkMoves, work
    <3> QED BY <3>1, <3>2, <3>3
  <2>2. /\ plan[s] = NoPlan /\ Listed(book, s) = <<>> /\ ledger[s] = <<>> /\ s \notin born
        /\ \A q \in Procs : proc[q].s = s => proc[q].cmd = "open" /\ proc[q].pc \in Fenced
    BY <1>0, <2>1 DEF Unplanned
  <2>3. s \notin born' /\ \A i \in 1 .. Len(ops') : ops'[i].s # s
    BY <1>0, <1>5, <2>2, UnplannedJournal
  <2>4. Listed(book', s) = <<>>
    <3>1. CASE book' = book
      BY <2>2, <3>1
    <3>2. CASE proc[p].pc = "commit" /\ book' = Append(book, proc[p].s)
      <4>1. proc[p].s # s
        BY <2>2, <3>2 DEF Fenced
      <4>2. proc[p].s \in Sessions \cup {"edit"}
        BY <3>2, PlacedFacts
      <4>3. Listed(book', s) = Listed(book, s)
        BY <1>0, <3>2, <4>1, <4>2, ListGrows
      <4> QED BY <2>2, <4>3
    <3> QED BY <2>1, <3>1, <3>2 DEF WorkMoves, work, Changes
  <2>5. ledger'[s] = <<>>
    <3>1. ASSUME NEW k, Complete(proc[p].s, k), k \in 1 .. Len(Published(proc[p].s)), proc[p].s \in Sessions
          PROVE  ledger'[s] = <<>>
      <4>1. proc[p].s # s
        BY <2>2, <3>1, PublishedIs
      <4> QED BY <1>0, <2>2, <3>1, <4>1 DEF Complete
    <3> QED BY <2>1, <2>2, <3>1 DEF WorkMoves, work
  <2>6. \A q \in Procs : proc'[q].s = s => proc'[q].cmd = "open" /\ proc'[q].pc \in Fenced
    <3>1. ASSUME proc'[p].s = s PROVE proc'[p].cmd = "open" /\ proc'[p].pc \in Fenced
      <4>1. ASSUME NEW c \in Commands, NEW t \in Sessions, Command(p, c, t), proc'[p].s = t,
                   proc'[p].cmd = c, proc'[p].pc = "recover"
            PROVE  proc'[p].cmd = "open" /\ proc'[p].pc \in Fenced
        <5>1. c # "execute" /\ c \notin {"resume", "cancel", "abandon"} /\ c \in AllCommands
          BY <2>2, <3>1, <4>1 DEF Command, AutonomyAssumption
        <5> QED BY <4>1, <5>1 DEF AllCommands, Fenced
      <4> QED BY <1>0, <2>1, <2>2, <3>1, <4>1 DEF Course
    <3> QED BY <2>1, <2>2, <3>1 DEF Course, Only
  <2> QED BY <2>3, <2>4, <2>5, <2>6 DEF Unplanned
<1> QED BY <1>2, <1>3, <1>4, <1>5, Steps

\* A process whose source is current sees a book that ends where its session's ledger does.
LEMMA CurrentSource ==
  ASSUME AutonomyAssumption, IInv, NEW s \in Sessions, Counted(s), Len(book) = ExpectedSource(s)
  PROVE  Numbered(book, Len(book)) = Numbered(book, plan[s]) + Len(ledger[s])
<1>0. /\ ledger[s] \in Receipts /\ Len(ledger[s]) \in Nat /\ plan[s] \in Int
      /\ book \in Seq(Sessions \cup {"edit"})
  BY PlanFacts
<1>1. CASE ledger[s] = <<>>
  <2>1. Len(book) = plan[s] /\ Len(ledger[s]) = 0
    BY <1>1 DEF ExpectedSource
  <2>2. Numbered(book, plan[s]) \in Nat
    BY <1>0, Numbers
  <2> QED BY <2>1, <2>2
<1>2. CASE ledger[s] # <<>>
  <2>1. Len(ledger[s]) \in 1 .. Len(ledger[s]) /\ Len(book) = ledger[s][Len(ledger[s])].after
    BY <1>0, <1>2 DEF ExpectedSource, Receipts, Last
  <2> QED BY <2>1 DEF Counted, Fits
<1> QED BY <1>1, <1>2

LEMMA InTurnStep ==
  ASSUME AutonomyAssumption, IInv, PInv, Next
  PROVE  \A q \in Procs : InTurn(q)'
<1> SUFFICES ASSUME NEW q \in Procs PROVE InTurn(q)'
  OBVIOUS
<1> DEFINE s == proc[q].s
           AtEnd == Numbered(book, Len(book)) = Numbered(book, plan[s]) + Len(ledger[s])
<1>0. /\ InTurn(q) /\ proc[q].base \in Nat /\ Len(book) \in Nat /\ book \in Seq(Sessions \cup {"edit"})
      /\ proc[q].pc # "idle" => s \in Sessions
      /\ \A t \in Sessions : Counted(t) /\ Unplanned(t)
  BY PlanFacts, PlacedFacts DEF PInv, Process
<1>1. CASE Edit
  <2>1. UNCHANGED <<proc, plan, ledger>> /\ Len(book') = Len(book) + 1
    BY <1>0, <1>1, AppendProperties DEF Edit
  <2>2. proc[q].base <= Len(book') /\ proc[q].base # Len(book')
    BY <1>0, <2>1 DEF InTurn
  <2> QED BY <2>1, <2>2 DEF InTurn
<1>2. CASE Tick
  BY <1>0, <1>2 DEF Tick, work, InTurn, InChapter
<1>3. ASSUME NEW t \in Sessions, Preview(t) PROVE InTurn(q)'
  <2>1. /\ UNCHANGED <<proc, book, ledger>> /\ plan[t] = NoPlan
        /\ t # s => plan'[s] = plan[s]
    BY <1>3 DEF Preview
  <2>2. InChapter(q) => t # s
    BY <1>0, <2>1 DEF Unplanned, InChapter, Fenced
  <2> QED BY <1>0, <2>1, <2>2 DEF InTurn, InChapter
<1>4. ASSUME NEW p \in Procs, ProcStep(p) PROVE InTurn(q)'
  <2>1. WorkMoves(p) /\ Course(p) /\ Turns(p) /\ plan' = plan
    <3>1. WorkMoves(p)
      BY <1>4, WorkSteps
    <3>2. Course(p)
      BY <1>4, FencedCourse, RunnerCourse
    <3>3. plan' = plan
      BY <3>1 DEF WorkMoves, work
    <3>4. Turns(p)
      BY <1>4, FencedTurns, RunnerTurns
    <3> QED BY <3>1, <3>2, <3>3, <3>4
  <2>2. book' = book \/ Len(book') = Len(book) + 1
    <3>1. ASSUME NEW x \in Sessions, book' = Append(book, x) PROVE Len(book') = Len(book) + 1
      BY <1>0, <3>1, AppendProperties
    <3>2. proc[p].pc # "idle" => proc[p].s \in Sessions
      BY PlacedFacts
    <3> QED BY <2>1, <3>1, <3>2 DEF WorkMoves, work, Changes
  <2>3. Len(book) <= Len(book')
    BY <1>0, <2>2
  <2>4. proc'[q].base \in {0, proc[q].base, Len(book)}
    BY <2>1 DEF Course, Only
  <2>5. proc'[q].base <= Len(book) /\ proc'[q].base <= Len(book')
    BY <1>0, <2>2, <2>3, <2>4 DEF InTurn
  <2>6. ASSUME InChapter(q)', Len(book') = proc'[q].base
        PROVE  /\ Numbered(book', Len(book')) = Numbered(book', plan'[proc'[q].s]) + Len(ledger'[proc'[q].s])
               /\ proc'[q].pc = "commit" => Len(ledger'[proc'[q].s]) < Requested
    <3>1. book' = book /\ proc'[q].base = Len(book)
      BY <1>0, <2>2, <2>5, <2>6
    <3>2. proc'[q].s = s /\ s \in Sessions
      <4>1. CASE q = p
        <5>1. proc'[q].pc # "idle"
          BY <2>6 DEF InChapter, Fenced
        <5> QED BY <2>1, <2>6, <4>1, <5>1 DEF Course, Turns
      <4>2. CASE q # p
        <5>1. proc'[q] = proc[q] /\ proc[q].pc # "idle"
          BY <2>1, <2>6, <4>2 DEF InChapter, Fenced, Course, Only
        <5> QED BY <1>0, <5>1
      <4> QED BY <4>1, <4>2
    <3>3. AtEnd
      <4>1. CASE InChapter(q) /\ proc'[q].base = proc[q].base
        BY <1>0, <3>1, <4>1 DEF InTurn
      <4>2. CASE q = p /\ SourceCurrent(p)
        BY <1>0, <3>2, <4>2, CurrentSource DEF SourceCurrent
      <4>3. CASE q # p
        <5>1. proc'[q] = proc[q]
          BY <2>1, <4>3 DEF Course, Only
        <5>2. InChapter(q)
          BY <2>6, <5>1 DEF InChapter
        <5> QED BY <4>1, <5>1, <5>2
      <4> QED BY <2>1, <2>6, <4>1, <4>2, <4>3 DEF Course
    <3>4. ledger'[s] = ledger[s]
      BY <2>1, <3>1, <3>2, <3>3, WorkStill
    <3>5. proc'[q].pc = "commit" => Len(ledger[s]) < Requested
      <4> SUFFICES ASSUME proc'[q].pc = "commit" PROVE Len(ledger[s]) < Requested
        OBVIOUS
      <4>1. CASE q = p
        <5>1. Len(ledger[s]) + 1 \in Chapters
          BY <2>1, <4>1 DEF Course, NextChapter
        <5>2. Len(ledger[s]) \in Nat /\ Requested \in Nat
          BY <3>2, PlanFacts
        <5> QED BY <5>1, <5>2 DEF Chapters
      <4>2. CASE q # p
        <5>1. proc'[q] = proc[q]
          BY <2>1, <4>2 DEF Course, Only
        <5>2. InChapter(q) /\ proc[q].pc = "commit"
          BY <5>1 DEF InChapter
        <5> QED BY <1>0, <3>1, <5>1, <5>2 DEF InTurn
      <4> QED BY <4>1, <4>2
    <3> QED BY <2>1, <3>1, <3>2, <3>3, <3>4, <3>5
  <2> HIDE DEF AtEnd
  <2> QED BY <2>5, <2>6 DEF InTurn
<1> QED BY <1>1, <1>2, <1>3, <1>4, Steps

LEMMA PlanInitially ==
  ASSUME AutonomyAssumption, Init
  PROVE  PInv
<1>1. \A s \in Sessions : Listed(book, s) = <<>>
  <2>1. ASSUME NEW s PROVE Listed(<<>>, s) = <<>>
    <3>1. Of(<<>>, s) = {}
      BY DEF Of
    <3>2. Cardinality(Of(<<>>, s)) = 0
      BY <3>1, FS_EmptySet
    <3> QED BY <3>2 DEF Listed
  <2> QED BY <2>1 DEF Init
<1>2. \A s \in Sessions : Unplanned(s)
  <2>1. "none" \notin Sessions
    BY DEF AutonomyAssumption
  <2> QED BY <1>1, <2>1 DEF Init, Unplanned, Idle
<1>3. \A s \in Sessions : Counted(s)
  BY <1>1 DEF Init, Counted, Fits, NoPlan, AutonomyAssumption
<1>4. \A s \in Sessions : Ended(s)
  BY DEF Init, Ended, State
<1>5. \A p \in Procs : InTurn(p)
  BY DEF Init, InTurn, InChapter, Idle, Fenced
<1>6. Ending
  BY DEF Init, Ending, Unfinished
<1> QED BY <1>2, <1>3, <1>4, <1>5, <1>6 DEF PInv

LEMMA PlanStutters ==
  ASSUME PInv, UNCHANGED vars
  PROVE  PInv'
<1> USE DEF vars
<1>1. \A s \in Sessions : Unplanned(s)' /\ Counted(s)'
  BY DEF PInv, Unplanned, Counted
<1>2. \A s \in Sessions : Completable(s)' <=> Completable(s)
  BY PublishedIs DEF Completable, Blocked
<1>3. \A s \in Sessions : Ended(s)'
  BY <1>2 DEF PInv, Ended, State
<1>4. \A p \in Procs : InTurn(p)'
  BY DEF PInv, InTurn, InChapter
<1>5. Ending'
  BY PublishedIs DEF PInv, Ending, Unfinished, Latest, Completable, Blocked
<1> QED BY <1>1, <1>3, <1>4, <1>5 DEF PInv

LEMMA PlanInvariance ==
  ASSUME AutonomyAssumption
  PROVE  Spec => [](IInv /\ PInv)
<1>1. Init => IInv /\ PInv
  BY Initially, PlanInitially
<1>2. IInv /\ PInv /\ [Next]_vars => (IInv /\ PInv)'
  <2> SUFFICES ASSUME IInv, PInv, [Next]_vars PROVE IInv' /\ PInv'
    OBVIOUS
  <2>1. IInv'
    BY Inductive
  <2>2. CASE Next
    BY <2>1, <2>2, CountedStep, EndedStep, EndingStep, UnplannedStep, InTurnStep DEF PInv
  <2>3. CASE UNCHANGED vars
    BY <2>1, <2>3, PlanStutters
  <2> QED BY <2>1, <2>2, <2>3
<1> QED BY <1>1, <1>2, PTL DEF Spec

-----------------------------------------------------------------------------
(* The theorems.                                                           *)

\* Whatever the processes do and wherever they crash, every file and every process has its
\* shape, and current.json never runs ahead of the lease history (lease.py:_publish writes
\* the history first, _reconcile_history_head rolls the head forward to it).
THEOREM TypeCorrect ==
  ASSUME AutonomyAssumption
  PROVE  Spec => []TypeOK
<1>1. IInv => TypeOK
  BY DEF IInv
<1> QED BY <1>1, Invariance, PTL

\* The stage receipts of one chapter are fenced by leases of one session, with no other owner
\* between two of them (receipts.py: an append checks that its lease descends from the fence of
\* the last stage).
THEOREM OneWriterEver ==
  ASSUME AutonomyAssumption
  PROVE  Spec => []OneWriterPerChapter
<1>1. IInv => OneWriterPerChapter
  BY DEF IInv
<1> QED BY <1>1, Invariance, PTL

LEMMA SerialJournal ==
  ASSUME AutonomyAssumption, IInv
  PROVE  JournalIsSerial
BY DEF IInv, Journalled, Intended, JournalIsSerial

LEMMA NoLeaseKept ==
  ASSUME AutonomyAssumption, IInv
  PROVE  InactiveHoldsNoLease
<1>1. Pending = {} => ~Unfinished
  BY PendingIsLatest
<1> QED BY <1>1 DEF IInv, Freed, Loose, InactiveHoldsNoLease

LEMMA HalvesRecoverable ==
  ASSUME AutonomyAssumption, IInv, PInv
  PROVE  RecoverableHalves
<1> SUFFICES ASSUME NEW i \in Oldest
             PROVE  /\ ops[i].type \in Source /\ ~ops[i].marker => ~BackRaises(ops[i])
                    /\ ops[i].type \notin Source /\ ops[i].marker => ~ForwardRaises(ops[i])
  BY DEF RecoverableHalves
<1>1. i \in Pending /\ Unfinished /\ i = Len(ops) /\ ops[i] = Latest
  BY PendingIsLatest DEF Oldest, Latest
<1> DEFINE o == Latest
<1>2. /\ o.s \in Sessions /\ o.event \in Nat
      /\ o.target = "none" => o.from = "active" /\ o.type \in Source
  BY <1>1, LatestFacts DEF Unfinished
<1>3. /\ \/ Len(events[o.s]) = o.event /\ State(o.s) = o.from
         \/ o.marker /\ Len(events[o.s]) = o.event + 1 /\ o.target # "none" /\ Last(events[o.s]) = o.target
      /\ ~o.marker /\ o.from = "absent" => o.s \notin born
      /\ o.marker /\ o.type \notin Source => ~Foreign(o.s)
  BY <1>1 DEF IInv, Unsettled
<1>4. ASSUME o.type \in Source, ~o.marker PROVE ~BackRaises(o)
  BY <1>3, <1>4 DEF BackRaises
<1>5. ASSUME o.type \notin Source, o.marker PROVE ~ForwardRaises(o)
  <2>1. o.type = "complete" => Completable(o.s)
    BY <1>1, <1>5 DEF PInv, Ending
  <2>2. TerminalReady(o) /\ EventMatches(o)
    BY <1>2, <1>3, <1>5, <2>1 DEF TerminalReady, EventMatches
  <2> QED BY <1>5, <2>2 DEF ForwardRaises
<1> HIDE DEF o
<1>6. ops[i] = o
  BY <1>1 DEF o
<1> QED BY <1>4, <1>5, <1>6

\* The journal never has two operations without a result and no event without a committed
\* intention; a session that is not active keeps no lease once its operations are settled;
\* and recovery can settle an uncommitted source operation and a committed terminal one at
\* any time (session.py:_reconcile_orphans_fenced, _roll_forward_terminal_transition).
THEOREM JournalHoldsAlways ==
  ASSUME AutonomyAssumption
  PROVE  Spec => []JournalHolds
<1>1. IInv /\ PInv => JournalHolds
  BY SerialJournal, NoLeaseKept, HalvesRecoverable DEF JournalHolds
<1> QED BY <1>1, PlanInvariance, PTL

LEMMA PlanKept ==
  ASSUME AutonomyAssumption, IInv, PInv
  PROVE  PublishedAsPlanned
<1> SUFFICES ASSUME NEW s \in Sessions
             PROVE  /\ Len(Published(s)) <= Requested /\ Len(Published(s)) <= Len(ledger[s]) + 1
                    /\ \A k \in 1 .. Len(Published(s)) :
                          NumberOf(Published(s)[k]) = NumberOf(plan[s]) + k
  BY DEF PublishedAsPlanned
<1>1. Counted(s)
  BY DEF PInv
<1> QED BY <1>1, PublishedIs DEF Counted, Fits

LEMMA Completed ==
  ASSUME AutonomyAssumption, IInv, PInv
  PROVE  CompletedInFull
<1> SUFFICES ASSUME NEW s \in Sessions, State(s) = "completed"
             PROVE  /\ Len(ledger[s]) = Requested /\ Len(Published(s)) = Requested
                    /\ \A k \in Chapters : Published(s)[k] \notin undelivered
  BY DEF CompletedInFull
<1>1. Completable(s) /\ Counted(s) /\ Requested \in Nat /\ Published(s) = Listed(book, s)
  BY PublishedIs, PlanFacts DEF PInv, Ended
<1>2. Len(ledger[s]) = Requested /\ Len(Listed(book, s)) \in Nat
  <2>1. book \in Seq(Sessions \cup {"edit"})
    BY PlanFacts
  <2> QED BY <1>1, <2>1, Lists DEF Completable
<1>3. Len(Published(s)) = Requested
  BY <1>1, <1>2 DEF Counted, Fits
<1>4. ASSUME NEW k \in Chapters PROVE Published(s)[k] \notin undelivered
  <2>1. ledger[s][k].owed => Published(s)[k] \notin undelivered
    BY <1>1, <1>2 DEF Completable, Blocked, Chapters
  <2>2. ~ledger[s][k].owed => Published(s)[k] \notin undelivered
    BY <1>1, <1>2 DEF Counted, Fits, Chapters
  <2> QED BY <2>1, <2>2
<1> QED BY <1>2, <1>3, <1>4

\* The k-th chapter a session publishes is the k-th of its plan, none is published twice, skipped
\* or beyond what was requested, with the ledger at most one chapter behind (runner.py:_drive,
\* _recover_committed_boundary); and a session that is completed has published every chapter it
\* was asked for and owes no delivery (session.py:_assert_terminal_transition_ready).
THEOREM PlanFollowed ==
  ASSUME AutonomyAssumption
  PROVE  Spec => []ChaptersAsPlanned
<1>1. IInv /\ PInv => ChaptersAsPlanned
  BY PlanKept, Completed DEF ChaptersAsPlanned
<1> QED BY <1>1, PlanInvariance, PTL

-----------------------------------------------------------------------------
(* The stages of a session's chapters (ChapterStages).                     *)

\* A sequence of something.
IsSeq(s) == \E S : s \in Seq(S)

\* Where the runner works on a chapter.
Inside == {"outline", "mark", "record", "load", "stage", "gate", "publish"}
\* The text a stage is given, by the receipt before it.
Handed(r) == IF r.stage = "validator" THEN r.input.text ELSE r.output.text
\* What a stage past the draft is given, by its receipt.
Given(r, i, notes) ==
    r[i].input.text = Handed(r[i - 1]) /\ (r[i].stage = "validator" => r[i].input.ground.notes = notes)
\* What the text a validator is given was made from.
MadeFrom(r) == IF r.stage = "repair" THEN r.input.text ELSE 0

\* What is durable, and what of it belongs together.
Shaped ==
    /\ targets = [c \in Book |-> targets[c]] /\ marked = [c \in Book |-> marked[c]]
    /\ \A c \in Book : targets[c] = [carried |-> targets[c].carried, fulfilled |-> targets[c].fulfilled]
    /\ chain = [c \in Book |-> chain[c]] /\ outputs = [c \in Book |-> outputs[c]]
    /\ \A c \in Book : IsSeq(marked[c]) /\ IsSeq(chain[c])
    /\ IsSeq(published) /\ IsSeq(completions)
    /\ Len(completions) >= 1 /\ Len(published) \in {Done, Done + 1} /\ Len(published) <= ChapterCount

\* A verdict is that on the text of the i-th receipt, a validator's, and one of the two refused it.
Refused(r, i, verdict) ==
    ~Passed(r, i) /\ verdict.ok = r[i].output.ok /\ verdict.sound = Intact(r, i)

\* The receipts of a chapter, each with the answer that was kept.
Linked(c) ==
    /\ chain[c] # <<>> => chain[c][1].stage = "outline" /\ chain[c][1].succeeded
    /\ \A i \in 1 .. Len(chain[c]) : chain[c][i].stage \in DOMAIN After
    /\ \A i \in 2 .. Len(chain[c]) :
         /\ chain[c][i].stage = After[chain[c][i - 1].stage]
         /\ chain[c][i].stage = "repair" => Refused(chain[c], i - 1, chain[c][i].input.verdict)
    /\ Accounted(c)
    /\ \A o, q \in outputs[c] : o.after = q.after /\ o.stage = q.stage /\ o.input = q.input => o = q

\* Targets are fulfilled in their order, and those before a chapter with an outline are.
InOrder ==
    /\ Fulfilled
    /\ \A c \in 1 .. Len(published) : published[c].target = targets[c].carried
    /\ \A c \in 1 .. Done : c < Len(published) => targets[c].fulfilled # "open"
    /\ \A c \in Book : marked[c] # <<>> => \A d \in 1 .. c - 1 : targets[d].fulfilled # "open"

Durable ==
    /\ Shaped /\ InOrder /\ \A c \in Book : Linked(c)
    /\ \A i \in 1 .. Len(published) : Told(published[i])

\* The runner: the chapter it works on is the next one, and everything before is settled.
Due ==
    /\ {"at", "chapter", "base", "checkpoint", "ground", "cursor", "stage", "text", "from", "verdict",
      "repairs"} \subseteq DOMAIN run
    /\ run = [f \in DOMAIN run |-> run[f]]
    /\ run.at \in {"idle", "fulfil", "check", "complete"} \cup Inside
    /\ run.at \notin {"idle", "complete"} => Len(published) = Done
    /\ run.at = "complete" => Len(published) = Done + 1
    /\ run.at \in Inside => Chapter = Done + 1 /\ Chapter \in Book
    /\ run.at \notin {"idle", "fulfil"} => \A c \in 1 .. Done : targets[c].fulfilled # "open"
    /\ run.at \in Inside \ {"outline"} => run.checkpoint.scope.target = targets[Chapter].carried

\* Up to its cursor the runner has been through the receipts: they are what this run gives its stages.
Walked ==
    /\ run.at \in {"load", "stage", "gate", "publish"} =>
         chain[Chapter] # <<>> /\ chain[Chapter][1] = OutlineReceipt
    /\ run.at = "load" => run.cursor = 1
    /\ run.at \in {"stage", "gate", "publish"} =>
         /\ run.cursor \in 1 .. Len(chain[Chapter]) /\ run.ground.outline = run.checkpoint.text
         /\ \A i \in 2 .. run.cursor : i <= 3 => chain[Chapter][i].input.ground = run.ground
         /\ \A i \in 4 .. run.cursor : Given(chain[Chapter], i, run.ground.notes)
         /\ run.cursor >= 3 => run.text = Handed(chain[Chapter][run.cursor])
    /\ run.at = "stage" =>
         /\ run.cursor = 1 => run.stage = "scene_plan"
         /\ run.cursor = 2 => run.stage = "draft"
         /\ run.cursor = 3 => run.stage = "polish" /\ run.from = 0
         /\ run.cursor >= 4 => run.stage \in {"validator", "repair"}
         /\ run.stage = "validator" => run.from = MadeFrom(chain[Chapter][run.cursor])
         /\ run.stage = "repair" => Refused(chain[Chapter], run.cursor, run.verdict)
    /\ run.at \in {"gate", "publish"} =>
         /\ run.cursor >= 4 /\ chain[Chapter][run.cursor].stage = "validator"
         /\ Passed(chain[Chapter], run.cursor)

SInv == StagesAssumption /\ Durable /\ Due /\ Walked

\* What no step takes back.
Grows ==
    /\ \A c \in Book :
         /\ IsPrefix(chain[c], chain'[c]) /\ outputs[c] \subseteq outputs'[c]
         /\ targets[c].fulfilled # "open" => targets'[c] = targets[c]
         /\ marked[c] # <<>> => targets'[c].carried = targets[c].carried
    /\ IsPrefix(published, published') /\ IsPrefix(completions, completions')

-----------------------------------------------------------------------------
LEMMA SeqEnds ==
  ASSUME NEW s, IsSeq(s)
  PROVE  /\ Len(s) \in Nat /\ DOMAIN s = 1 .. Len(s) /\ (s = <<>> <=> Len(s) = 0) /\ IsPrefix(s, s)
         /\ \A e : /\ IsSeq(Append(s, e)) /\ Len(Append(s, e)) = Len(s) + 1 /\ Append(s, e)[Len(s) + 1] = e
                   /\ \A i \in 1 .. Len(s) : Append(s, e)[i] = s[i]
                   /\ IsPrefix(s, Append(s, e))
<1>1. PICK S : s \in Seq(S)
  BY DEF IsSeq
<1>2. Len(s) \in Nat /\ DOMAIN s = 1 .. Len(s) /\ (s = <<>> <=> Len(s) = 0)
  BY <1>1
<1>3. ASSUME NEW e
      PROVE  /\ IsSeq(Append(s, e)) /\ Len(Append(s, e)) = Len(s) + 1 /\ Append(s, e)[Len(s) + 1] = e
             /\ \A i \in 1 .. Len(s) : Append(s, e)[i] = s[i]
             /\ IsPrefix(s, Append(s, e))
  <2>1. s \in Seq(S \cup {e}) /\ e \in S \cup {e}
    BY <1>1
  <2>2. /\ Append(s, e) \in Seq(S \cup {e}) /\ Len(Append(s, e)) = Len(s) + 1 /\ Append(s, e)[Len(s) + 1] = e
        /\ \A i \in 1 .. Len(s) : Append(s, e)[i] = s[i]
    BY <2>1
  <2>3. SubSeq(s, 1, Len(s)) = SubSeq(Append(s, e), 1, Len(s))
    BY <1>2, <2>1, <2>2
  <2> QED
    BY <1>2, <2>2, <2>3 DEF IsSeq, IsPrefix
<1>4. IsPrefix(s, s)
  BY <1>2 DEF IsPrefix
<1> QED
  BY <1>2, <1>3, <1>4

-----------------------------------------------------------------------------
LEMMA StagesStart ==
  ASSUME StagesAssumption, StagesInit
  PROVE  SInv
<1>1. /\ targets = [c \in Book |-> Open] /\ marked = [c \in Book |-> <<>>] /\ chain = [c \in Book |-> <<>>]
      /\ outputs = [c \in Book |-> {}] /\ published = <<>> /\ run = Resting
      /\ Len(completions) = 1 /\ Done = 0
  BY DEF StagesInit, Done
<1>2. IsSeq(published) /\ IsSeq(completions) /\ IsSeq(<<>>)
  <2>1. completions \in Seq({[target |-> 0, after |-> Snapshot]}) /\ <<>> \in Seq({})
    BY DEF StagesInit
  <2> QED
    BY <1>1, <2>1 DEF IsSeq
<1>3. Shaped
  BY <1>1, <1>2 DEF Shaped, Open, StagesAssumption
<1>4. \A c \in Book : Linked(c)
  BY <1>1 DEF Linked, Accounted
<1>5. InOrder
  BY <1>1 DEF InOrder, Fulfilled, Open, Book, StagesAssumption
<1>6. Due
  BY <1>1 DEF Due, Resting, Inside
<1>7. Walked
  BY <1>1 DEF Walked, Resting
<1> QED
  BY <1>1, <1>3, <1>4, <1>5, <1>6, <1>7 DEF SInv, Durable

\* Nothing durable but the staged outlines is touched.
Untouched == UNCHANGED <<targets, marked, chain, outputs, published, completions>>

LEMMA SameLinks ==
  ASSUME NEW c, Linked(c), chain'[c] = chain[c], outputs'[c] = outputs[c]
  PROVE  Linked(c)'
<1>1. Accounted(c)'
  BY DEF Linked, Accounted
<1> QED
  BY <1>1 DEF Linked

LEMMA SameDurable ==
  ASSUME SInv, Untouched
  PROVE  Durable' /\ Grows
<1>1. Shaped'
  BY DEF SInv, Durable, Shaped, Untouched, Done
<1>2. ASSUME NEW c \in Book
      PROVE  Linked(c)'
  BY SameLinks DEF SInv, Durable, Untouched
<1>3. InOrder'
  BY DEF SInv, Durable, InOrder, Fulfilled, Untouched, Done
<1>4. \A i \in 1 .. Len(published') : Told(published'[i])
  BY DEF SInv, Durable, Untouched
<1>5. Grows
  BY SeqEnds DEF SInv, Durable, Shaped, Untouched, Grows
<1> QED
  BY <1>1, <1>2, <1>3, <1>4, <1>5 DEF Durable

-----------------------------------------------------------------------------
LEMMA SameRunner ==
  ASSUME SInv, UNCHANGED <<run, chain, targets, published, completions>>
  PROVE  Due' /\ Walked'
<1>1. Due'
  BY DEF SInv, Due, Done, Chapter
<1>2. Walked /\ run' = run /\ chain' = chain
  BY DEF SInv
<1>3. Walked'
  BY <1>2 DEF Walked, OutlineReceipt, Chapter
<1> QED
  BY <1>1, <1>3

LEMMA AtRest ==
  ASSUME run' = Resting
  PROVE  Due' /\ Walked'
BY DEF Due, Walked, Resting, Inside

LEMMA EditKeeps ==
  ASSUME SInv, AuthorEdits
  PROVE  SInv' /\ Grows
<1>1. Durable' /\ Grows
  BY SameDurable DEF AuthorEdits, Untouched
<1>2. Due' /\ Walked'
  BY SameRunner DEF AuthorEdits
<1> QED
  BY <1>1, <1>2 DEF SInv, StagesAssumption

LEMMA StopKeeps ==
  ASSUME SInv, Stop
  PROVE  SInv' /\ Grows
<1>1. Durable' /\ Grows
  BY SameDurable DEF Stop, Untouched
<1>2. Due' /\ Walked'
  BY AtRest DEF Stop
<1> QED
  BY <1>1, <1>2 DEF SInv, StagesAssumption

LEMMA CheckKeeps ==
  ASSUME SInv, Check
  PROVE  SInv' /\ Grows
<1>1. Durable' /\ Grows
  BY SameDurable DEF Check, Untouched
<1>2. CASE Done = ChapterCount
  <2>1. Due' /\ Walked'
    BY <1>2, AtRest DEF Check
  <2> QED
    BY <1>1, <2>1 DEF SInv, StagesAssumption
<1>3. CASE Done # ChapterCount
  <2>1. /\ run' = [run EXCEPT !.at = "outline", !.chapter = Done + 1, !.base = Snapshot]
        /\ UNCHANGED <<targets, published, completions, chain>>
    BY <1>3 DEF Check
  <2>2. /\ DOMAIN run' = DOMAIN run /\ run' = [f \in DOMAIN run' |-> run'[f]]
        /\ run'.at = "outline" /\ run'.chapter = Done + 1
    BY <2>1 DEF SInv, Due
  <2>3. Done + 1 \in Book
    <3>1. Len(completions) \in Nat /\ Len(published) \in Nat
      BY SeqEnds DEF SInv, Durable, Shaped
    <3> QED
      BY <1>3, <3>1 DEF SInv, Durable, Shaped, Done, Book, StagesAssumption
  <2>4. Len(published) = Done /\ \A c \in 1 .. Done : targets[c].fulfilled # "open"
    BY DEF SInv, Due, Check, Inside
  <2>5. Due'
    BY <2>1, <2>2, <2>3, <2>4 DEF SInv, Due, Done, Inside, Chapter
  <2>6. Walked'
    BY <2>2 DEF Walked
  <2> QED
    BY <1>1, <2>5, <2>6 DEF SInv, StagesAssumption
<1> QED
  BY <1>2, <1>3

LEMMA ReuseKeeps ==
  ASSUME SInv, ReuseOutline
  PROVE  SInv' /\ Grows
<1>1. Durable' /\ Grows
  BY SameDurable DEF ReuseOutline, Untouched
<1>2. /\ run' = [run EXCEPT !.at = "record", !.checkpoint = LatestOutline]
      /\ UNCHANGED <<targets, published, completions, chain>> /\ run.at = "outline"
  BY DEF ReuseOutline, OutlineReady
<1>3. /\ DOMAIN run' = DOMAIN run /\ run' = [f \in DOMAIN run' |-> run'[f]]
      /\ run'.at = "record" /\ run'.chapter = run.chapter /\ run'.checkpoint = LatestOutline
  BY <1>2 DEF SInv, Due
<1>4. LatestOutline.scope.target = targets[Chapter].carried
  BY DEF ReuseOutline, Reusable, Scope
<1>5. Due'
  BY <1>2, <1>3, <1>4 DEF SInv, Due, Done, Inside, Chapter
<1>6. Walked'
  BY <1>3 DEF Walked
<1> QED
  BY <1>1, <1>5, <1>6 DEF SInv, StagesAssumption

LEMMA StageOutlineKeeps ==
  ASSUME SInv, StageOutline
  PROVE  SInv' /\ Grows
<1>1. Durable' /\ Grows
  BY SameDurable DEF StageOutline, Untouched
<1>2. /\ run' = [run EXCEPT !.at = "mark", !.checkpoint = Checkpoint(Scope)]
      /\ UNCHANGED <<targets, published, completions, chain>> /\ run.at = "outline"
  BY DEF StageOutline, OutlineReady
<1>3. /\ DOMAIN run' = DOMAIN run /\ run' = [f \in DOMAIN run' |-> run'[f]]
      /\ run'.at = "mark" /\ run'.chapter = run.chapter /\ run'.checkpoint = Checkpoint(Scope)
  BY <1>2 DEF SInv, Due
<1>4. Checkpoint(Scope).scope.target = targets[Chapter].carried
  BY DEF Checkpoint, Scope
<1>5. Due'
  BY <1>2, <1>3, <1>4 DEF SInv, Due, Done, Inside, Chapter
<1>6. Walked'
  BY <1>3 DEF Walked
<1> QED
  BY <1>1, <1>5, <1>6 DEF SInv, StagesAssumption

LEMMA LoadKeeps ==
  ASSUME SInv, Load
  PROVE  SInv' /\ Grows
<1>1. Durable' /\ Grows
  BY SameDurable DEF Load, Untouched
<1> DEFINE ground == [outline |-> run.checkpoint.text, notes |-> folder.notes, head |-> Len(published)]
<1>2. /\ run' = [run EXCEPT !.at = "stage", !.stage = "scene_plan", !.ground = ground]
      /\ UNCHANGED <<targets, published, completions, chain>> /\ run.at = "load"
  BY DEF Load
<1>3. /\ DOMAIN run' = DOMAIN run /\ run' = [f \in DOMAIN run' |-> run'[f]]
      /\ run'.at = "stage" /\ run'.chapter = run.chapter /\ run'.checkpoint = run.checkpoint
      /\ run'.stage = "scene_plan" /\ run'.cursor = run.cursor /\ run'.ground.outline = run.checkpoint.text
  BY <1>2 DEF SInv, Due
<1>4. Due'
  BY <1>2, <1>3 DEF SInv, Due, Done, Inside, Chapter
<1>5. chain[Chapter] # <<>> /\ chain[Chapter][1] = OutlineReceipt /\ run.cursor = 1
  BY <1>2 DEF SInv, Walked
<1>6. 1 \in 1 .. Len(chain[Chapter])
  <2>1. IsSeq(chain[Chapter])
    BY <1>2 DEF SInv, Durable, Shaped, Due, Inside
  <2> QED
    BY <1>5, <2>1, SeqEnds
<1>7. OutlineReceipt' = OutlineReceipt
  BY <1>3 DEF OutlineReceipt
<1>8. Walked'
  BY <1>2, <1>3, <1>5, <1>6, <1>7 DEF Walked, Chapter
<1> QED
  BY <1>1, <1>4, <1>8 DEF SInv, StagesAssumption
-----------------------------------------------------------------------------
LEMMA MarkKeeps ==
  ASSUME SInv, MarkOutline
  PROVE  SInv' /\ Grows
<1>1. /\ run' = [run EXCEPT !.at = "record"] /\ marked' = [marked EXCEPT ![Chapter] = Append(@, run.checkpoint)]
      /\ UNCHANGED <<targets, published, completions, chain, outputs>> /\ run.at = "mark"
  BY DEF MarkOutline
<1>2. /\ DOMAIN run' = DOMAIN run /\ run' = [f \in DOMAIN run' |-> run'[f]]
      /\ run'.at = "record" /\ run'.chapter = run.chapter /\ run'.checkpoint = run.checkpoint
  BY <1>1 DEF SInv, Due
<1>3. Chapter = Done + 1 /\ Chapter \in Book /\ \A c \in 1 .. Done : targets[c].fulfilled # "open"
  BY <1>1 DEF SInv, Due, Inside
<1>4. Done \in Nat
  BY SeqEnds DEF SInv, Durable, Shaped, Done
<1>5. /\ marked' = [c \in Book |-> marked'[c]] /\ IsSeq(marked'[Chapter])
      /\ \A c \in Book : c # Chapter => marked'[c] = marked[c]
  BY <1>1, <1>3, SeqEnds DEF SInv, Durable, Shaped
<1>6. Shaped'
  BY <1>1, <1>3, <1>5 DEF SInv, Durable, Shaped, Done
<1>7. ASSUME NEW c \in Book
      PROVE  Linked(c)'
  BY <1>1, SameLinks DEF SInv, Durable
<1>8. \A c \in Book : marked'[c] # <<>> => \A d \in 1 .. c - 1 : targets[d].fulfilled # "open"
  BY <1>3, <1>4, <1>5 DEF SInv, Durable, InOrder
<1>9. InOrder'
  BY <1>1, <1>8 DEF SInv, Durable, InOrder, Fulfilled, Done
<1>10. \A i \in 1 .. Len(published') : Told(published'[i])
  BY <1>1 DEF SInv, Durable
<1>11. Grows
  BY <1>1, SeqEnds DEF SInv, Durable, Shaped, Grows
<1>12. Due'
  BY <1>1, <1>2 DEF SInv, Due, Done, Inside, Chapter
<1>13. Walked'
  BY <1>2 DEF Walked
<1> QED
  BY <1>6, <1>7, <1>9, <1>10, <1>11, <1>12, <1>13 DEF SInv, Durable, StagesAssumption

\* A verdict on a text is of two receipts.
LEMMA RefusedBy ==
  ASSUME NEW s, NEW t, NEW i, NEW v, t[i] = s[i], t[i - 1] = s[i - 1], Refused(s, i, v)
  PROVE  Refused(t, i, v)
BY DEF Refused, Passed, Intact

\* A receipt that may follow the last one, of an answer that is kept, keeps the evidence.
LEMMA ReceiptKeeps ==
  ASSUME SInv, Chapter \in Book, NEW r, Appended(r), UNCHANGED <<targets, marked, outputs, published, completions>>,
         chain[Chapter] = <<>> => r.succeeded,
         chain[Chapter] # <<>> =>
           /\ r.stage = "repair" => Refused(chain[Chapter], Len(chain[Chapter]), r.input.verdict)
           /\ r.succeeded =>
                \E o \in outputs[Chapter] : /\ o.after = Len(chain[Chapter]) /\ o.stage = r.stage
                                            /\ o.input = r.input /\ o.output = r.output
  PROVE  Durable' /\ Grows
<1> DEFINE s == chain[Chapter]
           t == Append(s, r)
<1>1. chain' = [chain EXCEPT ![Chapter] = t] /\ Extends(r)
  BY DEF Appended
<1>2. IsSeq(s) /\ chain = [c \in Book |-> chain[c]] /\ Linked(Chapter)
  BY DEF SInv, Durable, Shaped
<1>3. /\ Len(s) \in Nat /\ IsSeq(t) /\ Len(t) = Len(s) + 1 /\ t[Len(s) + 1] = r /\ (s = <<>> <=> Len(s) = 0)
      /\ IsPrefix(s, t) /\ \A i \in 1 .. Len(s) : t[i] = s[i]
  BY <1>2, SeqEnds
<1>4. /\ chain' = [c \in Book |-> chain'[c]] /\ chain'[Chapter] = t
      /\ \A c \in Book : c # Chapter => chain'[c] = chain[c]
  BY <1>1, <1>2
<1> HIDE DEF t
<1>5. Shaped'
  BY <1>3, <1>4 DEF SInv, Durable, Shaped, Done
<1>6. r.stage \in DOMAIN After
  <2>1. \A x \in DOMAIN After : After[x] \in DOMAIN After
    BY DEF After
  <2>2. CASE s = <<>>
    BY <1>1, <2>2 DEF Extends, After
  <2>3. CASE s # <<>>
    <3>1. Last(s) = s[Len(s)] /\ Len(s) \in 1 .. Len(s)
      BY <1>3, <2>3 DEF Last
    <3>2. Last(s).stage \in DOMAIN After
      BY <1>2, <3>1 DEF Linked
    <3> QED
      BY <1>1, <2>1, <2>3, <3>2 DEF Extends
  <2> QED
    BY <2>2, <2>3
<1>7. ASSUME NEW c \in Book
      PROVE  Linked(c)'
  <2>1. CASE c # Chapter
    BY <1>4, <2>1, SameLinks DEF SInv, Durable
  <2>2. CASE c = Chapter
    <3>1. chain'[c] = t /\ outputs' = outputs /\ chain[c] = s
      BY <1>4, <2>2
    <3>2. t[1].stage = "outline" /\ t[1].succeeded
      BY <1>1, <1>2, <1>3 DEF Extends, Linked
    <3>3. \A i \in 1 .. Len(t) : t[i].stage \in DOMAIN After
      BY <1>2, <1>3, <1>6 DEF Linked
    <3>4. ASSUME NEW i \in 2 .. Len(t)
          PROVE  /\ t[i].stage = After[t[i - 1].stage] /\ t[i - 1].succeeded
                 /\ t[i].stage = "repair" => Refused(t, i - 1, t[i].input.verdict)
                 /\ t[i].succeeded =>
                      \E o \in outputs[Chapter] : /\ o.after = i - 1 /\ o.stage = t[i].stage
                                                  /\ o.input = t[i].input /\ o.output = t[i].output
      <4>1. CASE i \in 2 .. Len(s)
        <5>1. i \in 1 .. Len(s) /\ i - 1 \in 1 .. Len(s)
          BY <1>3, <4>1
        <5>2. t[i] = s[i] /\ t[i - 1] = s[i - 1]
          BY <1>3, <5>1
        <5>3. s[i].stage = After[s[i - 1].stage]
          BY <1>2, <4>1 DEF Linked
        <5>4. s[i].stage = "repair" => Refused(t, i - 1, t[i].input.verdict)
          <6> SUFFICES ASSUME s[i].stage = "repair"
                       PROVE  Refused(t, i - 1, t[i].input.verdict)
            OBVIOUS
          <6>1. Refused(s, i - 1, s[i].input.verdict)
            BY <1>2, <4>1 DEF Linked
          <6>2. s[1].stage = "outline" /\ s[i - 1].stage \in DOMAIN After
            BY <1>2, <1>3, <5>1 DEF Linked
          <6>3. i - 1 # 1
            BY <5>3, <6>2 DEF After
          <6>4. (i - 1) - 1 \in 1 .. Len(s)
            BY <1>3, <5>1, <6>3
          <6>5. t[(i - 1) - 1] = s[(i - 1) - 1]
            BY <1>3, <6>4
          <6> QED
            BY <5>2, <6>1, <6>5, RefusedBy
        <5> QED
          BY <1>2, <4>1, <5>2, <5>3, <5>4 DEF Linked, Accounted
      <4>2. CASE i = Len(s) + 1
        <5>1. Len(s) \in 1 .. Len(s) /\ s # <<>> /\ i - 1 = Len(s)
          BY <1>3, <4>2
        <5>2. t[i] = r /\ t[i - 1] = Last(s) /\ Last(s) = s[i - 1]
          BY <1>3, <4>2, <5>1 DEF Last
        <5>3. r.stage = After[Last(s).stage]
          BY <1>1, <5>1 DEF Extends
        <5>4. r.stage = "repair" => Refused(t, i - 1, r.input.verdict)
          <6> SUFFICES ASSUME r.stage = "repair"
                       PROVE  Refused(t, i - 1, r.input.verdict)
            OBVIOUS
          <6>1. Refused(s, i - 1, r.input.verdict)
            BY <5>1
          <6>2. s[1].stage = "outline" /\ s[i - 1].stage \in DOMAIN After
            BY <1>2, <1>3, <5>1 DEF Linked
          <6>3. i - 1 # 1
            BY <5>2, <5>3, <6>2 DEF After
          <6>4. (i - 1) - 1 \in 1 .. Len(s)
            BY <1>3, <5>1, <6>3
          <6>5. t[(i - 1) - 1] = s[(i - 1) - 1]
            BY <1>3, <6>4
          <6> QED
            BY <5>2, <6>1, <6>5, RefusedBy
        <5> QED
          BY <1>1, <5>1, <5>2, <5>3, <5>4 DEF Extends
      <4> QED
        BY <1>3, <4>1, <4>2
    <3>5. \A o, q \in outputs[c] : o.after = q.after /\ o.stage = q.stage /\ o.input = q.input => o = q
      BY <1>2, <2>2 DEF Linked
    <3> QED
      BY <2>2, <3>1, <3>2, <3>3, <3>4, <3>5 DEF Linked, Accounted
  <2> QED
    BY <2>1, <2>2
<1>8. InOrder'
  BY DEF SInv, Durable, InOrder, Fulfilled, Done
<1>9. \A i \in 1 .. Len(published') : Told(published'[i])
  BY DEF SInv, Durable
<1>10. \A c \in Book : IsPrefix(chain[c], chain'[c])
  BY <1>3, <1>4, SeqEnds DEF SInv, Durable, Shaped
<1>11. IsPrefix(published, published') /\ IsPrefix(completions, completions')
  BY SeqEnds DEF SInv, Durable, Shaped
<1>12. Grows
  BY <1>10, <1>11 DEF Grows
<1> QED
  BY <1>5, <1>7, <1>8, <1>9, <1>12 DEF Durable
LEMMA RecordKeeps ==
  ASSUME SInv, RecordOutline
  PROVE  SInv' /\ Grows
<1>1. /\ run.at = "record" /\ run' = [run EXCEPT !.at = "load", !.cursor = 1]
      /\ UNCHANGED <<targets, marked, published, completions, outputs>>
  BY DEF RecordOutline
<1>2. /\ DOMAIN run' = DOMAIN run /\ run' = [f \in DOMAIN run' |-> run'[f]]
      /\ run'.at = "load" /\ run'.chapter = run.chapter /\ run'.checkpoint = run.checkpoint /\ run'.cursor = 1
  BY <1>1 DEF SInv, Due
<1>3. Chapter \in Book /\ IsSeq(chain[Chapter]) /\ chain = [c \in Book |-> chain[c]]
  BY <1>1 DEF SInv, Durable, Shaped, Due, Inside
<1>4. OutlineReceipt' = OutlineReceipt /\ OutlineReceipt.succeeded
  BY <1>2 DEF OutlineReceipt, Receipt
<1>5. Durable' /\ Grows
  <2>1. CASE chain[Chapter] = <<>>
    BY <1>1, <1>3, <1>4, <2>1, ReceiptKeeps DEF RecordOutline
  <2>2. CASE chain[Chapter] # <<>>
    BY <1>1, <2>2, SameDurable DEF RecordOutline, Untouched
  <2> QED
    BY <2>1, <2>2
<1>6. chain'[Chapter] # <<>> /\ chain'[Chapter][1] = OutlineReceipt
  <2>1. CASE chain[Chapter] = <<>>
    <3>1. chain'[Chapter] = Append(chain[Chapter], OutlineReceipt)
      BY <1>3, <2>1 DEF RecordOutline, Appended
    <3> DEFINE s == chain[Chapter]
               t == Append(s, OutlineReceipt)
    <3>2. Len(t) = Len(s) + 1 /\ t[Len(s) + 1] = OutlineReceipt
      BY <1>3, SeqEnds
    <3>3. Len(s) = 0
      BY <2>1
    <3> HIDE DEF s, t
    <3>4. Len(t) = 1 /\ t[1] = OutlineReceipt
      BY <3>2, <3>3
    <3>5. t # <<>>
      BY <3>4
    <3> QED
      BY <3>1, <3>4, <3>5 DEF s, t
  <2>2. CASE chain[Chapter] # <<>>
    BY <2>2 DEF RecordOutline
  <2> QED
    BY <2>1, <2>2
<1>7. Due'
  BY <1>1, <1>2 DEF SInv, Due, Done, Inside, Chapter
<1>8. Walked'
  BY <1>2, <1>4, <1>6 DEF Walked, Chapter
<1> QED
  BY <1>5, <1>7, <1>8 DEF SInv, StagesAssumption

LEMMA ExecuteKeeps ==
  ASSUME SInv, Execute
  PROVE  SInv' /\ Grows
<1>1. PICK a \in Answers :
        outputs' = [outputs EXCEPT ![Chapter] =
                      @ \union {[after |-> run.cursor, stage |-> run.stage, input |-> Asked, output |-> a]}]
  BY DEF Execute
<1> DEFINE new == [after |-> run.cursor, stage |-> run.stage, input |-> Asked, output |-> a]
<1>2. /\ UNCHANGED <<targets, marked, chain, published, completions, run>>
      /\ run.at = "stage" /\ Found = {}
  BY DEF Execute
<1>3. Chapter \in Book
  BY <1>2 DEF SInv, Due, Inside
<1>4. /\ outputs' = [c \in Book |-> outputs'[c]] /\ outputs'[Chapter] = outputs[Chapter] \union {new}
      /\ \A c \in Book : c # Chapter => outputs'[c] = outputs[c]
  BY <1>1, <1>3 DEF SInv, Durable, Shaped
<1>5. Shaped'
  BY <1>2, <1>4 DEF SInv, Durable, Shaped, Done
<1>6. \A c \in Book : outputs[c] \subseteq outputs'[c]
  BY <1>4
<1>7. \A o \in outputs[Chapter] : ~(o.after = new.after /\ o.stage = new.stage /\ o.input = new.input)
  BY <1>2 DEF Found
<1> HIDE DEF new
<1>8. ASSUME NEW c \in Book
      PROVE  Linked(c)'
  <2>1. Linked(c) /\ chain' = chain
    BY <1>2 DEF SInv, Durable
  <2>2. Accounted(c)'
    BY <1>6, <2>1 DEF Linked, Accounted
  <2>3. \A o, q \in outputs'[c] : o.after = q.after /\ o.stage = q.stage /\ o.input = q.input => o = q
    <3>1. CASE c = Chapter
      BY <1>4, <1>7, <2>1, <3>1 DEF Linked
    <3>2. CASE c # Chapter
      BY <1>4, <2>1, <3>2 DEF Linked
    <3> QED
      BY <3>1, <3>2
  <2> QED
    BY <2>1, <2>2, <2>3 DEF Linked
<1>9. InOrder'
  BY <1>2 DEF SInv, Durable, InOrder, Fulfilled, Done
<1>10. \A i \in 1 .. Len(published') : Told(published'[i])
  BY <1>2 DEF SInv, Durable
<1>11. Grows
  BY <1>2, <1>6, SeqEnds DEF SInv, Durable, Shaped, Grows
<1>12. Due' /\ Walked'
  BY <1>2, SameRunner
<1> QED
  BY <1>5, <1>8, <1>9, <1>10, <1>11, <1>12 DEF SInv, Durable, StagesAssumption

-----------------------------------------------------------------------------
(* A stage, answered now or in an earlier run.                             *)

LEMMA Followed ==
  ASSUME Due, NEW a, Follow(a)
  PROVE  \/ run' = Resting
         \/ /\ DOMAIN run' = DOMAIN run /\ run' = [f \in DOMAIN run' |-> run'[f]]
            /\ run'.chapter = run.chapter /\ run'.checkpoint = run.checkpoint /\ run'.ground = run.ground
            /\ run'.cursor = run.cursor + 1
            /\ \/ run.stage = "scene_plan" /\ run'.at = run.at /\ run'.stage = "draft"
               \/ /\ run.stage = "draft" /\ run'.at = run.at /\ run'.stage = "polish"
                  /\ run'.text = a.text /\ run'.from = 0
               \/ /\ run.stage = "polish" /\ run'.at = run.at /\ run'.stage = "validator"
                  /\ run'.text = a.text /\ run'.from = run.from
               \/ /\ run.stage = "repair" /\ run'.at = run.at /\ run'.stage = "validator"
                  /\ run'.text = a.text /\ run'.from = run.text
               \/ /\ run.stage \notin {"scene_plan", "draft", "polish", "repair"} /\ run'.text = run.text
                  /\ \/ a.ok /\ Sound(run.from, run.text) /\ run'.at = "gate"
                     \/ /\ ~(a.ok /\ Sound(run.from, run.text)) /\ run'.at = run.at /\ run'.stage = "repair"
                        /\ run'.verdict.ok = a.ok /\ run'.verdict.sound = Sound(run.from, run.text)
<1> DEFINE v == Verdict(a.ok, Sound(run.from, run.text), run.repairs + 1)
           on == [run EXCEPT !.cursor = @ + 1]
<1>1. CASE run.stage = "scene_plan"
  <2>1. run' = [on EXCEPT !.stage = "draft"]
    BY <1>1 DEF Follow
  <2> QED
    BY <1>1, <2>1 DEF Due
<1>2. CASE run.stage = "draft"
  <2>1. run' = [on EXCEPT !.stage = "polish", !.text = a.text, !.from = 0]
    BY <1>2 DEF Follow
  <2> QED
    BY <1>2, <2>1 DEF Due
<1>3. CASE run.stage = "polish"
  <2>1. run' = [on EXCEPT !.stage = "validator", !.text = a.text]
    BY <1>3 DEF Follow
  <2> QED
    BY <1>3, <2>1 DEF Due
<1>4. CASE run.stage = "repair"
  <2>1. run' = [on EXCEPT !.stage = "validator", !.text = a.text, !.from = run.text, !.repairs = @ + 1]
    BY <1>4 DEF Follow
  <2> QED
    BY <1>4, <2>1 DEF Due
<1>5. CASE run.stage \notin {"scene_plan", "draft", "polish", "repair"}
  <2>1. run' = IF v.ok /\ v.sound THEN [on EXCEPT !.at = "gate"]
               ELSE IF run.repairs < MaxRepairs THEN [on EXCEPT !.stage = "repair", !.verdict = v]
               ELSE Resting
    BY <1>5 DEF Follow
  <2>2. v.ok = a.ok /\ v.sound = Sound(run.from, run.text)
    BY DEF Verdict
  <2> HIDE DEF v
  <2>3. CASE v.ok /\ v.sound
    <3>1. run' = [on EXCEPT !.at = "gate"]
      BY <2>1, <2>3
    <3> QED
      BY <1>5, <2>2, <2>3, <3>1 DEF Due
  <2>4. CASE ~(v.ok /\ v.sound) /\ run.repairs < MaxRepairs
    <3>1. run' = [on EXCEPT !.stage = "repair", !.verdict = v]
      BY <2>1, <2>4
    <3>2. /\ DOMAIN run' = DOMAIN run /\ run' = [f \in DOMAIN run' |-> run'[f]]
          /\ run'.chapter = run.chapter /\ run'.checkpoint = run.checkpoint /\ run'.ground = run.ground
          /\ run'.cursor = run.cursor + 1 /\ run'.text = run.text /\ run'.at = run.at
          /\ run'.stage = "repair" /\ run'.verdict = v
      BY <3>1 DEF Due
    <3> QED
      BY <1>5, <2>2, <2>4, <3>2
  <2>5. CASE ~(v.ok /\ v.sound) /\ ~(run.repairs < MaxRepairs)
    BY <2>1, <2>5
  <2> QED
    BY <2>3, <2>4, <2>5
<1> QED
  BY <1>1, <1>2, <1>3, <1>4, <1>5
\* The runner goes over one receipt: it was there, or is appended.
LEMMA StageWalks ==
  ASSUME SInv, run.at = "stage", NEW r, Authorized(r), Follow(r.output), chain'[Chapter] # <<>>,
         run.cursor + 1 \in 1 .. Len(chain'[Chapter]), chain'[Chapter][run.cursor + 1] = r,
         \A i \in 1 .. run.cursor : chain'[Chapter][i] = chain[Chapter][i],
         UNCHANGED <<targets, published, completions>>
  PROVE  Due' /\ Walked'
<1>1. CASE run' = Resting
  BY <1>1, AtRest
<1>2. CASE run' # Resting
  <2> DEFINE s == chain[Chapter]
             t == chain'[Chapter]
             k == run.cursor
  <2>1. /\ DOMAIN run' = DOMAIN run /\ run' = [f \in DOMAIN run' |-> run'[f]]
        /\ run'.chapter = run.chapter /\ run'.checkpoint = run.checkpoint /\ run'.ground = run.ground
        /\ run'.cursor = k + 1
        /\ \/ run.stage = "scene_plan" /\ run'.at = "stage" /\ run'.stage = "draft"
           \/ /\ run.stage = "draft" /\ run'.at = "stage" /\ run'.stage = "polish"
              /\ run'.text = r.output.text /\ run'.from = 0
           \/ /\ run.stage = "polish" /\ run'.at = "stage" /\ run'.stage = "validator"
              /\ run'.text = r.output.text /\ run'.from = run.from
           \/ /\ run.stage = "repair" /\ run'.at = "stage" /\ run'.stage = "validator"
              /\ run'.text = r.output.text /\ run'.from = run.text
           \/ /\ run.stage \notin {"scene_plan", "draft", "polish", "repair"} /\ run'.text = run.text
              /\ \/ r.output.ok /\ Sound(run.from, run.text) /\ run'.at = "gate"
                 \/ /\ ~(r.output.ok /\ Sound(run.from, run.text)) /\ run'.at = "stage" /\ run'.stage = "repair"
                    /\ run'.verdict.ok = r.output.ok /\ run'.verdict.sound = Sound(run.from, run.text)
    BY <1>2, Followed DEF SInv
  <2>2. /\ k \in 1 .. Len(s) /\ s[1] = OutlineReceipt /\ run.ground.outline = run.checkpoint.text
        /\ \A i \in 2 .. k : i <= 3 => s[i].input.ground = run.ground
        /\ \A i \in 4 .. k : Given(s, i, run.ground.notes)
        /\ k >= 3 => run.text = Handed(s[k])
        /\ k = 1 => run.stage = "scene_plan"
        /\ k = 2 => run.stage = "draft"
        /\ k = 3 => run.stage = "polish" /\ run.from = 0
        /\ k >= 4 => run.stage \in {"validator", "repair"}
        /\ run.stage = "validator" => run.from = MadeFrom(s[k])
    BY DEF SInv, Walked
  <2>3. /\ k + 1 \in 1 .. Len(t) /\ t[k + 1] = r /\ t # <<>> /\ \A i \in 1 .. k : t[i] = s[i]
        /\ r.stage = run.stage /\ r.input = Asked
    BY DEF Authorized
  <2>4. k \in Nat \ {0}
    <3>1. IsSeq(s)
      BY DEF SInv, Durable, Shaped, Due, Inside
    <3> QED
      BY <2>2, <3>1, SeqEnds
  <2> HIDE DEF s, t, k
  <2>5. k + 1 <= 3 => r.input.ground = run.ground
    BY <2>2, <2>3, <2>4 DEF Asked, Input
  <2>6. k + 1 >= 4 => /\ r.input.text = Handed(s[k])
                      /\ r.stage = "validator" => r.input.ground.notes = run.ground.notes
    <3>1. k + 1 >= 4 => run.stage \in {"polish", "validator", "repair"} /\ run.text = Handed(s[k])
      BY <2>2, <2>4
    <3>2. run.stage \in {"polish", "validator", "repair"} => r.input.text = run.text
      BY <2>3 DEF Asked, Input
    <3>3. run.stage = "validator" => r.input.ground = Decision(run.ground)
      BY <2>3 DEF Asked, Input
    <3>4. Decision(run.ground).notes = run.ground.notes
      BY DEF Decision, NoGround
    <3> QED
      BY <2>3, <3>1, <3>2, <3>3, <3>4
  <2>7. k + 1 >= 3 => run'.text = Handed(r)
    <3>1. k + 1 >= 3 => run.stage # "scene_plan"
      BY <2>2, <2>4
    <3>2. run.stage \in {"draft", "polish", "repair"} => run'.text = r.output.text
      BY <2>1
    <3>3. k + 1 >= 3 /\ run.stage \notin {"draft", "polish", "repair"}
            => run'.text = run.text /\ run.stage = "validator" /\ r.input.text = run.text
      BY <2>1, <2>2, <2>3, <2>4 DEF Asked, Input
    <3> QED
      BY <2>3, <3>1, <3>2, <3>3 DEF Handed
  <2>8. /\ run'.at \in {"stage", "gate"} /\ t[1] = OutlineReceipt
        /\ run'.at = "gate" => run.stage = "validator" /\ k >= 4
        /\ run'.at = "stage" /\ run'.stage = "repair" => run.stage = "validator" /\ k >= 4
        /\ run'.at = "stage" => /\ k = 1 => run'.stage = "draft"
                                /\ k = 2 => run'.stage = "polish" /\ run'.from = 0
                                /\ k >= 3 => run'.stage \in {"validator", "repair"}
    BY <2>1, <2>2, <2>3, <2>4
  <2>9. run.stage = "validator" /\ k >= 4 =>
           /\ r.input.text = run.text /\ run.from = MadeFrom(t[k])
           /\ (k + 1) - 1 = k /\ Intact(t, k + 1) = Sound(run.from, run.text)
    <3>1. run.stage = "validator" => r.input.text = run.text
      BY <2>3 DEF Asked, Input
    <3>2. (k + 1) - 1 = k /\ t[k] = s[k]
      BY <2>3, <2>4
    <3> QED
      BY <2>2, <2>3, <3>1, <3>2 DEF Intact, MadeFrom
  <2>10. run'.at = "stage" /\ run'.stage = "repair" => Refused(t, k + 1, run'.verdict)
    BY <2>1, <2>3, <2>8, <2>9 DEF Refused, Passed
  <2>11. run'.at = "gate" => Passed(t, k + 1)
    BY <2>1, <2>3, <2>8, <2>9 DEF Passed
  <2>12. run'.at = "stage" /\ run'.stage = "validator" => run'.from = MadeFrom(r)
    <3>1. run.stage \in {"scene_plan", "draft"} => run'.stage # "validator"
      BY <2>1
    <3>2. run.stage = "polish" => run'.from = run.from /\ run.from = 0
      BY <2>1, <2>2, <2>4
    <3>3. run.stage = "repair" => run'.from = run.text /\ r.input.text = run.text
      BY <2>1, <2>3 DEF Asked, Input
    <3>4. run.stage \notin {"scene_plan", "draft", "polish", "repair"} /\ run'.at = "stage" => run'.stage # "validator"
      BY <2>1
    <3> QED
      BY <2>3, <3>1, <3>2, <3>3, <3>4 DEF MadeFrom
  <2>13. /\ \A i \in 2 .. k + 1 : i <= 3 => t[i].input.ground = run.ground
        /\ \A i \in 4 .. k + 1 : Given(t, i, run.ground.notes)
    <3>1. ASSUME NEW i \in 2 .. k + 1, i <= 3
          PROVE  t[i].input.ground = run.ground
      <4>1. CASE i = k + 1
        BY <2>3, <2>5, <3>1, <4>1
      <4>2. CASE i # k + 1
        <5>1. i \in 2 .. k /\ i \in 1 .. k
          BY <2>4, <3>1, <4>2
        <5> QED
          BY <2>2, <2>3, <3>1, <5>1
      <4> QED
        BY <4>1, <4>2
    <3>2. ASSUME NEW i \in 4 .. k + 1
          PROVE  Given(t, i, run.ground.notes)
      <4>1. CASE i = k + 1
        <5>1. i - 1 = k /\ k \in 1 .. k /\ k + 1 >= 4
          BY <2>4, <3>2, <4>1
        <5> QED
          BY <2>3, <2>6, <4>1, <5>1 DEF Given
      <4>2. CASE i # k + 1
        <5>1. i \in 4 .. k /\ i \in 1 .. k /\ i - 1 \in 1 .. k
          BY <2>4, <3>2, <4>2
        <5>2. t[i] = s[i] /\ t[i - 1] = s[i - 1]
          BY <2>3, <5>1
        <5>3. Given(s, i, run.ground.notes)
          BY <2>2, <5>1
        <5> QED
          BY <5>2, <5>3 DEF Given
      <4> QED
        BY <4>1, <4>2
    <3> QED
      BY <3>1, <3>2
  <2>14. Due'
    BY <2>1, <2>8 DEF SInv, Due, Done, Inside, Chapter
  <2>15. OutlineReceipt' = OutlineReceipt /\ Chapter' = Chapter
    BY <2>1 DEF OutlineReceipt, Chapter
  <2>16. Walked'
    <3>1. t # <<>> /\ t[1] = OutlineReceipt /\ run'.at # "load"
      BY <2>3, <2>8
    <3>2. /\ run'.cursor \in 1 .. Len(t) /\ run'.ground.outline = run'.checkpoint.text
          /\ \A i \in 2 .. run'.cursor : i <= 3 => t[i].input.ground = run'.ground
          /\ \A i \in 4 .. run'.cursor : Given(t, i, run'.ground.notes)
          /\ run'.cursor >= 3 => run'.text = Handed(t[run'.cursor])
      <4>1. run'.cursor = k + 1 /\ run'.ground = run.ground /\ run'.checkpoint = run.checkpoint
        BY <2>1
      <4> QED
        BY <2>2, <2>3, <2>7, <2>13, <4>1
    <3>3. run'.at = "stage" =>
            /\ run'.cursor = 1 => run'.stage = "scene_plan"
            /\ run'.cursor = 2 => run'.stage = "draft"
            /\ run'.cursor = 3 => run'.stage = "polish" /\ run'.from = 0
            /\ run'.cursor >= 4 => run'.stage \in {"validator", "repair"}
            /\ run'.stage = "validator" => run'.from = MadeFrom(t[run'.cursor])
            /\ run'.stage = "repair" => Refused(t, run'.cursor, run'.verdict)
      BY <2>1, <2>3, <2>4, <2>8, <2>10, <2>12
    <3>4. run'.at = "gate" =>
            run'.cursor >= 4 /\ t[run'.cursor].stage = "validator" /\ Passed(t, run'.cursor)
      BY <2>1, <2>3, <2>4, <2>8, <2>11
    <3>5. run'.at # "publish"
      BY <2>8
    <3> QED
      BY <2>15, <3>1, <3>2, <3>3, <3>4, <3>5 DEF Walked, t
  <2> QED
    BY <2>14, <2>16
<1> QED
  BY <1>1, <1>2
LEMMA ReplayKeeps ==
  ASSUME SInv, Replay
  PROVE  SInv' /\ Grows
<1> DEFINE r == chain[Chapter][run.cursor + 1]
<1>1. /\ run.at = "stage" /\ Replayed /\ Authorized(r) /\ Follow(r.output)
      /\ UNCHANGED <<targets, marked, chain, outputs, published, completions>>
  BY DEF Replay
<1>2. Durable' /\ Grows
  BY <1>1, SameDurable DEF Untouched
<1>3. /\ run.cursor \in 1 .. Len(chain[Chapter]) /\ chain[Chapter] # <<>>
      /\ Len(chain[Chapter]) \in Nat /\ run.cursor < Len(chain[Chapter])
  BY <1>1, SeqEnds DEF SInv, Durable, Shaped, Due, Inside, Walked, Replayed
<1>4. run.cursor + 1 \in 1 .. Len(chain[Chapter])
  BY <1>3
<1>5. Due' /\ Walked'
  BY <1>1, <1>3, <1>4, StageWalks
<1> QED
  BY <1>2, <1>5 DEF SInv, StagesAssumption

\* Past the last receipt, a stage is given what may follow it.
LEMMA AtTheEnd ==
  ASSUME SInv, run.at = "stage", ~Replayed
  PROVE  /\ Chapter \in Book /\ IsSeq(chain[Chapter]) /\ chain[Chapter] # <<>>
         /\ run.cursor = Len(chain[Chapter]) /\ run.cursor \in Nat
         /\ run.stage = "repair" => Refused(chain[Chapter], Len(chain[Chapter]), run.verdict)
<1>1. Chapter \in Book /\ IsSeq(chain[Chapter]) /\ chain[Chapter] # <<>>
  BY DEF SInv, Durable, Shaped, Due, Inside, Walked
<1>2. /\ run.cursor \in 1 .. Len(chain[Chapter])
      /\ run.stage = "repair" => Refused(chain[Chapter], run.cursor, run.verdict)
  BY DEF SInv, Walked
<1>3. Len(chain[Chapter]) \in Nat /\ ~(run.cursor < Len(chain[Chapter]))
  BY <1>1, SeqEnds DEF Replayed
<1>4. run.cursor = Len(chain[Chapter]) /\ run.cursor \in Nat
  BY <1>2, <1>3
<1> QED
  BY <1>1, <1>2, <1>4

LEMMA SucceedKeeps ==
  ASSUME SInv, Succeed
  PROVE  SInv' /\ Grows
<1>1. PICK o \in Found : Appended(Receipt(run.stage, Asked, o.output, TRUE)) /\ Follow(o.output)
  BY DEF Succeed
<1> DEFINE r == Receipt(run.stage, Asked, o.output, TRUE)
           s == chain[Chapter]
<1>2. /\ run.at = "stage" /\ ~Replayed /\ UNCHANGED <<targets, marked, outputs, published, completions>>
  BY DEF Succeed
<1>3. /\ Chapter \in Book /\ IsSeq(s) /\ s # <<>> /\ run.cursor = Len(s) /\ run.cursor \in Nat
      /\ run.stage = "repair" => Refused(s, Len(s), run.verdict)
  BY <1>2, AtTheEnd
<1>4. /\ r.stage = run.stage /\ r.input = Asked /\ r.output = o.output /\ r.succeeded
      /\ run.stage = "repair" => r.input.verdict = run.verdict
  BY DEF Receipt, Asked, Input
<1>5. /\ o \in outputs[Chapter] /\ o.after = run.cursor /\ o.stage = run.stage /\ o.input = Asked
  BY DEF Found
<1>6. Durable' /\ Grows
  BY <1>1, <1>2, <1>3, <1>4, <1>5, ReceiptKeeps
<1>7. chain'[Chapter] = Append(s, r)
  BY <1>1, <1>3 DEF Appended, SInv, Durable, Shaped
<1>8. /\ chain'[Chapter] # <<>> /\ run.cursor + 1 \in 1 .. Len(chain'[Chapter])
      /\ chain'[Chapter][run.cursor + 1] = r /\ \A i \in 1 .. run.cursor : chain'[Chapter][i] = s[i]
  <2> HIDE DEF r, s
  <2>1. /\ IsSeq(Append(s, r)) /\ Len(Append(s, r)) = Len(s) + 1 /\ Append(s, r)[Len(s) + 1] = r
        /\ \A i \in 1 .. Len(s) : Append(s, r)[i] = s[i]
    BY <1>3, SeqEnds
  <2>2. Append(s, r) # <<>>
    BY <1>3, <2>1
  <2> QED
    BY <1>3, <1>7, <2>1, <2>2
<1>9. Due' /\ Walked'
  BY <1>1, <1>2, <1>4, <1>8, StageWalks DEF Authorized
<1> QED
  BY <1>6, <1>9 DEF SInv, StagesAssumption

LEMMA FailKeeps ==
  ASSUME SInv, Fail
  PROVE  SInv' /\ Grows
<1> DEFINE r == Receipt(run.stage, Asked, Answer(0, FALSE), FALSE)
<1>1. /\ run.at = "stage" /\ ~Replayed /\ Appended(r) /\ run' = Resting
      /\ UNCHANGED <<targets, marked, outputs, published, completions>>
  BY DEF Fail
<1>2. /\ r.stage = run.stage /\ ~r.succeeded
      /\ run.stage = "repair" => r.input.verdict = run.verdict
  BY DEF Receipt, Asked, Input
<1>3. Durable' /\ Grows
  BY <1>1, <1>2, AtTheEnd, ReceiptKeeps
<1>4. Due' /\ Walked'
  BY <1>1, AtRest
<1> QED
  BY <1>3, <1>4 DEF SInv, StagesAssumption
-----------------------------------------------------------------------------
(* Publication, completion, fulfilment.                                    *)

\* Recording the last publication keeps what is durable in order.
LEMMA CompletionKeeps ==
  ASSUME SInv, Len(published) = Done + 1, CompleteWith(Last(published)),
         UNCHANGED <<targets, marked, chain, outputs, published>>
  PROVE  Durable' /\ Grows /\ Len(published') = Done'
<1> DEFINE e == [target |-> Last(published).target, after |-> Snapshot]
           n == Len(completions)
<1>1. completions' = Append(completions, e) /\ n \in Nat /\ n >= 1 /\ IsSeq(completions) /\ IsSeq(published)
  BY SeqEnds DEF CompleteWith, SInv, Durable, Shaped
<1>2. /\ IsSeq(completions') /\ Len(completions') = n + 1 /\ completions'[n + 1] = e
      /\ \A i \in 1 .. n : completions'[i] = completions[i]
      /\ IsPrefix(completions, completions')
  BY <1>1, SeqEnds
<1>3. Done = n - 1 /\ Done' = n /\ Len(published) = n /\ Last(published) = published[n]
  BY <1>1, <1>2 DEF Done, Last
<1>4. e.target = published[n].target
  BY <1>3
<1> HIDE DEF e, n
<1>5. Shaped'
  BY <1>1, <1>2, <1>3 DEF SInv, Durable, Shaped
<1>6. ASSUME NEW c \in Book
      PROVE  Linked(c)'
  BY SameLinks DEF SInv, Durable
<1>7. InOrder'
  <2>1. ASSUME NEW c \in Book, c <= Done'
        PROVE  completions'[c + 1].target = targets[c].carried
    <3>1. CASE c = n
      <4>1. c \in 1 .. Len(published) /\ c + 1 = n + 1
        BY <1>1, <1>3, <3>1
      <4> QED
        BY <1>2, <1>4, <3>1, <4>1 DEF SInv, Durable, InOrder
    <3>2. CASE c # n
      <4>1. c <= Done /\ c + 1 \in 1 .. n
        BY <1>1, <1>3, <2>1, <3>2 DEF Book
      <4> QED
        BY <1>2, <4>1 DEF SInv, Durable, InOrder, Fulfilled
    <3> QED
      BY <3>1, <3>2
  <2>2. ASSUME NEW c \in Book
        PROVE  /\ targets[c].fulfilled # "open" => c <= Done'
               /\ c > 1 => targets[c].carried = IF targets[c - 1].fulfilled = "gap" THEN 1 ELSE 0
  <3>1. targets[c].fulfilled # "open" => c <= Done
    BY DEF SInv, Durable, InOrder, Fulfilled
  <3>2. targets[c].fulfilled # "open" => c <= Done'
    BY <1>1, <1>3, <3>1 DEF Book, SInv, StagesAssumption
  <3>3. c > 1 => targets[c].carried = IF targets[c - 1].fulfilled = "gap" THEN 1 ELSE 0
    BY DEF SInv, Durable, InOrder, Fulfilled
  <3> QED
    BY <3>2, <3>3
  <2>3. ASSUME NEW c \in 1 .. Done', c < Len(published)
        PROVE  targets[c].fulfilled # "open"
    <3>1. c \in 1 .. Done
      BY <1>1, <1>3, <2>3
    <3> QED
      BY <2>3, <3>1 DEF SInv, Durable, InOrder
  <2>4. Fulfilled'
    BY <2>1, <2>2 DEF Fulfilled
  <2> QED
    BY <2>3, <2>4 DEF SInv, Durable, InOrder
<1>8. \A i \in 1 .. Len(published') : Told(published'[i])
  BY DEF SInv, Durable
<1>9. Grows
  BY <1>2, SeqEnds DEF SInv, Durable, Shaped, Grows
<1> QED
  BY <1>3, <1>5, <1>6, <1>7, <1>8, <1>9 DEF Durable

LEMMA ResumeKeeps ==
  ASSUME SInv, Resume
  PROVE  SInv' /\ Grows
<1>1. run.at = "idle" /\ UNCHANGED <<targets, marked, chain, outputs, published>>
  BY DEF Resume
<1>2. Len(published) \in {Done, Done + 1} /\ Done \in Nat
  BY SeqEnds DEF SInv, Durable, Shaped, Done
<1>3. CASE Done < Len(published)
  <2>1. CompleteWith(Last(published)) /\ run' = run /\ Len(published) = Done + 1
    BY <1>2, <1>3 DEF Resume
  <2>2. Durable' /\ Grows
    BY <1>1, <2>1, CompletionKeeps
  <2>3. Due' /\ Walked'
    BY <1>1, <2>1 DEF Due, Walked, Inside, SInv
  <2> QED
    BY <2>2, <2>3 DEF SInv, StagesAssumption
<1>4. CASE ~(Done < Len(published))
  <2>1. run' = [run EXCEPT !.at = "fulfil"] /\ UNCHANGED completions /\ Len(published) = Done
    BY <1>2, <1>4 DEF Resume
  <2>2. DOMAIN run' = DOMAIN run /\ run' = [f \in DOMAIN run' |-> run'[f]] /\ run'.at = "fulfil"
    BY <2>1 DEF SInv, Due
  <2>3. Durable' /\ Grows /\ Len(published') = Done'
    BY <1>1, <2>1, SameDurable DEF Untouched, Done
  <2>4. Due' /\ Walked'
    BY <2>2, <2>3 DEF Due, Walked, Inside, SInv
  <2> QED
    BY <2>3, <2>4 DEF SInv, StagesAssumption
<1> QED
  BY <1>3, <1>4

LEMMA RecordCompletionKeeps ==
  ASSUME SInv, RecordCompletion
  PROVE  SInv' /\ Grows
<1>1. /\ run' = [Resting EXCEPT !.at = "fulfil"] /\ run.at = "complete" /\ CompleteWith(Last(published))
      /\ UNCHANGED <<targets, marked, chain, outputs, published>>
  BY DEF RecordCompletion
<1>2. /\ DOMAIN run' = {"at", "chapter", "base", "checkpoint", "ground", "cursor", "stage", "text", "from",
                     "verdict", "repairs"}
      /\ run' = [f \in DOMAIN run' |-> run'[f]] /\ run'.at = "fulfil"
  BY <1>1 DEF Resting
<1>3. Len(published) = Done + 1
  BY <1>1 DEF SInv, Due
<1>4. Durable' /\ Grows /\ Len(published') = Done'
  BY <1>1, <1>3, CompletionKeeps
<1>5. Due' /\ Walked'
  BY <1>2, <1>4 DEF Due, Walked, Inside
<1> QED
  BY <1>4, <1>5 DEF SInv, StagesAssumption
LEMMA FulfilKeeps ==
  ASSUME SInv, Fulfil
  PROVE  SInv' /\ Grows
<1> DEFINE n == Done
           Fate(c) == IF Owing(c) THEN IF published[c].gap THEN "gap" ELSE "met" ELSE targets[c].fulfilled
<1>1. /\ run' = [run EXCEPT !.at = "check"] /\ run.at = "fulfil"
      /\ targets' = [c \in Book |-> [carried |-> Carried(c), fulfilled |-> Fate(c)]]
      /\ UNCHANGED <<marked, chain, outputs, published, completions>> /\ n' = n
  BY DEF Fulfil, Done
<1>2. /\ DOMAIN run' = DOMAIN run /\ run' = [f \in DOMAIN run' |-> run'[f]] /\ run'.at = "check"
  BY <1>1 DEF SInv, Due
<1>3. n \in Nat /\ Len(published) = n /\ n <= ChapterCount /\ ChapterCount \in Nat
  BY <1>1, SeqEnds DEF SInv, Due, Durable, Shaped, Done, Inside, StagesAssumption
<1>4. /\ \A c \in Book : c < n => targets[c].fulfilled # "open"
      /\ \A c \in Book : targets[c].fulfilled # "open" => c <= n
      /\ \A c \in Book : c > 1 => targets[c].carried = IF targets[c - 1].fulfilled = "gap" THEN 1 ELSE 0
      /\ \A c \in Book : marked[c] # <<>> => \A d \in 1 .. c - 1 : targets[d].fulfilled # "open"
      /\ \A c \in Book : targets[c] = [carried |-> targets[c].carried, fulfilled |-> targets[c].fulfilled]
      /\ \A c \in Book : c <= n => completions[c + 1].target = targets[c].carried
      /\ \A c \in 1 .. n : published[c].target = targets[c].carried
  <2>1. \A c \in Book : c < n => c \in 1 .. Done /\ c < Len(published)
    BY <1>3 DEF Book
  <2> QED
    BY <1>3, <2>1 DEF SInv, Durable, Shaped, InOrder, Fulfilled
<1>5. \A c \in Book : Owing(c) <=> c = n /\ targets[c].fulfilled = "open"
  BY <1>3, <1>4 DEF Owing, Book
<1>6. \A c \in Book : c > 1 => (Owing(c - 1) <=> c = n + 1 /\ targets[n].fulfilled = "open")
  <2>1. \A c \in Book : c > 1 => c - 1 \in Book /\ (c - 1 = n <=> c = n + 1)
    BY <1>3 DEF Book
  <2> QED
    BY <1>5, <2>1
<1>7. \A c \in Book : targets'[c].carried = Carried(c) /\ targets'[c].fulfilled = Fate(c)
  BY <1>1
<1> HIDE DEF n
<1>8. \A c \in Book : c # n \/ targets[c].fulfilled # "open" => targets'[c].fulfilled = targets[c].fulfilled
  BY <1>5, <1>7
<1>9. \A c \in Book : c # n + 1 \/ c = 1 \/ targets[n].fulfilled # "open" => targets'[c].carried = targets[c].carried
  BY <1>6, <1>7 DEF Carried
<1>10. \A c \in Book : c <= n => targets'[c].fulfilled # "open"
  BY <1>3, <1>4, <1>5, <1>7 DEF Book
<1>11. ASSUME NEW c \in Book, c > 1
       PROVE  targets'[c].carried = IF targets'[c - 1].fulfilled = "gap" THEN 1 ELSE 0
  <2>1. c - 1 \in Book
    BY <1>3, <1>11 DEF Book
  <2>2. CASE c = n + 1 /\ targets[n].fulfilled = "open"
    <3>1. targets[c].carried = 0 /\ c - 1 = n /\ Owing(c - 1) /\ Owing(n) /\ n \in Book
      BY <1>3, <1>4, <1>5, <1>6, <1>11, <2>1, <2>2
    <3>2. targets'[c].carried = IF published[n].gap THEN 1 ELSE 0
      BY <1>7, <1>11, <3>1 DEF Carried
    <3>3. targets'[n].fulfilled = IF published[n].gap THEN "gap" ELSE "met"
      BY <1>7, <3>1
    <3> QED
      BY <3>1, <3>2, <3>3
  <2>3. CASE ~(c = n + 1 /\ targets[n].fulfilled = "open")
    <3>1. targets'[c].carried = targets[c].carried
      BY <1>9, <2>3
    <3>2. targets'[c - 1].fulfilled = targets[c - 1].fulfilled
      BY <1>3, <1>8, <2>1, <2>3 DEF Book
    <3> QED
      BY <1>4, <1>11, <3>1, <3>2
  <2> QED
    BY <2>2, <2>3
<1>12. \A c \in Book : c <= n => targets'[c].carried = targets[c].carried
  BY <1>3, <1>9 DEF Book
<1>13. \A c \in Book : targets[c].fulfilled # "open" => targets'[c] = targets[c]
  <2>1. ASSUME NEW c \in Book, targets[c].fulfilled # "open"
        PROVE  targets'[c] = targets[c]
    <3>1. targets'[c].carried = targets[c].carried /\ targets'[c].fulfilled = targets[c].fulfilled
      BY <1>4, <1>8, <1>12, <2>1
    <3>2. targets'[c] = [carried |-> targets'[c].carried, fulfilled |-> targets'[c].fulfilled]
      BY <1>1
    <3> QED
      BY <1>4, <3>1, <3>2
  <2> QED
    BY <2>1
<1>14. ASSUME NEW c \in Book, marked[c] # <<>>
       PROVE  /\ targets'[c].carried = targets[c].carried
              /\ \A d \in 1 .. c - 1 : targets'[d].fulfilled # "open"
  <2>1. \A d \in 1 .. c - 1 : d \in Book /\ targets[d].fulfilled # "open"
    BY <1>3, <1>4, <1>14 DEF Book
  <2>2. c = n + 1 /\ c # 1 => n \in 1 .. c - 1
    BY <1>3
  <2>3. targets'[c].carried = targets[c].carried
    BY <1>9, <2>1, <2>2
  <2> QED
    BY <1>8, <2>1, <2>3
<1>15. Shaped'
  <2>1. targets' = [c \in Book |-> targets'[c]]
    BY <1>1
  <2>2. \A c \in Book : targets'[c] = [carried |-> targets'[c].carried, fulfilled |-> targets'[c].fulfilled]
    BY <1>1
  <2> QED
    BY <1>1, <2>1, <2>2 DEF SInv, Durable, Shaped, Done
<1>16. \A c \in Book : Linked(c)'
  BY <1>1, SameLinks DEF SInv, Durable
<1>17. InOrder'
  <2>1. \A c \in Book : c <= n => completions[c + 1].target = targets'[c].carried
    BY <1>4, <1>12
  <2>2. \A c \in Book : targets'[c].fulfilled # "open" => c <= n
    BY <1>3, <1>4, <1>8
  <2>3. Fulfilled'
    BY <1>1, <1>11, <2>1, <2>2 DEF Fulfilled, n
  <2>4. \A c \in 1 .. n : c \in Book /\ published[c].target = targets'[c].carried /\ targets'[c].fulfilled # "open"
    BY <1>3, <1>4, <1>10, <1>12 DEF Book
  <2> QED
    BY <1>1, <1>3, <1>14, <2>3, <2>4 DEF InOrder, n
<1>18. \A i \in 1 .. Len(published') : Told(published'[i])
  BY <1>1 DEF SInv, Durable
<1>19. Grows
  BY <1>1, <1>13, <1>14, SeqEnds DEF SInv, Durable, Shaped, Grows
<1>20. Due'
  <2>1. \A c \in 1 .. n : targets'[c].fulfilled # "open"
    BY <1>3, <1>10 DEF Book
  <2> QED
    BY <1>1, <1>2, <1>3, <2>1 DEF SInv, Due, Inside, n
<1>21. Walked'
  BY <1>2 DEF Walked
<1> QED
  BY <1>15, <1>16, <1>17, <1>18, <1>19, <1>20, <1>21 DEF SInv, Durable, StagesAssumption
LEMMA GateKeeps ==
  ASSUME SInv, Gate
  PROVE  SInv' /\ Grows
<1>1. /\ run.at = "gate" /\ UNCHANGED <<targets, marked, chain, outputs, published, completions>>
      /\ run' = [run EXCEPT !.at = "publish"] \/ run' = Resting
  BY DEF Gate
<1>2. Durable' /\ Grows
  BY <1>1, SameDurable DEF Untouched
<1>3. CASE run' = Resting
  BY <1>2, <1>3, AtRest DEF SInv, StagesAssumption
<1>4. CASE run' = [run EXCEPT !.at = "publish"]
  <2>1. /\ DOMAIN run' = DOMAIN run /\ run' = [f \in DOMAIN run' |-> run'[f]] /\ run'.at = "publish"
        /\ \A f \in DOMAIN run \ {"at"} : run'[f] = run[f]
        /\ {"chapter", "checkpoint", "ground", "cursor", "text"} \subseteq DOMAIN run \ {"at"}
    BY <1>4 DEF SInv, Due
  <2>2. /\ run'.chapter = run.chapter /\ run'.checkpoint = run.checkpoint /\ run'.ground = run.ground
        /\ run'.cursor = run.cursor /\ run'.text = run.text
    BY <2>1
  <2>3. Due'
    BY <1>1, <2>1, <2>2 DEF SInv, Due, Done, Inside, Chapter
  <2>4. OutlineReceipt' = OutlineReceipt /\ Chapter' = Chapter
    BY <2>2 DEF OutlineReceipt, Chapter
  <2>5. Walked'
    BY <1>1, <2>1, <2>2, <2>4 DEF SInv, Walked
  <2> QED
    BY <1>2, <2>3, <2>5 DEF SInv, StagesAssumption
<1> QED
  BY <1>1, <1>3, <1>4

\* When the runner publishes, it has been through all the receipts: the last one accepted its text.
LEMMA EvidenceTold ==
  ASSUME SInv, PublishChapter, NEW gap
  PROVE  Told(Evidence(gap))
<1> DEFINE p == Evidence(gap)
           r == chain[Chapter]
           k == run.cursor
<1>1. run.at = "publish" /\ folder.notes = run.ground.notes
  BY DEF PublishChapter
<1>2. Linked(Chapter) /\ IsSeq(r) /\ Len(r) \in Nat
  BY <1>1, SeqEnds DEF SInv, Durable, Shaped, Due, Inside
<1>3. /\ k \in 1 .. Len(r) /\ r[1] = OutlineReceipt /\ run.ground.outline = run.checkpoint.text
      /\ \A i \in 2 .. k : i <= 3 => r[i].input.ground = run.ground
      /\ \A i \in 4 .. k : Given(r, i, run.ground.notes)
      /\ k >= 4 /\ run.text = Handed(r[k]) /\ r[k].stage = "validator" /\ Passed(r, k)
  BY <1>1 DEF SInv, Walked
<1>4. k = Len(r)
  <2>1. SUFFICES ASSUME k # Len(r)
                 PROVE  FALSE
    OBVIOUS
  <2>2. k + 1 \in 2 .. Len(r) /\ (k + 1) - 1 = k
    BY <1>2, <1>3, <2>1
  <2>3. r[k + 1].stage = After[r[k].stage] /\ (r[k + 1].stage = "repair" => ~Passed(r, k))
    BY <1>2, <2>2 DEF Linked, Refused
  <2> QED
    BY <1>3, <2>3 DEF After
<1>5. /\ p.target = run.checkpoint.scope.target /\ p.outline = run.checkpoint.text /\ p.body = Canonical(run.text)
      /\ p.notes = run.ground.notes /\ p.chain = r
  BY <1>1 DEF Evidence
<1> HIDE DEF p, r, k
<1>6. r[1].stage = "outline" /\ r[1].output.text = p.outline /\ r[1].input.ground.target = p.target
  BY <1>3, <1>5 DEF OutlineReceipt, Receipt, Input, Answer
<1>7. \A i \in 2 .. Len(r) : r[i].stage = After[r[i - 1].stage]
  BY <1>2 DEF Linked, r
<1>8. \A i \in 2 .. 3 : r[i].input.ground.outline = p.outline /\ r[i].input.ground.notes = p.notes
  BY <1>2, <1>3, <1>4, <1>5
<1>9. \A i \in 4 .. Len(r) :
        /\ r[i].input.text = IF r[i - 1].stage = "validator" THEN r[i - 1].input.text ELSE r[i - 1].output.text
        /\ r[i].stage = "validator" => r[i].input.ground.notes = p.notes
  <2>1. ASSUME NEW i \in 4 .. Len(r)
        PROVE  Given(r, i, run.ground.notes)
    BY <1>3, <1>4, <2>1
  <2>2. p.notes = run.ground.notes
    BY <1>5
  <2> QED
    BY <2>1, <2>2 DEF Given, Handed
<1>10. /\ Last(r).stage = "validator" /\ Passed(r, Len(r)) /\ p.body = Canonical(Last(r).input.text)
  BY <1>3, <1>4, <1>5 DEF Handed, Last
<1>11. \A i \in 4 .. Len(r) : r[i].stage = "repair" =>
         /\ ~Passed(r, i - 1)
         /\ r[i].input.verdict.ok = r[i - 1].output.ok /\ r[i].input.verdict.sound = Intact(r, i - 1)
  <2>1. \A i \in 4 .. Len(r) : i \in 2 .. Len(r)
    BY <1>2
  <2> QED
    BY <1>2, <2>1 DEF Linked, Refused, r
<1>12. Told(p)
  BY <1>5, <1>6, <1>7, <1>8, <1>9, <1>10, <1>11 DEF Told
<1> QED
  BY <1>12 DEF p

LEMMA PublishKeeps ==
  ASSUME SInv, PublishChapter
  PROVE  SInv' /\ Grows
<1>1. PICK gap \in Gaps : published' = Append(published, Evidence(gap))
  BY DEF PublishChapter
<1> DEFINE p == Evidence(gap)
           n == Len(published)
<1>2. /\ run' = [run EXCEPT !.at = "complete"] /\ run.at = "publish"
      /\ UNCHANGED <<targets, marked, chain, outputs, completions>>
  BY DEF PublishChapter
<1>3. /\ DOMAIN run' = DOMAIN run /\ run' = [f \in DOMAIN run' |-> run'[f]] /\ run'.at = "complete"
  BY <1>2 DEF SInv, Due
<1>4. /\ n = Done /\ Done' = Done /\ Chapter = n + 1 /\ Chapter \in Book /\ n \in Nat /\ ChapterCount \in Nat
      /\ \A c \in 1 .. n : targets[c].fulfilled # "open"
      /\ p.target = targets[n + 1].carried
  BY <1>2, SeqEnds DEF SInv, Durable, Shaped, Due, Done, Inside, Evidence, StagesAssumption
<1>5. Told(p)
  BY EvidenceTold
<1>6. /\ IsSeq(published') /\ Len(published') = n + 1 /\ published'[n + 1] = p
      /\ \A i \in 1 .. n : published'[i] = published[i]
      /\ IsPrefix(published, published')
  BY <1>1, SeqEnds DEF SInv, Durable, Shaped
<1> HIDE DEF p, n
<1>7. \A i \in 1 .. n + 1 : i \in 1 .. n \/ i = n + 1
  BY <1>4
<1>8. Shaped'
  <2>1. n + 1 <= ChapterCount
    BY <1>4 DEF Book
  <2> QED
    BY <1>2, <1>4, <1>6, <2>1 DEF SInv, Durable, Shaped
<1>9. \A c \in Book : Linked(c)'
  BY <1>2, SameLinks DEF SInv, Durable
<1>10. InOrder'
  <2>1. Fulfilled'
    BY <1>2, <1>4 DEF SInv, Durable, InOrder, Fulfilled
  <2>2. \A c \in 1 .. n : published[c].target = targets[c].carried
    BY DEF SInv, Durable, InOrder, n
  <2>3. \A c \in 1 .. n + 1 : published'[c].target = targets[c].carried
    BY <1>4, <1>6, <1>7, <2>2
  <2>4. \A c \in Book : marked[c] # <<>> => \A d \in 1 .. c - 1 : targets[d].fulfilled # "open"
    BY DEF SInv, Durable, InOrder
  <2> QED
    BY <1>2, <1>4, <1>6, <2>1, <2>3, <2>4 DEF InOrder
<1>11. \A i \in 1 .. Len(published') : Told(published'[i])
  <2>1. \A i \in 1 .. n : Told(published[i])
    BY DEF SInv, Durable, n
  <2> QED
    BY <1>5, <1>6, <1>7, <2>1
<1>12. Grows
  BY <1>2, <1>6, SeqEnds DEF SInv, Durable, Shaped, Grows
<1>13. Due'
  BY <1>2, <1>3, <1>4, <1>6 DEF SInv, Due, Inside
<1>14. Walked'
  BY <1>3 DEF Walked
<1> QED
  BY <1>8, <1>9, <1>10, <1>11, <1>12, <1>13, <1>14 DEF SInv, Durable, StagesAssumption

-----------------------------------------------------------------------------
LEMMA StagesStepKeeps ==
  ASSUME SInv, [StagesNext]_stageVars
  PROVE  SInv' /\ Grows
<1>1. CASE UNCHANGED stageVars
  <2>1. Durable' /\ Grows
    BY <1>1, SameDurable DEF Untouched, stageVars
  <2>2. Due' /\ Walked'
    BY <1>1, SameRunner DEF stageVars
  <2> QED
    BY <2>1, <2>2 DEF SInv, StagesAssumption
<1>2. CASE StagesNext
  BY <1>2, EditKeeps, StopKeeps, ResumeKeeps, FulfilKeeps, CheckKeeps, ReuseKeeps, StageOutlineKeeps, MarkKeeps,
     RecordKeeps, LoadKeeps, ReplayKeeps, ExecuteKeeps, SucceedKeeps, FailKeeps, GateKeeps, PublishKeeps, RecordCompletionKeeps
     DEF StagesNext
<1> QED
  BY <1>1, <1>2

\* The evidence of every published chapter tells how its body came about, over any number of runs
\* that stop anywhere, and nothing durable is taken back or carried twice (StagesHold).
THEOREM EvidenceTellsAll ==
  ASSUME StagesAssumption
  PROVE  StagesSpec => StagesHold
<1>1. StagesInit => SInv
  BY StagesStart
<1>2. SInv /\ [StagesNext]_stageVars => SInv'
  BY StagesStepKeeps
<1>3. SInv /\ SInv' /\ [StagesNext]_stageVars => [StagesStep]_stageVars
  <2>1. SUFFICES ASSUME SInv, SInv', [StagesNext]_stageVars
                 PROVE  StagesStep
    OBVIOUS
  <2>2. Grows
    BY <2>1, StagesStepKeeps
  <2>3. DOMAIN published' = 1 .. Len(published') /\ \A i \in 1 .. Len(published') : Told(published'[i])
    BY <2>1, SeqEnds DEF SInv, Durable, Shaped
  <2>4. (\A c \in Book : Accounted(c))' /\ Fulfilled'
    BY <2>1 DEF SInv, Durable, InOrder, Linked
  <2>5. \A c \in Book : \A o, q \in outputs'[c] :
          o.after = q.after /\ o.stage = q.stage /\ o.input = q.input => o = q
    BY <2>1 DEF SInv, Durable, Linked
  <2> QED
    BY <2>2, <2>3, <2>4, <2>5 DEF Grows, StagesStep
<1> QED
  BY <1>1, <1>2, <1>3, PTL DEF StagesSpec, StagesHold
==============================================================================
