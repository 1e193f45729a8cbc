---------------------------- MODULE DeliveryProofs ----------------------------
(***************************************************************************)
(* Proofs about DeliveryQueue, for any number of workers and any bounds:   *)
(* type correctness, that every POST after the first one was preceded by a *)
(* reopening of the job, and that one confirmed absence leaves the pages of *)
(* at most one attempt.                                                    *)
(*                                                                         *)
(* PostsNeedReopening is not inductive.  The invariant adds that attempt   *)
(* numbers are handed out once, what an attempt that was permitted to POST *)
(* can still report, and that a job which may be POSTed again ("not        *)
(* barred") has already paid, in `reopened', for every earlier permission. *)
(*                                                                         *)
(* And about DeliveryIntents: a process that generates finds a job for     *)
(* every chapter that was published before and owes one, and no job is     *)
(* made for a chapter that was not published.                              *)
(*                                                                         *)
(* The first speaks of two places of the executor.  What makes it true is  *)
(* spread over the way there: the scan begins with every completed run,    *)
(* each step hands on what it has not dealt with yet, and until the        *)
(* process lets the writer lock go nobody else completes a run.            *)
(***************************************************************************)
EXTENDS DeliveryQueue, DeliveryIntents, FiniteSetTheorems, TLAPS


Started == {"post", "sent", "readback"}
Early == {"preflight", "query", "mark"}
Running == Early \cup Started \cup {"receipt", "finalize"}

\* Attempt numbers come from job.count.
Numbering ==
    /\ permitted \subseteq 1 .. job.count
    /\ job.lease <= job.count
    /\ \A w \in Workers : worker[w].attempt <= job.count
    /\ \A a \in Attempts : receipts[a] # "none" => a <= job.count

\* No two workers run the same attempt.
OneRunner ==
    \A v, w \in Workers : v # w /\ worker[v].attempt # 0 => worker[v].attempt # worker[w].attempt

\* What a worker has done so far agrees with where it is.
StageOK(w) ==
    LET r == worker[w] IN
    /\ r.pc \in Running => r.attempt # 0
    /\ r.pc \in Early => r.outcome = "none"
    /\ r.pc \in Started => r.attempt \in permitted
    /\ r.attempt \in permitted => r.pc \in Started \cup {"receipt", "finalize"}
    /\ r.attempt \in permitted => r.outcome # "retryable_failed"
    /\ r.pc = "receipt" => r.outcome # "none"
    /\ r.pc = "finalize" => receipts[r.attempt] # "none"
    /\ r.pc \in Early \cup Started \cup {"receipt"} => receipts[r.attempt] = "none"

\* An attempt that was permitted never reports that it can be retried.
Verdicts == \A a \in permitted : receipts[a] # "retryable_failed"

ClaimFresh == job.phase = "claimed" => job.lease \notin permitted

\* The job is in a state from which the next POST needs a reopening.
Barred ==
    /\ job.state \notin {"none", "pending", "retryable_failed"}
    /\ job.state = "delivering" => job.phase = "query_only" \/ job.lease \in permitted

Paid == Cardinality(permitted) <= reopened + (IF Barred THEN 1 ELSE 0)

IInv ==
    /\ TypeOK
    /\ Numbering
    /\ OneRunner
    /\ \A w \in Workers : StageOK(w)
    /\ Verdicts
    /\ ClaimFresh
    /\ Paid

-----------------------------------------------------------------------------

\* The initial state.
LEMMA InitIInv == Init => IInv
<1> SUFFICES ASSUME Init PROVE IInv
  OBVIOUS
<1> USE DeliveryAssumption
<1>1. TypeOK
  BY SMTT(30) DEF Init, TypeOK, Idle, JobRecords, WorkerRecords, PCs, Terminal, Claimable, Phases, NoTime, Attempts, Outcomes
<1>2. Numbering /\ OneRunner /\ Verdicts /\ ClaimFresh
  BY DEF Init, Numbering, OneRunner, Verdicts, ClaimFresh, Idle, Attempts
<1>3. \A w \in Workers : StageOK(w)
  BY DEF Init, StageOK, Idle, Started, Early, Running
<1>4. Paid
  BY FS_EmptySet DEF Init, Paid, Barred
<1> QED
  BY <1>1, <1>2, <1>3, <1>4 DEF IInv

\* A worker that moves on, reports or leaves keeps its type.
LEMMA WorkerUpdate ==
  ASSUME TypeOK, NEW w \in Workers
  PROVE  /\ Idle \in WorkerRecords
         /\ \A pc \in PCs : Goto(w, pc) \/ Leave(w, pc) => worker' \in [Workers -> WorkerRecords]
         /\ \A o \in Outcomes : Report(w, o) => worker' \in [Workers -> WorkerRecords]
<1>1. Idle \in WorkerRecords
  BY DeliveryAssumption DEF Idle, WorkerRecords, PCs
<1>2. worker[w] \in WorkerRecords
  BY DEF TypeOK
<1>3. ASSUME NEW r \in WorkerRecords, NEW pc \in PCs PROVE [r EXCEPT !.pc = pc] \in WorkerRecords
  BY DEF WorkerRecords
<1>4. ASSUME NEW o \in Outcomes
      PROVE  [worker[w] EXCEPT !.pc = "receipt", !.outcome = o] \in WorkerRecords
  BY <1>2 DEF WorkerRecords, PCs
<1>5. ASSUME NEW o \in Outcomes, Report(w, o) PROVE worker' \in [Workers -> WorkerRecords]
  <2>1. worker' = [worker EXCEPT ![w] = [worker[w] EXCEPT !.pc = "receipt", !.outcome = o]]
    BY <1>5 DEF Report, TypeOK
  <2> QED
    BY <1>4, <2>1 DEF TypeOK
<1>6. ASSUME NEW pc \in PCs, Goto(w, pc) PROVE worker' \in [Workers -> WorkerRecords]
  <2>1. worker' = [worker EXCEPT ![w] = [worker[w] EXCEPT !.pc = pc]]
    BY <1>6 DEF Goto, TypeOK
  <2> QED
    BY <1>2, <1>3, <2>1 DEF TypeOK
<1>7. ASSUME NEW pc \in PCs, Leave(w, pc) PROVE worker' \in [Workers -> WorkerRecords]
  BY <1>1, <1>3, <1>7 DEF Leave, TypeOK
<1> QED
  BY <1>1, <1>5, <1>6, <1>7

\* The fields of a job that is released, and of one whose phase or state alone changes.
LEMMA JobUpdate ==
  ASSUME job \in JobRecords, NEW s \in Terminal \cup Claimable
  PROVE  /\ Released(s) \in JobRecords
         /\ Released(s).state = s /\ Released(s).lease = 0 /\ Released(s).phase = "none"
         /\ Released(s).count = job.count /\ Released(s).last = job.last
         /\ [job EXCEPT !.state = s] \in JobRecords
         /\ [job EXCEPT !.phase = "remote_mutation_started"] \in JobRecords
<1> USE DeliveryAssumption
<1>1. Released(s) = [state |-> s, lease |-> 0, phase |-> "none", count |-> job.count,
                     last |-> job.last]
  <2>1. Released(s) = [job EXCEPT !.state = s, !.lease = 0, !.phase = "none"]
    BY DEF Released
  <2> QED
    BY <2>1 DEF JobRecords
<1>2. /\ Released(s) \in JobRecords
      /\ Released(s).state = s /\ Released(s).lease = 0 /\ Released(s).phase = "none"
      /\ Released(s).count = job.count /\ Released(s).last = job.last
  <2> DEFINE r == [state |-> s, lease |-> 0, phase |-> "none", count |-> job.count,
                   last |-> job.last]
  <2>1. r \in JobRecords
    BY DEF JobRecords, Phases
  <2> QED
    BY <1>1, <2>1
<1>3. [job EXCEPT !.state = s] \in JobRecords
  BY DEF JobRecords
<1>4. [job EXCEPT !.phase = "remote_mutation_started"] \in JobRecords
  BY DEF JobRecords, Phases
<1> QED
  BY <1>2, <1>3, <1>4

\* Applying the receipt of the attempt that holds the lease keeps the job's type.
LEMMA ApplyType ==
  ASSUME TypeOK, NEW a \in Attempts, receipts[a] # "none", ApplyReceipt(a)
  PROVE  /\ job' \in JobRecords
         /\ job'.lease = 0 /\ job'.phase = "none" /\ job'.count = job.count
         /\ job'.state \notin {"none", "pending", "delivering"}
         /\ job'.state = StateOf(receipts[a])
         /\ since' \in NoTime .. QuarantineTicks
         /\ reopened' \in Nat
<1> USE DeliveryAssumption
<1> DEFINE o == receipts[a]
           r == Released(StateOf(o))
<1>1. o \in Outcomes
  BY DEF TypeOK
<1>2. StateOf(o) \in Terminal \cup (Claimable \ {"pending"})
  BY <1>1 DEF StateOf, Outcomes, Terminal, Claimable
<1>3. /\ r \in JobRecords
      /\ r.state = StateOf(o) /\ r.lease = 0 /\ r.phase = "none" /\ r.count = job.count
  BY <1>2, JobUpdate DEF TypeOK
<1>4. job' = [r EXCEPT !.last = a]
  BY DEF ApplyReceipt
<1>5. /\ job' \in JobRecords
      /\ job'.state = StateOf(o) /\ job'.lease = 0 /\ job'.phase = "none"
      /\ job'.count = job.count
  <2> HIDE DEF r, o
  <2> QED
    BY <1>3, <1>4 DEF JobRecords, Attempts
<1>6. since' \in NoTime .. QuarantineTicks
  BY DEF ApplyReceipt, TypeOK, NoTime
<1>7. reopened' \in Nat
  BY DEF ApplyReceipt, TypeOK
<1>8. job'.state \notin {"none", "pending", "delivering"}
  BY <1>2, <1>5 DEF Terminal, Claimable
<1> QED
  BY <1>5, <1>6, <1>7, <1>8

\* What a claim writes.
LEMMA ClaimType ==
  ASSUME TypeOK, NEW w \in Workers, Claim(w)
  PROVE  LET a == job.count + 1
             q == (Expired /\ ExpiredTo = "uncertain") \/ job.state = "uncertain" IN
         /\ a \in Attempts
         /\ job' \in JobRecords
         /\ job'.state = "delivering" /\ job'.lease = a /\ job'.count = a
         /\ job'.phase = IF q THEN "query_only" ELSE "claimed"
         /\ worker' \in [Workers -> WorkerRecords]
         /\ worker'[w].attempt = a /\ worker'[w].pc = "preflight" /\ worker'[w].outcome = "none"
         /\ \A v \in Workers \ {w} : worker'[v] = worker[v]
<1> USE DeliveryAssumption
<1> DEFINE a == job.count + 1
           p == IF job.state = "delivering" THEN ExpiredTo ELSE job.state
           ph == IF p = "uncertain" THEN "query_only" ELSE "claimed"
           r == [pc |-> "preflight", attempt |-> a, query |-> p = "uncertain",
                 outcome |-> "none", resolve |-> worker[w].resolve]
<1>1. a \in Attempts
  BY DEF Claim
<1>2. job' = [state |-> "delivering", lease |-> a, phase |-> ph, count |-> a, last |-> job.last]
  <2>1. job' = [job EXCEPT !.state = "delivering", !.lease = a, !.count = a, !.phase = ph]
    BY DEF Claim
  <2> HIDE DEF a, ph
  <2> QED
    BY <2>1 DEF TypeOK, JobRecords
<1>3. job' \in JobRecords
  BY <1>1, <1>2 DEF TypeOK, JobRecords, Phases, Attempts
<1>4. r \in WorkerRecords
  BY <1>1 DEF TypeOK, WorkerRecords, PCs, Attempts
<1>5. worker' = [worker EXCEPT ![w] = r]
  BY DEF Claim
<1>6. worker' \in [Workers -> WorkerRecords] /\ worker'[w] = r
      /\ \A v \in Workers \ {w} : worker'[v] = worker[v]
  <2> HIDE DEF r
  <2> QED
    BY <1>4, <1>5 DEF TypeOK
<1>7. (p = "uncertain") <=> ((Expired /\ ExpiredTo = "uncertain") \/ job.state = "uncertain")
  BY DEF Claim, Expired, ExpiredTo, Claimable
<1> QED
  BY <1>1, <1>2, <1>3, <1>6, <1>7

\* Every step keeps the types.
LEMMA TypeStep == IInv /\ [Next]_vars => TypeOK'
<1> SUFFICES ASSUME IInv, [Next]_vars PROVE TypeOK'
  OBVIOUS
<1> USE DeliveryAssumption DEF remote
<1>0. TypeOK /\ (\A w \in Workers : StageOK(w)) /\ Numbering
  BY DEF IInv
<1>1. CASE UNCHANGED vars
  BY <1>0, <1>1 DEF vars, TypeOK
<1>2. CASE Enqueue
  BY <1>0, <1>2 DEF Enqueue, TypeOK, JobRecords, Terminal, Claimable
<1>3. CASE EnqueueConflict
  BY <1>0, <1>3, JobUpdate DEF EnqueueConflict, TypeOK, Terminal
<1>4. CASE Tick
  BY <1>0, <1>4 DEF Tick, TypeOK, NoTime, Attempts
<1>5. ASSUME NEW w \in Workers, StartResolve(w) PROVE TypeOK'
  <2>1. [Idle EXCEPT !.pc = "resolving", !.resolve = TRUE] \in WorkerRecords
    <3>1. ASSUME NEW r \in WorkerRecords
          PROVE  [r EXCEPT !.pc = "resolving", !.resolve = TRUE] \in WorkerRecords
      BY DEF WorkerRecords, PCs
    <3> QED
      BY <1>0, <1>5, <3>1, WorkerUpdate
  <2> QED
    BY <1>0, <1>5, <2>1 DEF StartResolve, TypeOK
<1>6. ASSUME NEW w \in Workers, ClaimRecovers(w) PROVE TypeOK'
  <2>1. job.lease \in Attempts
    BY <1>0, <1>6 DEF ClaimRecovers, TypeOK, JobRecords, Attempts
  <2>2. ApplyReceipt(job.lease) /\ receipts[job.lease] # "none"
    BY <1>6 DEF ClaimRecovers
  <2> QED
    BY <1>0, <1>6, <2>1, <2>2, ApplyType, WorkerUpdate DEF ClaimRecovers, AfterAttempt, PCs, TypeOK
<1>7. ASSUME NEW w \in Workers, ClaimNothing(w) PROVE TypeOK'
  BY <1>0, <1>7, WorkerUpdate DEF ClaimNothing, AfterAttempt, PCs, TypeOK
<1>8. ASSUME NEW w \in Workers, Claim(w) PROVE TypeOK'
  <2>1. since' \in NoTime .. QuarantineTicks /\ leaseLeft' \in 0 .. LeaseTicks /\ reopened' \in Nat
    BY <1>0, <1>8 DEF Claim, TypeOK, NoTime
  <2>2. job'.lease # 0 /\ job'.phase # "none"
    BY <1>0, <1>8, ClaimType DEF Attempts
  <2> QED
    BY <1>0, <1>8, <2>1, <2>2, ClaimType DEF Claim, TypeOK
<1>9. ASSUME NEW w \in Workers, Preflight(w) PROVE TypeOK'
  BY <1>0, <1>9, WorkerUpdate DEF Preflight, Fault, TypeOK, Outcomes, PCs
<1>10. ASSUME NEW w \in Workers, Query(w) PROVE TypeOK'
  BY <1>0, <1>10, WorkerUpdate DEF Query, Fault, TypeOK, Outcomes, Classify, PCs
<1>11. ASSUME NEW w \in Workers, Mark(w) PROVE TypeOK'
  <2>1. job' \in JobRecords /\ job'.state = job.state /\ job'.lease = job.lease
        /\ job'.phase = "remote_mutation_started"
    BY <1>0, <1>11 DEF Mark, TypeOK, JobRecords, Phases
  <2>2. job.state = "delivering" /\ worker[w].attempt = job.lease /\ job.lease \in Attempts
    BY <1>0, <1>11 DEF Mark, CanMark, LeaseHeld, TypeOK, JobRecords, Attempts
  <2> QED
    BY <1>0, <1>11, <2>1, <2>2, WorkerUpdate DEF Mark, TypeOK, PCs
<1>12. ASSUME NEW w \in Workers, MarkFails(w) PROVE TypeOK'
  <2>1. /\ job' \in JobRecords /\ job'.state = job.state /\ job'.lease = job.lease
        /\ (job'.phase # "none") = (job.phase # "none")
    BY <1>0, <1>12 DEF MarkFails, CanMark, LeaseHeld, TypeOK, JobRecords, Phases
  <2> QED
    BY <1>0, <1>12, <2>1, WorkerUpdate DEF MarkFails, Fault, TypeOK, Outcomes
<1>13. ASSUME NEW w \in Workers, Post(w) PROVE TypeOK'
  <2> DEFINE a == worker[w].attempt
  <2>1. /\ a \in permitted /\ a \in Attempts
        /\ sends' \in [Attempts -> Nat] /\ flight' \in [Attempts -> Nat]
        /\ \A b \in Attempts : flight'[b] > 0 => b \in permitted
    BY <1>0, <1>13 DEF Post, TypeOK, StageOK, Started
  <2>2. worker' \in [Workers -> WorkerRecords]
    BY <1>0, <1>13, WorkerUpdate DEF Post, PCs
  <2> QED
    BY <1>0, <1>13, <2>1, <2>2 DEF Post, TypeOK
<1>14. ASSUME NEW w \in Workers, PostReturns(w) PROVE TypeOK'
  BY <1>0, <1>14, WorkerUpdate DEF PostReturns, Fault, TypeOK, Outcomes, PCs
<1>15. ASSUME NEW w \in Workers, Readback(w) PROVE TypeOK'
  BY <1>0, <1>15, WorkerUpdate DEF Readback, ReadbackOutcome, Fault, TypeOK, Outcomes, Classify
<1>16. ASSUME NEW w \in Workers, WriteReceipt(w) PROVE TypeOK'
  <2>1. worker[w].outcome \in Outcomes \cup {"none"}
    BY <1>0 DEF TypeOK, WorkerRecords
  <2> QED
    BY <1>0, <1>16, <2>1, WorkerUpdate DEF WriteReceipt, TypeOK, PCs
<1>17. ASSUME NEW w \in Workers, Finalize(w) PROVE TypeOK'
  <2> DEFINE a == worker[w].attempt
  <2>1. a \in Attempts /\ receipts[a] # "none"
    BY <1>0, <1>17 DEF Finalize, StageOK, Running, TypeOK, WorkerRecords, Attempts
  <2>2. CASE LeaseHeld(a) /\ ApplyReceipt(a) /\ AfterAttempt(w)
    BY <1>0, <1>17, <2>1, <2>2, ApplyType, WorkerUpdate DEF Finalize, AfterAttempt, PCs, TypeOK
  <2>3. CASE ~(LeaseHeld(a) /\ ApplyReceipt(a) /\ AfterAttempt(w))
    BY <1>0, <1>17, <2>3, WorkerUpdate DEF Finalize, AfterAttempt, PCs, TypeOK
  <2> QED
    BY <2>2, <2>3
<1>18. ASSUME NEW w \in Workers, CheckAbsent(w) PROVE TypeOK'
  BY <1>0, <1>18, WorkerUpdate DEF CheckAbsent, PCs, TypeOK
<1>19. ASSUME NEW w \in Workers, ConfirmAbsent(w) PROVE TypeOK'
  <2>1. CASE job.state = "uncertain"
    <3>1. job' \in JobRecords /\ job'.state = "pending" /\ job'.lease = job.lease
          /\ job'.phase = job.phase
      BY <1>0, <1>19, <2>1 DEF ConfirmAbsent, TypeOK, JobRecords, Claimable
    <3> QED
      BY <1>0, <1>19, <2>1, <3>1, WorkerUpdate DEF ConfirmAbsent, TypeOK, PCs
  <2>2. CASE job.state # "uncertain"
    BY <1>0, <1>19, <2>2, WorkerUpdate DEF ConfirmAbsent, TypeOK, PCs
  <2> QED
    BY <2>1, <2>2
<1>20. ASSUME NEW w \in Workers, Abandon(w) PROVE TypeOK'
  BY <1>0, <1>20, WorkerUpdate DEF Abandon, Fault, TypeOK, PCs
<1>21. ASSUME NEW a \in Attempts, Land(a) PROVE TypeOK'
  BY <1>0, <1>21 DEF Land, TypeOK
<1>22. ASSUME NEW a \in Attempts, Lose(a) PROVE TypeOK'
  BY <1>0, <1>22 DEF Lose, Fault, TypeOK
<1> QED
  BY <1>1, <1>2, <1>3, <1>4, <1>5, <1>6, <1>7, <1>8, <1>9, <1>10, <1>11, <1>12, <1>13,
     <1>14, <1>15, <1>16, <1>17, <1>18, <1>19, <1>20, <1>21, <1>22
     DEF Next, Reconcile, WorkerStep

\* The set of permitted attempts is finite.
LEMMA PermittedFinite ==
  ASSUME TypeOK
  PROVE  IsFiniteSet(permitted) /\ Cardinality(permitted) \in Nat
<1>1. IsFiniteSet(Attempts)
  BY DeliveryAssumption, FS_Interval DEF Attempts
<1> QED
  BY <1>1, FS_Subset, FS_CardinalityType DEF TypeOK

\* Steps that change neither the job nor who was permitted, and move worker w within the
\* stages an attempt passes through, keep the whole invariant except its types.
LEMMA QuietStep ==
  ASSUME IInv, TypeOK', NEW w \in Workers,
         UNCHANGED <<job, permitted, receipts, reopened>>,
         \A v \in Workers \ {w} : worker'[v] = worker[v],
         worker'[w].attempt \in {0, worker[w].attempt},
         StageOK(w)'
  PROVE  IInv'
<1>1. Numbering'
  BY DEF IInv, Numbering, TypeOK, JobRecords
<1>2. OneRunner'
  BY DEF IInv, OneRunner
<1>3. \A v \in Workers : StageOK(v)'
  BY DEF IInv, StageOK
<1>4. Verdicts' /\ ClaimFresh'
  BY DEF IInv, Verdicts, ClaimFresh
<1>5. Paid'
  BY DEF IInv, Paid, Barred
<1> QED
  BY <1>1, <1>2, <1>3, <1>4, <1>5 DEF IInv

\* Steps that leave every worker where it is.
LEMMA RemoteStep ==
  ASSUME IInv, TypeOK', UNCHANGED <<job, worker, permitted, receipts, reopened>>
  PROVE  IInv'
<1>1. Numbering' /\ OneRunner' /\ Verdicts' /\ ClaimFresh' /\ Paid'
  BY DEF IInv, Numbering, OneRunner, Verdicts, ClaimFresh, Paid, Barred
<1>2. \A v \in Workers : StageOK(v)'
  BY DEF IInv, StageOK
<1> QED
  BY <1>1, <1>2 DEF IInv

\* A worker that leaves with attempt number 0 satisfies its stage.
LEMMA LeaveStage ==
  ASSUME TypeOK, NEW w \in Workers, NEW pc \in {"idle", "check", "confirm"}, Leave(w, pc),
         permitted' \subseteq Attempts
  PROVE  /\ StageOK(w)'
         /\ worker'[w].attempt = 0
         /\ \A v \in Workers \ {w} : worker'[v] = worker[v]
<1>1. worker'[w] = [Idle EXCEPT !.pc = pc]
  BY DEF Leave, TypeOK
<1>2. worker'[w].attempt = 0 /\ worker'[w].pc = pc
  BY <1>1 DEF Idle
<1>3. 0 \notin Attempts
  BY DEF Attempts
<1> QED
  BY <1>2, <1>3 DEF StageOK, Started, Early, Running, Leave, TypeOK

\* Applying the lease holder's receipt pays for every way back to a claimable state.
LEMMA ApplyStep ==
  ASSUME IInv, TypeOK', NEW w \in Workers, NEW a \in Attempts, job.state = "delivering",
         a = job.lease, receipts[a] # "none", ApplyReceipt(a), AfterAttempt(w),
         UNCHANGED <<permitted, receipts>>
  PROVE  IInv'
<1>0. TypeOK /\ permitted' \subseteq Attempts
  BY DEF IInv, TypeOK
<1>1. /\ job'.lease = 0 /\ job'.phase = "none" /\ job'.count = job.count
      /\ job'.state = StateOf(receipts[a])
      /\ job'.state \notin {"none", "pending", "delivering"}
  BY <1>0, ApplyType
<1>2. /\ StageOK(w)' /\ worker'[w].attempt = 0
      /\ \A v \in Workers \ {w} : worker'[v] = worker[v]
  BY <1>0, LeaveStage DEF AfterAttempt
<1>3. Numbering'
  BY <1>0, <1>1, <1>2 DEF IInv, Numbering, TypeOK, JobRecords
<1>4. OneRunner'
  BY <1>2 DEF IInv, OneRunner
<1>5. \A v \in Workers : StageOK(v)'
  BY <1>2 DEF IInv, StageOK
<1>6. Verdicts' /\ ClaimFresh'
  BY <1>1 DEF IInv, Verdicts, ClaimFresh
<1>7. Paid'
  <2>1. CASE receipts[a] = "retryable_failed"
    <3>1. a \notin permitted
      BY <2>1 DEF IInv, Verdicts
    <3>2. Barred <=> job.phase = "query_only"
      BY <3>1 DEF Barred
    <3>3. reopened' = IF job.phase = "query_only" THEN reopened + 1 ELSE reopened
      BY <2>1 DEF ApplyReceipt, Reopens
    <3> QED
      BY <1>0, <1>1, <3>2, <3>3, PermittedFinite DEF IInv, Paid, TypeOK, Barred, StateOf
  <2>2. CASE receipts[a] # "retryable_failed"
    <3>1. reopened' = reopened
      BY <2>2 DEF ApplyReceipt, Reopens
    <3>2. Barred'
      BY <1>1, <2>2 DEF Barred, StateOf
    <3>3. Cardinality(permitted) <= reopened + 1
      BY <1>0, PermittedFinite DEF IInv, Paid, TypeOK
    <3> QED
      BY <3>1, <3>2, <3>3 DEF Paid
  <2> QED
    BY <2>1, <2>2
<1> QED
  BY <1>3, <1>4, <1>5, <1>6, <1>7 DEF IInv

LEMMA ClaimStep ==
  ASSUME IInv, TypeOK', NEW w \in Workers, Claim(w)
  PROVE  IInv'
<1> DEFINE n == job.count + 1
<1>0. TypeOK /\ UNCHANGED <<permitted, receipts>>
  BY DEF IInv, Claim
<1>1. /\ n \in Attempts
      /\ job'.state = "delivering" /\ job'.lease = n /\ job'.count = n
      /\ worker'[w].attempt = n /\ worker'[w].pc = "preflight" /\ worker'[w].outcome = "none"
      /\ \A v \in Workers \ {w} : worker'[v] = worker[v]
  BY <1>0, ClaimType
<1>2. job'.phase = IF (Expired /\ ExpiredTo = "uncertain") \/ job.state = "uncertain"
                   THEN "query_only" ELSE "claimed"
  BY <1>0, ClaimType
<1>3. job.count \in Nat /\ n \notin permitted /\ n # 0 /\ receipts[n] = "none"
      /\ \A v \in Workers : worker[v].attempt # n
  <2>1. job.count \in Nat /\ n \in Attempts
    BY <1>0, <1>1 DEF TypeOK, JobRecords
  <2>2. permitted \subseteq 1 .. job.count
    BY DEF IInv, Numbering
  <2>3. n \notin permitted /\ n # 0
    BY <2>1, <2>2
  <2>4. ASSUME NEW v \in Workers PROVE worker[v].attempt # n
    <3>1. worker[v].attempt <= job.count
      BY DEF IInv, Numbering
    <3> QED
      BY <2>1, <3>1
  <2>5. receipts[n] = "none"
    BY <2>1 DEF IInv, Numbering
  <2> QED
    BY <2>1, <2>3, <2>4, <2>5
<1>4. Numbering'
  <2>1. permitted \subseteq 1 .. n
    BY <1>3 DEF IInv, Numbering
  <2>2. ASSUME NEW v \in Workers PROVE worker'[v].attempt <= n
    <3>1. worker[v].attempt <= job.count /\ worker[v].attempt \in Nat
      BY <1>0 DEF IInv, Numbering, TypeOK, WorkerRecords
    <3> QED
      BY <1>1, <1>3, <3>1
  <2>3. ASSUME NEW b \in Attempts, receipts[b] # "none" PROVE b <= n
    BY <1>3, <2>3 DEF IInv, Numbering, Attempts
  <2> QED
    BY <1>0, <1>1, <1>3, <2>1, <2>2, <2>3 DEF Numbering
<1>5. OneRunner'
  BY <1>1, <1>3 DEF IInv, OneRunner
<1>6. \A v \in Workers : StageOK(v)'
  BY <1>0, <1>1, <1>3 DEF IInv, StageOK, Early, Started, Running
<1>7. Verdicts' /\ ClaimFresh'
  BY <1>0, <1>1, <1>3 DEF IInv, Verdicts, ClaimFresh
<1>8. Paid'
  <2>0. Cardinality(permitted) \in Nat /\ reopened \in Nat
    BY <1>0, PermittedFinite DEF TypeOK
  <2>1. reopened' \in {reopened, reopened + 1}
    BY DEF Claim
  <2>2. CASE job'.phase = "query_only"
    <3>1. Barred'
      BY <1>1, <2>2 DEF Barred
    <3> QED
      BY <1>0, <2>0, <2>1, <3>1 DEF IInv, Paid
  <2>3. CASE job'.phase # "query_only" /\ ~Barred
    BY <1>0, <2>0, <2>1, <2>3 DEF IInv, Paid
  <2>4. CASE job'.phase # "query_only" /\ Barred
    <3>1. Expired /\ ExpiredTo = "retryable_failed"
      BY <1>2, <2>4 DEF Claim, Claimable, Barred, ExpiredTo
    <3>2. job.phase = "query_only"
      BY <1>0, <2>4, <3>1 DEF Barred, Expired, ExpiredTo, IInv, ClaimFresh, TypeOK, JobRecords, Phases
    <3>3. reopened' = reopened + 1
      BY <3>1, <3>2 DEF Claim, Reopens, Expired
    <3> QED
      BY <1>0, <2>0, <3>3 DEF IInv, Paid
  <2> QED
    BY <2>2, <2>3, <2>4
<1> QED
  BY <1>4, <1>5, <1>6, <1>7, <1>8 DEF IInv

\* Granting a POST: the one step that adds to `permitted'.
LEMMA MarkStep ==
  ASSUME IInv, TypeOK', NEW w \in Workers, Mark(w)
  PROVE  IInv'
<1> DEFINE a == worker[w].attempt
<1>0. TypeOK /\ TypeOK' /\ StageOK(w)
  BY DEF IInv
<1>1. /\ permitted' = permitted \cup {a} /\ UNCHANGED <<receipts, reopened>>
      /\ worker'[w] = [worker[w] EXCEPT !.pc = "post"]
      /\ \A v \in Workers \ {w} : worker'[v] = worker[v]
  BY <1>0 DEF Mark, Goto, TypeOK
<1>2. worker'[w].attempt = a /\ worker'[w].pc = "post" /\ worker'[w].outcome = "none"
  BY <1>0, <1>1 DEF TypeOK, WorkerRecords, Mark, StageOK, Early
<1>3. /\ job.state = "delivering" /\ job.lease = a /\ job.phase # "query_only"
      /\ a \in Attempts /\ a \notin permitted
  BY <1>0 DEF Mark, CanMark, LeaseHeld, StageOK, Early, Started, TypeOK, JobRecords, Attempts
<1>4. /\ job'.state = "delivering" /\ job'.lease = a /\ job'.count = job.count
      /\ job'.phase = "remote_mutation_started"
  BY <1>0, <1>3 DEF Mark, TypeOK, JobRecords
<1>11. /\ \A v \in Workers : worker'[v].attempt = worker[v].attempt
      /\ receipts[a] = "none" /\ a <= job.count
  BY <1>0, <1>1, <1>2 DEF Mark, StageOK, Early, IInv, Numbering
<1>5. Numbering'
  <2>1. permitted' \subseteq 1 .. job.count
    <3>1. permitted \subseteq 1 .. job.count
      BY DEF IInv, Numbering
    <3>2. job.count \in Nat
      BY <1>0 DEF TypeOK, JobRecords
    <3>3. a \in Nat /\ 1 <= a
      BY <1>3 DEF Attempts
    <3>4. a \in 1 .. job.count
      BY <1>11, <3>2, <3>3
    <3> QED
      BY <1>1, <3>1, <3>4
  <2> QED
    BY <1>1, <1>11, <1>3, <1>4, <2>1 DEF IInv, Numbering
<1>6. OneRunner'
  BY <1>11 DEF IInv, OneRunner
<1>7. \A v \in Workers : StageOK(v)'
  <2>1. a # 0
    BY <1>3 DEF Attempts
  <2>2. StageOK(w)'
    BY <1>1, <1>2, <1>11, <2>1 DEF StageOK, Early, Started, Running
  <2>3. ASSUME NEW v \in Workers \ {w} PROVE StageOK(v)'
    <3>1. worker[v].attempt # a
      BY <2>1 DEF IInv, OneRunner
    <3> QED
      BY <1>1, <3>1 DEF IInv, StageOK
  <2> QED
    BY <2>2, <2>3
<1>8. Verdicts'
  BY <1>1, <1>11 DEF IInv, Verdicts
<1>9. ClaimFresh'
  BY <1>4 DEF ClaimFresh
<1>10. Paid'
  <2>1. ~Barred /\ Barred'
    BY <1>1, <1>3, <1>4 DEF Barred
  <2>2. Cardinality(permitted') = Cardinality(permitted) + 1
    BY <1>0, <1>1, <1>3, PermittedFinite, FS_AddElement
  <2> QED
    BY <1>0, <1>1, <2>1, <2>2, PermittedFinite DEF IInv, Paid, TypeOK
<1> QED
  BY <1>5, <1>6, <1>7, <1>8, <1>9, <1>10 DEF IInv

\* The invariant is inductive.
LEMMA NextIInv == IInv /\ [Next]_vars => IInv'
<1> SUFFICES ASSUME IInv, [Next]_vars PROVE IInv'
  OBVIOUS
<1> USE DEF remote
<1>0. TypeOK /\ TypeOK' /\ \A w \in Workers : StageOK(w)
  BY TypeStep DEF IInv
<1>23. ASSUME NEW w \in Workers, NEW pc \in PCs, Goto(w, pc)
      PROVE  /\ worker'[w].pc = pc /\ worker'[w].attempt = worker[w].attempt
             /\ worker'[w].outcome = worker[w].outcome
             /\ \A v \in Workers \ {w} : worker'[v] = worker[v]
  BY <1>0, <1>23 DEF Goto, TypeOK, WorkerRecords
<1>24. ASSUME NEW w \in Workers, NEW o \in Outcomes, Report(w, o)
      PROVE  /\ worker'[w].pc = "receipt" /\ worker'[w].attempt = worker[w].attempt
             /\ worker'[w].outcome = o /\ o # "none"
             /\ \A v \in Workers \ {w} : worker'[v] = worker[v]
  BY <1>0, <1>24 DEF Report, TypeOK, WorkerRecords, Outcomes
<1>1. CASE UNCHANGED vars
  BY <1>0, <1>1, RemoteStep DEF vars
<1>2. CASE Enqueue
  <2>1. /\ job'.lease = job.lease /\ job'.count = job.count /\ job'.phase = job.phase
        /\ job.state = "none" /\ job'.state \in {"pending", "not_required"}
    BY <1>0, <1>2 DEF Enqueue, TypeOK, JobRecords
  <2>2. Numbering' /\ OneRunner' /\ Verdicts' /\ ClaimFresh' /\ \A w \in Workers : StageOK(w)'
    BY <1>2, <2>1 DEF Enqueue, IInv, Numbering, OneRunner, Verdicts, ClaimFresh, StageOK
  <2>3. Paid'
    BY <1>0, <1>2, <2>1, PermittedFinite DEF Enqueue, IInv, Paid, Barred, TypeOK
  <2> QED
    BY <1>0, <2>2, <2>3 DEF IInv
<1>3. CASE EnqueueConflict
  <2>1. /\ job'.lease = 0 /\ job'.count = job.count /\ job'.phase = "none"
        /\ job'.state = "conflict"
    BY <1>0, <1>3, JobUpdate DEF EnqueueConflict, TypeOK, Terminal
  <2>2. Numbering' /\ OneRunner' /\ Verdicts' /\ ClaimFresh' /\ \A w \in Workers : StageOK(w)'
    BY <1>0, <1>3, <2>1 DEF EnqueueConflict, IInv, Numbering, OneRunner, Verdicts, ClaimFresh, StageOK, TypeOK, JobRecords
  <2>3. Paid'
    BY <1>0, <1>3, <2>1, PermittedFinite DEF EnqueueConflict, IInv, Paid, Barred, TypeOK
  <2> QED
    BY <1>0, <2>2, <2>3 DEF IInv
<1>4. CASE Tick
  BY <1>0, <1>4, RemoteStep DEF Tick
<1>5. ASSUME NEW w \in Workers, StartResolve(w) PROVE IInv'
  <2>1. worker'[w].attempt = 0 /\ worker'[w].pc = "resolving"
        /\ \A v \in Workers \ {w} : worker'[v] = worker[v]
    BY <1>0, <1>5 DEF StartResolve, Idle, TypeOK
  <2>2. StageOK(w)'
    BY <1>0, <1>5, <2>1 DEF StartResolve, StageOK, Early, Started, Running, TypeOK, Attempts
  <2> QED
    BY <1>0, <1>5, <2>1, <2>2, QuietStep DEF StartResolve
<1>6. ASSUME NEW w \in Workers, ClaimRecovers(w) PROVE IInv'
  <2>1. job.lease \in Attempts
    BY <1>0, <1>6 DEF ClaimRecovers, TypeOK, JobRecords, Attempts
  <2> QED
    BY <1>0, <1>6, <2>1, ApplyStep DEF ClaimRecovers
<1>7. ASSUME NEW w \in Workers, ClaimNothing(w) PROVE IInv'
  BY <1>0, <1>7, LeaveStage, QuietStep DEF ClaimNothing, AfterAttempt, TypeOK
<1>8. ASSUME NEW w \in Workers, Claim(w) PROVE IInv'
  BY <1>0, <1>8, ClaimStep
<1>9. ASSUME NEW w \in Workers, Preflight(w) PROVE IInv'
  <2>1. CASE Goto(w, "query")
    BY <1>0, <1>9, <1>23, <2>1, QuietStep DEF Preflight, StageOK, Early, Started, Running, PCs
  <2>2. ASSUME NEW o \in {"retryable_failed", "permanent_failed"}, Report(w, o) PROVE IInv'
    BY <1>0, <1>9, <1>24, <2>2, QuietStep DEF Preflight, StageOK, Early, Started, Running, Outcomes
  <2> QED
    BY <1>9, <2>1, <2>2 DEF Preflight
<1>10. ASSUME NEW w \in Workers, Query(w) PROVE IInv'
  <2>1. CASE Goto(w, "mark")
    BY <1>0, <1>10, <1>23, <2>1, QuietStep DEF Query, StageOK, Early, Started, Running, PCs
  <2>2. ASSUME NEW o \in Outcomes, Report(w, o) PROVE IInv'
    BY <1>0, <1>10, <1>24, <2>2, QuietStep DEF Query, StageOK, Early, Started, Running
  <2> QED
    BY <1>10, <2>1, <2>2 DEF Query, Outcomes, Classify
<1>11. ASSUME NEW w \in Workers, Mark(w) PROVE IInv'
  BY <1>0, <1>11, MarkStep
<1>12. ASSUME NEW w \in Workers, MarkFails(w) PROVE IInv'
  <2>1. /\ worker'[w].pc = "receipt" /\ worker'[w].attempt = worker[w].attempt
        /\ worker'[w].outcome = "retryable_failed"
        /\ \A v \in Workers \ {w} : worker'[v] = worker[v]
    BY <1>12, <1>24 DEF MarkFails, Outcomes
  <2>2. StageOK(w)'
    BY <1>0, <1>12, <2>1 DEF MarkFails, StageOK, Early, Started, Running
  <2>3. CASE job' = job
    BY <1>0, <1>12, <2>1, <2>2, <2>3, QuietStep DEF MarkFails
  <2>4. CASE job' # job
    <3>1. /\ CanMark(w) /\ job'.state = job.state /\ job'.lease = job.lease
          /\ job'.count = job.count /\ job'.phase = "remote_mutation_started"
      BY <1>0, <1>12, <2>4 DEF MarkFails, TypeOK, JobRecords
    <3>2. job.lease \notin permitted /\ job.phase # "query_only"
      BY <1>0, <1>12, <3>1 DEF MarkFails, CanMark, LeaseHeld, StageOK, Early, Started
    <3>3. Numbering' /\ OneRunner' /\ Verdicts' /\ ClaimFresh' /\ \A v \in Workers : StageOK(v)'
      BY <1>12, <2>1, <2>2, <3>1
         DEF MarkFails, IInv, Numbering, OneRunner, Verdicts, ClaimFresh, StageOK
    <3>4. Paid'
      BY <1>12, <3>1, <3>2 DEF MarkFails, IInv, Paid, Barred
    <3> QED
      BY <1>0, <3>3, <3>4 DEF IInv
  <2> QED
    BY <2>3, <2>4
<1>13. ASSUME NEW w \in Workers, Post(w) PROVE IInv'
  BY <1>0, <1>13, <1>23, QuietStep DEF Post, StageOK, Early, Started, Running, PCs
<1>14. ASSUME NEW w \in Workers, PostReturns(w) PROVE IInv'
  <2>1. ASSUME NEW pc \in {"readback", "post"}, Goto(w, pc) PROVE IInv'
    BY <1>0, <1>14, <1>23, <2>1, QuietStep DEF PostReturns, StageOK, Early, Started, Running, PCs
  <2>2. CASE Report(w, "uncertain")
    BY <1>0, <1>14, <1>24, <2>2, QuietStep DEF PostReturns, StageOK, Early, Started, Running, Outcomes
  <2> QED
    BY <1>14, <2>1, <2>2 DEF PostReturns
<1>15. ASSUME NEW w \in Workers, Readback(w) PROVE IInv'
  <2>1. ASSUME NEW o \in Outcomes \ {"retryable_failed"}, Report(w, o) PROVE IInv'
    BY <1>0, <1>15, <1>24, <2>1, QuietStep DEF Readback, StageOK, Early, Started, Running
  <2> QED
    BY <1>15, <2>1 DEF Readback, ReadbackOutcome, Classify, Outcomes
<1>16. ASSUME NEW w \in Workers, WriteReceipt(w) PROVE IInv'
  <2> DEFINE a == worker[w].attempt
  <2>1. /\ worker'[w].pc = "finalize" /\ worker'[w].attempt = a
        /\ worker'[w].outcome = worker[w].outcome
        /\ \A v \in Workers \ {w} : worker'[v] = worker[v]
    BY <1>16, <1>23 DEF WriteReceipt, PCs
  <2>2. /\ a \in Attempts /\ worker[w].outcome # "none"
        /\ \A v \in Workers \ {w} : worker[v].attempt # a
    BY <1>0, <1>16 DEF WriteReceipt, StageOK, Running, IInv, OneRunner, TypeOK, WorkerRecords, Attempts
  <2>3. /\ receipts'[a] = worker[w].outcome
        /\ \A b \in Attempts \ {a} : receipts'[b] = receipts[b]
        /\ UNCHANGED <<job, permitted, reopened>>
    BY <1>0, <1>16, <2>2 DEF WriteReceipt, TypeOK
  <2>4. Numbering'
    BY <2>1, <2>2, <2>3 DEF IInv, Numbering
  <2>5. OneRunner' /\ ClaimFresh' /\ Paid'
    BY <2>1, <2>3 DEF IInv, OneRunner, ClaimFresh, Paid, Barred
  <2>6. \A v \in Workers : StageOK(v)'
    <3>1. StageOK(w)'
      BY <1>0, <1>16, <2>1, <2>2, <2>3 DEF WriteReceipt, StageOK, Early, Started, Running
    <3>2. ASSUME NEW v \in Workers \ {w} PROVE StageOK(v)'
      <4>1. worker[v].attempt # 0 => receipts'[worker[v].attempt] = receipts[worker[v].attempt]
        BY <1>0, <2>2, <2>3 DEF TypeOK, WorkerRecords, Attempts
      <4> QED
        BY <1>0, <2>1, <2>3, <4>1 DEF StageOK, Running
    <3> QED
      BY <3>1, <3>2
  <2>7. Verdicts'
    BY <1>0, <2>2, <2>3 DEF IInv, Verdicts, StageOK, TypeOK
  <2> QED
    BY <1>0, <2>4, <2>5, <2>6, <2>7 DEF IInv
<1>17. ASSUME NEW w \in Workers, Finalize(w) PROVE IInv'
  <2> DEFINE a == worker[w].attempt
  <2>1. a \in Attempts /\ receipts[a] # "none"
    BY <1>0, <1>17 DEF Finalize, StageOK, Running, TypeOK, WorkerRecords, Attempts
  <2>2. CASE LeaseHeld(a) /\ ApplyReceipt(a) /\ AfterAttempt(w)
    BY <1>0, <1>17, <2>1, <2>2, ApplyStep DEF Finalize, LeaseHeld
  <2>3. CASE ~(LeaseHeld(a) /\ ApplyReceipt(a) /\ AfterAttempt(w))
    BY <1>0, <1>17, <2>3, LeaveStage, QuietStep DEF Finalize, AfterAttempt, TypeOK
  <2> QED
    BY <2>2, <2>3
<1>18. ASSUME NEW w \in Workers, CheckAbsent(w) PROVE IInv'
  BY <1>0, <1>18, LeaveStage, QuietStep DEF CheckAbsent, TypeOK
<1>19. ASSUME NEW w \in Workers, ConfirmAbsent(w) PROVE IInv'
  <2>1. /\ StageOK(w)' /\ worker'[w].attempt = 0
        /\ \A v \in Workers \ {w} : worker'[v] = worker[v]
    BY <1>0, <1>19, LeaveStage DEF ConfirmAbsent, TypeOK
  <2>2. CASE job.state # "uncertain"
    BY <1>0, <1>19, <2>1, <2>2, QuietStep DEF ConfirmAbsent
  <2>3. CASE job.state = "uncertain"
    <3>1. /\ job'.state = "pending" /\ job'.lease = job.lease /\ job'.phase = job.phase
          /\ job'.count = job.count /\ reopened' = reopened + 1
      BY <1>0, <1>19, <2>3 DEF ConfirmAbsent, TypeOK, JobRecords
    <3>2. Numbering' /\ OneRunner' /\ Verdicts' /\ ClaimFresh' /\ \A v \in Workers : StageOK(v)'
      BY <1>19, <2>1, <3>1 DEF ConfirmAbsent, IInv, Numbering, OneRunner, Verdicts, ClaimFresh,
         StageOK, TypeOK, WorkerRecords
    <3>3. Paid'
      BY <1>0, <1>19, <3>1, PermittedFinite DEF ConfirmAbsent, IInv, Paid, Barred, TypeOK
    <3> QED
      BY <1>0, <3>2, <3>3 DEF IInv
  <2> QED
    BY <2>2, <2>3
<1>20. ASSUME NEW w \in Workers, Abandon(w) PROVE IInv'
  BY <1>0, <1>20, LeaveStage, QuietStep DEF Abandon, TypeOK
<1>21. ASSUME NEW a \in Attempts, Land(a) PROVE IInv'
  BY <1>0, <1>21, RemoteStep DEF Land
<1>22. ASSUME NEW a \in Attempts, Lose(a) PROVE IInv'
  BY <1>0, <1>22, RemoteStep DEF Lose
<1> QED
  BY <1>1, <1>2, <1>3, <1>4, <1>5, <1>6, <1>7, <1>8, <1>9, <1>10, <1>11, <1>12, <1>13,
     <1>14, <1>15, <1>16, <1>17, <1>18, <1>19, <1>20, <1>21, <1>22
     DEF Next, Reconcile, WorkerStep

LEMMA Invariant == Spec => []IInv
  BY InitIInv, NextIInv, PTL DEF Spec

\* The job file, the leases, the receipts and the workers keep their types for any number
\* of workers; only a delivering job has a lease.
THEOREM TypeCorrect == Spec => []TypeOK
<1>1. IInv => TypeOK
  BY DEF IInv
<1> QED
  BY <1>1, Invariant, PTL

\* However many workers race, die or answer late, each POST after the first needed a step
\* that reopened the job.
THEOREM PostsAreBounded == Spec => []PostsNeedReopening
<1>1. IInv => PostsNeedReopening
  BY PermittedFinite DEF IInv, Paid, PostsNeedReopening, TypeOK
<1> QED
  BY <1>1, Invariant, PTL

-----------------------------------------------------------------------------
(* Pages of one attempt.  While nothing but the operator has reopened the  *)
(* job, one attempt altogether has made a page, or may still make one, or  *)
(* is still allowed to POST (Spared).  The confirmation keeps it: the      *)
(* quarantine it waits for is longer than an attempt can stay in doubt,    *)
(* however often its call sends the request again (Aged, Resolving), so    *)
(* nothing is in doubt any more when the command begins, and the absence   *)
(* the operator is shown was found after that (Shown).                     *)

Unsure == reopened = 0

\* The attempts that made a page or may still make one.
Live == authors \cup InDoubt

Spared ==
    reopened = confirms /\ confirms <= 1 =>
        /\ \A a, b \in Live : a = b
        /\ ~Barred => Live = {}

Counted == confirms <= reopened

\* Every page has an author, and an only author has sent a request for each of them.
Authored ==
    /\ authors # {} => pages > 0
    /\ \A a \in Attempts : authors \subseteq {a} => pages + flight[a] <= sends[a]

\* What is in doubt has been since before the job became uncertain.
Aged ==
    /\ \A a \in Attempts : age[a] <= SettleTicks
    /\ Unsure /\ since # NoTime => Barred /\ \A a \in InDoubt : since <= age[a]

Resolver(w) == worker[w].resolve \/ worker[w].pc \in {"check", "confirm"}

Resolving == \A w \in Workers : Resolver(w) => since = QuarantineTicks \/ job.state \in Terminal

\* An attempt that has found no page, and one that found none only if there is none.
Absent(a) == receipts[a] = "absent"
             \/ \E v \in Workers : worker[v].attempt = a /\ worker[v].outcome = "absent"
Shows(a) == Absent(a) => pages = 0

Shown(w) ==
    Unsure /\ job.state \notin Terminal =>
        /\ Resolver(w) /\ job.state = "delivering" => Shows(job.lease)
        /\ Resolver(w) /\ worker[w].attempt # 0 => Shows(worker[w].attempt)
        /\ worker[w].pc = "check" /\ job.state = "uncertain" /\ job.last # 0 => Shows(job.last)
        /\ worker[w].pc = "confirm" => pages = 0

PagesInv ==
    /\ Spared
    /\ Counted
    /\ Authored
    /\ Aged
    /\ Resolving
    /\ \A w \in Workers : Shown(w)

LEMMA DoubtPermitted ==
  ASSUME IInv
  PROVE  InDoubt \subseteq permitted /\ InDoubt \subseteq Attempts
<1>1. InDoubt \subseteq permitted
  BY DEF IInv, TypeOK, InDoubt, StageOK, Started, Creating
<1> QED
  BY <1>1 DEF IInv, TypeOK

\* After the quarantine nothing is in doubt.
LEMMA QuietResolver ==
  ASSUME IInv, PagesInv, SettleTicks < QuarantineTicks, Unsure, job.state \notin Terminal,
         NEW w \in Workers, Resolver(w)
  PROVE  since = QuarantineTicks /\ InDoubt = {}
<1>1. since = QuarantineTicks /\ since # NoTime
  BY DeliveryAssumption DEF PagesInv, Resolving, NoTime
<1>2. ASSUME NEW a \in InDoubt PROVE FALSE
  <2>1. a \in Attempts /\ age[a] \in Nat
    BY DoubtPermitted DEF IInv, TypeOK
  <2>2. since <= age[a] /\ age[a] <= SettleTicks
    BY <1>1, <2>1 DEF PagesInv, Aged
  <2> QED
    BY <1>1, <2>1, <2>2, DeliveryAssumption
<1> QED
  BY <1>1, <1>2

\* A step of one worker puts nothing in doubt that was not, unless it begins to POST.
LEMMA DoubtShrinks ==
  ASSUME NEW w \in Workers, flight' = flight,
         \A v \in Workers \ {w} : worker'[v] = worker[v],
         worker'[w].pc \notin Creating
  PROVE  InDoubt' \subseteq InDoubt
BY DEF InDoubt

\* What is spared is kept by a step that adds no page and no doubt, and grants no POST
\* unless the job is reopened by it.
LEMMA SparedFrame ==
  ASSUME IInv, IInv', Spared, Counted, InDoubt' \subseteq InDoubt,
         UNCHANGED <<authors, confirms>>,
         \/ reopened' = reopened /\ (Barred => Barred')
         \/ reopened' = reopened + 1
  PROVE  Spared' /\ Counted'
<1>1. Live' \subseteq Live
  BY DEF Live
<1>2. confirms \in Nat /\ reopened \in Nat
  BY DEF IInv, TypeOK
<1>3. CASE reopened' = reopened + 1
  BY <1>2, <1>3 DEF Spared, Counted
<1>4. CASE reopened' = reopened /\ (Barred => Barred')
  BY <1>1, <1>4 DEF Spared, Counted
<1> QED
  BY <1>3, <1>4

LEMMA AgedFrame ==
  ASSUME IInv, IInv', Aged, InDoubt' \subseteq InDoubt, age' = age, Unsure' => Unsure,
         since' = since \/ since' = NoTime \/ (since = NoTime /\ since' = 0),
         Unsure /\ Unsure' /\ since' # NoTime => Barred'
  PROVE  Aged'
<1>1. \A a \in Attempts : age[a] \in Nat
  BY DEF IInv, TypeOK
<1>2. InDoubt \subseteq Attempts
  BY DoubtPermitted
<1>3. \A a \in Attempts : age'[a] <= SettleTicks
  BY DEF Aged
<1>4. ASSUME Unsure', since' # NoTime, NEW a \in InDoubt' PROVE since' <= age'[a]
  BY <1>1, <1>2, <1>4 DEF Aged
<1> QED
  BY <1>3, <1>4 DEF Aged

\* Worker w says that no page is there only if it said so, or if none is.
LEMMA AbsentFrame ==
  ASSUME NEW w \in Workers, receipts' = receipts,
         \A v \in Workers \ {w} : worker'[v] = worker[v],
         worker'[w].outcome = "absent" =>
            pages = 0 \/ (worker[w].outcome = "absent" /\ worker'[w].attempt = worker[w].attempt)
  PROVE  \A a \in Attempts : Absent(a)' => Absent(a) \/ pages = 0
BY DEF Absent

\* A step of worker w that leaves the job where it is.
LEMMA WorkerPages ==
  ASSUME IInv, IInv', PagesInv, NEW w \in Workers,
         UNCHANGED <<since, sends, flight, age, pages, authors, confirms, reopened>>,
         job'.state = job.state, job'.lease = job.lease, job'.last = job.last, Barred => Barred',
         \A v \in Workers \ {w} : worker'[v] = worker[v],
         \A a \in Attempts : Absent(a)' => Absent(a) \/ pages = 0,
         worker'[w].pc \notin Creating \/ InDoubt' \subseteq InDoubt, Resolver(w)' => Resolver(w),
         worker'[w].attempt \in {0, worker[w].attempt},
         Unsure /\ worker'[w].pc = "check" /\ job.state = "uncertain" /\ job.last # 0
            => Shows(job.last),
         Unsure /\ worker'[w].pc = "confirm" /\ job.state \notin Terminal => pages = 0
  PROVE  PagesInv'
<1>1. InDoubt' \subseteq InDoubt
  BY DoubtShrinks DEF Creating
<1>2. Spared' /\ Counted'
  BY <1>1, SparedFrame DEF PagesInv
<1>3. Authored'
  BY DEF PagesInv, Authored
<1>4. Aged'
  BY <1>1, AgedFrame DEF PagesInv, Aged, Unsure
<1>5. \A v \in Workers : Resolver(v)' => Resolver(v)
  BY DEF Resolver
<1>6. Resolving'
  BY <1>5 DEF PagesInv, Resolving
<1>7. \A a \in Attempts : Shows(a) => Shows(a)'
  BY DEF Shows
<1>8. ASSUME NEW v \in Workers PROVE Shown(v)'
  <2> SUFFICES ASSUME Unsure, job.state \notin Terminal
               PROVE  /\ Resolver(v)' /\ job.state = "delivering" => Shows(job.lease)'
                      /\ Resolver(v)' /\ worker'[v].attempt # 0 => Shows(worker[v].attempt)'
                      /\ worker'[v].pc = "check" /\ job.state = "uncertain" /\ job.last # 0
                            => Shows(job.last)'
                      /\ worker'[v].pc = "confirm" => pages = 0
    BY DEF Shown, Unsure, Shows, Absent
  <2>1. Shown(v) /\ (job.state = "delivering" => job.lease \in Attempts)
        /\ (job.last # 0 => job.last \in Attempts)
        /\ (worker[v].attempt # 0 => worker[v].attempt \in Attempts)
    BY DEF PagesInv, IInv, TypeOK, JobRecords, WorkerRecords, Attempts
  <2> QED
    BY <1>5, <1>7, <2>1 DEF Shown
<1> QED
  BY <1>2, <1>3, <1>4, <1>6, <1>8 DEF PagesInv

\* Applying a receipt: what it says of the pages is what the job is left with.
LEMMA ApplyPages ==
  ASSUME IInv, IInv', PagesInv, NEW w \in Workers, NEW a \in Attempts, job.state = "delivering",
         a = job.lease, receipts[a] # "none", ApplyReceipt(a), AfterAttempt(w),
         UNCHANGED <<permitted, receipts, age, sends, flight, pages, authors, confirms>>
  PROVE  PagesInv'
<1>0. TypeOK /\ permitted' \subseteq Attempts
  BY DEF IInv, TypeOK
<1>1. /\ job'.state = StateOf(receipts[a]) /\ job'.state \notin {"none", "pending", "delivering"}
      /\ job'.last = a
  <2>1. job'.last = a
    BY <1>0 DEF ApplyReceipt, Released, TypeOK, JobRecords
  <2> QED
    BY <1>0, <2>1, ApplyType
<1>2. /\ worker'[w] = [Idle EXCEPT !.pc = IF worker[w].resolve THEN "check" ELSE "idle"]
      /\ \A v \in Workers \ {w} : worker'[v] = worker[v]
  BY <1>0 DEF AfterAttempt, Leave, TypeOK
<1>3. /\ worker'[w].pc \in {"check", "idle"} /\ worker'[w].attempt = 0
      /\ worker'[w].outcome = "none" /\ (Resolver(w)' => Resolver(w))
  BY <1>2 DEF Idle, Resolver
<1>4. InDoubt' \subseteq InDoubt
  BY <1>2, <1>3, DoubtShrinks DEF Creating
<1>5. /\ receipts[a] = "retryable_failed" => (Barred <=> job.phase = "query_only")
      /\ receipts[a] # "retryable_failed" => Barred'
      /\ reopened' = IF job.phase = "query_only" /\ receipts[a] = "retryable_failed"
                     THEN reopened + 1 ELSE reopened
  BY <1>1 DEF IInv, Verdicts, Barred, StateOf, ApplyReceipt, Reopens
<1>6. Spared' /\ Counted'
  BY <1>4, <1>5, SparedFrame DEF PagesInv
<1>7. Authored'
  BY <1>2, <1>3 DEF PagesInv, Authored
<1>8. since' = since \/ since' = NoTime \/ (since = NoTime /\ since' = 0)
  BY DEF ApplyReceipt
<1>9. Unsure' => Unsure /\ reopened' = reopened
  BY <1>0, <1>5 DEF Unsure, TypeOK
<1>10. Aged'
  <2>1. ASSUME Unsure, Unsure', since' # NoTime PROVE Barred'
    <3>1. CASE receipts[a] = "retryable_failed"
      <4>1. since' = since
        BY <3>1 DEF ApplyReceipt, StateOf
      <4>2. Barred /\ job.phase = "query_only"
        BY <1>5, <2>1, <3>1, <4>1 DEF PagesInv, Aged
      <4> QED
        BY <1>0, <1>5, <2>1, <3>1, <4>2 DEF Unsure, TypeOK
    <3> QED
      BY <1>5, <3>1
  <2> QED
    BY <1>4, <1>8, <1>9, <2>1, AgedFrame DEF PagesInv
<1>11. Resolving'
  <2> SUFFICES ASSUME NEW v \in Workers, Resolver(v)'
               PROVE  since' = QuarantineTicks \/ job'.state \in Terminal
    BY DEF Resolving
  <2>1. Resolver(v)
    BY <1>2, <1>3 DEF Resolver
  <2>2. since = QuarantineTicks /\ since # NoTime
    BY <2>1, DeliveryAssumption DEF PagesInv, Resolving, Terminal, NoTime
  <2>3. since' = since \/ job'.state = "succeeded"
    BY <1>1, <2>2 DEF ApplyReceipt, StateOf
  <2> QED
    BY <2>2, <2>3 DEF Terminal
<1>12. \A b \in Attempts : Shows(b) => Shows(b)'
  <2>1. \A b \in Attempts : Absent(b)' => Absent(b) \/ pages = 0
    BY <1>2, <1>3, AbsentFrame
  <2> QED
    BY <2>1 DEF Shows
<1>13. ASSUME NEW v \in Workers PROVE Shown(v)'
  <2> SUFFICES ASSUME Unsure, Unsure', job'.state \notin Terminal
               PROVE  /\ Resolver(v)' /\ worker'[v].attempt # 0 => Shows(worker[v].attempt)'
                      /\ worker'[v].pc = "check" => Shows(a)'
                      /\ worker'[v].pc = "confirm" => pages = 0
    BY <1>1, <1>9 DEF Shown
  <2>1. Shown(v) /\ job.state \notin Terminal
        /\ (worker[v].attempt # 0 => worker[v].attempt \in Attempts)
    BY <1>0 DEF PagesInv, Terminal, TypeOK, WorkerRecords, Attempts
  <2>2. Resolver(v) => Shows(a)
    BY <2>1 DEF Shown
  <2>3. CASE v = w
    BY <1>3, <1>12, <2>2, <2>3 DEF Resolver
  <2>4. CASE v # w
    BY <1>2, <1>12, <2>1, <2>2, <2>4 DEF Shown, Resolver
  <2> QED
    BY <2>3, <2>4
<1> QED
  BY <1>6, <1>7, <1>10, <1>11, <1>13 DEF PagesInv

\* A claim hands out an attempt that has found nothing yet.
LEMMA ClaimPages ==
  ASSUME IInv, IInv', PagesInv, NEW w \in Workers, Claim(w)
  PROVE  PagesInv'
<1> DEFINE n == job.count + 1
<1>0. TypeOK /\ UNCHANGED <<permitted, receipts, age, sends, flight, pages, authors, confirms>>
  BY DEF IInv, Claim, remote
<1>1. /\ n \in Attempts /\ job'.state = "delivering" /\ job'.lease = n
      /\ worker'[w].attempt = n /\ worker'[w].pc = "preflight" /\ worker'[w].outcome = "none"
      /\ \A v \in Workers \ {w} : worker'[v] = worker[v]
  BY <1>0, ClaimType
<1>2. job'.phase = IF (Expired /\ ExpiredTo = "uncertain") \/ job.state = "uncertain"
                   THEN "query_only" ELSE "claimed"
  BY <1>0, ClaimType
<1>3. n \notin permitted /\ n # 0 /\ receipts[n] = "none"
      /\ \A v \in Workers : worker[v].attempt # n
  <2>1. job.count \in Nat /\ permitted \subseteq 1 .. job.count /\ n \in Attempts
    BY <1>0, <1>1 DEF TypeOK, JobRecords, IInv, Numbering
  <2>2. ASSUME NEW v \in Workers PROVE worker[v].attempt # n
    <3>1. worker[v].attempt <= job.count
      BY DEF IInv, Numbering
    <3> QED
      BY <2>1, <3>1
  <2>3. receipts[n] = "none"
    BY <2>1 DEF IInv, Numbering
  <2> QED
    BY <2>1, <2>2, <2>3
<1>4. worker'[w].resolve = worker[w].resolve
  BY <1>0 DEF Claim, TypeOK
<1>5. InDoubt' \subseteq InDoubt
  BY <1>0, <1>1, DoubtShrinks DEF Creating
<1>6. (reopened' = reopened /\ (Barred => Barred')) \/ reopened' = reopened + 1
  <2>0. reopened' \in {reopened, reopened + 1}
    BY DEF Claim
  <2>1. CASE job'.phase = "query_only"
    BY <1>1, <2>0, <2>1 DEF Barred
  <2>2. CASE job'.phase # "query_only" /\ Barred
    <3>1. Expired /\ ExpiredTo = "retryable_failed"
      BY <1>2, <2>2 DEF Claim, Claimable, Barred, ExpiredTo
    <3>2. job.phase = "query_only"
      BY <1>0, <2>2, <3>1 DEF Barred, Expired, ExpiredTo, IInv, ClaimFresh, TypeOK, JobRecords, Phases
    <3> QED
      BY <3>1, <3>2 DEF Claim, Reopens, Expired
  <2> QED
    BY <2>0, <2>1, <2>2
<1>7. Unsure' => Unsure /\ reopened' = reopened
  BY <1>0, <1>6 DEF Unsure, TypeOK
<1>8. Spared' /\ Counted'
  BY <1>0, <1>5, <1>6, SparedFrame DEF PagesInv
<1>9. Authored'
  BY <1>0, <1>1 DEF PagesInv, Authored
<1>10. since' = since \/ (since = NoTime /\ since' = 0 /\ Expired /\ ExpiredTo = "uncertain")
  BY DEF Claim, Expired
<1>11. Aged'
  <2>1. ASSUME Unsure, Unsure', since' # NoTime PROVE Barred'
    <3>1. CASE since' = since
      BY <1>0, <1>6, <1>7, <2>1, <3>1 DEF PagesInv, Aged, TypeOK
    <3>2. CASE Expired /\ ExpiredTo = "uncertain"
      BY <1>1, <1>2, <3>2 DEF Barred
    <3> QED
      BY <1>10, <3>1, <3>2
  <2> QED
    BY <1>0, <1>5, <1>7, <1>10, <2>1, AgedFrame DEF PagesInv
<1>12. \A v \in Workers : Resolver(v)' => Resolver(v)
  BY <1>1, <1>4 DEF Resolver
<1>13. job.state \notin Terminal
  BY DEF Claim, Claimable, Expired, Terminal
<1>14. Resolving'
  <2> SUFFICES ASSUME NEW v \in Workers, Resolver(v)' PROVE since' = QuarantineTicks
    BY DEF Resolving
  <2>1. since = QuarantineTicks /\ since # NoTime
    BY <1>12, <1>13, DeliveryAssumption DEF PagesInv, Resolving, NoTime
  <2> QED
    BY <1>10, <2>1
<1>15. ASSUME NEW b \in Attempts, Absent(b)' PROVE b # n /\ Absent(b)
  <2>1. receipts'[n] = "none" /\ ~\E v \in Workers : worker'[v].attempt = n /\ worker'[v].outcome = "absent"
    BY <1>0, <1>1, <1>3
  <2> QED
    BY <1>0, <1>1, <1>15, <2>1 DEF Absent
<1>16. ASSUME NEW v \in Workers PROVE Shown(v)'
  <2> SUFFICES ASSUME Unsure, Unsure'
               PROVE  /\ Shows(job.lease)'
                      /\ Resolver(v)' /\ worker'[v].attempt # 0 => Shows(worker[v].attempt)'
                      /\ worker'[v].pc = "confirm" => pages = 0
    BY <1>0, <1>1, <1>7 DEF Shown, Shows, Absent
  <2>1. Shows(job.lease)'
    BY <1>1, <1>15 DEF Shows
  <2>2. CASE v = w
    BY <1>1, <2>1, <2>2
  <2>3. CASE v # w
    <3>1. Shown(v) /\ (worker[v].attempt # 0 => worker[v].attempt \in Attempts)
      BY <1>0 DEF PagesInv, TypeOK, WorkerRecords, Attempts
    <3>2. \A b \in Attempts : Shows(b) => Shows(b)'
      BY <1>0, <1>15 DEF Shows
    <3> QED
      BY <1>1, <1>12, <1>13, <2>1, <2>3, <3>1, <3>2 DEF Shown
  <2> QED
    BY <2>2, <2>3
<1> QED
  BY <1>8, <1>9, <1>11, <1>14, <1>16 DEF PagesInv

\* The POST that is granted is the one that was spared.
LEMMA MarkPages ==
  ASSUME IInv, IInv', PagesInv, NEW w \in Workers, Mark(w)
  PROVE  PagesInv'
<1> DEFINE a == worker[w].attempt
<1>0. TypeOK /\ TypeOK' /\ StageOK(w)
      /\ UNCHANGED <<since, receipts, age, sends, flight, pages, authors, confirms, reopened>>
  BY DEF IInv, Mark, remote
<1>1. /\ permitted' = permitted \cup {a}
      /\ worker'[w] = [worker[w] EXCEPT !.pc = "post"]
      /\ \A v \in Workers \ {w} : worker'[v] = worker[v]
  BY <1>0 DEF Mark, Goto, TypeOK
<1>2. /\ worker'[w].attempt = a /\ worker'[w].pc = "post" /\ worker'[w].outcome = "none"
      /\ worker'[w].resolve = worker[w].resolve
  BY <1>0, <1>1 DEF TypeOK, WorkerRecords, Mark, StageOK, Early
<1>3. /\ job.state = "delivering" /\ job.lease = a /\ job.phase # "query_only"
      /\ a \in Attempts /\ a \notin permitted
  BY <1>0 DEF Mark, CanMark, LeaseHeld, StageOK, Early, Started, TypeOK, JobRecords, Attempts
<1>4. job'.state = "delivering" /\ job'.lease = a
  BY <1>0, <1>3 DEF Mark, TypeOK, JobRecords
<1>5. ~Barred /\ Barred'
  BY <1>1, <1>3, <1>4 DEF Barred
<1>6. InDoubt' \subseteq InDoubt \cup {a}
  <2>1. \A v \in Workers : worker'[v].attempt = worker[v].attempt
                           /\ (v # w => worker'[v].pc = worker[v].pc)
    BY <1>1, <1>2
  <2> QED
    BY <1>0, <2>1 DEF InDoubt
<1>7. Spared' /\ Counted'
  <2>1. Live' \subseteq Live \cup {a}
    BY <1>0, <1>6 DEF Live
  <2> QED
    BY <1>0, <1>5, <2>1 DEF PagesInv, Spared, Counted
<1>8. Authored'
  BY <1>0 DEF PagesInv, Authored
<1>9. Aged'
  BY <1>0, <1>5 DEF PagesInv, Aged, Unsure
<1>10. \A v \in Workers : Resolver(v)' => Resolver(v)
  BY <1>1, <1>2 DEF Resolver
<1>11. Resolving'
  BY <1>0, <1>3, <1>10 DEF PagesInv, Resolving, Terminal
<1>12. \A b \in Attempts : Shows(b) => Shows(b)'
  <2>1. \A b \in Attempts : Absent(b)' => Absent(b) \/ pages = 0
    BY <1>0, <1>1, <1>2, AbsentFrame
  <2> QED
    BY <1>0, <2>1 DEF Shows
<1>13. ASSUME NEW v \in Workers PROVE Shown(v)'
  <2>1. Shown(v) /\ job.state \notin Terminal
        /\ (worker[v].attempt # 0 => worker[v].attempt \in Attempts)
    BY <1>0, <1>3 DEF PagesInv, Terminal, TypeOK, WorkerRecords, Attempts
  <2>2. worker'[v].attempt = worker[v].attempt /\ (worker'[v].pc = "confirm" => worker[v].pc = "confirm")
    BY <1>1, <1>2
  <2> QED
    BY <1>0, <1>3, <1>4, <1>10, <1>12, <2>1, <2>2 DEF Shown, Unsure, Shows, Absent
<1> QED
  BY <1>7, <1>8, <1>9, <1>11, <1>13 DEF PagesInv

\* The operator's confirmation: nothing is there and nothing is in doubt.
LEMMA ConfirmPages ==
  ASSUME IInv, IInv', PagesInv, SettleTicks < QuarantineTicks, NEW w \in Workers,
         ConfirmAbsent(w)
  PROVE  PagesInv'
<1>0. TypeOK /\ UNCHANGED <<since, receipts, age, sends, flight, pages, authors>>
  BY DEF IInv, ConfirmAbsent, remote
<1>1. /\ worker'[w].pc = "idle" /\ worker'[w].attempt = 0 /\ worker'[w].outcome = "none"
      /\ ~worker'[w].resolve /\ \A v \in Workers \ {w} : worker'[v] = worker[v]
  BY <1>0 DEF ConfirmAbsent, Leave, Idle, TypeOK
<1>2. \A b \in Attempts : Absent(b)' => Absent(b) \/ pages = 0
  BY <1>0, <1>1, AbsentFrame
<1>3. ~Resolver(w)' /\ InDoubt' \subseteq InDoubt
  BY <1>0, <1>1, DoubtShrinks DEF Creating, Resolver
<1>4. CASE job.state # "uncertain"
  BY <1>0, <1>1, <1>2, <1>3, <1>4, WorkerPages DEF Creating, ConfirmAbsent, Barred
<1>5. CASE job.state = "uncertain"
  <2>1. /\ job'.state = "pending" /\ confirms' = confirms + 1 /\ reopened' = reopened + 1
        /\ confirms \in Nat /\ reopened \in Nat /\ pages \in Nat
    BY <1>0, <1>5 DEF ConfirmAbsent, TypeOK, JobRecords
  <2>2. Spared'
    <3> SUFFICES ASSUME reopened = confirms, confirms = 0
                 PROVE  authors = {} /\ InDoubt' = {}
      BY <1>0, <2>1 DEF Spared, Live
    <3>1. Unsure /\ job.state \notin Terminal /\ Resolver(w)
      BY <1>5 DEF Unsure, Terminal, Resolver, ConfirmAbsent
    <3>2. authors = {}
      BY <2>1, <3>1 DEF PagesInv, Shown, Authored, ConfirmAbsent
    <3>3. InDoubt' = {}
      BY <1>3, <3>1, QuietResolver
    <3> QED
      BY <3>2, <3>3
  <2>3. Counted' /\ ~Unsure'
    BY <2>1 DEF PagesInv, Counted, Unsure
  <2>4. Authored'
    BY <1>0, <1>1 DEF PagesInv, Authored
  <2>5. Aged'
    BY <1>0, <2>3 DEF PagesInv, Aged
  <2>6. Resolving'
    BY <1>0, <1>1, <1>3, <1>5 DEF PagesInv, Resolving, Resolver, Terminal
  <2> QED
    BY <2>2, <2>3, <2>4, <2>5, <2>6 DEF PagesInv, Shown
<1> QED
  BY <1>4, <1>5

\* A request that takes effect is no longer in doubt; while the command runs there is none.
LEMMA LandPages ==
  ASSUME IInv, IInv', PagesInv, SettleTicks < QuarantineTicks, NEW a \in Attempts,
         Land(a) \/ Lose(a)
  PROVE  PagesInv'
<1>0. /\ TypeOK /\ flight[a] > 0 /\ flight' = [flight EXCEPT ![a] = @ - 1]
      /\ UNCHANGED <<job, since, receipts, worker, permitted, sends, age, confirms, reopened>>
      /\ \/ pages' = pages + 1 /\ authors' = authors \cup {a}
         \/ UNCHANGED <<pages, authors>>
  BY DEF IInv, Land, Lose
<1>1. Barred' <=> Barred
  BY <1>0 DEF Barred
<1>2. InDoubt' \subseteq InDoubt /\ a \in InDoubt
  BY <1>0 DEF InDoubt, IInv, TypeOK
<1>3. Spared' /\ Counted'
  <2>1. Live' \subseteq Live
    BY <1>0, <1>2 DEF Live
  <2> QED
    BY <1>0, <1>1, <2>1 DEF PagesInv, Spared, Counted
<1>4. Authored'
  <2>1. flight \in [Attempts -> Nat] /\ sends \in [Attempts -> Nat] /\ pages \in Nat
    BY <1>0 DEF TypeOK
  <2>2. ASSUME NEW b \in Attempts, authors' \subseteq {b} PROVE pages' + flight'[b] <= sends[b]
    <3>1. CASE pages' = pages + 1 /\ authors' = authors \cup {a}
      <4>1. b = a /\ authors \subseteq {a}
        BY <2>2, <3>1
      <4>2. pages + flight[a] <= sends[a] /\ flight'[a] = flight[a] - 1
        BY <1>0, <2>1, <4>1 DEF PagesInv, Authored
      <4> QED
        BY <2>1, <3>1, <4>1, <4>2
    <3>2. CASE UNCHANGED <<pages, authors>>
      <4>1. pages + flight[b] <= sends[b]
        BY <2>2, <3>2 DEF PagesInv, Authored
      <4>2. flight'[b] \in {flight[b], flight[b] - 1}
        BY <1>0, <2>1
      <4> QED
        BY <2>1, <3>2, <4>1, <4>2
    <3> QED
      BY <1>0, <3>1, <3>2
  <2>3. authors' # {} => pages' > 0
    BY <1>0, <2>1 DEF PagesInv, Authored
  <2> QED
    BY <1>0, <2>2, <2>3 DEF Authored
<1>5. Aged' /\ Resolving'
  BY <1>0, <1>1, <1>2 DEF PagesInv, Aged, Resolving, Unsure, Resolver
<1>6. ASSUME NEW w \in Workers PROVE Shown(w)'
  <2>1. CASE Unsure /\ job.state \notin Terminal /\ Resolver(w)
    BY <1>2, <2>1, QuietResolver
  <2>2. CASE ~(Unsure /\ job.state \notin Terminal /\ Resolver(w))
    BY <1>0, <2>2 DEF Shown, Unsure, Resolver
  <2> QED
    BY <2>1, <2>2
<1> QED
  BY <1>3, <1>4, <1>5, <1>6 DEF PagesInv

\* The clock moves what is in doubt together with the quarantine.
LEMMA TickPages ==
  ASSUME IInv, IInv', PagesInv, Tick
  PROVE  PagesInv'
<1>0. /\ TypeOK /\ UNCHANGED <<job, receipts, worker, permitted, sends, flight, pages, authors, confirms, reopened>>
      /\ since' = IF since \in 0 .. QuarantineTicks - 1 THEN since + 1 ELSE since
      /\ age' = [a \in Attempts |-> IF a \in InDoubt THEN age[a] + 1 ELSE 0]
      /\ \A a \in InDoubt : age[a] < SettleTicks
  BY DEF IInv, Tick, remote
<1>1. InDoubt' = InDoubt /\ (Barred' <=> Barred)
  BY <1>0 DEF InDoubt, Barred
<1>2. Spared' /\ Counted' /\ Authored'
  BY <1>0, <1>1 DEF PagesInv, Spared, Counted, Live, Authored
<1>3. Aged'
  <2>1. InDoubt \subseteq Attempts /\ (\A a \in Attempts : age[a] \in Nat)
        /\ since \in NoTime .. QuarantineTicks /\ SettleTicks \in Nat /\ QuarantineTicks \in Nat
    BY <1>0, DoubtPermitted, DeliveryAssumption DEF TypeOK
  <2>2. \A a \in Attempts : age'[a] <= SettleTicks
    BY <1>0, <2>1
  <2>3. ASSUME Unsure, since' # NoTime PROVE Barred' /\ \A a \in InDoubt' : since' <= age'[a]
    <3>1. since # NoTime
      BY <1>0, <2>1, <2>3 DEF NoTime
    <3>2. Barred /\ \A a \in InDoubt : since <= age[a]
      BY <2>3, <3>1 DEF PagesInv, Aged
    <3>3. \A a \in InDoubt : age'[a] = age[a] + 1
      BY <1>0, <2>1
    <3>4. since' <= since + 1
      BY <1>0, <2>1 DEF NoTime
    <3>5. since \in Int /\ since' \in Int
      BY <1>0, <2>1 DEF NoTime
    <3> QED
      BY <1>1, <2>1, <3>2, <3>3, <3>4, <3>5
  <2> QED
    BY <1>0, <2>2, <2>3 DEF Aged, Unsure
<1>4. Resolving'
  BY <1>0 DEF PagesInv, Resolving, Resolver
<1>5. \A w \in Workers : Shown(w)'
  BY <1>0 DEF PagesInv, Shown, Unsure, Resolver, Shows, Absent
<1> QED
  BY <1>2, <1>3, <1>4, <1>5 DEF PagesInv

LEMMA EnqueuePages ==
  ASSUME IInv, IInv', PagesInv, Enqueue \/ EnqueueConflict
  PROVE  PagesInv'
<1>0. /\ TypeOK
      /\ UNCHANGED <<since, receipts, worker, permitted, age, sends, flight, pages, authors, confirms, reopened>>
  BY DEF IInv, Enqueue, EnqueueConflict, remote
<1>1. /\ job'.state \in {"pending", "not_required", "conflict"}
      /\ job'.state = "pending" => job.state = "none"
      /\ job.state \in Terminal => job'.state \in Terminal
  <2>1. CASE Enqueue
    BY <1>0, <2>1 DEF Enqueue, TypeOK, JobRecords, Terminal
  <2>2. CASE EnqueueConflict
    <3>1. job' = Released("conflict") /\ "conflict" \in Terminal
      BY <2>2 DEF EnqueueConflict, Terminal
    <3>2. job'.state = "conflict"
      BY <1>0, <3>1, JobUpdate DEF TypeOK
    <3> QED
      BY <3>1, <3>2
  <2> QED
    BY <2>1, <2>2
<1>2. InDoubt' = InDoubt /\ (Barred => Barred')
  BY <1>0, <1>1 DEF InDoubt, Barred
<1>3. Spared' /\ Counted'
  BY <1>0, <1>2, SparedFrame DEF PagesInv
<1>4. Authored' /\ Aged' /\ Resolving'
  BY <1>0, <1>1, <1>2 DEF PagesInv, Authored, Aged, Unsure, Resolving, Resolver
<1>5. \A w \in Workers : Shown(w)'
  BY <1>0, <1>1 DEF PagesInv, Shown, Unsure, Resolver, Shows, Absent, Terminal
<1> QED
  BY <1>3, <1>4, <1>5 DEF PagesInv

\* The command begins when the quarantine has ended.
LEMMA ResolvePages ==
  ASSUME IInv, IInv', PagesInv, NEW w \in Workers, StartResolve(w)
  PROVE  PagesInv'
<1>0. /\ TypeOK /\ since = QuarantineTicks /\ job.state = "uncertain"
      /\ UNCHANGED <<job, since, receipts, permitted, age, sends, flight, pages, authors, confirms, reopened>>
  BY DEF IInv, StartResolve, QuarantineOver, remote
<1>1. /\ worker'[w].pc = "resolving" /\ worker'[w].attempt = 0 /\ worker'[w].outcome = "none"
      /\ \A v \in Workers \ {w} : worker'[v] = worker[v]
  BY <1>0 DEF StartResolve, Idle, TypeOK
<1>2. InDoubt' \subseteq InDoubt /\ (Barred' <=> Barred)
  BY <1>0, <1>1, DoubtShrinks DEF Creating, Barred
<1>3. Spared' /\ Counted'
  BY <1>0, <1>2, SparedFrame DEF PagesInv
<1>4. Authored' /\ Resolving'
  BY <1>0, <1>1 DEF PagesInv, Authored, Resolving
<1>5. Aged'
  BY <1>0, <1>2 DEF PagesInv, Aged, Unsure
<1>6. \A b \in Attempts : Shows(b) => Shows(b)'
  BY <1>0, <1>1, AbsentFrame DEF Shows
<1>7. ASSUME NEW v \in Workers PROVE Shown(v)'
  <2>1. CASE v = w
    BY <1>0, <1>1, <2>1 DEF Shown
  <2>2. CASE v # w
    <3>1. Shown(v) /\ (worker[v].attempt # 0 => worker[v].attempt \in Attempts)
          /\ (job.last # 0 => job.last \in Attempts)
      BY <1>0 DEF PagesInv, TypeOK, WorkerRecords, JobRecords, Attempts
    <3> QED
      BY <1>0, <1>1, <1>6, <2>2, <3>1 DEF Shown, Unsure, Resolver, Shows, Absent
  <2> QED
    BY <2>1, <2>2
<1> QED
  BY <1>3, <1>4, <1>5, <1>7 DEF PagesInv

\* The steps of one worker that leave the job where it is.
LEMMA WorkerStepPages ==
  ASSUME IInv, IInv', PagesInv, NEW w \in Workers,
         \/ Preflight(w) \/ Query(w) \/ MarkFails(w) \/ Post(w) \/ PostReturns(w) \/ Readback(w)
         \/ WriteReceipt(w) \/ CheckAbsent(w) \/ Abandon(w) \/ ClaimNothing(w)
         \/ (Finalize(w) /\ ~LeaseHeld(worker[w].attempt))
  PROVE  PagesInv'
<1>0. TypeOK /\ StageOK(w) /\ worker[w] \in WorkerRecords
  BY DEF IInv, TypeOK
<1>g. ASSUME NEW pc \in PCs, Goto(w, pc)
      PROVE  /\ worker'[w].pc = pc /\ worker'[w].attempt = worker[w].attempt
             /\ worker'[w].outcome = worker[w].outcome /\ worker'[w].resolve = worker[w].resolve
             /\ \A v \in Workers \ {w} : worker'[v] = worker[v]
  BY <1>0, <1>g DEF Goto, TypeOK, WorkerRecords
<1>r. ASSUME NEW o \in Outcomes, Report(w, o)
      PROVE  /\ worker'[w].pc = "receipt" /\ worker'[w].attempt = worker[w].attempt
             /\ worker'[w].outcome = o /\ worker'[w].resolve = worker[w].resolve
             /\ \A v \in Workers \ {w} : worker'[v] = worker[v]
  BY <1>0, <1>r DEF Report, TypeOK, WorkerRecords
<1>l. ASSUME NEW pc \in PCs, Leave(w, pc)
      PROVE  /\ worker'[w].pc = pc /\ worker'[w].attempt = 0 /\ worker'[w].outcome = "none"
             /\ ~worker'[w].resolve
             /\ \A v \in Workers \ {w} : worker'[v] = worker[v]
  BY <1>0, <1>l DEF Leave, Idle, TypeOK
<1>1. ASSUME NEW pc \in PCs \ (Creating \cup {"check", "confirm"}), Goto(w, pc),
             UNCHANGED <<job, since, receipts, permitted, age, sends, flight, pages, authors, confirms, reopened>>
      PROVE  PagesInv'
  <2>1. \A a \in Attempts : Absent(a)' => Absent(a) \/ pages = 0
    BY <1>1, <1>g, AbsentFrame
  <2> QED
    BY <1>1, <1>g, <2>1, WorkerPages DEF Creating, Resolver, Barred
<1>2. ASSUME NEW o \in Outcomes, Report(w, o), o = "absent" => pages = 0,
             UNCHANGED <<since, receipts, permitted, age, sends, flight, pages, authors, confirms, reopened>>,
             job'.state = job.state, job'.lease = job.lease, job'.last = job.last, Barred => Barred'
      PROVE  PagesInv'
  <2>1. \A a \in Attempts : Absent(a)' => Absent(a) \/ pages = 0
    BY <1>2, <1>r, AbsentFrame
  <2> QED
    BY <1>2, <1>r, <2>1, WorkerPages DEF Creating, Resolver
<1>3. ASSUME NEW pc \in {"idle", "check", "confirm"}, Leave(w, pc),
             pc # "idle" => Resolver(w),
             Unsure /\ pc = "check" /\ job.state = "uncertain" /\ job.last # 0 => Shows(job.last),
             Unsure /\ pc = "confirm" /\ job.state \notin Terminal => pages = 0,
             UNCHANGED <<job, since, receipts, permitted, age, sends, flight, pages, authors, confirms, reopened>>
      PROVE  PagesInv'
  <2>1. /\ worker'[w].pc = pc /\ worker'[w].attempt = 0 /\ worker'[w].outcome = "none"
        /\ ~worker'[w].resolve /\ \A v \in Workers \ {w} : worker'[v] = worker[v]
    BY <1>3, <1>l DEF PCs
  <2>2. \A a \in Attempts : Absent(a)' => Absent(a) \/ pages = 0
    BY <1>3, <2>1, AbsentFrame
  <2> QED
    BY <1>3, <2>1, <2>2, WorkerPages DEF Creating, Resolver, Barred
<1>4. CASE Preflight(w)
  BY <1>1, <1>2, <1>4 DEF Preflight, Outcomes, PCs, Barred, remote, Creating
<1>5. CASE Query(w)
  <2>1. Classify \in Outcomes /\ (Classify = "absent" => pages = 0)
    BY DEF Classify, Outcomes
  <2>2. UNCHANGED <<job, since, receipts, permitted, age, sends, flight, pages, authors, confirms, reopened>>
    BY <1>5 DEF Query, remote
  <2>3. CASE Goto(w, "mark")
    BY <1>1, <2>2, <2>3 DEF PCs, Creating
  <2>4. ASSUME NEW o \in {"uncertain", "retryable_failed", Classify}, Report(w, o) PROVE PagesInv'
    BY <1>2, <2>1, <2>2, <2>4 DEF Outcomes, Barred
  <2> QED
    BY <1>5, <2>3, <2>4 DEF Query
<1>6. CASE MarkFails(w)
  <2>1. /\ Report(w, "retryable_failed")
        /\ UNCHANGED <<since, receipts, permitted, age, sends, flight, pages, authors, confirms, reopened>>
    BY <1>6 DEF MarkFails, remote
  <2>2. /\ job'.state = job.state /\ job'.lease = job.lease /\ job'.last = job.last
        /\ job' # job => CanMark(w)
    BY <1>0, <1>6 DEF MarkFails, TypeOK, JobRecords
  <2>3. Barred => Barred'
    BY <2>1, <2>2 DEF Barred, CanMark
  <2> QED
    BY <1>2, <2>1, <2>2, <2>3 DEF Outcomes
<1>7. CASE Post(w)
  <2> DEFINE a == worker[w].attempt
  <2>1. /\ worker[w].pc = "post" /\ Goto(w, "sent")
        /\ sends' = [sends EXCEPT ![a] = @ + 1] /\ flight' = [flight EXCEPT ![a] = @ + 1]
        /\ UNCHANGED <<job, since, receipts, permitted, age, pages, authors, confirms, reopened>>
    BY <1>7 DEF Post
  <2>2. /\ worker'[w].pc = "sent" /\ worker'[w].attempt = a /\ worker'[w].outcome = worker[w].outcome
        /\ worker'[w].resolve = worker[w].resolve
        /\ \A v \in Workers \ {w} : worker'[v] = worker[v]
    BY <1>g, <2>1 DEF PCs
  <2>3. InDoubt' \subseteq InDoubt
    BY <1>0, <2>1, <2>2 DEF InDoubt, Creating, TypeOK
  <2>4. Barred' <=> Barred
    BY <2>1 DEF Barred
  <2>5. Spared' /\ Counted'
    BY <2>1, <2>3, <2>4, SparedFrame DEF PagesInv
  <2>6. Authored'
    <3>1. flight \in [Attempts -> Nat] /\ sends \in [Attempts -> Nat] /\ pages \in Nat
      BY <1>0 DEF TypeOK
    <3>2. ASSUME NEW b \in Attempts, authors \subseteq {b} PROVE pages + flight'[b] <= sends'[b]
      BY <2>1, <3>1, <3>2 DEF PagesInv, Authored
    <3> QED
      BY <2>1, <3>2 DEF PagesInv, Authored
  <2>7. Aged'
    BY <2>1, <2>3, <2>4 DEF PagesInv, Aged, Unsure
  <2>8. \A v \in Workers : /\ Resolver(v)' => Resolver(v)
                           /\ worker'[v].attempt = worker[v].attempt
                           /\ worker'[v].outcome = worker[v].outcome
                           /\ worker'[v].pc \in {"check", "confirm"} => worker'[v].pc = worker[v].pc
    BY <2>1, <2>2 DEF Resolver
  <2>9. Resolving'
    BY <2>1, <2>8 DEF PagesInv, Resolving
  <2>10. \A b : Shows(b) => Shows(b)'
    BY <2>1, <2>8 DEF Shows, Absent
  <2>11. \A v \in Workers : Shown(v)'
    BY <2>1, <2>8, <2>10 DEF PagesInv, Shown, Unsure, Shows, Absent
  <2> QED
    BY <2>5, <2>6, <2>7, <2>9, <2>11 DEF PagesInv
<1>8. CASE PostReturns(w)
  <2>1. /\ worker[w].pc = "sent"
        /\ UNCHANGED <<job, since, receipts, permitted, age, sends, flight, pages, authors,
                       confirms, reopened>>
    BY <1>8 DEF PostReturns, remote
  <2>2. CASE Goto(w, "readback")
    BY <1>1, <2>1, <2>2 DEF PCs, Creating
  <2>3. CASE Report(w, "uncertain")
    BY <1>2, <2>1, <2>3 DEF Outcomes, Barred
  <2>4. CASE Goto(w, "post")
    <3>1. /\ worker'[w].pc = "post" /\ worker'[w].attempt = worker[w].attempt
          /\ worker'[w].outcome = worker[w].outcome /\ worker'[w].resolve = worker[w].resolve
          /\ \A v \in Workers \ {w} : worker'[v] = worker[v]
      BY <1>g, <2>4 DEF PCs
    <3>2. InDoubt' \subseteq InDoubt
      BY <2>1, <3>1 DEF InDoubt, Creating
    <3>3. \A b \in Attempts : Absent(b)' => Absent(b) \/ pages = 0
      BY <2>1, <3>1, AbsentFrame
    <3> QED
      BY <2>1, <3>1, <3>2, <3>3, WorkerPages DEF Creating, Resolver, Barred
  <2> QED
    BY <1>8, <2>2, <2>3, <2>4 DEF PostReturns
<1>9. CASE Readback(w)
  <2>1. ReadbackOutcome \in Outcomes /\ ReadbackOutcome # "absent"
    BY DEF ReadbackOutcome, Classify, Outcomes
  <2> QED
    BY <1>2, <1>9, <2>1 DEF Readback, Outcomes, Barred, remote
<1>10. CASE WriteReceipt(w)
  <2> DEFINE a == worker[w].attempt
  <2>1. /\ receipts' = [receipts EXCEPT ![a] = worker[w].outcome] /\ Goto(w, "finalize")
        /\ UNCHANGED <<job, since, permitted, age, sends, flight, pages, authors, confirms, reopened>>
    BY <1>10 DEF WriteReceipt, remote
  <2>2. /\ worker'[w].pc = "finalize" /\ worker'[w].attempt = a /\ worker'[w].outcome = worker[w].outcome
        /\ worker'[w].resolve = worker[w].resolve
        /\ \A v \in Workers \ {w} : worker'[v] = worker[v]
    BY <1>g, <2>1 DEF PCs
  <2>3. \A b \in Attempts : Absent(b)' => Absent(b)
    <3>1. \A b \in Attempts : receipts'[b] = IF b = a THEN worker[w].outcome ELSE receipts[b]
      BY <1>0, <2>1 DEF TypeOK
    <3> QED
      BY <2>2, <3>1 DEF Absent
  <2> QED
    BY <2>1, <2>2, <2>3, WorkerPages DEF Creating, Resolver, Barred
<1>11. CASE CheckAbsent(w)
  <2>1. /\ worker[w].pc = "check" /\ Resolver(w)
        /\ UNCHANGED <<job, since, receipts, permitted, age, sends, flight, pages, authors, confirms, reopened>>
    BY <1>11 DEF CheckAbsent, Resolver, remote
  <2>2. CASE Leave(w, "idle")
    BY <1>3, <2>1, <2>2
  <2>3. CASE Leave(w, "confirm") /\ job.state = "uncertain" /\ job.last # 0 /\ receipts[job.last] = "absent"
    <3>1. Unsure => pages = 0
      BY <2>1, <2>3 DEF PagesInv, Shown, Shows, Absent, Terminal
    <3> QED
      BY <1>3, <2>1, <2>3, <3>1
  <2> QED
    BY <1>11, <2>2, <2>3 DEF CheckAbsent
<1>12. CASE Abandon(w)
  BY <1>3, <1>12 DEF Abandon, remote
<1>13. CASE ClaimNothing(w)
  <2>1. /\ job.state # "uncertain"
        /\ UNCHANGED <<job, since, receipts, permitted, age, sends, flight, pages, authors, confirms, reopened>>
    BY <1>13 DEF ClaimNothing, Terminal, remote
  <2>2. Leave(w, "idle") \/ (Leave(w, "check") /\ Resolver(w))
    BY <1>13 DEF ClaimNothing, AfterAttempt, Resolver
  <2> QED
    BY <1>3, <2>1, <2>2
<1>14. CASE Finalize(w) /\ ~LeaseHeld(worker[w].attempt)
  <2>1. UNCHANGED <<job, since, receipts, permitted, age, sends, flight, pages, authors, confirms, reopened>>
    BY <1>14 DEF Finalize, remote
  <2>2. Leave(w, "idle") \/ (Leave(w, "check") /\ worker[w].resolve /\ job.last = worker[w].attempt)
    BY <1>14 DEF Finalize, AfterAttempt
  <2>3. CASE Leave(w, "idle")
    BY <1>3, <2>1, <2>3
  <2>4. CASE Leave(w, "check") /\ worker[w].resolve /\ job.last = worker[w].attempt
    <3>1. Unsure /\ job.state = "uncertain" /\ job.last # 0 => Shows(job.last)
      BY <2>4 DEF PagesInv, Shown, Resolver, Terminal
    <3> QED
      BY <1>3, <2>1, <2>4, <3>1 DEF Resolver
  <2> QED
    BY <2>2, <2>3, <2>4
<1> QED
  BY <1>4, <1>5, <1>6, <1>7, <1>8, <1>9, <1>10, <1>11, <1>12, <1>13, <1>14

LEMMA PagesNext ==
  ASSUME SettleTicks < QuarantineTicks
  PROVE  IInv /\ PagesInv /\ [Next]_vars => PagesInv'
<1> SUFFICES ASSUME IInv, PagesInv, [Next]_vars PROVE PagesInv'
  OBVIOUS
<1>0. TypeOK /\ IInv' /\ \A w \in Workers : StageOK(w)
  BY NextIInv DEF IInv
<1>1. CASE UNCHANGED vars
  BY <1>1 DEF vars, PagesInv, Spared, Counted, Authored, Aged, Resolving, Shown, Shows, Absent,
              Live, Resolver, Unsure, InDoubt, Barred
<1>2. CASE Enqueue \/ EnqueueConflict
  BY <1>0, <1>2, EnqueuePages
<1>3. CASE Tick
  BY <1>0, <1>3, TickPages
<1>4. ASSUME NEW w \in Workers, StartResolve(w) PROVE PagesInv'
  BY <1>0, <1>4, ResolvePages
<1>5. ASSUME NEW w \in Workers, ClaimRecovers(w) PROVE PagesInv'
  <2>1. job.lease \in Attempts
    BY <1>0, <1>5 DEF ClaimRecovers, TypeOK, JobRecords, Attempts
  <2> QED
    BY <1>0, <1>5, <2>1, ApplyPages DEF ClaimRecovers, remote
<1>6. ASSUME NEW w \in Workers, Claim(w) PROVE PagesInv'
  BY <1>0, <1>6, ClaimPages
<1>7. ASSUME NEW w \in Workers, Mark(w) PROVE PagesInv'
  BY <1>0, <1>7, MarkPages
<1>8. ASSUME NEW w \in Workers, Finalize(w) PROVE PagesInv'
  <2> DEFINE a == worker[w].attempt
  <2>1. a \in Attempts /\ receipts[a] # "none"
    BY <1>0, <1>8 DEF Finalize, StageOK, Running, TypeOK, WorkerRecords, Attempts
  <2>2. CASE LeaseHeld(a)
    BY <1>0, <1>8, <2>1, <2>2, ApplyPages DEF Finalize, LeaseHeld, remote
  <2>3. CASE ~LeaseHeld(a)
    BY <1>0, <1>8, <2>3, WorkerStepPages
  <2> QED
    BY <2>2, <2>3
<1>9. ASSUME NEW w \in Workers, ConfirmAbsent(w) PROVE PagesInv'
  BY <1>0, <1>9, ConfirmPages
<1>10. ASSUME NEW w \in Workers,
              \/ Preflight(w) \/ Query(w) \/ MarkFails(w) \/ Post(w) \/ PostReturns(w) \/ Readback(w)
              \/ WriteReceipt(w) \/ CheckAbsent(w) \/ Abandon(w) \/ ClaimNothing(w)
       PROVE  PagesInv'
  BY <1>0, <1>10, WorkerStepPages
<1>11. ASSUME NEW a \in Attempts, Land(a) \/ Lose(a) PROVE PagesInv'
  BY <1>0, <1>11, LandPages
<1> QED
  BY <1>1, <1>2, <1>3, <1>4, <1>5, <1>6, <1>7, <1>8, <1>9, <1>10, <1>11
     DEF Next, Reconcile, WorkerStep

LEMMA InitPages == Init => PagesInv
<1> SUFFICES ASSUME Init PROVE PagesInv
  OBVIOUS
<1>1. InDoubt = {}
  BY DEF Init, InDoubt, Idle, Creating
<1>2. Spared /\ Counted /\ Authored
  BY <1>1 DEF Init, Spared, Counted, Live, Authored
<1>3. Aged
  BY <1>1, DeliveryAssumption DEF Init, Aged, Attempts
<1>4. \A w \in Workers : ~Resolver(w) /\ worker[w].attempt = 0 /\ worker[w].pc = "idle"
  BY DEF Init, Resolver, Idle
<1>5. Resolving /\ \A w \in Workers : Shown(w)
  BY <1>4 DEF Resolving, Shown
<1> QED
  BY <1>2, <1>3, <1>5 DEF PagesInv

\* Where the quarantine is longer than a create call and its requests can stay undecided:
\* however many workers race, die and answer late, however often the transport sends a
\* request again, and whenever the operator confirms, one confirmed absence leaves the pages
\* of one attempt (resolve_confirmed_absent, _claim, _finalize_attempt, _urllib_transport).
THEOREM OneAuthor ==
  ASSUME SettleTicks < QuarantineTicks
  PROVE  Spec => []PagesOfOneAttempt
<1>1. IInv /\ PagesInv => PagesOfOneAttempt
  <2> SUFFICES ASSUME IInv, PagesInv, reopened = confirms, confirms <= 1, NEW a \in authors
               PROVE  authors = {a} /\ pages <= sends[a]
    BY DEF PagesOfOneAttempt
  <2>1. a \in Attempts /\ flight[a] \in Nat /\ sends[a] \in Nat /\ pages \in Nat
    BY DEF IInv, TypeOK
  <2>2. authors = {a}
    BY DEF PagesInv, Spared, Live
  <2> QED
    BY <2>1, <2>2 DEF PagesInv, Authored
<1>2. IInv /\ PagesInv /\ [Next]_vars => (IInv /\ PagesInv)'
  BY NextIInv, PagesNext
<1>3. Init => IInv /\ PagesInv
  BY InitIInv, InitPages
<1> QED
  BY <1>1, <1>2, <1>3, PTL DEF Spec

-----------------------------------------------------------------------------
(***************************************************************************)
(* The intents.                                                            *)
(***************************************************************************)
Process == [pc : {"idle", "scan", "preflight", "enqueue", "run", "commit", "own", "done"},
            writer : BOOLEAN, run : Runs \cup {"none"}, todo : SUBSET Runs, plan : SUBSET Runs]

\* Runs that must have a job before another chapter is generated, and those that have one.
Owing == owed \cap Completed
Made == {r \in Runs : jobs[r] = "ours"}

\* The scan for the jobs that earlier runs owe, until its last job is made.
Scanning(s) == s.pc \in {"preflight", "enqueue"} /\ s.run = "none"

\* Where a process in state s is, and what it holds and remembers there.
Placed(s) ==
    /\ s.pc \in {"scan", "run", "commit"} \/ Scanning(s) => s.writer
    /\ s.pc \in {"scan", "run"} => s.run = "none"
    /\ s.pc \in {"commit", "own", "done"} => s.run # "none"
    /\ s.pc = "own" => s.run \in Completed
    /\ s.plan \subseteq Owing /\ s.todo \subseteq Completed

\* A prepared run belongs to the writer that commits it, or to a process that is gone.
OwnRunOnly(s) ==
    s.writer => \A r \in Runs : tx[r] = "prepared" => s.pc = "commit" /\ s.run = r

\* Nothing owed is forgotten on the way from the scan to the next chapter.
Covered(s) ==
    /\ s.pc = "scan" => Owing \subseteq s.todo \cup s.plan
    /\ Scanning(s) => Owing \subseteq s.plan \cup Made
    /\ s.pc \in {"run", "commit"} => Owing \subseteq Made

TaskOK(s) == Placed(s) /\ OwnRunOnly(s) /\ Covered(s)

\* The writer lock of the book is exclusive.
OneWriter == \A p, q \in Procs : proc[p].writer /\ proc[q].writer => p = q

IntentInv ==
    /\ IntentAssumption /\ IntentsTyped /\ JobsArePublished /\ OneWriter
    /\ \A p \in Procs : TaskOK(proc[p])

Local == <<tx, owed, artifact, jobs, damage>>

-----------------------------------------------------------------------------

LEMMA InitIntentInv == IntentAssumption /\ IntentInit => IntentInv
BY DEF IntentAssumption, IntentInit, IntentInv, IntentsTyped, JobsArePublished, OneWriter, TaskOK, Placed, OwnRunOnly,
       Covered, Scanning, Owing, Completed, NoTask

\* A step that only moves one process is right when the process is right where it goes.
LEMMA Move ==
    ASSUME IntentInv, NEW p \in Procs, NEW s \in Process, proc' = [proc EXCEPT ![p] = s], TaskOK(s),
           s.writer => proc[p].writer \/ \A q \in Procs : ~proc[q].writer,
           UNCHANGED Local, crashes' \in 0 .. MaxCrashes
    PROVE  IntentInv'
<1>1. IntentsTyped' /\ JobsArePublished'
  BY DEF IntentInv, IntentsTyped, JobsArePublished, Local, Process, Completed
<1>2. OneWriter'
  BY DEF IntentInv, IntentsTyped, OneWriter
<1>3. ASSUME NEW q \in Procs PROVE TaskOK(proc[q])'
  <2>1. proc'[q] = IF q = p THEN s ELSE proc[q]
    BY DEF IntentInv, IntentsTyped
  <2>2. TaskOK(proc'[q])
    BY <2>1 DEF IntentInv
  <2>3. QED
    BY <2>2 DEF Local, TaskOK, Placed, OwnRunOnly, Covered, Scanning, Owing, Made, Completed
<1>4. QED
  BY <1>1, <1>2, <1>3 DEF IntentInv

\* What is known of a process in any state that a run goes through.
LEMMA InProcess ==
    ASSUME IntentInv, NEW p \in Procs
    PROVE  proc[p] \in Process /\ TaskOK(proc[p]) /\ proc \in [Procs -> Process]
BY DEF IntentInv, IntentsTyped, Process

LEMMA IdleOK == NoTask \in Process /\ TaskOK(NoTask) /\ ~NoTask.writer
BY DEF NoTask, Process, TaskOK, Placed, OwnRunOnly, Covered, Scanning

LEMMA FailStep ==
    ASSUME IntentInv, NEW p \in Procs, Fail(p), UNCHANGED Local, crashes' \in 0 .. MaxCrashes
    PROVE  IntentInv'
BY IdleOK, Move DEF Fail

LEMMA ConfigureStep == ASSUME IntentInv, NEW p \in Procs, Configure(p) PROVE IntentInv'
<1> DEFINE s == [NoTask EXCEPT !.pc = "scan", !.writer = TRUE, !.todo = Completed]
<1>1. s \in Process /\ TaskOK(s)
  BY DEF Configure, Free, NoTask, Process, TaskOK, Placed, OwnRunOnly, Covered, Scanning, Owing, Completed
<1>2. QED
  BY <1>1, Move DEF Configure, Free, Local, IntentInv, IntentsTyped

LEMMA ScanStep == ASSUME IntentInv, NEW p \in Procs, Scan(p) PROVE IntentInv'
<1>1. UNCHANGED Local /\ crashes' \in 0 .. MaxCrashes
  BY DEF Scan, Local, IntentInv, IntentsTyped
<1>2. CASE proc[p].todo = {}
  <2> DEFINE s == [proc[p] EXCEPT !.pc = "preflight"]
  <2>1. s \in Process /\ TaskOK(s)
    BY <1>2, InProcess DEF Scan, Process, TaskOK, Placed, OwnRunOnly, Covered, Scanning
  <2>2. QED
    BY <1>1, <1>2, <2>1, Move DEF Scan, Process
<1>3. CASE proc[p].todo # {}
  <2>1. PICK r \in proc[p].todo :
           IF Trusted(r)
           THEN proc' = [proc EXCEPT ![p].todo = @ \ {r}, ![p].plan = @ \cup ({r} \cap owed)]
           ELSE Fail(p)
    BY <1>3 DEF Scan
  <2> DEFINE s == [proc[p] EXCEPT !.todo = @ \ {r}, !.plan = @ \cup ({r} \cap owed)]
  <2>2. s \in Process /\ TaskOK(s)
    <3>1. s \in Process /\ proc[p].pc = "scan" /\ s.pc = "scan" /\ s.run = proc[p].run /\ s.writer = proc[p].writer
      BY InProcess DEF Scan, Process
    <3>2. s.todo = proc[p].todo \ {r} /\ s.plan = proc[p].plan \cup ({r} \cap owed)
      BY InProcess DEF Process
    <3>3. s.plan \subseteq Owing /\ s.todo \subseteq Completed /\ Owing \subseteq s.todo \cup s.plan
      BY <3>1, <3>2, InProcess DEF TaskOK, Placed, Covered, Owing
    <3>4. QED
      BY <3>1, <3>3, InProcess DEF TaskOK, Placed, OwnRunOnly, Covered, Scanning
  <2>3. CASE Trusted(r)
    <3>1. proc' = [proc EXCEPT ![p] = s]
      BY <2>1, <2>3, InProcess DEF Process
    <3>2. QED
      BY <1>1, <2>2, <3>1, Move, InProcess DEF Process
  <2>4. QED
    BY <1>1, <2>1, <2>3, FailStep
<1>4. QED
  BY <1>2, <1>3

LEMMA PreflightStep == ASSUME IntentInv, NEW p \in Procs, PreflightJobs(p) PROVE IntentInv'
<1>1. UNCHANGED Local /\ crashes' \in 0 .. MaxCrashes
  BY DEF PreflightJobs, Local, IntentInv, IntentsTyped
<1> DEFINE s == [proc[p] EXCEPT !.pc = "enqueue"]
<1>2. s \in Process /\ TaskOK(s) /\ s.writer = proc[p].writer
  BY InProcess DEF PreflightJobs, Process, TaskOK, Placed, OwnRunOnly, Covered, Scanning
<1>3. proc' = [proc EXCEPT ![p] = s] \/ Fail(p)
  BY DEF PreflightJobs
<1>4. QED
  BY <1>1, <1>2, <1>3, Move, FailStep

\* A job is made of an intent in the plan, and the plan holds only what is owed.
LEMMA EnqueueStep == ASSUME IntentInv, NEW p \in Procs, EnqueueJobs(p) PROVE IntentInv'
<1>1. crashes' \in 0 .. MaxCrashes
  BY DEF EnqueueJobs, IntentInv, IntentsTyped
<1>2. CASE proc[p].plan = {} /\ UNCHANGED jobs /\
           proc' = [proc EXCEPT ![p].pc = IF proc[p].run = "none" THEN "run" ELSE "done"]
  <2> DEFINE s == [proc[p] EXCEPT !.pc = IF proc[p].run = "none" THEN "run" ELSE "done"]
  <2>1. s \in Process /\ TaskOK(s) /\ s.writer = proc[p].writer
    BY <1>2, InProcess DEF EnqueueJobs, Process, TaskOK, Placed, OwnRunOnly, Covered, Scanning
  <2>2. QED
    BY <1>1, <1>2, <2>1, Move DEF EnqueueJobs, Local
<1>3. ASSUME NEW r \in proc[p].plan, jobs[r] = "foreign", Fail(p), UNCHANGED jobs PROVE IntentInv'
  BY <1>1, <1>3, FailStep DEF EnqueueJobs, Local
<1>4. ASSUME NEW r \in proc[p].plan, jobs' = [jobs EXCEPT ![r] = "ours"],
             proc' = [proc EXCEPT ![p].plan = @ \ {r}]
      PROVE  IntentInv'
  <2>0. UNCHANGED <<tx, owed, artifact, damage>> /\ UNCHANGED <<Completed, Owing>>
    BY DEF EnqueueJobs, Completed, Owing
  <2>1. r \in Runs /\ r \in Owing
    BY InProcess DEF Process, TaskOK, Placed
  <2>2. IntentsTyped' /\ JobsArePublished' /\ OneWriter'
    BY <1>1, <1>4, <2>0, <2>1 DEF IntentInv, IntentsTyped, JobsArePublished, OneWriter, Owing, Completed
  <2>3. Made' = Made \cup {r}
    BY <1>4, <2>1 DEF Made, IntentInv, IntentsTyped
  <2>4. ASSUME NEW q \in Procs PROVE TaskOK(proc[q])'
    <3>1. proc'[q] = IF q = p THEN [proc[p] EXCEPT !.plan = @ \ {r}] ELSE proc[q]
      BY <1>4, InProcess DEF Process
    <3>2. CASE q # p
      BY <2>0, <2>3, <3>1, <3>2, InProcess DEF TaskOK, Placed, OwnRunOnly, Covered, Scanning
    <3>3. CASE q = p
      <4>1. proc'[p].plan = proc[p].plan \ {r} /\ proc'[p].todo = proc[p].todo /\ proc'[p].pc = "enqueue"
            /\ proc'[p].run = proc[p].run /\ proc'[p].writer = proc[p].writer
        BY <3>1, <3>3, InProcess DEF Process, EnqueueJobs
      <4>2. proc[p].pc = "enqueue"
        BY DEF EnqueueJobs
      <4>3. QED
        BY <2>0, <2>3, <3>3, <4>1, <4>2, InProcess DEF TaskOK, Placed, OwnRunOnly, Covered, Scanning
    <3>4. QED
      BY <3>2, <3>3
  <2>5. QED
    BY <2>0, <2>2, <2>4 DEF IntentInv
<1>5. QED
  BY <1>2, <1>3, <1>4 DEF EnqueueJobs

\* The run's own transaction is prepared under the writer lock.
LEMMA PrepareStep == ASSUME IntentInv, NEW p \in Procs, Prepare(p) PROVE IntentInv'
<1>1. PICK r \in Runs, required \in BOOLEAN :
          /\ tx[r] = "none" /\ tx' = [tx EXCEPT ![r] = "prepared"]
          /\ owed' = IF required THEN owed \cup {r} ELSE owed
          /\ proc' = [proc EXCEPT ![p].run = r, ![p].pc = "commit"]
  BY DEF Prepare
<1>2. proc[p].pc = "run" /\ proc[p].writer /\ UNCHANGED <<artifact, jobs, crashes, damage>>
  BY InProcess DEF Prepare, TaskOK, Placed
<1>3. UNCHANGED <<Completed, Owing, Made>>
  BY <1>1, <1>2 DEF IntentInv, IntentsTyped, Completed, Owing, Made
<1>4. IntentsTyped' /\ JobsArePublished' /\ OneWriter'
  <2>1. IntentsTyped'
    BY <1>1, <1>2, <1>3 DEF IntentInv, IntentsTyped
  <2>2. QED
    BY <1>1, <1>2, <1>3, <2>1 DEF IntentInv, IntentsTyped, JobsArePublished, OneWriter, Owing
<1>5. ASSUME NEW q \in Procs PROVE TaskOK(proc[q])'
  <2>1. CASE q = p
    <3>1. proc'[p] = [proc[p] EXCEPT !.run = r, !.pc = "commit"]
      BY <1>1, InProcess DEF Process
    <3>2. \A u \in Runs : tx'[u] = "prepared" => u = r
      BY <1>1, <1>2, InProcess DEF TaskOK, OwnRunOnly, IntentInv, IntentsTyped
    <3>3. QED
      BY <1>2, <1>3, <2>1, <3>1, <3>2, InProcess
      DEF Process, TaskOK, Placed, OwnRunOnly, Covered, Scanning, IntentInv, IntentAssumption
  <2>2. CASE q # p
    <3>1. proc'[q] = proc[q] /\ ~proc[q].writer
      BY <1>1, <1>2, <2>2, InProcess DEF IntentInv, OneWriter
    <3>2. QED
      BY <1>3, <3>1, InProcess DEF TaskOK, Placed, OwnRunOnly, Covered, Scanning
  <2>3. QED
    BY <2>1, <2>2
<1>6. QED
  BY <1>4, <1>5 DEF IntentInv

\* A run is completed where nobody but its own process writes: whoever still scans or generates
\* would hold the lock.
LEMMA Publishing ==
    ASSUME IntentInv, NEW r \in Runs, tx[r] = "prepared", Publish(r), UNCHANGED <<owed, jobs, damage, crashes>>
    PROVE  /\ \A q \in Procs : ~proc[q].writer /\ proc'[q] = proc[q] => TaskOK(proc[q])'
           /\ JobsArePublished' /\ Completed' = Completed \cup {r} /\ Made' = Made
           /\ proc' \in [Procs -> Process] => IntentsTyped'
<1>1. Completed' = Completed \cup {r} /\ Made' = Made /\ UNCHANGED owed
  BY DEF Publish, Completed, Made, IntentInv, IntentsTyped
<1>2. JobsArePublished'
  BY <1>1 DEF JobsArePublished, IntentInv
<1>3. ASSUME proc' \in [Procs -> Process] PROVE IntentsTyped'
  BY <1>1, <1>3 DEF Publish, IntentInv, IntentsTyped, Process
<1>4. ASSUME NEW q \in Procs, ~proc[q].writer, proc'[q] = proc[q] PROVE TaskOK(proc[q])'
  BY <1>1, <1>4, InProcess DEF TaskOK, Placed, OwnRunOnly, Covered, Scanning, Owing
<1>5. QED
  BY <1>1, <1>2, <1>3, <1>4

LEMMA CommitStep == ASSUME IntentInv, NEW p \in Procs, Commit(p) PROVE IntentInv'
<1> DEFINE r == proc[p].run
<1>1. /\ proc[p].pc = "commit" /\ proc[p].writer /\ r \in Runs
      /\ UNCHANGED <<owed, jobs, crashes, damage>>
  BY InProcess DEF Commit, TaskOK, Placed, Process
<1>2. CASE tx[r] # "prepared"
  BY <1>1, <1>2, FailStep DEF Commit, Local, IntentInv, IntentsTyped
<1>3. CASE tx[r] = "prepared"
  <2>1. Publish(r) /\ proc' = [proc EXCEPT ![p].pc = "own"]
    BY <1>3 DEF Commit
  <2>2. proc' \in [Procs -> Process] /\ proc'[p] = [proc[p] EXCEPT !.pc = "own"]
    BY <2>1, InProcess DEF Process
  <2>3. IntentsTyped' /\ JobsArePublished' /\ Completed' = Completed \cup {r}
    BY <1>1, <1>3, <2>1, <2>2, Publishing
  <2>4. OneWriter'
    BY <2>1, InProcess DEF IntentInv, OneWriter, Process
  <2>5. ASSUME NEW q \in Procs, q # p PROVE TaskOK(proc[q])'
    <3>1. ~proc[q].writer /\ proc'[q] = proc[q]
      BY <1>1, <2>1, <2>5, InProcess DEF IntentInv, OneWriter
    <3>2. QED
      BY <1>1, <1>3, <2>1, <3>1, Publishing
  <2>6. TaskOK(proc[p])'
    <3>1. \A u \in Runs : tx'[u] # "prepared"
      BY <1>1, <1>3, <2>1, InProcess DEF Publish, TaskOK, OwnRunOnly, IntentInv, IntentsTyped
    <3>2. QED
      BY <1>1, <2>2, <2>3, <3>1, InProcess
      DEF Process, TaskOK, Placed, OwnRunOnly, Covered, Scanning, Owing
  <2>7. QED
    BY <2>3, <2>4, <2>5, <2>6 DEF IntentInv
<1>4. QED
  BY <1>2, <1>3

LEMMA AttemptStep == ASSUME IntentInv, NEW p \in Procs, Attempt(p) PROVE IntentInv'
<1>1. PICK r \in Completed : proc' = [proc EXCEPT ![p] = [NoTask EXCEPT !.pc = "own", !.run = r]]
  BY DEF Attempt
<1> DEFINE s == [NoTask EXCEPT !.pc = "own", !.run = r]
<1>2. s \in Process /\ TaskOK(s) /\ ~s.writer
  BY DEF NoTask, Process, TaskOK, Placed, OwnRunOnly, Covered, Scanning, Completed, IntentInv, IntentAssumption
<1>3. QED
  BY <1>1, <1>2, Move DEF Attempt, Local, IntentInv, IntentsTyped

LEMMA OwnStep == ASSUME IntentInv, NEW p \in Procs, Own(p) PROVE IntentInv'
<1> DEFINE r == proc[p].run
           s == [proc[p] EXCEPT !.plan = {r} \cap owed, !.pc = "preflight"]
<1>1. UNCHANGED Local /\ crashes' \in 0 .. MaxCrashes
  BY DEF Own, Local, IntentInv, IntentsTyped
<1>2. s \in Process /\ TaskOK(s) /\ s.writer = proc[p].writer
  <2>1. proc[p].pc = "own" /\ r \in Completed /\ r # "none"
    BY InProcess DEF Own, TaskOK, Placed
  <2>2. s \in Process /\ s.plan \subseteq Owing
    BY <2>1, InProcess DEF Process, Owing, Completed
  <2>3. s.pc = "preflight" /\ s.run = r /\ s.todo = proc[p].todo /\ s.writer = proc[p].writer
    BY InProcess DEF Process
  <2>4. QED
    BY <2>1, <2>2, <2>3, InProcess DEF TaskOK, Placed, OwnRunOnly, Covered, Scanning
<1>3. proc' = [proc EXCEPT ![p] = s] \/ Fail(p)
  BY DEF Own
<1>4. QED
  BY <1>1, <1>2, <1>3, Move, FailStep

LEMMA SettleStep == ASSUME IntentInv, NEW r \in Runs, Settle(r) PROVE IntentInv'
<1>1. /\ tx[r] = "prepared" /\ UNCHANGED <<owed, jobs, proc, crashes, damage>>
      /\ \A p \in Procs : ~proc[p].writer
  BY DEF Settle
<1>2. CASE Publish(r)
  <2>0. proc' \in [Procs -> Process]
    BY <1>1 DEF IntentInv, IntentsTyped, Process
  <2>1. IntentsTyped' /\ JobsArePublished'
    BY <1>1, <1>2, <2>0, Publishing
  <2>2. OneWriter'
    BY <1>1 DEF IntentInv, OneWriter
  <2>3. ASSUME NEW q \in Procs PROVE TaskOK(proc[q])'
    BY <1>1, <1>2, Publishing
  <2>4. QED
    BY <2>1, <2>2, <2>3 DEF IntentInv
<1>3. CASE tx' = [tx EXCEPT ![r] = "rolled_back"] /\ UNCHANGED artifact
  <2>1. UNCHANGED <<Completed, Made, Owing>>
    BY <1>1, <1>3 DEF Completed, Made, Owing, IntentInv, IntentsTyped
  <2>2. IntentsTyped' /\ JobsArePublished' /\ OneWriter'
    BY <1>1, <1>3, <2>1 DEF IntentInv, IntentsTyped, JobsArePublished, OneWriter
  <2>3. ASSUME NEW q \in Procs PROVE TaskOK(proc[q])'
    BY <1>1, <2>1, InProcess DEF TaskOK, Placed, OwnRunOnly, Covered, Scanning
  <2>4. QED
    BY <2>2, <2>3 DEF IntentInv
<1>4. QED
  BY <1>2, <1>3 DEF Settle

LEMMA DamageStep == ASSUME IntentInv, NEW r \in Runs, Damage(r) PROVE IntentInv'
<1>1. UNCHANGED <<tx, owed, proc, crashes, Completed, Owing>> /\ Made' = Made /\ damage' \in 0 .. MaxDamage
  BY DEF Damage, Completed, Owing, Made, IntentInv, IntentsTyped, IntentAssumption
<1>2. IntentsTyped' /\ JobsArePublished' /\ OneWriter'
  BY <1>1 DEF Damage, IntentInv, IntentsTyped, JobsArePublished, OneWriter
<1>3. ASSUME NEW q \in Procs PROVE TaskOK(proc[q])'
  BY <1>1, InProcess DEF TaskOK, Placed, OwnRunOnly, Covered, Scanning
<1>4. QED
  BY <1>2, <1>3 DEF IntentInv

LEMMA NextIntentInv == IntentInv /\ [IntentNext]_intentVars => IntentInv'
<1> SUFFICES ASSUME IntentInv, [IntentNext]_intentVars PROVE IntentInv'
  OBVIOUS
<1>1. CASE UNCHANGED intentVars
  BY <1>1 DEF intentVars, IntentInv, IntentsTyped, JobsArePublished, OneWriter, TaskOK, Placed, OwnRunOnly, Covered,
              Scanning, Owing, Made, Completed
<1>2. ASSUME NEW p \in Procs, Return(p) PROVE IntentInv'
  BY <1>2, FailStep DEF Return, Local, IntentInv, IntentsTyped
<1>3. ASSUME NEW p \in Procs, Crash(p) PROVE IntentInv'
  <2>1. crashes' \in 0 .. MaxCrashes
    BY <1>3 DEF Crash, IntentInv, IntentsTyped, IntentAssumption
  <2>2. QED
    BY <1>3, <2>1, FailStep DEF Crash, Local
<1>4. ASSUME NEW p \in Procs, Step(p) PROVE IntentInv'
  BY <1>2, <1>4, ConfigureStep, ScanStep, PreflightStep, EnqueueStep, PrepareStep, CommitStep, AttemptStep,
     OwnStep DEF Step
<1>5. QED
  BY <1>1, <1>3, <1>4, SettleStep, DamageStep DEF IntentNext

LEMMA Invariance == IntentAssumption /\ IntentSpec => []IntentInv
BY InitIntentInv, NextIntentInv, PTL DEF IntentSpec

\* Every variable keeps its type, and an intent is on disk only for a job its receipt lists.
THEOREM IntentsTypeCorrect == IntentAssumption /\ IntentSpec => []IntentsTyped
<1>1. IntentInv => IntentsTyped
  BY DEF IntentInv
<1>2. QED
  BY <1>1, Invariance, PTL

\* A chapter is not begun while a published one waits for a job that was never created, whatever
\* process died between a commit and its enqueue, and a job is only made of a published chapter,
\* never of one that was rolled back or has not committed (delivery_intent_recovery.py,
\* delivery_intents.py, executor.py).
THEOREM InOrder == IntentAssumption /\ IntentSpec => []JobsInOrder
<1>1. IntentInv => JobsArePublished
  BY DEF IntentInv
<1>2. IntentInv => StartsWithEveryJob
  BY DEF IntentInv, StartsWithEveryJob, TaskOK, Covered, Owing, Made, Completed
<1>3. IntentInv => JobsInOrder
  BY <1>1, <1>2 DEF JobsInOrder
<1>4. QED
  BY <1>3, Invariance, PTL
=============================================================================
