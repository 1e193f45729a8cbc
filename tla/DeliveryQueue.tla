---------------------------- MODULE DeliveryQueue ----------------------------
(***************************************************************************)
(* One DeliveryJob of the durable delivery queue (core/delivery.py): the   *)
(* job file, its lease, the attempt receipts, the workers that reconcile   *)
(* it, the operator who resolves an uncertain job, and the Notion database *)
(* the job is delivered to.  Jobs share nothing but a lock, so one job is  *)
(* the whole protocol.                                                     *)
(*                                                                         *)
(* A section under persistence_run_lock is one step.  Between two of them  *)
(* a worker may be overtaken, may die, or may get an exception (a busy     *)
(* lock, a failing disk): `Abandon' is all three, since each leaves the    *)
(* files as the last finished section left them.  Time is a set of bounded *)
(* timers moved together by Tick.                                          *)
(***************************************************************************)
EXTENDS Integers, FiniteSets

CONSTANTS
    Workers,          \* processes that run --reconcile-deliveries / --resolve-delivery
    MaxAttempts,      \* bound on attempt_count
    LeaseTicks,       \* lease_seconds
    QuarantineTicks,  \* target.quarantine_seconds
    SettleTicks,      \* a permitted create call ends, and its requests take effect or never
                      \* will, within this time
    MaxSends,         \* requests one create call may send: the URL, then each address of the host
    MaxFaults,        \* bound on the failures below
    FaultKinds        \* which failures occur, a subset of AllFaults

AllFaults == {"abandon", "preflight", "query", "mark", "timeout", "lost"}

ASSUME DeliveryAssumption ==
    /\ MaxAttempts \in Nat /\ LeaseTicks \in Nat \ {0} /\ MaxFaults \in Nat
    /\ QuarantineTicks \in Nat \ {0} /\ SettleTicks \in Nat /\ MaxSends \in Nat \ {0}
    /\ FaultKinds \subseteq AllFaults

VARIABLES
    job,        \* jobs/<job-id>.json
    since,      \* time since job["uncertain_since"], capped; NoTime when unset
    leaseLeft,  \* time left before lease["expires_at"]
    receipts,   \* attempts/<job-id>/<attempt-id>.json: the outcome of each attempt
    worker,     \* what each process is doing and remembers
    permitted,  \* history: attempts that were allowed to POST
    sends,      \* history: POST requests each attempt has sent
    flight,     \* how many of them are not yet decided
    age,        \* time since each attempt was permitted, capped
    pages,      \* number of visible pages carrying the job's operation id
    authors,    \* history: the attempts those pages are from
    alien,      \* a page with the job's Memory ID and another payload exists
    confirms,   \* history: uncertain -> pending by the operator
    reopened,   \* history: every return of an uncertain job to a state that may POST
    faults      \* history: failures so far

vars == <<job, since, leaseLeft, receipts, worker, permitted, sends, flight, age,
          pages, authors, alien, confirms, reopened, faults>>
remote == <<sends, flight, pages, authors, alien>>

Attempts == 1 .. MaxAttempts
NoTime == -1

Terminal == {"not_required", "succeeded", "permanent_failed", "conflict", "cancelled"}
Claimable == {"pending", "retryable_failed", "uncertain"}
Phases == {"none", "claimed", "query_only", "remote_mutation_started"}

\* "absent" is the uncertain outcome with the code that resolve_confirmed_absent wants.
Outcomes == {"retryable_failed", "permanent_failed", "succeeded", "conflict",
             "uncertain", "absent"}
StateOf(o) == IF o = "absent" THEN "uncertain" ELSE o

Idle == [pc |-> "idle", attempt |-> 0, query |-> FALSE, outcome |-> "none", resolve |-> FALSE]

Init ==
    /\ job = [state |-> "none", lease |-> 0, phase |-> "none", count |-> 0, last |-> 0]
    /\ since = NoTime /\ leaseLeft = 0
    /\ receipts = [a \in Attempts |-> "none"]
    /\ worker = [w \in Workers |-> Idle]
    /\ permitted = {} /\ age = [a \in Attempts |-> 0]
    /\ sends = [a \in Attempts |-> 0] /\ flight = [a \in Attempts |-> 0]
    /\ pages = 0 /\ authors = {} /\ alien \in BOOLEAN
    /\ confirms = 0 /\ reopened = 0 /\ faults = 0

Fault(kind) == kind \in FaultKinds /\ faults < MaxFaults /\ faults' = faults + 1

\* A mutant: the new state is written and the lease is left in the file.
KeepLease(state) == [job EXCEPT !.state = state]

\* The job leaves `delivering', or never was there: only a delivering job has a lease.
Released(state) == [job EXCEPT !.state = state, !.lease = 0, !.phase = "none"]

Goto(w, pc) == worker' = [worker EXCEPT ![w].pc = pc]
Leave(w, pc) == worker' = [worker EXCEPT ![w] = [Idle EXCEPT !.pc = pc]]
Report(w, o) == worker' = [worker EXCEPT ![w].pc = "receipt", ![w].outcome = o]

-----------------------------------------------------------------------------
(* The producer.                                                           *)

\* enqueue: create the job, or find it with the same content (no change).
Enqueue ==
    /\ job.state = "none"
    /\ \E s \in {"pending", "not_required"} : job' = [job EXCEPT !.state = s]
    /\ UNCHANGED <<since, leaseLeft, receipts, worker, permitted, age, remote,
                   confirms, reopened, faults>>

\* enqueue of the same id with other immutable content: conflict, whatever the state was.
EnqueueConflict ==
    /\ job.state \notin {"none", "conflict"}
    /\ job' = Released("conflict")
    /\ UNCHANGED <<since, leaseLeft, receipts, worker, permitted, age, remote,
                   confirms, reopened, faults>>

-----------------------------------------------------------------------------
(* The worker.                                                             *)

LeaseHeld(a) == job.state = "delivering" /\ job.lease = a

\* A query-only attempt that ends in retryable_failed makes the job claimable for POST.
Reopens(o) == job.phase = "query_only" /\ o = "retryable_failed"

\* _apply_attempt_receipt_to_job
ApplyReceipt(a) ==
    LET o == receipts[a] IN
    /\ job' = [Released(StateOf(o)) EXCEPT !.last = a]
    /\ since' = CASE StateOf(o) = "uncertain" -> IF since = NoTime THEN 0 ELSE since
                  [] o = "succeeded" -> NoTime
                  [] OTHER -> since
    /\ reopened' = IF Reopens(o) THEN reopened + 1 ELSE reopened

\* Where a worker goes once attempt() returns.
AfterAttempt(w) == Leave(w, IF worker[w].resolve THEN "check" ELSE "idle")

\* A mutant: --confirmed-absent is accepted at once.
QuarantineIgnored == TRUE

QuarantineOver == since = QuarantineTicks

\* resolve_confirmed_absent, up to its call of attempt().
StartResolve(w) ==
    /\ worker[w].pc = "idle"
    /\ job.state = "uncertain"
    /\ QuarantineOver
    /\ worker' = [worker EXCEPT ![w] = [Idle EXCEPT !.pc = "resolving", !.resolve = TRUE]]
    /\ UNCHANGED <<job, since, leaseLeft, receipts, permitted, age, remote,
                   confirms, reopened, faults>>

\* _claim finds the receipt of the attempt that holds the lease and applies it.
ClaimRecovers(w) ==
    /\ worker[w].pc \in {"idle", "resolving"}
    /\ job.state = "delivering" /\ receipts[job.lease] # "none"
    /\ ApplyReceipt(job.lease)
    /\ AfterAttempt(w)
    /\ UNCHANGED <<leaseLeft, receipts, permitted, age, remote, confirms, faults>>

\* _claim returns None: a valid lease, or nothing left to deliver.
ClaimNothing(w) ==
    /\ worker[w].pc = "resolving"
    /\ \/ job.state = "delivering" /\ receipts[job.lease] = "none" /\ leaseLeft > 0
       \/ job.state \in Terminal
    /\ AfterAttempt(w)
    /\ UNCHANGED <<job, since, leaseLeft, receipts, permitted, age, remote,
                   confirms, reopened, faults>>

\* A mutant: an expired lease can be retried whatever its phase.
ExpiredToRetry == "retryable_failed"

\* The state an expired lease leaves behind.
ExpiredTo == IF job.phase = "remote_mutation_started" THEN "uncertain" ELSE "retryable_failed"

\* A mutant: a lease never ends by itself.
NeverExpired == FALSE

Expired == job.state = "delivering" /\ receipts[job.lease] = "none" /\ leaseLeft = 0

\* _claim takes the job, over an expired lease if there is one.
Claim(w) ==
    LET previous == IF job.state = "delivering" THEN ExpiredTo ELSE job.state
        a == job.count + 1 IN
    /\ worker[w].pc \in {"idle", "resolving"}
    /\ job.state \in Claimable \/ Expired
    /\ a \in Attempts
    /\ job' = [job EXCEPT !.state = "delivering", !.lease = a, !.count = a,
                 !.phase = IF previous = "uncertain" THEN "query_only" ELSE "claimed"]
    /\ leaseLeft' = LeaseTicks
    /\ since' = IF Expired /\ previous = "uncertain" /\ since = NoTime THEN 0 ELSE since
    /\ reopened' = IF Expired /\ Reopens(previous) THEN reopened + 1 ELSE reopened
    /\ worker' = [worker EXCEPT ![w] = [pc |-> "preflight", attempt |-> a,
                    query |-> previous = "uncertain", outcome |-> "none", resolve |-> @.resolve]]
    /\ UNCHANGED <<receipts, permitted, age, remote, confirms, faults>>

\* The adapter before its query: no adapter configured, another database, no or a
\* bad schema, an invalid payload, or an exception.
Preflight(w) ==
    /\ worker[w].pc = "preflight"
    /\ \/ Goto(w, "query") /\ UNCHANGED faults
       \/ /\ Fault("preflight")
          /\ \E o \in {"retryable_failed", "permanent_failed"} : Report(w, o)
    /\ UNCHANGED <<job, since, leaseLeft, receipts, permitted, age, remote, confirms, reopened>>

\* _classify_notion_pages on the pages visible now.
Classify == CASE pages = 0 /\ ~alien -> "absent"
              [] pages = 1 /\ ~alien -> "succeeded"
              [] OTHER -> "conflict"

\* The full paginated query before the POST.
Query(w) ==
    /\ worker[w].pc = "query"
    /\ \/ /\ Fault("query")
          /\ Report(w, IF worker[w].query THEN "uncertain" ELSE "retryable_failed")
       \/ /\ UNCHANGED faults
          /\ IF Classify = "absent" /\ ~worker[w].query
             THEN Goto(w, "mark")
             ELSE Report(w, Classify)
    /\ UNCHANGED <<job, since, leaseLeft, receipts, permitted, age, remote, confirms, reopened>>

CanMark(w) == LeaseHeld(worker[w].attempt) /\ job.phase # "query_only"

\* _mark_remote_mutation_started succeeds: the attempt may now POST.
Mark(w) ==
    /\ worker[w].pc = "mark"
    /\ CanMark(w)
    /\ job' = [job EXCEPT !.phase = "remote_mutation_started"]
    /\ permitted' = permitted \cup {worker[w].attempt}
    /\ Goto(w, "post")
    /\ UNCHANGED <<since, leaseLeft, receipts, age, remote, confirms, reopened, faults>>

\* It raises, because the lease is gone, the lock is busy, or the directory fsync
\* fails after the job file was replaced; attempt() sees a flag never set.
MarkFails(w) ==
    /\ worker[w].pc = "mark"
    /\ \/ ~CanMark(w) /\ UNCHANGED <<job, faults>>
       \/ /\ Fault("mark")
          /\ job' \in {job, IF CanMark(w) THEN [job EXCEPT !.phase = "remote_mutation_started"]
                                          ELSE job}
    /\ Report(w, "retryable_failed")
    /\ UNCHANGED <<since, leaseLeft, receipts, permitted, age, remote, confirms, reopened>>

\* create_database_page sends a request: the first one, or again to an address of the host.
Post(w) ==
    LET a == worker[w].attempt IN
    /\ worker[w].pc = "post"
    /\ sends' = [sends EXCEPT ![a] = @ + 1]
    /\ flight' = [flight EXCEPT ![a] = @ + 1]
    /\ Goto(w, "sent")
    /\ UNCHANGED <<job, since, leaseLeft, receipts, permitted, age, pages, authors, alien,
                   confirms, reopened, faults>>

\* It returns a page id; or an exception, a timeout included, makes the transport send the
\* same request to the next address; or the call raises or returns none: it is in doubt.
PostReturns(w) ==
    /\ worker[w].pc = "sent"
    /\ \/ Goto(w, "readback") /\ UNCHANGED faults
       \/ /\ Fault("timeout")
          /\ sends[worker[w].attempt] < MaxSends
          /\ Goto(w, "post")
       \/ Fault("timeout") /\ Report(w, "uncertain")
    /\ UNCHANGED <<job, since, leaseLeft, receipts, permitted, age, remote, confirms, reopened>>

ReadbackOutcome == IF Classify = "absent" THEN "uncertain" ELSE Classify

\* The query after the POST: only a unique matching page is a success.
Readback(w) ==
    /\ worker[w].pc = "readback"
    /\ \/ Fault("query") /\ Report(w, "uncertain")
       \/ /\ UNCHANGED faults
          /\ Report(w, ReadbackOutcome)
    /\ UNCHANGED <<job, since, leaseLeft, receipts, permitted, age, remote, confirms, reopened>>

\* attempt() writes the attempt receipt; its id is new, so it clobbers none.
WriteReceipt(w) ==
    /\ worker[w].pc = "receipt"
    /\ receipts' = [receipts EXCEPT ![worker[w].attempt] = worker[w].outcome]
    /\ Goto(w, "finalize")
    /\ UNCHANGED <<job, since, leaseLeft, permitted, age, remote, confirms, reopened, faults>>

\* _finalize_attempt: apply it, or find it applied already, or raise.
Finalize(w) ==
    LET a == worker[w].attempt IN
    /\ worker[w].pc = "finalize"
    /\ \/ LeaseHeld(a) /\ ApplyReceipt(a) /\ AfterAttempt(w)
       \/ /\ ~LeaseHeld(a)
          /\ IF job.last = a THEN AfterAttempt(w) ELSE Leave(w, "idle")
          /\ UNCHANGED <<job, since, reopened>>
    /\ UNCHANGED <<leaseLeft, receipts, permitted, age, remote, confirms, faults>>

\* resolve_confirmed_absent reads the job and the receipt it names, with no lock.
CheckAbsent(w) ==
    /\ worker[w].pc = "check"
    /\ Leave(w, IF /\ job.state = "uncertain"
                   /\ job.last # 0 /\ receipts[job.last] = "absent"
                THEN "confirm" ELSE "idle")
    /\ UNCHANGED <<job, since, leaseLeft, receipts, permitted, age, remote,
                   confirms, reopened, faults>>

\* ... and then takes the lock: any uncertain job becomes pending again.
ConfirmAbsent(w) ==
    /\ worker[w].pc = "confirm"
    /\ IF job.state = "uncertain"
       THEN /\ job' = [job EXCEPT !.state = "pending"]
            /\ confirms' = confirms + 1 /\ reopened' = reopened + 1
       ELSE UNCHANGED <<job, confirms, reopened>>
    /\ Leave(w, "idle")
    /\ UNCHANGED <<since, leaseLeft, receipts, permitted, age, remote, faults>>

\* The process dies or its call raises between two locked sections.
Abandon(w) ==
    /\ worker[w].pc # "idle"
    /\ Fault("abandon")
    /\ Leave(w, "idle")
    /\ UNCHANGED <<job, since, leaseLeft, receipts, permitted, age, remote, confirms, reopened>>

-----------------------------------------------------------------------------
(* Notion and the clock: not in the repository.                            *)

Land(a) ==
    /\ flight[a] > 0
    /\ flight' = [flight EXCEPT ![a] = @ - 1]
    /\ pages' = pages + 1 /\ authors' = authors \cup {a}
    /\ UNCHANGED <<job, since, leaseLeft, receipts, worker, permitted, sends, age, alien,
                   confirms, reopened, faults>>

Lose(a) ==
    /\ flight[a] > 0
    /\ Fault("lost")
    /\ flight' = [flight EXCEPT ![a] = @ - 1]
    /\ UNCHANGED <<job, since, leaseLeft, receipts, worker, permitted, sends, age, pages,
                   authors, alien, confirms, reopened>>

\* Attempts that may still change the database: a request of theirs is on its way, or
\* their create call has not ended and may send another one.
Creating == {"post", "sent"}
InDoubt == {a \in Attempts : flight[a] > 0}
           \cup {worker[w].attempt : w \in {v \in Workers : worker[v].pc \in Creating}}

\* Time passes, but not past the moment by which a permitted POST must have settled.
Tick ==
    /\ \A a \in InDoubt : age[a] < SettleTicks
    /\ \/ leaseLeft > 0 \/ since \in 0 .. QuarantineTicks - 1 \/ InDoubt # {}
    /\ leaseLeft' = IF leaseLeft > 0 THEN leaseLeft - 1 ELSE 0
    /\ since' = IF since \in 0 .. QuarantineTicks - 1 THEN since + 1 ELSE since
    /\ age' = [a \in Attempts |-> IF a \in InDoubt THEN age[a] + 1 ELSE 0]
    /\ UNCHANGED <<job, receipts, worker, permitted, remote, confirms, reopened, faults>>

WorkerStep(w) ==
    \/ Preflight(w) \/ Query(w) \/ Mark(w) \/ MarkFails(w) \/ Post(w) \/ PostReturns(w)
    \/ Readback(w) \/ WriteReceipt(w) \/ Finalize(w) \/ CheckAbsent(w) \/ ConfirmAbsent(w)

Reconcile(w) == ClaimRecovers(w) \/ ClaimNothing(w) \/ Claim(w)

Next ==
    \/ Enqueue \/ EnqueueConflict \/ Tick
    \/ \E w \in Workers : StartResolve(w) \/ Reconcile(w) \/ WorkerStep(w) \/ Abandon(w)
    \/ \E a \in Attempts : Land(a) \/ Lose(a)

Spec == Init /\ [][Next]_vars

\* Someone keeps running --reconcile-deliveries, a running command goes on, requests
\* settle and the clock advances.
Fairness ==
    /\ WF_vars(Tick)
    /\ \A w \in Workers : WF_vars(Reconcile(w)) /\ WF_vars(WorkerStep(w))
    /\ \A a \in Attempts : WF_vars(Land(a) \/ Lose(a))

FairSpec == Spec /\ Fairness

-----------------------------------------------------------------------------
(* Properties.                                                             *)

PCs == {"idle", "resolving", "preflight", "query", "mark", "post", "sent", "readback",
        "receipt", "finalize", "check", "confirm"}
WorkerRecords == [pc : PCs, attempt : 0 .. MaxAttempts, query : BOOLEAN,
                  outcome : Outcomes \cup {"none"}, resolve : BOOLEAN]
JobRecords == [state : Terminal \cup Claimable \cup {"none", "delivering"},
               lease : 0 .. MaxAttempts, phase : Phases,
               count : 0 .. MaxAttempts, last : 0 .. MaxAttempts]

\* Every variable has its shape: in particular a delivering job, and no other, holds a
\* lease (validate_delivery_job).
TypeOK ==
    /\ job \in JobRecords
    /\ (job.state = "delivering") = (job.lease # 0)
    /\ (job.state = "delivering") = (job.phase # "none")
    /\ since \in NoTime .. QuarantineTicks /\ leaseLeft \in 0 .. LeaseTicks
    /\ receipts \in [Attempts -> Outcomes \cup {"none"}]
    /\ worker \in [Workers -> WorkerRecords]
    /\ permitted \subseteq Attempts /\ authors \subseteq permitted
    /\ sends \in [Attempts -> Nat] /\ flight \in [Attempts -> Nat]
    /\ \A a \in Attempts : flight[a] > 0 => a \in permitted
    /\ age \in [Attempts -> Nat]
    /\ pages \in Nat /\ alien \in BOOLEAN
    /\ confirms \in Nat /\ reopened \in Nat /\ faults \in 0 .. MaxFaults

\* Whatever workers, crashes, expiries and late answers do, each POST after the first one
\* needs a step of its own that took the job out of `uncertain' (claim, mark and finalize
\* of core/delivery.py together).
PostsNeedReopening == Cardinality(permitted) <= 1 + reopened

\* While the operator confirmed at most one absence, and nothing else reopened the job, all
\* its pages are from one attempt, and no more than that attempt sent requests: the
\* quarantine outlasts a late POST, so what a second attempt would add is never added.
PagesOfOneAttempt ==
    reopened = confirms /\ confirms <= 1 =>
        \A a \in authors : authors = {a} /\ pages <= sends[a]

\* Reconciling settles the job: with the commands run again and again, a job that is
\* pending, failed or leased ends in a terminal state or in `uncertain', where only the
\* operator goes on (or it uses up the bound on attempts).
ReconcileSettles ==
    (job.state \in {"pending", "retryable_failed", "delivering"})
        ~> (job.state \in Terminal \cup {"uncertain"} \/ job.count = MaxAttempts)

\* docs/durable-delivery-queue.md:56 says that an attempt performs one POST, so a job of
\* which one attempt was permitted to POST has at most one page.
OnePostOnePage == Cardinality(permitted) <= 1 => pages <= 1

\* docs/durable-delivery-queue.md:59 says that an uncertain job is never POSTed again
\* automatically, only after --confirmed-absent.
NoAutomaticRepost == Cardinality(permitted) <= 1 + confirms

\* docs/durable-delivery-queue.md:59 says that --confirmed-absent restores `pending' only
\* after the quarantine of the POST in doubt has ended.
\* (The condition leaves out jobs reopened in the other ways, see NoAutomaticRepost.)
ConfirmAfterQuarantine ==
    [][confirms' > confirms /\ reopened = confirms => InDoubt = {}]_vars
=============================================================================
