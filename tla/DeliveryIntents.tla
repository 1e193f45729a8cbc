--------------------------- MODULE DeliveryIntents ---------------------------
(***************************************************************************)
(* From a published chapter to its DeliveryJob: a run publishes its        *)
(* DeliveryIntent as an artifact of its PublicationReceipt                 *)
(* (core/delivery_intents.py), and only then a job is created from it, by  *)
(* the run itself or, after a crash, by the next process that starts on    *)
(* the book (core/engine/delivery_intent_recovery.py).                     *)
(*                                                                         *)
(* A chapter run holds the StoryProject's writer lock from before the scan *)
(* to its end, and the barrier settles every prepared transaction first    *)
(* (AuthorityBarrier); the transaction of a run is one step here (see      *)
(* PersistenceV2); what happens to a job once it exists is DeliveryQueue.  *)
(***************************************************************************)
EXTENDS Naturals, FiniteSets

CONSTANTS
    Runs,       \* run ids, each used once
    Procs,      \* processes that run the executor on this book
    MaxCrashes, \* bound on processes that stop
    MaxDamage   \* bound on artifacts and job files changed by someone else

IntentAssumption == MaxCrashes \in Nat /\ MaxDamage \in Nat /\ "none" \notin Runs

VARIABLES
    tx,         \* each run's transaction; "completed" is its entry in registry/completed
    owed,       \* runs whose receipt lists a delivery job
    artifact,   \* delivery_intents/<run>.json of each run
    jobs,       \* jobs/<intent id>.json: absent, from the intent, or with other content
    proc,       \* what each process is doing and remembers
    crashes, damage

intentVars == <<tx, owed, artifact, jobs, proc, crashes, damage>>

\* "writer": holds the writer lock; "todo": completed entries still to be verified; "plan":
\* verified intents still to be enqueued.
NoTask == [pc |-> "idle", writer |-> FALSE, run |-> "none", todo |-> {}, plan |-> {}]

IntentInit ==
    /\ tx = [r \in Runs |-> "none"] /\ owed = {}
    /\ artifact = [r \in Runs |-> "none"] /\ jobs = [r \in Runs |-> "none"]
    /\ proc = [p \in Procs |-> NoTask] /\ crashes = 0 /\ damage = 0

Completed == {r \in Runs : tx[r] = "completed"}

\* verify_publication_receipt: every artifact the receipt lists has the bytes it was published with.
Verified(r) == artifact[r] = "good"

\* _prepare_receipt_recovery: the receipt verifies and its artifacts hold exactly the intents
\* of its delivery jobs.
Trusted(r) == r \in owed => Verified(r)

Fail(p) == proc' = [proc EXCEPT ![p] = NoTask]

-----------------------------------------------------------------------------
(* The scan a process makes before it may generate.                        *)

\* The writer lock is free and the barrier has settled every transaction.
Free == (\A p \in Procs : ~proc[p].writer) /\ (\A r \in Runs : tx[r] # "prepared")

\* _configure_authority_persistence_backend lists registry/completed.
Configure(p) ==
    /\ proc[p].pc = "idle" /\ Free
    /\ proc' = [proc EXCEPT ![p] = [NoTask EXCEPT !.pc = "scan", !.writer = TRUE,
                                                !.todo = Completed]]
    /\ UNCHANGED <<tx, owed, artifact, jobs, crashes, damage>>

\* recover_completed_delivery_jobs verifies every entry before it makes any job.
Scan(p) ==
    /\ proc[p].pc = "scan"
    /\ IF proc[p].todo = {}
       THEN proc' = [proc EXCEPT ![p].pc = "preflight"]
       ELSE \E r \in proc[p].todo :
            IF Trusted(r)
            THEN proc' = [proc EXCEPT ![p].todo = @ \ {r},
                            ![p].plan = @ \cup ({r} \cap owed)]
            ELSE Fail(p)
    /\ UNCHANGED <<tx, owed, artifact, jobs, crashes, damage>>

\* A mutant: a collision is left out of the plan.
PreflightSkips(p) ==
    /\ proc[p].pc = "preflight"
    /\ proc' = [proc EXCEPT ![p].pc = "enqueue",
                            ![p].plan = {r \in @ : jobs[r] # "foreign"}]
    /\ UNCHANGED <<tx, owed, artifact, jobs, crashes, damage>>

\* _preflight_queue: no job of another content stands where one is to be made.
PreflightJobs(p) ==
    /\ proc[p].pc = "preflight"
    /\ IF \E r \in proc[p].plan : jobs[r] = "foreign"
       THEN Fail(p) ELSE proc' = [proc EXCEPT ![p].pc = "enqueue"]
    /\ UNCHANGED <<tx, owed, artifact, jobs, crashes, damage>>

\* materialize_delivery_job: enqueue creates the job, finds it, or refuses it.
EnqueueJobs(p) ==
    /\ proc[p].pc = "enqueue"
    /\ \/ /\ proc[p].plan = {}
          /\ proc' = [proc EXCEPT ![p].pc = IF proc[p].run = "none" THEN "run" ELSE "done"]
          /\ UNCHANGED jobs
       \/ \E r \in proc[p].plan :
            IF jobs[r] = "foreign"
            THEN Fail(p) /\ UNCHANGED jobs
            ELSE /\ jobs' = [jobs EXCEPT ![r] = "ours"]
                 /\ proc' = [proc EXCEPT ![p].plan = @ \ {r}]
    /\ UNCHANGED <<tx, owed, artifact, crashes, damage>>

-----------------------------------------------------------------------------
(* The run.                                                                *)

\* build_file_delivery_intent when the executor has a delivery profile, and the transaction
\* prepared with its binding.
Prepare(p) ==
    /\ proc[p].pc = "run"
    /\ \E r \in Runs, required \in BOOLEAN :
          /\ tx[r] = "none"
          /\ tx' = [tx EXCEPT ![r] = "prepared"]
          /\ owed' = IF required THEN owed \cup {r} ELSE owed
          /\ proc' = [proc EXCEPT ![p].run = r, ![p].pc = "commit"]
    /\ UNCHANGED <<artifact, jobs, crashes, damage>>

\* The artifact is one of the transaction's publication targets.
Publish(r) ==
    /\ tx' = [tx EXCEPT ![r] = "completed"]
    /\ artifact' = [artifact EXCEPT ![r] = IF r \in owed THEN "good" ELSE "none"]

Commit(p) ==
    LET r == proc[p].run IN
    /\ proc[p].pc = "commit"
    /\ IF tx[r] = "prepared"
       THEN Publish(r) /\ proc' = [proc EXCEPT ![p].pc = "own"]
       ELSE Fail(p) /\ UNCHANGED <<tx, artifact>>
    /\ UNCHANGED <<owed, jobs, crashes, damage>>

\* The autonomous runner recovers the jobs of a published chapter, without the writer lock.
Attempt(p) ==
    /\ proc[p].pc = "idle"
    /\ \E r \in Completed : proc' = [proc EXCEPT ![p] = [NoTask EXCEPT !.pc = "own", !.run = r]]
    /\ UNCHANGED <<tx, owed, artifact, jobs, crashes, damage>>

\* recover_delivery_jobs_for_receipt after the commit, for the run's own receipt.
Own(p) ==
    LET r == proc[p].run IN
    /\ proc[p].pc = "own"
    /\ IF Trusted(r)
       THEN proc' = [proc EXCEPT ![p].plan = {r} \cap owed, ![p].pc = "preflight"]
       ELSE Fail(p)
    /\ UNCHANGED <<tx, owed, artifact, jobs, crashes, damage>>

\* A candidate that is not accepted publishes nothing; the next run starts with the scan.
Return(p) ==
    /\ proc[p].pc \in {"run", "done"} /\ Fail(p)
    /\ UNCHANGED <<tx, owed, artifact, jobs, crashes, damage>>

\* Recovery settles the transaction a dead process left prepared.
Settle(r) ==
    /\ tx[r] = "prepared" /\ \A p \in Procs : ~proc[p].writer
    /\ \/ Publish(r)
       \/ tx' = [tx EXCEPT ![r] = "rolled_back"] /\ UNCHANGED artifact
    /\ UNCHANGED <<owed, jobs, proc, crashes, damage>>

-----------------------------------------------------------------------------
(* Failures.                                                               *)

Crash(p) ==
    /\ proc[p].pc # "idle" /\ crashes < MaxCrashes
    /\ crashes' = crashes + 1 /\ Fail(p)
    /\ UNCHANGED <<tx, owed, artifact, jobs, damage>>

\* A published artifact is edited or lost, or another program puts a job at an intent's id.
Damage(r) ==
    /\ damage < MaxDamage /\ damage' = damage + 1
    /\ \/ artifact[r] = "good" /\ artifact' = [artifact EXCEPT ![r] = "bad"] /\ UNCHANGED jobs
       \/ jobs[r] = "none" /\ jobs' = [jobs EXCEPT ![r] = "foreign"] /\ UNCHANGED artifact
    /\ UNCHANGED <<tx, owed, proc, crashes>>

Step(p) == \/ Configure(p) \/ Scan(p) \/ PreflightJobs(p) \/ EnqueueJobs(p)
           \/ Prepare(p) \/ Commit(p) \/ Attempt(p) \/ Own(p)
           \/ Return(p)

IntentNext ==
    \/ \E p \in Procs : Step(p) \/ Crash(p)
    \/ \E r \in Runs : Settle(r) \/ Damage(r)

IntentSpec == IntentInit /\ [][IntentNext]_intentVars

\* A process that has started goes on, and the executor is started again and again until it
\* finds the writer lock free; nothing forces a run to be prepared.
IntentFairness ==
    /\ SF_intentVars(\E p \in Procs : Configure(p))
    /\ \A p \in Procs : WF_intentVars(Scan(p) \/ PreflightJobs(p) \/ EnqueueJobs(p) \/ Commit(p)
                                      \/ Own(p) \/ Return(p))
    /\ \A r \in Runs : WF_intentVars(Settle(r))

FairIntents == IntentSpec /\ IntentFairness

-----------------------------------------------------------------------------
(* Properties.                                                             *)

\* Every variable has its shape; an intent is on disk only for a job its receipt lists.
IntentsTyped ==
    /\ tx \in [Runs -> {"none", "prepared", "completed", "rolled_back"}]
    /\ owed \subseteq Runs /\ artifact \in [Runs -> {"none", "good", "bad"}]
    /\ jobs \in [Runs -> {"none", "ours", "foreign"}]
    /\ proc \in [Procs -> [pc : {"idle", "scan", "preflight", "enqueue", "run", "commit",
                                 "own", "done"},
                           writer : BOOLEAN, run : Runs \cup {"none"}, todo : SUBSET Runs,
                           plan : SUBSET Runs]]
    /\ \A r \in Runs : artifact[r] # "none" => r \in owed \cap Completed
    /\ crashes \in 0 .. MaxCrashes /\ damage \in 0 .. MaxDamage

\* A job is only made for a chapter whose publication is complete: a transaction that is
\* rolled back, or has not committed yet, never has one (delivery_intents.py:286).
JobsArePublished == \A r \in Runs : jobs[r] = "ours" => r \in owed \cap Completed

\* A process generates only when every chapter published before has its job: no crash between
\* a commit and its enqueue survives into the next chapter (delivery_intent_recovery.py:84).
StartsWithEveryJob ==
    \A p \in Procs : proc[p].pc \in {"run", "commit"} =>
        \A r \in owed \cap Completed : jobs[r] = "ours"

\* A published chapter comes before its job, and its job before the next chapter
\* (delivery_intent_recovery.py:84, delivery_intents.py:286).
JobsInOrder == JobsArePublished /\ StartsWithEveryJob
=============================================================================
