-------------------------- MODULE ModelCallRuntime --------------------------
(***************************************************************************)
(* Durable model calls (core/model_call_runtime.py, core/model_calls.py),  *)
(* the run budget (RunBudgetTracker of core/context_budget.py) and the     *)
(* provider retries (api/retry.py), for the calls of one chapter of an     *)
(* autonomous session.                                                     *)
(*                                                                         *)
(* A stage operation makes its logical calls in order; a call is retried   *)
(* as numbered attempts.  An attempt writes an intent, reserves budget,    *)
(* invokes the provider, writes the response and then a receipt, and last  *)
(* settles the reservation.  Intents, responses and receipts are only ever *)
(* added.  The tracker and the position in the operation live in memory: a *)
(* new process rebuilds the tracker from the files, skips the operations   *)
(* recorded as done and runs the first other one from its first call.      *)
(*                                                                         *)
(* The input and the output dimension of the budget follow the same rules  *)
(* and are one dimension here; the limits on cost and elapsed time refuse  *)
(* as the call count does, and never grow.                                 *)
(***************************************************************************)
EXTENDS Integers, FiniteSets, Sequences, SequencesExt

CONSTANTS
    Procs,        \* processes that run the session's chapter
    OperationOf,  \* the stage operation of each logical call, a sequence
    StageOf,      \* the model stage of each logical call
    Reserve,      \* tokens an attempt of the call reserves
    Usages,       \* tokens the provider may report
    PathOrder,    \* the calls in the order their file names sort in
    Elastic,      \* operations before which a converging repair authorizes tokens
    ElasticStages,\* the stages such an authorization names
    MaxAttempts,  \* RetryPolicy.max_attempts
    MaxTokens, MaxCalls,   \* RunBudgetLimits
    MaxRestarts   \* bound on process ends

\* Operations follow one another; RetryPolicy refuses max_attempts below 1.
CallAssumption ==
    /\ OperationOf \in Seq(Nat \ {0}) /\ MaxAttempts \in Nat \ {0}
    /\ \A c, d \in DOMAIN OperationOf : c <= d => OperationOf[c] <= OperationOf[d]

Calls == DOMAIN OperationOf
Attempts == Calls \X (1 .. MaxAttempts)
CallOf(a) == a[1]

Charged == {"succeeded", "partial_response_failed", "provider_rejected"}
Uncharged == {"budget_rejected", "request_not_sent"}
Statuses == Charged \cup Uncharged

VARIABLES
    intents,   \* attempts with an intent file
    response,  \* attempts whose response text is on disk
    receipt,   \* the status of each attempt's receipt, "none" before
    usage,     \* the usage in the receipt
    opsDone,   \* operations recorded by after_stage
    resolved,  \* the operator has resolved the execution's uncertain calls
    proc,      \* each process: where it is, its attempt and its tracker
    restarts,  \* history: process ends
    sent,      \* history: provider invocations of each attempt
    accepted,  \* history: attempts the provider took up
    answers,   \* history: the responses a process was given
    granted    \* history: tokens beyond the limit a repair was granted or a provider took

vars == <<intents, response, receipt, usage, opsDone, resolved, proc, restarts,
          sent, accepted, answers, granted>>
store == <<intents, response, receipt, usage>>
history == <<sent, accepted, answers, granted>>

-----------------------------------------------------------------------------
(* The budget tracker.                                                     *)

Free == [state |-> "none", tokens |-> 0, own |-> "none", over |-> FALSE]
NewTracker == [calls |-> 0, held |-> [a \in Attempts |-> Free], added |-> 0,
               authorized |-> 0, consumed |-> {}]

Positive(n) == IF n > 0 THEN n ELSE 0
Total(t) == FoldFunction(LAMBDA h, sum : h.tokens + sum, 0, t.held)
Limit(t) == MaxTokens + t.added
Deficit(t, tokens) == Positive(Total(t) + tokens - Limit(t))

\* A repair cycle that converges authorizes its stages once; a newer one supersedes it.
Authorize(t, op) == IF op = t.authorized THEN t
                    ELSE [t EXCEPT !.authorized = op, !.consumed = {}]

MayGrow(t, c) ==
    t.authorized # 0 /\ StageOf[c] \in ElasticStages /\ StageOf[c] \notin t.consumed

Fits(t, a) ==
    /\ t.calls < MaxCalls
    /\ Deficit(t, Reserve[CallOf(a)]) = 0 \/ MayGrow(t, CallOf(a))

Reserved(t, a) ==
    LET c == CallOf(a)
        d == Deficit(t, Reserve[c])
    IN [t EXCEPT !.calls = @ + 1, !.added = @ + d,
                 !.consumed = IF d > 0 THEN @ \cup {StageOf[c]} ELSE @,
                 !.held[a] = [state |-> "reserved", tokens |-> Reserve[c], over |-> FALSE,
                              own |-> IF d > 0 THEN "granted" ELSE "none"]]

\* restore_model_call: an attempt on disk is charged even where it exceeds the limit.
Restored(t, a) ==
    IF t.held[a].state # "none" THEN t
    ELSE [t EXCEPT !.calls = @ + 1, !.added = @ + Deficit(t, Reserve[CallOf(a)]),
                   !.held[a] = [state |-> "reserved", tokens |-> Reserve[CallOf(a)],
                                own |-> "restored", over |-> FALSE]]

Settled(t, a, actual) ==
    LET paid == [t EXCEPT !.held[a].state = "settled", !.held[a].tokens = actual]
        d == Deficit(paid, 0)
    IN IF t.held[a].state = "settled" THEN t
       ELSE IF d = 0 THEN paid
       ELSE IF t.held[a].own = "none" THEN [paid EXCEPT !.held[a].over = TRUE]
       ELSE [paid EXCEPT !.added = @ + d]

-----------------------------------------------------------------------------
(* The evidence on disk.                                                   *)

Uncertain == {a \in intents : receipt[a] = "none"}

\* The attempts in the order their intent files are read in.
Files == SelectSeq([i \in 1 .. Len(PathOrder) * MaxAttempts |->
                      <<PathOrder[1 + ((i - 1) \div MaxAttempts)],
                        1 + ((i - 1) % MaxAttempts)>>],
                   LAMBDA a : a \in intents /\ receipt[a] \notin Uncharged)

ChargedFrom(t, a) ==
    IF receipt[a] = "succeeded" THEN Settled(Restored(t, a), a, usage[a]) ELSE Restored(t, a)

\* Seeded bug: a new process starts with an empty tracker.
HydratedNothing(t) == t

\* hydrate_tracker_from_store.
Hydrated(t) == FoldLeft(ChargedFrom, t, Files)

-----------------------------------------------------------------------------
(* A process.                                                              *)

Off == [pc |-> "off", call |-> 0, n |-> 0, got |-> "none", used |-> 0, tracker |-> NewTracker]

Attempt(p) == <<proc[p].call, proc[p].n>>
Running(p) == proc[p].pc \notin {"off", "failed", "done"}

FirstCall == LET todo == {c \in Calls : OperationOf[c] > opsDone}
             IN IF todo = {} THEN 0 ELSE CHOOSE c \in todo : \A d \in todo : c <= d

AtCall(p, c, t) ==
    proc' = [proc EXCEPT ![p].pc = "attempt", ![p].call = c, ![p].n = 1,
                         ![p].got = "none", ![p].used = 0,
                         ![p].tracker = IF OperationOf[c] \in Elastic
                                        THEN Authorize(t, OperationOf[c]) ELSE t]

Fail(p) == proc' = [proc EXCEPT ![p].pc = "failed"]

\* _begin_execution_evidence refuses while a call is unresolved; then the tracker is
\* rebuilt, and the restart continues at the first operation not recorded.
Start(p) ==
    /\ proc[p].pc = "off" /\ FirstCall # 0
    /\ Uncertain = {} \/ resolved
    /\ IF Len(Files) > MaxCalls THEN Fail(p)
       ELSE AtCall(p, FirstCall, Hydrated(NewTracker))
    /\ UNCHANGED <<store, opsDone, resolved, restarts, history>>

\* --recover-locked-chapter marks the execution resolved; the writer lock is free.
Resolve ==
    /\ Uncertain # {} /\ ~resolved /\ \A p \in Procs : ~Running(p)
    /\ resolved' = TRUE
    /\ UNCHANGED <<store, opsDone, proc, restarts, history>>

\* Seeded bug: an intent without a receipt is taken for an attempt that was never made.
ClaimAgain(p) ==
    LET a == Attempt(p) IN
    /\ proc[p].pc = "attempt" /\ receipt[a] = "none"
    /\ intents' = intents \cup {a}
    /\ proc' = [proc EXCEPT ![p].pc = "reserve"]
    /\ UNCHANGED <<response, receipt, usage, opsDone, resolved, restarts, history>>

Claim(p) ==
    LET a == Attempt(p) IN
    /\ proc[p].pc = "attempt" /\ a \notin intents
    /\ intents' = intents \cup {a}
    /\ proc' = [proc EXCEPT ![p].pc = "reserve"]
    /\ UNCHANGED <<response, receipt, usage, opsDone, resolved, restarts, history>>

\* An intent without a receipt is never sent again.
FindUncertain(p) ==
    LET a == Attempt(p) IN
    /\ proc[p].pc = "attempt" /\ a \in Uncertain
    /\ proc' = [proc EXCEPT ![p].pc = "failed", ![p].tracker = Restored(@, a)]
    /\ UNCHANGED <<store, opsDone, resolved, restarts, history>>

\* A receipt stands for its attempt: the answer and the failure are both replayed.
Replay(p) ==
    LET a == Attempt(p) IN
    /\ proc[p].pc = "attempt" /\ receipt[a] # "none"
    /\ proc' = [proc EXCEPT
         ![p].pc = CASE receipt[a] = "succeeded" -> "settle"
                     [] receipt[a] = "request_not_sent" -> "retry"
                     [] OTHER -> "failed",
         ![p].got = receipt[a], ![p].used = usage[a],
         ![p].tracker = IF receipt[a] \in {"succeeded", "partial_response_failed"}
                        THEN Restored(@, a) ELSE @]
    /\ UNCHANGED <<store, opsDone, resolved, restarts, history>>

ReserveBudget(p) ==
    LET a == Attempt(p)
        t == proc[p].tracker
    IN /\ proc[p].pc = "reserve" /\ Fits(t, a)
       /\ proc' = [proc EXCEPT ![p].pc = "send", ![p].tracker = Reserved(t, a)]
       /\ granted' = granted + Deficit(t, Reserve[CallOf(a)])
       /\ UNCHANGED <<store, opsDone, resolved, restarts, sent, accepted, answers>>

BudgetRejects(p) ==
    LET a == Attempt(p) IN
    /\ proc[p].pc = "reserve" /\ ~Fits(proc[p].tracker, a)
    /\ response' = response \cup {a}
    /\ receipt' = [receipt EXCEPT ![a] = "budget_rejected"]
    /\ Fail(p)
    /\ UNCHANGED <<intents, usage, opsDone, resolved, restarts, history>>

\* What the provider may do: answer, break off after some text, refuse, not be reached,
\* or leave the outcome unknown.
Send(p) ==
    LET a == Attempt(p) IN
    /\ proc[p].pc = "send"
    /\ sent' = [sent EXCEPT ![a] = @ + 1]
    /\ \E got \in {"succeeded", "partial_response_failed", "provider_rejected",
                   "request_not_sent", "lost"} :
         \E used \in IF got = "succeeded" THEN Usages ELSE {0} :
           /\ accepted' = IF got = "request_not_sent" THEN accepted ELSE accepted \cup {a}
           /\ granted' = granted + Positive(used - Reserve[CallOf(a)])
           /\ proc' = [proc EXCEPT ![p].pc = IF got = "lost" THEN "failed" ELSE "respond",
                                   ![p].got = got, ![p].used = used]
    /\ UNCHANGED <<store, opsDone, resolved, restarts, answers>>

PersistResponse(p) ==
    /\ proc[p].pc = "respond"
    /\ response' = response \cup {Attempt(p)}
    /\ proc' = [proc EXCEPT ![p].pc = "receipt"]
    /\ UNCHANGED <<intents, receipt, usage, opsDone, resolved, restarts, history>>

RecordReceipt(p) ==
    LET a == Attempt(p)
        got == proc[p].got
    IN /\ proc[p].pc = "receipt"
       /\ receipt' = [receipt EXCEPT ![a] = got]
       /\ usage' = [usage EXCEPT ![a] = proc[p].used]
       /\ proc' = [proc EXCEPT
            ![p].pc = CASE got = "succeeded" -> "settle"
                        [] got = "request_not_sent" -> "retry"
                        [] OTHER -> "failed",
            ![p].tracker = IF got = "request_not_sent" THEN Settled(@, a, 0) ELSE @]
       /\ UNCHANGED <<intents, response, opsDone, resolved, restarts, history>>

\* The response or its receipt cannot be written: the outcome stays unknown.
EvidenceFails(p) ==
    /\ proc[p].pc \in {"respond", "receipt"}
    /\ Fail(p)
    /\ UNCHANGED <<store, opsDone, resolved, restarts, history>>

\* The settlement may find the budget overrun; otherwise the caller gets the response.
Settle(p) ==
    LET a == Attempt(p)
        t == Settled(proc[p].tracker, a, proc[p].used)
        next == CallOf(a) + 1
    IN /\ proc[p].pc = "settle"
       /\ IF t.held[a].over THEN
            /\ proc' = [proc EXCEPT ![p].pc = "failed", ![p].tracker = t]
            /\ UNCHANGED <<answers>>
          ELSE
            /\ answers' = answers \cup {a}
            /\ IF next \in Calls /\ OperationOf[next] = OperationOf[CallOf(a)]
               THEN AtCall(p, next, t)
               ELSE proc' = [proc EXCEPT ![p].pc = "stage", ![p].tracker = t]
       /\ UNCHANGED <<store, opsDone, resolved, restarts, sent, accepted, granted>>

\* after_stage records the finished operation.
AfterStage(p) ==
    LET c == proc[p].call
        done == OperationOf[c]
    IN /\ proc[p].pc = "stage"
       /\ opsDone' = IF done > opsDone THEN done ELSE opsDone
       /\ IF c + 1 \in Calls THEN AtCall(p, c + 1, proc[p].tracker)
          ELSE proc' = [proc EXCEPT ![p].pc = "done"]
       /\ UNCHANGED <<store, resolved, restarts, history>>

\* Seeded bug: the retry asks for the attempt that failed.
RetrySame(p) ==
    /\ proc[p].pc = "retry" /\ proc[p].n < MaxAttempts
    /\ proc' = [proc EXCEPT ![p].pc = "attempt", ![p].got = "none"]
    /\ UNCHANGED <<store, opsDone, resolved, restarts, history>>

\* Only a request that was not sent is retryable; the attempts, the deadline or the
\* budget may also stop the retries.
RetryAgain(p) ==
    /\ proc[p].pc = "retry" /\ proc[p].n < MaxAttempts
    /\ proc' = [proc EXCEPT ![p].pc = "attempt", ![p].n = @ + 1, ![p].got = "none"]
    /\ UNCHANGED <<store, opsDone, resolved, restarts, history>>

RetryStops(p) ==
    /\ proc[p].pc = "retry"
    /\ Fail(p)
    /\ UNCHANGED <<store, opsDone, resolved, restarts, history>>

\* A process dies, or a failed one ends; what it had in memory is lost.
Stop(p) ==
    /\ proc[p].pc \notin {"off", "done"} /\ restarts < MaxRestarts
    /\ proc' = [proc EXCEPT ![p] = Off]
    /\ restarts' = restarts + 1
    /\ UNCHANGED <<store, opsDone, resolved, history>>

Step(p) ==
    \/ Claim(p) \/ FindUncertain(p) \/ Replay(p) \/ ReserveBudget(p) \/ BudgetRejects(p)
    \/ Send(p) \/ PersistResponse(p) \/ RecordReceipt(p) \/ EvidenceFails(p)
    \/ Settle(p) \/ AfterStage(p) \/ RetryAgain(p) \/ RetryStops(p)

Init ==
    /\ intents = {} /\ response = {} /\ receipt = [a \in Attempts |-> "none"]
    /\ usage = [a \in Attempts |-> 0] /\ opsDone = 0 /\ resolved = FALSE
    /\ proc = [p \in Procs |-> Off] /\ restarts = 0
    /\ sent = [a \in Attempts |-> 0] /\ accepted = {} /\ answers = {} /\ granted = 0

Next == Resolve \/ \E p \in Procs : Start(p) \/ Step(p) \/ Stop(p)

Spec == Init /\ [][Next]_vars

\* A running process takes its next step: every wait is a bounded sleep or a call with a
\* timeout.  Nobody has to start one.
FairSpec == Spec /\ \A p \in Procs : WF_vars(Step(p))

-----------------------------------------------------------------------------
(* Properties.                                                             *)

TypeOK ==
    /\ intents \subseteq Attempts /\ response \subseteq intents
    /\ receipt \in [Attempts -> Statuses \cup {"none"}] /\ usage \in [Attempts -> Nat]
    /\ opsDone \in 0 .. OperationOf[Len(OperationOf)] /\ resolved \in BOOLEAN
    /\ \A p \in Procs : /\ proc[p].pc # "off" /\ proc[p].call # 0 => Attempt(p) \in Attempts
                        /\ \A a \in Attempts : proc[p].tracker.held[a].tokens >= 0
    /\ sent \in [Attempts -> Nat] /\ accepted \subseteq Attempts /\ answers \subseteq Attempts

\* A logical call reaches the provider at most once, over the retries of one process and
\* over restarts and a second process: one attempt, sent once.
AcceptedOnce ==
    \A a, b \in accepted : CallOf(a) = CallOf(b) => a = b /\ sent[a] = 1

\* Every process that runs a call gets the same answer, and its text and receipt are on
\* disk before anything uses it.
OneDurableAnswer ==
    \A a \in answers :
        /\ receipt[a] = "succeeded" /\ a \in response
        /\ \A b \in answers : CallOf(a) = CallOf(b) => a = b

\* One call, one acceptance, one answer (model_call_runtime.py).
AnsweredOnce == AcceptedOnce /\ OneDurableAnswer

\* While an attempt of a process that is gone has an unknown outcome, nothing is sent:
\* the operator decides first, and then that call still fails.
NothingSentBehindUncertain ==
    \A a \in Attempts : sent'[a] > sent[a] =>
        Uncertain \subseteq {Attempt(p) : p \in {q \in Procs : Running(q)}}

\* What the provider was paid, or may have to be.
Cost(a) == IF receipt[a] = "succeeded" THEN usage[a]
           ELSE IF receipt[a] = "none" \/ receipt[a] \in Charged THEN Reserve[CallOf(a)] ELSE 0
Spent == FoldSet(LAMBDA a, sum : Cost(a) + sum, 0, {a \in Attempts : sent[a] > 0})

\* What the provider left unused of the largest reservation it answered.
Unused == Max({0} \cup {Reserve[CallOf(a)] - usage[a] :
                           a \in {b \in Attempts : receipt[b] = "succeeded"}})

\* Over restarts a session spends no more than the limit, the deficits its converging repairs
\* were granted, what the provider took beyond a reservation, and what a restart lifts the
\* limit by: it reads the attempts by file name, so that a reservation settled long ago stands
\* once more next to later ones, and restore_model_call grants itself the deficit.  Each restart
\* lifts it by one unused rest at most (context_budget.py).
SpentWithinLimit == Spent <= MaxTokens + granted + restarts * Unused

\* A process that runs the operation always comes to its end.
OperationEnds == \A p \in Procs : (proc[p].pc = "attempt") ~> ~Running(p)

\* docs/architecture.md:192 says that the tracker stays fail-closed and adds only the deficit of
\* a converging repair: without one, calls that keep to their reservations stay within the
\* limit.  Violated: see Restored and Files.
WithinLimitUnrepaired ==
    Elastic = {} /\ (\A c \in Calls, u \in Usages : u <= Reserve[c]) => Spent <= MaxTokens
=============================================================================
