------------------------------- MODULE MCCalls -------------------------------
(***************************************************************************)
(* The model calls of a chapter (ModelCallRuntime), for TLC: two processes *)
(* and an operation of two calls ("once"), and one process whose repairs   *)
(* may grow its budget, over restarts ("budget").                          *)
(***************************************************************************)
EXTENDS ModelCallRuntime

CONSTANTS Parts, Repairs, BudgetUsages

VARIABLE part

\* "once", by Calls.cfg: a draft of two scenes in one operation, and a repair.
OnceOperations == <<1, 1, 2>>
OnceStages == <<"scene_generation", "scene_generation", "scene_repair">>
OnceReserves == <<2, 2, 2>>
OnceOrder == <<1, 2, 3>>

\* A draft, its validation, a repair and the second validation.  The draft may use little of a
\* large reservation, and its file name sorts after those of the validations.
Budget == INSTANCE ModelCallRuntime WITH
    Procs <- {"p"}, OperationOf <- <<1, 2, 3, 3>>,
    StageOf <- <<"scene_generation", "llm_validation", "scene_repair", "llm_validation">>,
    Reserve <- <<8, 3, 4, 3>>, Usages <- BudgetUsages, PathOrder <- <<2, 4, 1, 3>>,
    Elastic <- Repairs, ElasticStages <- {"scene_repair", "llm_validation"},
    MaxAttempts <- 2, MaxTokens <- 8, MaxCalls <- 5, MaxRestarts <- 2

ASSUME CallAssumption /\ Budget!CallAssumption

MCInit ==
    /\ part \in Parts
    /\ \/ part = "once" /\ Init
       \/ part = "budget" /\ Budget!Init

MCNext ==
    \/ part = "once" /\ Next /\ UNCHANGED part
    \/ part = "budget" /\ Budget!Next /\ UNCHANGED part

\* The fairness of ModelCallRuntime, for the part of two processes.
MCFairness == \A p \in Procs : WF_vars(part = "once" /\ Step(p))

MCSpec == MCInit /\ [][MCNext]_<<part, vars>> /\ MCFairness

\* Over restarts no more is spent than the limit, what repairs were granted and one unused
\* reservation for each restart: see ModelCallRuntime (RunBudgetTracker).
BudgetKept == part = "budget" => Budget!SpentWithinLimit

\* Without a converging repair nothing lifts the limit: see ModelCallRuntime (RunBudgetTracker).
OnlyRepairsGrow == part = "budget" => Budget!WithinLimitUnrepaired

\* A process that runs an operation comes to its end, whatever the other one does and whichever
\* of the two ends; and it sends nothing while an earlier answer is in doubt: see ModelCallRuntime.
CallsEnd ==
    /\ (part = "once" /\ proc["p"].pc = "attempt") ~> (part = "once" /\ ~Running("p"))
    /\ [][part = "once" => NothingSentBehindUncertain]_vars
=============================================================================
