------------------------------ MODULE MCDelivery ------------------------------
(***************************************************************************)
(* The way of a published chapter to Notion, for TLC: its intent and the   *)
(* creation of its job (DeliveryIntents), and the job (DeliveryQueue).     *)
(* The two share no state; a behaviour exercises one of them.              *)
(***************************************************************************)
EXTENDS DeliveryQueue, DeliveryIntents

CONSTANT Parts

VARIABLE part

ASSUME IntentAssumption

MCInit == part \in Parts /\ Init /\ IntentInit

MCNext ==
    \/ part = "queue" /\ Next /\ UNCHANGED <<part, intentVars>>
    \/ part = "intents" /\ IntentNext /\ UNCHANGED <<part, vars>>

\* The fairness of DeliveryQueue, for the part that is the queue.
MCFairness ==
    /\ WF_vars(part = "queue" /\ Tick)
    /\ \A w \in Workers : WF_vars(part = "queue" /\ Reconcile(w)) /\ WF_vars(part = "queue" /\ WorkerStep(w))
    /\ \A a \in Attempts : WF_vars(part = "queue" /\ (Land(a) \/ Lose(a)))

MCSpec == MCInit /\ [][MCNext]_<<part, vars, intentVars>> /\ MCFairness
=============================================================================
