------------------------------- MODULE MCBooks -------------------------------
(***************************************************************************)
(* The transaction that changes the books, for TLC: alone (PersistenceV2), *)
(* where two writers and an author compete for them, and behind the        *)
(* barrier of the StoryProject (AuthorityBarrier), where nobody edits.     *)
(***************************************************************************)
EXTENDS AuthorityBarrier, TLC

CONSTANT Parts
VARIABLE part

MCInit == part \in Parts /\ BarrierInit

MCNext ==
    \/ part = "local" /\ Local(Next) /\ UNCHANGED part
    \/ part = "barrier" /\ BarrierNext /\ spent'.edits = 0 /\ UNCHANGED part

MCSpec == MCInit /\ [][MCNext]_<<part, barrierVars>>

Symmetry == Permutations(Runs) \cup Permutations(Writers)
=============================================================================
