------------------------------ MODULE MCSettling ------------------------------
(***************************************************************************)
(* What a crash leaves and how it is settled, for TLC: transactions behind *)
(* the barrier (AuthorityBarrier), the journal of the first version        *)
(* (PersistenceV1), and registries that were moved with the project        *)
(* (ProjectRelocation).  A behaviour exercises one of the parts.           *)
(***************************************************************************)
EXTENDS AuthorityBarrier, ProjectRelocation

CONSTANTS Parts, LegacyProcs

VARIABLES part,
          books, source, manifests, marker, records, outbox, lock, proc, owner, edited, raced, edits, faults, crashes

legacyVars == <<books, source, manifests, marker, records, outbox, lock, proc, owner, edited, raced, edits,
                faults, crashes>>

Legacy == INSTANCE PersistenceV1 WITH
    Procs <- LegacyProcs, Targets <- 2, Steps <- 2, Writer <- "file",
    MaxRuns <- 2, MaxEdits <- 2, MaxFaults <- 1, MaxCrashes <- 1, file <- books, disk <- manifests

\* Two paths, writers that are started before the relocation is complete, and a tree that is
\* renamed again with work unfinished; the calm operator's three paths are in Settling.cfg.
Disturbed == INSTANCE ProjectRelocation WITH Places <- {"a", "b"}, Restless <- TRUE, MaxKills <- 1

ASSUME RelocationAssumption /\ Legacy!V1Assumption /\ Disturbed!RelocationAssumption

MCInit ==
    /\ part \in Parts /\ BarrierInit /\ Legacy!Init /\ RelocationInit
    /\ trespass = (part = "disturbed")
    /\ part \in {"barrier", "legacy"} => reg["migration"] = Absent /\ ~reg["main"].armed

MCNext ==
    \/ part = "barrier" /\ BarrierNext /\ UNCHANGED <<part, legacyVars, relocationVars>>
    \/ part = "legacy" /\ Legacy!Next /\ UNCHANGED <<part, barrierVars, relocationVars>>
    \/ part = "moved" /\ RelocationNext /\ UNCHANGED <<part, barrierVars, legacyVars>>
    \/ part = "disturbed" /\ Disturbed!RelocationNext /\ UNCHANGED <<part, barrierVars, legacyVars>>

\* The fairness of the parts, each for its own behaviours.
MCFairness ==
    /\ \A a \in Writers : WF_barrierVars(part = "barrier" /\ (BarrierStep(a) \/ Local(Section(a))))
    /\ WF_relocationVars(part = "moved" /\ Start)
    /\ WF_relocationVars(part = "moved" /\ (Mark \/ Replace \/ CompleteRemap \/ FailProof))
    /\ \A k \in WriterKinds : WF_relocationVars(part = "moved" /\ SettleBound(k))

MCSpec == MCInit /\ [][MCNext]_<<part, barrierVars, legacyVars, relocationVars>> /\ MCFairness

\* The journal of the first version: no run commits what it generated from sources that have
\* changed since; what is settled is all or nothing, built on committed text, recorded as it
\* happened, and keeps what an editor wrote: see PersistenceV1 (persistence.py).
LegacyJournalHolds ==
    /\ Legacy!CommittedFromReadSources
    /\ [](Legacy!AllOrNothing /\ Legacy!BuiltOnCommitted /\ Legacy!RecordsTruthful /\ Legacy!EditsKept)

\* However often the project is renamed and its relocation killed, its registries end up bound
\* to where it is: see ProjectRelocation (project_root_remap.py).
CalmlyRelocated == part = "moved" => Relocates
=============================================================================
