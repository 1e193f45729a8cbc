------------------------------ MODULE MCHistory ------------------------------
(***************************************************************************)
(* The books before the chapters that are generated, for TLC: a revision   *)
(* of published prose (HistoryRevision), the change of a legacy project to *)
(* event authority (EventMigration), and the migrations that add facts to  *)
(* its snapshot (BaselineMigration).                                       *)
(* A behaviour exercises one of the parts.                                 *)
(***************************************************************************)
EXTENDS HistoryRevision, EventMigration

CONSTANTS
    Parts,
    Alone   \* the transactions of the part that has one revision

VARIABLES part,
          snapshot, evidence, pins, mode, backups, receipt, sidecar, context, tx, journal, text,
          rosters, keeper, spent

baselineVars == <<snapshot, evidence, pins, mode, backups, receipt, sidecar, context, tx, journal, text,
                  rosters, keeper, spent>>

\* A book without prose, and one that has a chapter.
Tree(prose, outline) == [prose |-> [c \in 1..2 |-> IF c \in prose THEN 1 ELSE 0],
                         outline |-> [c \in 1..2 |-> IF c \in outline THEN 1 ELSE 0], setting |-> 0]

MCBooks == {Tree({}, {1}), Tree({1}, {1, 2})}

Baseline == INSTANCE BaselineMigration WITH
    MaxChapters <- 2, MaxEdits <- 1, MaxPins <- 2, MaxCrashes <- 2,
    mig <- rosters, writer <- keeper, draft <- text

\* One revision, beside outlines, a session, edits and crashes, and a chapter after it.
Revision1 == INSTANCE HistoryRevision WITH Txs <- Alone, MaxLog <- 4

\* Two revisions and a chapter after them: the later one overwrites the marker of the earlier.
Revisions2 == INSTANCE HistoryRevision WITH Planned <- {}, MaxEdits <- 0, MaxCrashes <- 1

ASSUME MigrationAssumption /\ Baseline!BaselineAssumption

\* A bound: an operator who declares two revisions declares each once.
DeclaredOnce == \A t \in Txs : request[t].ch # 0 => request'[t] = request[t]

MCInit == part \in Parts /\ Init /\ MigrationInit /\ Baseline!Init
          /\ (part # "migration" => src = Tree({}, {1}))
          /\ (part # "baseline" => snapshot = Baseline!Fresh /\ mode = "legacy")

MCNext ==
    \/ part = "revision" /\ Revision1!Next /\ UNCHANGED <<part, migrationVars, baselineVars>>
    \/ part = "revisions" /\ Revisions2!Next /\ session' = session /\ DeclaredOnce
       /\ UNCHANGED <<part, migrationVars, baselineVars>>
    \/ part = "migration" /\ MigrationNext /\ UNCHANGED <<part, vars, baselineVars>>
    \/ part = "baseline" /\ Baseline!Next /\ UNCHANGED <<part, vars, migrationVars>>

\* The fairness of HistoryRevision and of BaselineMigration, each for its own part.
MCFairness ==
    /\ WF_vars(\/ part = "revision" /\ Revision1!Execute
               \/ part = "revisions" /\ Revisions2!Execute)
    /\ WF_vars(part \in {"revision", "revisions"} /\ Recover)
    /\ WF_baselineVars(part = "baseline" /\ Baseline!Migrate)
    /\ WF_baselineVars(part = "baseline" /\ Baseline!Settle)

MCSpec == MCInit /\ [][MCNext]_<<part, vars, migrationVars, baselineVars>> /\ MCFairness

\* What a migration of the snapshot gave a receipt for stays, nothing is written over a chapter,
\* and what a kill leaves is completed: see BaselineMigration (core/state/*_migration.py).
BaselinesHold == Baseline!BaselinesHold
==============================================================================
