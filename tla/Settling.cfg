SPECIFICATION MCSpec
CONSTANTS
    Parts = {"barrier", "legacy", "moved", "disturbed"}
    Runs = {r1, r2}
    Writers = {w}
    Reconcilers = {c}
    NoRun = NoRun
    NumTargets = 2
    ReadSet = {1}
    NumArtifacts = 1
    MaxEdits = 0
    MaxErrors = 0
    MaxCrashes = 2
    MaxReconciles = 0
    LegacyProcs = {"p"}
    Places = {"a", "b", "c"}
    Home = "a"
    Starts = {{"ea", "main"}, {"migration", "ea", "main"}}
    Restless = FALSE
    MaxMoves = 3
    MaxKills = 2
    MaxWrites = 2
PROPERTIES
    AllSettle
    MarkedCompletes
    LegacyJournalHolds
    RebindsTogether
    CalmlyRelocated
CHECK_DEADLOCK FALSE
