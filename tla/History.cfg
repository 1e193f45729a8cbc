SPECIFICATION MCSpec
CONSTANTS
    Parts = {"revision", "revisions", "migration", "baseline"}
    Alone = {t1}
    Txs = {t1, t2}
    Published = 2
    MaxChapter = 3
    Planned = {2, 3}
    MaxLog = 5
    MaxEdits = 1
    MaxCrashes = 2
    BookChapters = {1, 2}
    Books <- MCBooks
    Decisions = {"d1", "d2"}
    Times = {1, 2}
    Registered = FALSE
    Strict = TRUE
    MaxPlans = 1
    MaxChanges = 1
    MaxKills = 1
    MaxWrites = 1
INVARIANTS
    RevisionsHold
    OneAuthority
PROPERTIES
    MigrationKeeps
    MarkedCommits
    BaselinesHold
CHECK_DEADLOCK FALSE
