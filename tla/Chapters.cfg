SPECIFICATION MCSpec
CONSTANTS
    Parts = {"run", "reviewed", "resets", "misfits", "outlines", "events", "drafting", "moving", "sources"}
    crit = crit
    med = med
    warn = warn
    ann = ann
    bob = bob
    home = home
    away = away
    nowhere = nowhere
    w1 = w1
    w2 = w2
    none = none
    Problems <- MCProblems
    Advisory = {warn}
    Severity <- MCSeverity
    Workflows <- MCWorkflows
    Configs <- MCConfigs
    MaxRepairs = 2
    MaxTexts = 3
    Plans = {"p1", "p2"}
    Scope <- MCScope
    Misfits = {}
    MaxRewrites = 0
    MaxRuns = 2
    MaxMarkers = 2
    MaxKills = 1
    MaxDrafts = 1
INVARIANTS
    BestIsKept
    PublishedAsJudged
    RecoveriesKeep
    NeverResurrected
    DraftsHold
PROPERTY
    SourcesHold
CHECK_DEADLOCK FALSE
