SPECIFICATION MCSpec
CONSTANTS
    Parts = {"takeover", "chapters", "commands", "replays", "carrying", "scenes"}
    Sessions = {"a", "b"}
    Procs = {"p", "q"}
    Requested = 2
    Stages = 1
    LeaseTicks = 1
    MaxGen = 4
    MaxOps = 3
    MaxBook = 3
    MaxFaults = 1
    Commands = {"execute"}
    ChapterCount = 2
    Versions = {1}
    ModelTexts = {1}
    Flawed <- MCFlawed
    MaxRepairs = 0
    MaxRuns = 3
    MaxEdits = 1
INVARIANTS
    OneWriterPerChapter
    JournalHolds
    ChaptersAsPlanned
    EvidenceHolds
PROPERTIES
    SessionsRecover
    StagesHold
CHECK_DEADLOCK FALSE
