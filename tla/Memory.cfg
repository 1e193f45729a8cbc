SPECIFICATION MCSpec
CONSTANTS
    Parts = {"compile", "killed", "reduce", "caches", "preflight", "people", "numbers"}
    Runs = {"r1", "r2"}
    Preflights = {}
    Steps = 1
    Interval = 2
    MaxChapters = 2
    MaxCrashes = 2
    MaxLosses = 1
INVARIANTS
    CompiledIsStored
    EventsAreTheHistory
    AuthorityHolds
PROPERTIES
    CachesSettle
    FactsHold
CHECK_DEADLOCK FALSE
