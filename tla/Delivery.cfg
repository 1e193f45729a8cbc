SPECIFICATION MCSpec
CONSTANTS
    Parts = {"queue", "intents"}
    Workers = {"w1", "w2"}
    MaxAttempts = 3
    LeaseTicks = 1
    QuarantineTicks = 2
    SettleTicks = 1
    MaxSends = 2
    MaxFaults = 2
    FaultKinds = {"abandon", "preflight", "query", "mark", "timeout", "lost"}
    Runs = {"r1", "r2"}
    Procs = {"p", "q"}
    MaxCrashes = 2
    MaxDamage = 1
INVARIANTS
    TypeOK
    PostsNeedReopening
    PagesOfOneAttempt
    JobsInOrder
PROPERTIES
    ReconcileSettles
CHECK_DEADLOCK FALSE
