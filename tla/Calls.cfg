SPECIFICATION MCSpec
CONSTANTS
    Parts = {"once", "budget"}
    Repairs = {3}
    BudgetUsages = {1, 3, 5}
    Procs = {"p", "q"}
    OperationOf <- OnceOperations
    StageOf <- OnceStages
    Reserve <- OnceReserves
    Usages = {1}
    PathOrder <- OnceOrder
    Elastic = {}
    ElasticStages = {}
    MaxAttempts = 2
    MaxTokens = 20
    MaxCalls = 4
    MaxRestarts = 1
INVARIANTS
    AnsweredOnce
    BudgetKept
PROPERTIES
    CallsEnd
CHECK_DEADLOCK FALSE
