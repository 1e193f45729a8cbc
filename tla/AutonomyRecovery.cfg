SPECIFICATION Spec
CONSTANTS
    Sessions = {a, b}
    Procs = {p, q}
    Requested = 1
    Stages = 1
    LeaseTicks = 1
    MaxGen = 4
    MaxOps = 2
    MaxBook = 1
    MaxFaults = 1
    Commands = {"open", "execute", "resume", "cancel", "abandon"}
INVARIANTS
    RecoveryPossible
CHECK_DEADLOCK FALSE
