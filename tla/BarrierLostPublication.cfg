SPECIFICATION FairBarrierSpec
CONSTANTS
    Runs = {r1, r2}
    Writers = {w}
    Reconcilers = {c}
    NoRun = NoRun
    NumTargets = 2
    ReadSet = {1}
    NumArtifacts = 1
    MaxEdits = 0
    MaxErrors = 1
    MaxCrashes = 0
    MaxReconciles = 0
PROPERTY MarkedCompletes
CHECK_DEADLOCK FALSE
