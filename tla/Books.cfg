SPECIFICATION MCSpec
CONSTANTS
    Parts = {"local", "barrier"}
    Runs = {r1, r2}
    Writers = {w1, w2}
    Reconcilers = {c}
    NoRun = NoRun
    NumTargets = 2
    ReadSet = {1}
    NumArtifacts = 1
    MaxEdits = 1
    MaxErrors = 1
    MaxCrashes = 1
    MaxReconciles = 1
SYMMETRY Symmetry
INVARIANTS
    TypeOK
    ReceiptProvesCommit
    BarrierIsTruthful
PROPERTIES
    CompareAndSwap
    AtomicallyPublished
CHECK_DEADLOCK FALSE
