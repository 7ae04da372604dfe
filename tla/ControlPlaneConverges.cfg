\* Fair, one worker: its applies may fail, or it crashes or its host restarts.
CONSTANTS
    Peers = {p1, p2}
    Nodes = {n1, n2}
    Workers = {w1}
    Ops = {1, 2}
    None = None
    FaultRegimes <- ErrorsOrCrashes
    ReconcileOnStart = TRUE
SPECIFICATION FairSpec
INVARIANTS RevokedGone
PROPERTIES VerdictIsFinal OperationsSettle Converges
