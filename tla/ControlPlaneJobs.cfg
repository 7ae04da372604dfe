\* Fair, two workers, one fault of any kind.
CONSTANTS
    Peers = {p1}
    Nodes = {n1}
    Workers = {w1, w2}
    Ops = {1, 2}
    None = None
    FaultRegimes <- AnyFault
    ReconcileOnStart = TRUE
SPECIFICATION FairSpec
PROPERTIES JobsSettle
