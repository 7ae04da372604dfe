\* Two workers that never outlive a lease, every other fault.
CONSTANTS
    Peers = {p1}
    Nodes = {n1}
    Workers = {w1, w2}
    Ops = {1, 2}
    None = None
    FaultRegimes <- LeasesHold
    ReconcileOnStart = TRUE
SPECIFICATION Spec
SYMMETRY Symmetry
INVARIANTS TypeOK AppliedOpsArePersisted AppliedBounded NoDoubleWork
PROPERTIES RowsMoveForward
