\* Two workers and no fault at all: a revoked peer comes back.
CONSTANTS
    Peers = {p1}
    Nodes = {n1}
    Workers = {w1, w2}
    Ops = {1, 2}
    None = None
    FaultRegimes <- NoFaults
    ReconcileOnStart = TRUE
SPECIFICATION Spec
SYMMETRY Symmetry
INVARIANTS RevokedGone
