SPECIFICATION Spec
CONSTANTS
    Apis = {b1, b2}
    Commands = {c1, c2, c3}
    Options <- MCOptions
    Defaults <- MCDefaults
    None = None
    FaultKinds = {"crash", "abort", "ambiguous"}
    MaxFaults = 2
SYMMETRY Symmetry
INVARIANTS TypeOK NothingShared NodeHasConfig FailureLeavesNoFile
\* Nodes are provisioned and the processes serve.
CHECK_DEADLOCK FALSE
