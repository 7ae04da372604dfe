SPECIFICATION FairSpec
CONSTANTS
    Apis = {b1}
    Commands = {c1}
    Options <- MCOptions
    Defaults <- MCDefaults
    None = None
    FaultKinds = {"crash"}
    MaxFaults = 1
PROPERTY DatabaseGetsSeeded
\* Nodes are provisioned and the processes serve.
CHECK_DEADLOCK FALSE
