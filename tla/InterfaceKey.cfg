SPECIFICATION FairSpec
CONSTANTS
    Workers = {w1, w2}
    Executors = {"local", "remote"}
    BootKeys = {"own"}
    FaultKinds = {"showconf", "down", "exec"}
    MaxFaults = 4
INVARIANTS TypeOK KeyStaysOnNode
PROPERTIES KeyIsKept ApplySucceeds
