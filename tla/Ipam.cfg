SPECIFICATION FairSpec
CONSTANTS
    Space = 8
    MaxInt = 1000
    Pools <- MCPools
INVARIANTS TypeOK Contract
PROPERTY Returns
\* Allocate has returned.
CHECK_DEADLOCK FALSE
