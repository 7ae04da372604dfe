SPECIFICATION Spec
CONSTANTS
    t1 = t1
    t2 = t2
    Tenants = {t1, t2}
    Requests = {r1, r2, r3}
    Keys = {k1, k2, k3}
    ExternalIds = {e1, e2}
    PublicKeys = {}
    None = None
    Space = 12
    MaxInt = 1000
    Pools <- MCPools
    PoolOf <- SmallPool
    Kinds = {"create", "revoke"}
    FaultKinds = {}
    MaxFaults = 0
SYMMETRY Symmetry
INVARIANT ExistsMeansDuplicate
\* All requests are answered.
CHECK_DEADLOCK FALSE
