SPECIFICATION Spec
CONSTANTS
    t1 = t1
    t2 = t2
    Tenants = {t1, t2}
    Requests = {r1, r2, r3}
    Keys = {k1, k2}
    ExternalIds = {e1, e2}
    PublicKeys = {u1}
    None = None
    Space = 12
    MaxInt = 1000
    Pools <- MCPools
    PoolOf <- TwoPools
    Kinds = {"create", "revoke"}
    FaultKinds = {"abort", "ambiguous", "expire"}
    MaxFaults = 2
SYMMETRY Symmetry
INVARIANTS TypeOK OneOperationPerKey SecretsIssuedOnce AddressesDistinct NoCollisionWithLive NoCircularWait
PROPERTY ImplementsRegistry
\* All requests are answered.
CHECK_DEADLOCK FALSE
