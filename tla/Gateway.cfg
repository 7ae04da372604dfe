\* One and a half tokens per second; a caller is never more than a second away
\* from the next token.
SPECIFICATION GatewaySpec
CONSTANTS
    Clients <- MCClients
    Capacity = 2
    Unit = 4
    Refill = 3
    Second = 2
    None = None
    MaxTime = 5
    MaxAdmitted = 5
    a = a
    t1 = t1
    t2 = t2
    key1 = key1
    key2 = key2
    other = other
    Tokens <- MCTokens
    Validators <- MCValidators
    KeyType <- MCKeyType
    secret = secret
    Leeway = 1
    TenantOf <- MCTenantOf
    PeerIds = {p1}
INVARIANTS GatewayTypeOK WithinRate ReadsAreEntitled
PROPERTIES HintSuffices 
\* Callers may stop.
CHECK_DEADLOCK FALSE
