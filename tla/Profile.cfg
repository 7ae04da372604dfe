\* Three versions, up to two fields away from a valid profile; headers up to 6
\* where the code has 0xFFFFFFFF.
CONSTANTS
    HMax = 6
    NULL = NULL
SPECIFICATION MCSpec
INVARIANTS
    TypeOK
    ValidIsStorable
    RoundTrips
    PacketTypesDistinct
    
    EndsAgree
    
\* A profile's way ends with its configs.
CHECK_DEADLOCK FALSE
