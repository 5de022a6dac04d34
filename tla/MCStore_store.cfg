SPECIFICATION FairSpec
CONSTANTS
    c1 = c1
    c2 = c2
    k1 = k1
    v1 = v1
    v2 = v2
    Client = {c1, c2}
    Key = {k1}
    Value = {v1, v2}
    Ttl = {0, 1, 9}
    None = None
    NoTask = NoTask
    Panicked = Panicked
    Second = 1
    InstantMax = 2
    MaxClock = 1
INVARIANTS TypeOK HeapLockOwned ExpirationTracked NoOversleep
PROPERTIES ImplementsExpiringMap ExpiredReclaimed HeapDrains
