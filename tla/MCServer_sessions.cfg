SPECIFICATION Spec
CONSTANTS
    c1 = c1
    c2 = c2
    k1 = k1
    v1 = v1
    v2 = v2
    n0 = n0
    n1 = n1
    n9 = n9
    secret = secret
    Client = {c1}
    Key = {k1}
    Value = {v1}
    Ttl = {0, 1, 9}
    U64 <- Numbers
    None = None
    Panicked = Panicked
    NotBulk = NotBulk
    Malformed = Malformed
    Oversized = Oversized
    NoArchive = NoArchive
    Second = 1
    MaxClock = 1
    InstantMax = 3
    Frame <- SessionFrames
    Password = secret
    MaxFrames = 2
INVARIANTS
    TypeOK
    AnsweredInOrder
    CompletedFramesServed
    AuthScoped
CHECK_DEADLOCK FALSE
