SPECIFICATION Spec
CONSTANTS
    c1 = c1
    c2 = c2
    k1 = k1
    v1 = v1
    v2 = v2
    Client = {c1}
    Key = {k1}
    Value = {v1}
    Ttl = {1, 9}
    None = None
    NoTask = NoTask
    Panicked = Panicked
    Second = 1
    InstantMax = 3
    MaxClock = 2
PROPERTY ExpireSetsOrFindsNothing
