SPECIFICATION Spec
CONSTANTS
    Key = {k1}
    Value = {v1}
    None = None
    Deadline = {4, 5, 25}
    Milli = 3
    U64Max = 7
    InstantMax = 26
    Epoch = 1
    Steps <- ClockSteps
    Lag = 1
    MaxTime = 6
    MaxRestarts = 2
INVARIANT RestoreAccepts
CHECK_DEADLOCK FALSE
