SPECIFICATION Spec
CONSTANTS
    MaxSaves = 1
    Absent = Absent
    Torn = Torn
    NoTemp = NoTemp
    PathKind = {"bare"}
    IoErrors = FALSE
INVARIANTS
    SaveSucceeds
