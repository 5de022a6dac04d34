SPECIFICATION ProcessSpec
CONSTANTS
    MaxSaves = 1
    MaxWrites = 1
    Absent = Absent
    Torn = Torn
    NoTemp = NoTemp
    Unset = Unset
    PathKind = {"in_dir"}
    IoErrors = FALSE
    Setting <- Settings
CHECK_DEADLOCK FALSE
PROPERTY SignalsAreGraceful
