SPECIFICATION ProcessFairSpec
CONSTANTS
    MaxSaves = 3
    MaxWrites = 2
    Absent = Absent
    Torn = Torn
    NoTemp = NoTemp
    Unset = Unset
    PathKind = {"in_dir", "bare", "no_dir"}
    IoErrors = TRUE
    Setting <- Settings
CHECK_DEADLOCK FALSE
INVARIANTS TypeOK SavedArchiveKept StartsFromArchive CleanExitKeepsWrites
PROPERTY SignalEnds
