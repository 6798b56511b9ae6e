SPECIFICATION Spec
CONSTANTS
    Procs = {p1, p2}
    MaxSaves = 4
    LastSecond = 2
    MaxTicks = 10
    Settings <- AllSettings
    Bad = {0}
    Absent = Absent
INVARIANTS
    TypeOK
    BackupsBounded
    NeverHalfWritten
    NothingLostByCrash
    LosesAtMostOneSave
SYMMETRY Symmetric
CHECK_DEADLOCK FALSE
