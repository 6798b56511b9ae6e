SPECIFICATION Spec
CONSTANTS
    Codes = {k1}
    Ips = {a, b}
    ValidIps = {a, b}
    Threads = {t1, t2}
    Jobs <- RaceJobs
    Durations = {1}
    DeviceCounts = {0}
    Deltas = {}
    LastTick = 2
    Horizon = 2
    Aborts = TRUE
    SaveErrors = TRUE
    NoKey = NoKey
    NoEntry = NoEntry
    NoCode = NoCode
    NoIp = NoIp
SYMMETRY Interchangeable
INVARIANTS TypeOK KeyBound LockedIsActive UsedKeyHasHolder GrantBacked
CHECK_DEADLOCK FALSE
