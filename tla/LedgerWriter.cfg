SPECIFICATION Spec
CONSTANTS
    Codes = {k1, k2}
    Ips = {a, b, c, malformed}
    ValidIps = {a, b, c}
    Threads = {t1}
    Jobs <- AllJobs
    Durations = {1}
    DeviceCounts = {1, 2}
    Deltas <- BothWays
    LastTick = 2
    Horizon = 2
    Aborts = TRUE
    SaveErrors = FALSE
    NoKey = NoKey
    NoEntry = NoEntry
    NoCode = NoCode
    NoIp = NoIp
ACTION_CONSTRAINT Within
SYMMETRY Interchangeable
INVARIANT ActivatedStaysActive
PROPERTIES KeysAreLicences BotKeepsDeviceLimit BotKeepsFilesAgreed
CHECK_DEADLOCK FALSE
