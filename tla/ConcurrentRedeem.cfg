SPECIFICATION Spec
CONSTANTS
    Codes = {k1}
    Ips = {a, b}
    ValidIps = {a, b}
    Threads = {t1, t2}
    Jobs = {"generate", "redeem"}
    Durations = {2}
    DeviceCounts = {1}
    Deltas = {}
    LastTick = 2
    Horizon = 2
    Aborts = FALSE
    SaveErrors = FALSE
    NoKey = NoKey
    NoEntry = NoEntry
    NoCode = NoCode
    NoIp = NoIp
INVARIANT SimultaneousDevices
CHECK_DEADLOCK FALSE
