SPECIFICATION Spec
CONSTANTS
    Codes = {k1}
    Ips = {a, b, c, malformed}
    ValidIps = {a, b, c}
    Threads = {t1, t2}
    Durations = {1}
    DeviceCounts = {0, 2}
    Deltas <- BothWays
    Horizon = 2
    Faults = TRUE
    NoKey = NoKey
    None = None
SYMMETRY Interchangeable
INVARIANTS RowsSound AnswersKept
PROPERTY KeysStayLicences
