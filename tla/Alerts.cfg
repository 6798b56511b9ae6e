CONSTANTS
    c1 = c1
    c2 = c2
    None = None
    Configs = {c1, c2}
    MaxAlerts = 3
    MaxRecent = 2
    Ttl = 3
    Gap = 1
    Pause = 2
    AlertCooldown = 3
    Settings <- AllSettings
SPECIFICATION AlertsSpec
INVARIANTS AlertsReachDisk AlertsAreShown
