CONSTANTS
    ip1 = ip1
    ip2 = ip2
    u1 = u1
    u2 = u2
    t1 = t1
    t2 = t2
    None = None
    Ips = {ip1, ip2}
    Users = {u1, u2}
    Threads = {t1, t2}
    MaxAttempts = 3
    Block = 2
    Timeout = 1
    MaxEntries = 1
    Settings <- AllSettings
SPECIFICATION Spec
INVARIANTS LockoutIsEarned GuessesAreBounded
PROPERTIES AccountsAreChecked
SYMMETRY Interchangeable
