SPECIFICATION Spec
CONSTANTS
    Ips = {a}
    Admins = {}
    Uids = {1}
    Urls = {"protected", "login"}
    Ttl = 2
    Expiries = {0, 4}
    LastTick = 5
    None = None
INVARIANTS TypeOK FirstAccessIsByAddress
PROPERTIES RevocationTakesEffect ActivationTakesEffect
CHECK_DEADLOCK FALSE
