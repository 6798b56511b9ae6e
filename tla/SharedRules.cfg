CONSTANTS
    i1 = i1
    i2 = i2
    d1 = d1
    d2 = d2
    None = None
    Items = {i1, i2}
    Deliveries = {d1, d2}
    Ttl = 2
    Settings <- AllSettings
SPECIFICATION Spec
SYMMETRY Interchangeable
INVARIANTS ConfirmedIsKept TakesEffect
