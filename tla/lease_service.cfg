SPECIFICATION Spec
CONSTANTS
    Tenants = {t1}
    Attempts = {a1, a2, a3}
    Threads = {w1, w2}
    Cap = 2
    MaxCrashes = 1
    None = None
SYMMETRY MCSymmetry
INVARIANTS TypeOK CapHolds DisableReachesAll
PROPERTY ImplementsLedger
