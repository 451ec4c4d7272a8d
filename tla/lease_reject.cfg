SPECIFICATION Spec
CONSTANTS
    Tenants = {t1}
    Attempts = {a1, a2}
    Threads = {w1}
    Cap = 1
    MaxCrashes = 0
    None = None
SYMMETRY MCSymmetry
INVARIANT RejectionReleases
